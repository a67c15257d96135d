-------------------------- MODULE FcgiWriter_proofs --------------------------
(***************************************************************************)
(* Proofs about the output streams of a request, for units, buffers,       *)
(* writes and requests of any size and number.                             *)
(***************************************************************************)
EXTENDS FcgiWriter, SequenceTheorems, WellFoundedInduction, TLAPS

-----------------------------------------------------------------------------
(* The inductive invariant: control.                                       *)

\* The current stream is being closed: EmptyBuffProc(stream, TRUE) has begun.
Closing == rawWrite[cur] /\ ~wasFCloseCalled[cur]

\* FCGX_PutStr is under way.
Putting == pc \in {"put", "empty"} \/ (pc = "write" /\ ret.write = "put")

\* Where the steps of a close may be.
Returns ==
    /\ pc = "closeEnd" => Closing /\ ret.put = "closeEnd"
    /\ pc \in {"closeWrite", "closed"} => Closing /\ ret.put = "closeWrite"
    /\ Putting /\ ret.put # "app" => Closing
    /\ pc = "write" /\ ret.write = "closed" => Closing /\ ret.put = "closeWrite"
    /\ pc \in {"empty", "write"} /\ ~Closing => ~rawWrite[cur]

\* A stream that is neither open nor closed is the current one.
Streaming ==
    \A s \in Streams :
        /\ wasFCloseCalled[s] => rawWrite[s] /\ isClosed[s]
        /\ rawWrite[s] /\ ~wasFCloseCalled[s] =>
               /\ s = cur /\ ret.put # "app"
               /\ Putting \/ pc \in {"write", "closeEnd", "closeWrite", "closed"}
               /\ pc = "write" => ret.write \in {"put", "closed"}

\* nWriters counts the streams for which WriteCloseRecords has not got past it.
Counted(s) == ~rawWrite[s] \/ (~wasFCloseCalled[s] /\ ret.put = "closeEnd")
Counts == pc # "accept" =>
              nWriters = (IF Counted("out") THEN 1 ELSE 0) + (IF Counted("err") THEN 1 ELSE 0)

\* FCGX_Finish_r closes err, then out.
Finishing ==
    /\ pc \in {"finishOut", "finishFree"} => wasFCloseCalled["err"]
    /\ pc = "finishFree" => wasFCloseCalled["out"]
    /\ Closing /\ ret.close = "finishOut" => cur = "err"
    /\ Closing /\ ret.close = "finishFree" => cur = "out" /\ wasFCloseCalled["err"]

Control == Returns /\ Streaming /\ Counts /\ Finishing

-----------------------------------------------------------------------------
(* The inductive invariant: errors and content.                            *)

\* A failed write is remembered by the stream, unless the application clears it, and
\* by the web server; without one a stream that is closed has sent all its bytes.
Errors ==
    /\ writeFailed => ~rx.sound
    /\ \A s \in Streams : failed[s] => writeFailed
    /\ \A s \in Streams : isClosed[s] => writeFailed \/ wasFCloseCalled[s]
    /\ pc = "closed" /\ ~writeFailed => buf[cur] = <<>>

\* write_it_all.
Wrote == IF pc = "write" THEN wrote <= Len(buf[cur]) ELSE wrote = 0

\* What FCGX_PutStr still has to move for the application follows what it has moved.
Todo ==
    /\ ~Putting => todo = <<>>
    /\ ~Closing => \A i \in 1..Len(todo) : todo[i] = Byte("data", put[cur] + i)

\* Web servers.
Servers == [header : Nat, type : Streams \cup {"none", "end"}, clen : Nat, plen : Nat, sound : BOOLEAN,
            got : [Streams -> Nat], eof : [Streams -> BOOLEAN], ended : BOOLEAN, status : Nat]

\* It has had part of a record of the request.
Open(h, t, c, p, g, e, st) ==
    [header |-> h, type |-> t, clen |-> c, plen |-> p, sound |-> TRUE,
     got |-> g, eof |-> e, ended |-> FALSE, status |-> st]

\* It is between two records.
Between(r) ==
    r \in Servers /\ r.header = 0 /\ r.type = "none" /\ r.clen = 0 /\ r.plen = 0 /\ r.sound

\* It has had the whole answer.
Ended(g, e, st) ==
    [header |-> 0, type |-> "none", clen |-> 0, plen |-> 0, sound |-> TRUE,
     got |-> g, eof |-> e, ended |-> TRUE, status |-> st]

\* A stream has gone on by n bytes, or has ended.
Plus(g, s, n) == [g EXCEPT ![s] = g[s] + n]
Over(e, s) == [e EXCEPT ![s] = TRUE]

\* The record may be complete: after its header, and after its body.
AfterHeader(r) == RxRecord(r, TRUE)
AfterBody(r) == RxRecord(r, FALSE)

\* Behind the space for the header the buffer b has the content from byte g + 1 to n.
Holds(b, g, n) ==
    /\ g <= n /\ Len(b) = Unit + (n - g)
    /\ \A i \in 1..(n - g) : b[Unit + i] = Byte("data", g + i)
Holding(s, g) == Holds(buf[s], g, put[s])

\* The bytes q are the content that follows byte n.
Follows(q, n) == \A i \in 1..Len(q) : q[i] = Byte("data", n + i)

\* The bytes q take the web server from r to r2.
Leads(r, q, r2) ==
    \E tr : /\ tr[0] = r /\ tr[Len(q)] = r2
            /\ \A i \in 1..Len(q) : tr[i] = Receive(tr[i - 1], q[i])

\* The bytes that are certain to be sent next.
Pending ==
    (IF pc = "write" THEN SubSeq(buf[cur], wrote + 1, Len(buf[cur]))
     ELSE IF Closing THEN buf[cur] ELSE <<>>)
    \o (IF Closing THEN todo ELSE <<>>)

\* The web server once it has them.
Expected(r) ==
    /\ Between(r)
    /\ r.ended <=> nWriters = 0
    /\ \A s \in Streams :
           IF rawWrite[s] THEN r.got[s] = put[s] /\ (r.eof[s] \/ (s = "err" /\ put[s] = 0))
           ELSE /\ ~r.eof[s]
                /\ r.got[s] > 0 => isAnythingWritten[s]
                /\ IF pc = "write" /\ s = cur THEN r.got[s] = put[s] ELSE Holding(s, r.got[s])

Sending == ~writeFailed /\ pc # "accept" => \E r : Expected(r) /\ Leads(rx, Pending, r)

\* The answer to the last request, if there was one, on a connection that is kept.
Answered ==
    ~writeFailed /\ pc = "accept" =>
        /\ Between(rx)
        /\ rx.ended => /\ \A s \in Streams : rx.got[s] = put[s]
                       /\ rx.eof["out"] /\ (rx.got["err"] > 0 => rx.eof["err"])

\* The records a web server may be, and where the end of the answer leaves it.
Views == [header : Nat, type : Streams \cup {"none", "end"}, clen : Int, plen : Int, sound : BOOLEAN,
          got : [Streams -> Nat], eof : [Streams -> BOOLEAN], ended : BOOLEAN, status : Nat]
Ends(r) == r \in Views /\ (r.ended => r.header = 0)

\* A connection is kept only without an error.
Kept == pc = "accept" /\ ipcOpen => \A s \in Streams : ~failed[s]

IInv == /\ TypeOK /\ Control /\ BufferFits /\ Wrote /\ Errors /\ Todo /\ Sending /\ Answered
        /\ Ends(rx) /\ Kept

-----------------------------------------------------------------------------
(* Sizes and sequences of bytes.                                           *)

\* Integer division.
LEMMA Division ==
    ASSUME NEW a \in Nat, NEW u \in Nat \ {0}
    PROVE  a \div u \in Nat /\ (a \div u) * u <= a /\ a < (a \div u) * u + u
BY SMT

\* A length that is rounded up stays below every bound that is a multiple of the unit.
LEMMA Align ==
    ASSUME NEW n \in Nat, NEW b \in Nat, n <= b * Unit
    PROVE  AlignInt8(n) \in Nat /\ n <= AlignInt8(n) /\ AlignInt8(n) <= b * Unit
<1> DEFINE a == n + Unit - 1
           q == a \div Unit
<1>1. a \in Nat
      BY UnitAssumption
<1>2. a = n + Unit - 1
      OBVIOUS
<1>3. AlignInt8(n) = q * Unit
      BY DEF AlignInt8
<1> HIDE DEF a
<1>4. q \in Nat /\ q * Unit <= a /\ a < q * Unit + Unit
      BY <1>1, UnitAssumption, Division
<1> HIDE DEF q
<1>5. q * Unit \in Nat
      BY <1>4, UnitAssumption
<1>6. n <= q * Unit
      BY <1>2, <1>4, <1>5, UnitAssumption
<1>7. ASSUME b < q PROVE FALSE
  <2>1. (b + 1) * Unit <= q * Unit
        BY <1>4, <1>7, UnitAssumption
  <2>2. (b + 1) * Unit = b * Unit + Unit
        BY UnitAssumption
  <2> QED BY <1>2, <1>4, <2>1, <2>2, UnitAssumption
<1>8. q * Unit <= b * Unit
      BY <1>4, <1>7, UnitAssumption
<1> QED BY <1>3, <1>5, <1>6, <1>8

\* The size of a buffer: a whole number of units, and one of them for the header.
LEMMA Sizes ==
    ASSUME NEW s \in Streams
    PROVE  /\ Unit \in Nat /\ Unit > 0 /\ Size(s) \in Nat /\ Unit <= Size(s)
           /\ BuffUnits[s] - 1 \in Nat /\ Size(s) = Unit + (BuffUnits[s] - 1) * Unit
<1> DEFINE b == BuffUnits[s]
<1>1. b \in Nat /\ b >= 4 /\ Unit \in Nat /\ Unit > 0 /\ Size(s) = b * Unit
      BY UnitAssumption, BuffAssumption DEF Size
<1> HIDE DEF b
<1>2. b * Unit = Unit + (b - 1) * Unit /\ (b - 1) * Unit \in Nat /\ b - 1 \in Nat /\ b * Unit \in Nat
      BY <1>1
<1> QED BY <1>1, <1>2 DEF b

\* The pieces that records are made of.
LEMMA Pieces ==
    /\ \A n \in Nat : Byte("data", n) \in Bytes
    /\ Reserved \in Seq(Bytes) /\ Len(Reserved) = Unit
    /\ \A t \in Streams \cup {"end"}, c, p \in Nat :
           MakeHeader(t, c, p) \in Seq(Bytes) /\ Len(MakeHeader(t, c, p)) = Unit
    /\ \A n \in Nat : Padding(n) \in Seq(Bytes) /\ Len(Padding(n)) = n
    /\ \A k, n \in Nat : Data(k + 1, n) \in Seq(Bytes) /\ Len(Data(k + 1, n)) = n
    /\ \A k, n \in Nat : \A i \in 1..n : Data(k + 1, n)[i] = Byte("data", k + i)
    /\ \A st \in Nat : EndRequestRecord(st) \in Seq(Bytes)
<1> USE UnitAssumption
<1>1. \A n \in Nat : /\ Byte("data", n) \in Bytes /\ Byte("pad", n) \in Bytes
                     /\ Byte("reserved", n) \in Bytes /\ Byte("status", n) \in Bytes
      BY DEF Byte, Bytes, Kinds
<1>2. \A t \in Streams \cup {"end"}, c, p, n \in Nat : HeaderByte(t, c, p, n) \in Bytes
      BY DEF HeaderByte, Bytes, Kinds
<1>3. Reserved \in Seq(Bytes) /\ Len(Reserved) = Unit
      BY <1>1 DEF Reserved
<1>4. \A t \in Streams \cup {"end"}, c, p \in Nat :
          MakeHeader(t, c, p) \in Seq(Bytes) /\ Len(MakeHeader(t, c, p)) = Unit
      BY <1>2 DEF MakeHeader
<1>5. \A n \in Nat : Padding(n) \in Seq(Bytes) /\ Len(Padding(n)) = n
      BY <1>1 DEF Padding
<1>6. \A k, n \in Nat : \A i \in 1..n : Byte("data", k + 1 + i - 1) = Byte("data", k + i)
  <2>1. \A k, i \in Nat : k + 1 + i - 1 = k + i
        OBVIOUS
  <2> QED BY <2>1
<1>7. ASSUME NEW k \in Nat, NEW n \in Nat
      PROVE  /\ Data(k + 1, n) \in Seq(Bytes) /\ Len(Data(k + 1, n)) = n
             /\ \A i \in 1..n : Data(k + 1, n)[i] = Byte("data", k + i)
  <2>1. \A i \in 1..n : k + i \in Nat
        OBVIOUS
  <2>2. \A i \in 1..n : Byte("data", k + 1 + i - 1) \in Bytes
        BY <1>1, <1>6, <2>1
  <2>3. Data(k + 1, n) \in Seq(Bytes) /\ Len(Data(k + 1, n)) = n
        BY <2>2 DEF Data
  <2>4. \A i \in 1..n : Data(k + 1, n)[i] = Byte("data", k + i)
        BY <1>6 DEF Data
  <2> QED BY <2>3, <2>4
<1>8. ASSUME NEW st \in Nat PROVE EndRequestRecord(st) \in Seq(Bytes)
  <2>1. [i \in 1..Unit |-> Byte("status", st)] \in Seq(Bytes)
        BY <1>1
  <2>2. MakeHeader("end", Unit, 0) \in Seq(Bytes)
        BY <1>4
  <2> QED BY <2>1, <2>2 DEF EndRequestRecord
<1> QED BY <1>1, <1>3, <1>4, <1>5, <1>7, <1>8

\* Two sequences of bytes.
LEMMA TwoParts ==
    ASSUME NEW u \in Seq(Bytes), NEW v \in Seq(Bytes)
    PROVE  /\ u \o v \in Seq(Bytes) /\ Len(u \o v) = Len(u) + Len(v)
           /\ \A i \in 1..Len(u) : (u \o v)[i] = u[i]
           /\ \A i \in 1..Len(v) : (u \o v)[Len(u) + i] = v[i]
OBVIOUS

\* What EmptyBuffProc makes of a buffer fits in it: "padding can't overflow the buffer
\* because the buffer is a multiple of 8 bytes in length".
LEMMA EncapsulatedFits ==
    ASSUME TypeOK, BufferFits, NEW s \in Streams
    PROVE  Encapsulated(s) \in Seq(Bytes) /\ Len(Encapsulated(s)) <= Size(s)
<1> DEFINE cLen == Len(buf[s]) - Unit
           eLen == AlignInt8(cLen)
<1>1. buf[s] \in Seq(Bytes) /\ Len(buf[s]) \in Nat /\ Len(buf[s]) <= Size(s)
      BY DEF TypeOK, BufferFits
<1>2. CASE rawWrite[s]
      BY <1>1, <1>2 DEF Encapsulated
<1>3. CASE ~rawWrite[s] /\ cLen > 0
  <2>1. cLen \in Nat /\ BuffUnits[s] - 1 \in Nat /\ cLen <= (BuffUnits[s] - 1) * Unit
        BY <1>1, <1>3, Sizes
  <2>2. cLen = Len(buf[s]) - Unit
        OBVIOUS
  <2>3. Encapsulated(s) = MakeHeader(s, cLen, eLen - cLen) \o SubSeq(buf[s], Unit + 1, Len(buf[s]))
                              \o Padding(eLen - cLen)
        BY <1>3 DEF Encapsulated
  <2> HIDE DEF cLen
  <2>4. eLen \in Nat /\ cLen <= eLen /\ eLen <= (BuffUnits[s] - 1) * Unit
        BY <2>1, Align
  <2> HIDE DEF eLen
  <2>5. eLen - cLen \in Nat
        BY <2>1, <2>4
  <2> DEFINE h == MakeHeader(s, cLen, eLen - cLen)
             d == SubSeq(buf[s], Unit + 1, Len(buf[s]))
             q == Padding(eLen - cLen)
  <2>6. h \in Seq(Bytes) /\ Len(h) = Unit
        BY <2>1, <2>5, Pieces
  <2>7. q \in Seq(Bytes) /\ Len(q) = eLen - cLen
        BY <2>5, Pieces
  <2>8. d \in Seq(Bytes) /\ Len(d) = cLen
        BY <1>1, <2>1, <2>2, UnitAssumption
  <2> HIDE DEF h, d, q
  <2>9. (h \o d) \o q \in Seq(Bytes) /\ Len((h \o d) \o q) = Unit + eLen
    <3> DEFINE x == h \o d
    <3>1. x \in Seq(Bytes) /\ Len(x) = Len(h) + Len(d)
          BY <2>6, <2>8, TwoParts
    <3> HIDE DEF x
    <3>2. x \o q \in Seq(Bytes) /\ Len(x \o q) = Len(x) + Len(q)
          BY <2>7, <3>1, TwoParts
    <3>3. Len(x \o q) = Unit + eLen
          BY <2>1, <2>4, <2>6, <2>7, <2>8, <3>1, <3>2, UnitAssumption
    <3> QED BY <3>2, <3>3 DEF x
  <2>10. Encapsulated(s) = (h \o d) \o q
        BY <2>3 DEF h, d, q
  <2>11. Unit + eLen <= Size(s)
        BY <2>4, Sizes
  <2> QED BY <2>9, <2>10, <2>11
<1>4. CASE ~rawWrite[s] /\ ~(cLen > 0)
  <2>1. Encapsulated(s) = <<>>
        BY <1>4 DEF Encapsulated
  <2> QED BY <2>1, Sizes
<1> QED BY <1>2, <1>3, <1>4

-----------------------------------------------------------------------------
(* Types and buffers.                                                      *)

Bounds == TypeOK /\ BufferFits /\ Wrote

\* One iteration of FCGX_PutStr moves no more than there is, and than there is room for.
LEMMA MovedBounds ==
    ASSUME TypeOK, BufferFits
    PROVE  /\ Moved \in Nat /\ Moved <= Len(todo) /\ Len(buf[cur]) + Moved <= Size(cur)
           /\ wasFCloseCalled[cur] => Moved = 0
<1>1. cur \in Streams /\ Len(todo) \in Nat /\ Len(buf[cur]) \in Nat /\ Len(buf[cur]) <= Size(cur)
      BY DEF TypeOK, BufferFits
<1>2. Size(cur) \in Nat
      BY <1>1, Sizes
<1>3. Room(cur) \in Nat /\ Len(buf[cur]) + Room(cur) <= Size(cur) /\ (wasFCloseCalled[cur] => Room(cur) = 0)
      BY <1>1, <1>2 DEF Room
<1> QED BY <1>1, <1>2, <1>3 DEF Moved, Min2

\* The steps of FCGX_PutStr: what is moved to the buffer.
LEMMA PutParts ==
    ASSUME Bounds
    PROVE  /\ SubSeq(todo, 1, Moved) \in Seq(Bytes) /\ Len(SubSeq(todo, 1, Moved)) = Moved
           /\ SubSeq(todo, Moved + 1, Len(todo)) \in Seq(Bytes)
           /\ buf[cur] \o SubSeq(todo, 1, Moved) \in Seq(Bytes)
           /\ Len(buf[cur] \o SubSeq(todo, 1, Moved)) = Len(buf[cur]) + Moved
           /\ Moved = Len(todo) => SubSeq(todo, 1, Moved) = todo
<1> DEFINE m == Moved
           q == SubSeq(todo, 1, m)
<1>1. m \in Nat /\ m <= Len(todo)
      BY MovedBounds DEF Bounds
<1> HIDE DEF m
<1>2. todo \in Seq(Bytes) /\ buf[cur] \in Seq(Bytes)
      BY DEF Bounds, TypeOK
<1>3. q \in Seq(Bytes) /\ Len(q) = m /\ SubSeq(todo, m + 1, Len(todo)) \in Seq(Bytes)
      BY <1>1, <1>2
<1>4. m = Len(todo) => q = todo
      BY <1>2, SubSeqFull
<1> HIDE DEF q
<1> DEFINE b == buf[cur]
<1>5. b \in Seq(Bytes)
      BY <1>2
<1> HIDE DEF b
<1>6. b \o q \in Seq(Bytes) /\ Len(b \o q) = Len(b) + Len(q)
      BY <1>3, <1>5
<1> QED BY <1>3, <1>4, <1>6 DEF m, q, b

\* FCGX_Accept_r makes new streams.
LEMMA BoundsAccept == ASSUME Bounds, FCGX_Accept_r PROVE Bounds'
<1> USE DEF FCGX_Accept_r, Bounds
<1>1. Reserved \in Seq(Bytes) /\ Len(Reserved) = Unit
      BY Pieces
<1>2. TypeOK'
      BY <1>1 DEF TypeOK, Streams
<1>3. BufferFits'
      BY <1>1, Sizes DEF BufferFits, Size
<1>4. Wrote'
      BY DEF Wrote
<1> QED BY <1>2, <1>3, <1>4

\* write_it_all transfers a byte.
LEMMA BoundsWriteByte == ASSUME Bounds, Write_Byte PROVE Bounds'
<1> USE DEF Write_Byte, Bounds, request, streams
<1>1. wrote \in Nat /\ Len(buf[cur]) \in Nat
      BY DEF TypeOK
<1>2. TypeOK'
      BY <1>1 DEF TypeOK
<1>3. BufferFits' /\ Wrote'
      BY <1>1 DEF BufferFits, Wrote, Size
<1> QED BY <1>2, <1>3

\* write_it_all ends.
LEMMA BoundsWriteDone == ASSUME Bounds, Write_Done PROVE Bounds'
<1> USE DEF Bounds
<1>1. /\ buf' = [buf EXCEPT ![cur] = IF rawWrite[cur] THEN <<>> ELSE Reserved]
      /\ wrote' = 0 /\ pc' = ret.write
      /\ UNCHANGED <<request, rawWrite, isAnythingWritten, isClosed, wasFCloseCalled, failed, cur, todo,
                     ret, reqs, put, writeFailed>>
      BY DEF Write_Done
<1>2. Reserved \in Seq(Bytes) /\ Len(Reserved) = Unit
      BY Pieces
<1>3. TypeOK'
      BY <1>1, <1>2 DEF TypeOK, request
<1>4. BufferFits'
  <2> SUFFICES ASSUME NEW s \in Streams PROVE Len(buf'[s]) <= Size(s)
      BY DEF BufferFits, Size
  <2>1. buf[s] \in Seq(Bytes) /\ Len(buf[s]) <= Size(s) /\ Unit <= Size(s) /\ 0 <= Size(s)
        BY Sizes DEF TypeOK, BufferFits
  <2>2. buf'[s] \in {buf[s], Reserved, <<>>}
        BY <1>1 DEF TypeOK
  <2> QED BY <1>2, <2>1, <2>2
<1>5. pc' # "write"
      BY <1>1 DEF TypeOK
<1>6. Wrote'
      BY <1>1, <1>5 DEF Wrote
<1> QED BY <1>3, <1>4, <1>6

\* write_it_all fails.
LEMMA BoundsWriteFail == ASSUME Bounds, Write_Fail PROVE Bounds'
<1> USE DEF Bounds
<1>1. /\ isClosed' = [isClosed EXCEPT ![cur] = TRUE] /\ failed' = [failed EXCEPT ![cur] = TRUE]
      /\ writeFailed' = TRUE /\ wrote' = 0 /\ pc' = ret.write
      /\ UNCHANGED <<request, buf, rawWrite, isAnythingWritten, wasFCloseCalled, cur, todo, ret, reqs, put>>
      BY DEF Write_Fail
<1>2. TypeOK'
      BY <1>1 DEF TypeOK, request
<1>3. pc' # "write"
      BY <1>1 DEF TypeOK
<1>4. BufferFits' /\ Wrote'
      BY <1>1, <1>3 DEF BufferFits, Wrote, Size
<1> QED BY <1>2, <1>4

\* A buffer is replaced by one that fits.
LEMMA NewBuffer ==
    ASSUME Bounds, NEW s \in Streams, NEW q \in Seq(Bytes), Len(q) <= Size(s),
           buf' = [buf EXCEPT ![s] = q]
    PROVE  buf' \in [Streams -> Seq(Bytes)] /\ BufferFits' /\ buf'[s] = q
<1>1. buf \in [Streams -> Seq(Bytes)]
      BY DEF Bounds, TypeOK
<1>2. \A t \in Streams : Len(buf[t]) <= Size(t)
      BY DEF Bounds, BufferFits
<1>3. \A t \in Streams : Size(t)' = Size(t)
      BY DEF Size
<1>4. \A t \in Streams : buf'[t] = IF t = s THEN q ELSE buf[t]
      BY <1>1
<1> QED BY <1>1, <1>2, <1>3, <1>4 DEF BufferFits

\* FCGX_PutStr ends, or goes on after EmptyBuffProc.
LEMMA BoundsPut == ASSUME Bounds, Put_Done \/ Put_Closed \/ Put_Full PROVE Bounds'
<1> DEFINE q == buf[cur] \o SubSeq(todo, 1, Moved)
<1>1. /\ buf' = [buf EXCEPT ![cur] = q]
      /\ put' = IF ret.put = "app" THEN [put EXCEPT ![cur] = @ + Moved] ELSE put
      /\ todo' \in {<<>>, SubSeq(todo, Moved + 1, Len(todo))} /\ pc' \in {ret.put, "empty"} /\ pc = "put"
      /\ UNCHANGED <<request, rawWrite, isAnythingWritten, isClosed, wasFCloseCalled, failed, cur, wrote,
                     ret, reqs, writeFailed>>
      BY PutParts DEF Put_Done, Put_Closed, Put_Full
<1>2. q \in Seq(Bytes) /\ Len(q) <= Size(cur) /\ Moved \in Nat
      BY PutParts, MovedBounds DEF Bounds
<1> HIDE DEF q
<1>3. cur \in Streams
      BY DEF Bounds, TypeOK
<1>4. buf' \in [Streams -> Seq(Bytes)] /\ BufferFits'
      BY <1>1, <1>2, <1>3, NewBuffer
<1>5. put' \in [Streams -> Nat]
      BY <1>1, <1>2, <1>3 DEF Bounds, TypeOK
<1>6. todo' \in Seq(Bytes)
  <2>1. <<>> \in Seq(Bytes)
        OBVIOUS
  <2>2. SubSeq(todo, Moved + 1, Len(todo)) \in Seq(Bytes)
        BY PutParts
  <2> QED BY <1>1, <2>1, <2>2
<1>7. TypeOK'
      BY <1>1, <1>4, <1>5, <1>6 DEF Bounds, TypeOK, request
<1>8. pc' # "write" /\ wrote = 0
      BY <1>1 DEF Bounds, Wrote, TypeOK
<1>9. Wrote'
      BY <1>1, <1>8 DEF Wrote
<1> QED BY <1>4, <1>7, <1>9 DEF Bounds

\* EmptyBuffProc begins to write.
LEMMA BoundsEmpty ==
    ASSUME Bounds, NEW s \in Streams, NEW back \in {"app", "put"}, EmptyBuff(s, back),
           UNCHANGED <<request, rawWrite, isClosed, wasFCloseCalled, failed, todo, reqs, put, writeFailed>>
    PROVE  Bounds'
<1> DEFINE q == Encapsulated(s)
<1>1. q \in Seq(Bytes) /\ Len(q) <= Size(s)
      BY EncapsulatedFits DEF Bounds
<1>2. /\ buf' = [buf EXCEPT ![s] = q] /\ cur' = s /\ wrote' = 0 /\ pc' = "write"
      /\ isAnythingWritten' = [isAnythingWritten EXCEPT ![s] = isAnythingWritten[s] \/ q # <<>>]
      /\ ret' = [ret EXCEPT !.write = back]
      BY DEF EmptyBuff
<1> HIDE DEF q
<1>3. buf' \in [Streams -> Seq(Bytes)] /\ BufferFits' /\ buf'[s] = q
      BY <1>1, <1>2, NewBuffer
<1>4. isAnythingWritten' \in [Streams -> BOOLEAN]
      BY <1>2 DEF Bounds, TypeOK
<1>5. ret' \in [put : {"app", "closeEnd", "closeWrite"}, write : {"app", "put", "closed"},
                close : {"app", "finishOut", "finishFree"}]
      BY <1>2 DEF Bounds, TypeOK
<1>6. TypeOK'
      BY <1>2, <1>3, <1>4, <1>5 DEF Bounds, TypeOK, request
<1>7. Wrote'
      BY <1>1, <1>2, <1>3 DEF Wrote
<1> QED BY <1>3, <1>6, <1>7 DEF Bounds

\* EmptyBuffProc begins to close.
LEMMA BoundsStartClose ==
    ASSUME Bounds, NEW s \in Streams, NEW back \in {"app", "finishOut", "finishFree"},
           pc # "write", StartClose(s, back),
           UNCHANGED <<request, isAnythingWritten, isClosed, wasFCloseCalled, failed, wrote, reqs, put,
                       writeFailed>>
    PROVE  Bounds'
<1> DEFINE q == Encapsulated(s)
<1>1. q \in Seq(Bytes) /\ Len(q) <= Size(s)
      BY EncapsulatedFits DEF Bounds
<1>2. /\ buf' = [buf EXCEPT ![s] = q] /\ cur' = s /\ pc' = "put"
      /\ rawWrite' = [rawWrite EXCEPT ![s] = TRUE]
      /\ todo' \in {MakeHeader(s, 0, 0), <<>>}
      /\ ret' = [ret EXCEPT !.put = "closeEnd", !.close = back]
      BY DEF StartClose
<1> HIDE DEF q
<1>3. buf' \in [Streams -> Seq(Bytes)] /\ BufferFits'
      BY <1>1, <1>2, NewBuffer
<1>4. todo' \in Seq(Bytes)
      BY <1>2, Pieces
<1>5. ret' \in [put : {"app", "closeEnd", "closeWrite"}, write : {"app", "put", "closed"},
                close : {"app", "finishOut", "finishFree"}]
      BY <1>2 DEF Bounds, TypeOK
<1>6. rawWrite' \in [Streams -> BOOLEAN]
      BY <1>2 DEF Bounds, TypeOK
<1>7. TypeOK'
      BY <1>2, <1>3, <1>4, <1>5, <1>6 DEF Bounds, TypeOK, request
<1>8. Wrote'
      BY <1>2 DEF Bounds, Wrote
<1> QED BY <1>3, <1>7, <1>8 DEF Bounds

\* The other steps of a close.
LEMMA BoundsClose == ASSUME Bounds, Control, Close_End \/ Close_Write \/ Close_Done PROVE Bounds'
<1> USE DEF Bounds
<1>1. CASE Close_End
  <2>1. /\ pc = "closeEnd" /\ nWriters' = nWriters - 1 /\ pc' = "put"
        /\ todo' \in {EndRequestRecord(appStatus), <<>>} /\ ret' = [ret EXCEPT !.put = "closeWrite"]
        /\ UNCHANGED <<ipcOpen, appStatus, streams, cur, wrote, reqs, put, writeFailed>>
        BY <1>1 DEF Close_End
  <2>2. cur \in Streams /\ Counted(cur)
        BY <2>1 DEF TypeOK, Control, Returns, Closing, Counted
  <2>3. nWriters' \in 0..2
        BY <2>1, <2>2 DEF Control, Counts, Streams, TypeOK
  <2>4. todo' \in Seq(Bytes)
    <3>1. appStatus \in Nat /\ <<>> \in Seq(Bytes)
          BY DEF TypeOK
    <3>2. EndRequestRecord(appStatus) \in Seq(Bytes)
          BY <3>1, Pieces
    <3> QED BY <2>1, <3>1, <3>2
  <2>5. TypeOK'
        BY <2>1, <2>3, <2>4 DEF TypeOK, streams
  <2>6. BufferFits' /\ Wrote'
        BY <2>1 DEF BufferFits, Wrote, Size, streams
  <2> QED BY <2>5, <2>6
<1>2. CASE Close_Write
  <2>1. /\ isAnythingWritten' = [isAnythingWritten EXCEPT ![cur] = isAnythingWritten[cur] \/ buf[cur] # <<>>]
        /\ wrote' = 0 /\ ret' = [ret EXCEPT !.write = "closed"] /\ pc' = "write"
        /\ UNCHANGED <<request, buf, rawWrite, isClosed, wasFCloseCalled, failed, cur, todo, reqs, put,
                       writeFailed>>
        BY <1>2 DEF Close_Write
  <2>2. TypeOK'
        BY <2>1 DEF TypeOK, request
  <2>3. BufferFits' /\ Wrote'
        BY <2>1 DEF BufferFits, Wrote, Size, TypeOK
  <2> QED BY <2>2, <2>3
<1>3. CASE Close_Done
  <2>1. /\ wasFCloseCalled' = [wasFCloseCalled EXCEPT ![cur] = TRUE]
        /\ isClosed' = [isClosed EXCEPT ![cur] = TRUE] /\ pc = "closed" /\ pc' = ret.close
        /\ UNCHANGED <<request, buf, rawWrite, isAnythingWritten, failed, cur, todo, wrote, ret, reqs, put,
                       writeFailed>>
        BY <1>3 DEF Close_Done
  <2>2. TypeOK'
        BY <2>1 DEF TypeOK, request
  <2>3. pc' # "write"
        BY <2>1 DEF TypeOK
  <2>4. BufferFits' /\ Wrote'
        BY <2>1, <2>3 DEF BufferFits, Wrote, Size
  <2> QED BY <2>2, <2>4
<1> QED BY <1>1, <1>2, <1>3

\* The steps of the application that write nothing.
LEMMA BoundsApp ==
    ASSUME Bounds, NEW s \in Streams,
           \/ \E n \in PutSizes[s] : FCGX_PutStr(s, n)
           \/ FCGX_ClearError(s)
           \/ \E status \in Statuses : FCGX_SetExitStatus(status)
           \/ \E keep \in BOOLEAN : Finish_Free(keep)
    PROVE  Bounds'
<1> USE DEF Bounds
<1>1. ASSUME NEW n \in PutSizes[s], FCGX_PutStr(s, n) PROVE Bounds'
  <2>1. /\ pc = "app" /\ cur' = s /\ todo' = Data(put[s] + 1, n) /\ ret' = [ret EXCEPT !.put = "app"]
        /\ pc' = "put" /\ UNCHANGED <<request, streams, wrote, reqs, put, writeFailed>>
        BY <1>1 DEF FCGX_PutStr
  <2>2. n \in Nat /\ put[s] \in Nat
        BY BoundsAssumption DEF TypeOK
  <2>3. todo' \in Seq(Bytes)
        BY <2>1, <2>2, Pieces
  <2>4. TypeOK'
        BY <2>1, <2>3 DEF TypeOK, request, streams
  <2>5. BufferFits' /\ Wrote'
        BY <2>1 DEF BufferFits, Wrote, Size, streams
  <2> QED BY <2>4, <2>5
<1>2. CASE FCGX_ClearError(s)
  <2> USE <1>2 DEF FCGX_ClearError
  <2>1. TypeOK'
        BY DEF TypeOK, request
  <2>2. BufferFits' /\ Wrote'
        BY DEF BufferFits, Wrote, Size
  <2> QED BY <2>1, <2>2
<1>3. ASSUME NEW status \in Statuses, FCGX_SetExitStatus(status) PROVE Bounds'
  <2> USE <1>3 DEF FCGX_SetExitStatus, streams
  <2>1. TypeOK'
        BY BoundsAssumption DEF TypeOK
  <2>2. BufferFits' /\ Wrote'
        BY DEF BufferFits, Wrote, Size
  <2> QED BY <2>1, <2>2
<1>4. ASSUME NEW keep \in BOOLEAN, Finish_Free(keep) PROVE Bounds'
  <2> USE <1>4 DEF Finish_Free, streams
  <2>1. ipcOpen' \in BOOLEAN
        OBVIOUS
  <2>2. TypeOK'
        BY <2>1 DEF TypeOK
  <2>3. BufferFits' /\ Wrote'
        BY DEF BufferFits, Wrote, Size
  <2> QED BY <2>2, <2>3
<1> QED BY <1>1, <1>2, <1>3, <1>4

\* FCGX_Finish_r goes past a stream.
LEMMA BoundsFinish ==
    ASSUME Bounds, NEW s \in Streams, NEW at \in {"app", "finishOut"},
           NEW next \in {"finishOut", "finishFree"}, Finish_Close(s, at, next)
    PROVE  Bounds'
<1>1. CASE wasFCloseCalled[s]
  <2> USE <1>1 DEF Finish_Close, Bounds
  <2>1. TypeOK'
        BY DEF TypeOK, request
  <2>2. BufferFits' /\ Wrote'
        BY DEF BufferFits, Wrote, Size
  <2> QED BY <2>1, <2>2
<1>2. CASE ~wasFCloseCalled[s]
  <2>1. /\ StartClose(s, next) /\ pc # "write"
        /\ UNCHANGED <<request, isAnythingWritten, isClosed, wasFCloseCalled, failed, wrote, reqs, put,
                       writeFailed>>
        BY <1>2 DEF Finish_Close
  <2> QED BY <2>1, BoundsStartClose
<1> QED BY <1>1, <1>2

\* Every step keeps the types, and every byte inside its buffer.
LEMMA BoundsNext == Bounds /\ Control /\ [Next]_vars => Bounds'
<1> SUFFICES ASSUME Bounds, Control, [Next]_vars PROVE Bounds'
    OBVIOUS
<1>1. CASE FCGX_Accept_r
      BY <1>1, BoundsAccept
<1>2. CASE App
  <2>1. ASSUME NEW s \in Streams, NEW n \in PutSizes[s], FCGX_PutStr(s, n) PROVE Bounds'
        BY <2>1, BoundsApp
  <2>2. ASSUME NEW s \in Streams, FCGX_FFlush(s) PROVE Bounds'
        BY <2>2, BoundsEmpty DEF FCGX_FFlush
  <2>3. ASSUME NEW s \in Streams, FCGX_FClose(s) PROVE Bounds'
        BY <2>3, BoundsStartClose DEF FCGX_FClose
  <2>4. ASSUME NEW s \in Streams, FCGX_ClearError(s) PROVE Bounds'
        BY <2>4, BoundsApp
  <2>5. ASSUME NEW status \in Statuses, FCGX_SetExitStatus(status) PROVE Bounds'
        BY <2>5, BoundsApp DEF Streams
  <2>6. CASE Finish_Close("err", "app", "finishOut")
        BY <2>6, BoundsFinish DEF Streams
  <2> QED BY <1>2, <2>1, <2>2, <2>3, <2>4, <2>5, <2>6 DEF App
<1>3. CASE Library
  <2>1. CASE Write_Byte \/ Write_Done \/ Write_Fail
        BY <2>1, BoundsWriteByte, BoundsWriteDone, BoundsWriteFail
  <2>2. CASE Put_Done \/ Put_Closed \/ Put_Full
        BY <2>2, BoundsPut
  <2>3. CASE Put_Empty
        BY <2>3, BoundsEmpty DEF Put_Empty, Bounds, TypeOK
  <2>4. CASE Close_End \/ Close_Write \/ Close_Done
        BY <2>4, BoundsClose
  <2>5. CASE Finish_Close("out", "finishOut", "finishFree")
        BY <2>5, BoundsFinish DEF Streams
  <2>6. ASSUME NEW keep \in BOOLEAN, Finish_Free(keep) PROVE Bounds'
        BY <2>6, BoundsApp DEF Streams
  <2> QED BY <1>3, <2>1, <2>2, <2>3, <2>4, <2>5, <2>6 DEF Library
<1>4. CASE UNCHANGED vars
  <2> USE <1>4 DEF vars, request, streams, Bounds
  <2>1. TypeOK'
        BY DEF TypeOK
  <2>2. BufferFits' /\ Wrote'
        BY DEF BufferFits, Wrote, Size
  <2> QED BY <2>1, <2>2
<1> QED BY <1>1, <1>2, <1>3, <1>4 DEF Next

-----------------------------------------------------------------------------
(* Control.                                                                *)

ctl == <<nWriters, rawWrite, wasFCloseCalled, cur, ret>>

\* Before FCGX_Accept_r and when the application runs no stream is half closed.
LEMMA AllAtRest ==
    ASSUME Control, pc \in {"accept", "app", "finishOut", "finishFree"}
    PROVE  /\ \A s \in Streams : rawWrite[s] <=> wasFCloseCalled[s]
           /\ ~Putting /\ (cur \in Streams => ~Closing)
BY DEF Control, Streaming, Putting, Closing

\* A new request.
LEMMA ControlAccept == ASSUME Bounds, Control, FCGX_Accept_r PROVE Control'
<1> USE DEF FCGX_Accept_r
<1>1. Returns' /\ Finishing'
      BY DEF Returns, Finishing, Closing, Putting, Streams
<1>2. Streaming' /\ Counts'
      BY DEF Streaming, Counts, Counted, Streams
<1> QED BY <1>1, <1>2 DEF Control

\* Steps that stay where they are.
LEMMA ControlFrame ==
    ASSUME Bounds, Control, UNCHANGED <<ctl, pc, isClosed>> PROVE Control'
<1> USE DEF ctl, Control
<1>1. Returns' /\ Finishing'
      BY DEF Returns, Finishing, Closing, Putting
<1>2. Streaming' /\ Counts'
      BY DEF Streaming, Counts, Counted, Putting
<1> QED BY <1>1, <1>2

\* write_it_all ends or fails.
LEMMA ControlWrite ==
    ASSUME Bounds, Control, pc = "write", pc' = ret.write, UNCHANGED ctl,
           \A s \in Streams : isClosed[s] => isClosed'[s]
    PROVE  Control'
<1> USE DEF ctl, Control
<1>1. ret.write \in {"app", "put", "closed"}
      BY DEF Bounds, TypeOK
<1>2. Returns' /\ Finishing'
      BY <1>1 DEF Returns, Finishing, Closing, Putting
<1>3. Streaming' /\ Counts'
      BY <1>1 DEF Streaming, Counts, Counted, Putting
<1> QED BY <1>2, <1>3

\* The steps of FCGX_PutStr.
LEMMA ControlPut == ASSUME Bounds, Control, Put_Done \/ Put_Closed \/ Put_Full PROVE Control'
<1> USE DEF ctl, Control
<1>1. /\ pc = "put" /\ UNCHANGED <<ctl, isClosed>>
      /\ pc' = ret.put \/ (pc' = "empty" /\ ~isClosed[cur])
      BY DEF Put_Done, Put_Closed, Put_Full, request
<1>2. ret.put \in {"app", "closeEnd", "closeWrite"} /\ cur \in Streams
      BY DEF Bounds, TypeOK
<1>3. Returns'
      BY <1>1, <1>2 DEF Returns, Streaming, Closing, Putting
<1>4. Finishing'
      BY <1>1, <1>2 DEF Finishing, Closing
<1>5. Streaming' /\ Counts'
      BY <1>1, <1>2 DEF Streaming, Counts, Counted, Putting
<1> QED BY <1>3, <1>4, <1>5

\* EmptyBuffProc for FCGX_PutStr.
LEMMA ControlPutEmpty == ASSUME Bounds, Control, Put_Empty PROVE Control'
<1> USE DEF Control
<1>1. /\ pc = "empty" /\ pc' = "write" /\ cur' = cur /\ ret' = [ret EXCEPT !.write = "put"]
      /\ UNCHANGED <<nWriters, rawWrite, wasFCloseCalled, isClosed>>
      BY DEF Put_Empty, EmptyBuff, request
<1>2. ret'.put = ret.put /\ ret'.write = "put" /\ ret'.close = ret.close
      BY <1>1 DEF Bounds, TypeOK
<1>3. Returns' /\ Finishing'
      BY <1>1, <1>2 DEF Returns, Finishing, Closing, Putting
<1>4. Streaming' /\ Counts'
      BY <1>1, <1>2 DEF Streaming, Counts, Counted, Putting
<1> QED BY <1>3, <1>4

\* FCGX_FFlush.
LEMMA ControlFlush == ASSUME Bounds, Control, NEW s \in Streams, FCGX_FFlush(s) PROVE Control'
<1>1. /\ pc = "app" /\ ~isClosed[s] /\ pc' = "write" /\ cur' = s /\ ret' = [ret EXCEPT !.write = "app"]
      /\ UNCHANGED <<nWriters, rawWrite, wasFCloseCalled, isClosed>>
      BY DEF FCGX_FFlush, EmptyBuff, request
<1>2. ret'.put = ret.put /\ ret'.write = "app" /\ ret'.close = ret.close
      BY <1>1 DEF Bounds, TypeOK
<1>3. \A t \in Streams : rawWrite[t] <=> wasFCloseCalled[t]
      BY <1>1, AllAtRest
<1>4. ~rawWrite[s] /\ ~wasFCloseCalled[s]
      BY <1>1, <1>3 DEF Control, Streaming
<1>5. Returns' /\ Finishing'
      BY <1>1, <1>2, <1>4 DEF Returns, Finishing, Closing, Putting
<1>6. Streaming'
      BY <1>1, <1>3 DEF Control, Streaming
<1>7. Counts'
      BY <1>1, <1>2 DEF Control, Counts, Counted
<1> QED BY <1>5, <1>6, <1>7 DEF Control

\* FCGX_PutStr begins.
LEMMA ControlPutStr ==
    ASSUME Bounds, Control, NEW s \in Streams, NEW n, FCGX_PutStr(s, n) PROVE Control'
<1>1. /\ pc = "app" /\ pc' = "put" /\ cur' = s /\ ret' = [ret EXCEPT !.put = "app"]
      /\ UNCHANGED <<nWriters, rawWrite, wasFCloseCalled, isClosed>>
      BY DEF FCGX_PutStr, request, streams
<1>2. ret'.put = "app" /\ ret'.write = ret.write /\ ret'.close = ret.close
      BY <1>1 DEF Bounds, TypeOK
<1>3. \A t \in Streams : rawWrite[t] <=> wasFCloseCalled[t]
      BY <1>1, AllAtRest
<1>4. Returns' /\ Finishing'
      BY <1>1, <1>2, <1>3 DEF Returns, Finishing, Closing, Putting
<1>5. Streaming'
      BY <1>1, <1>3 DEF Control, Streaming
<1>6. Counts'
      BY <1>1, <1>2, <1>3 DEF Control, Counts, Counted, Streams
<1> QED BY <1>4, <1>5, <1>6 DEF Control

\* A close begins.
LEMMA ControlStartClose ==
    ASSUME Bounds, Control, NEW s \in Streams, NEW back, StartClose(s, back),
           pc \in {"app", "finishOut"}, ~wasFCloseCalled[s],
           \/ back = "app"
           \/ back = "finishOut" /\ s = "err"
           \/ back = "finishFree" /\ s = "out" /\ wasFCloseCalled["err"],
           UNCHANGED <<nWriters, wasFCloseCalled, isClosed>>
    PROVE  Control'
<1>1. /\ pc' = "put" /\ cur' = s /\ ret' = [ret EXCEPT !.put = "closeEnd", !.close = back]
      /\ rawWrite' = [rawWrite EXCEPT ![s] = TRUE]
      BY DEF StartClose
<1>2. ret'.put = "closeEnd" /\ ret'.write = ret.write /\ ret'.close = back
      BY <1>1 DEF Bounds, TypeOK
<1>3. \A t \in Streams : rawWrite[t] <=> wasFCloseCalled[t]
      BY AllAtRest
<1>4. \A t \in Streams : rawWrite'[t] = IF t = s THEN TRUE ELSE rawWrite[t]
      BY <1>1 DEF Bounds, TypeOK
<1>5. Closing'
      BY <1>1, <1>4 DEF Closing
<1>6. Returns' /\ Finishing'
      BY <1>1, <1>2, <1>5 DEF Returns, Finishing, Putting
<1>7. Streaming'
      BY <1>1, <1>2, <1>3, <1>4 DEF Control, Streaming, Putting
<1>8. Counts'
      BY <1>1, <1>2, <1>3, <1>4 DEF Control, Counts, Counted, Streams
<1> QED BY <1>6, <1>7, <1>8 DEF Control

\* The steps of a close.
LEMMA ControlClose == ASSUME Bounds, Control, Close_End \/ Close_Write \/ Close_Done PROVE Control'
<1>0. cur \in Streams
      BY DEF Bounds, TypeOK
<1>1. CASE Close_End
  <2>1. /\ pc = "closeEnd" /\ nWriters' = nWriters - 1 /\ pc' = "put"
        /\ ret' = [ret EXCEPT !.put = "closeWrite"]
        /\ UNCHANGED <<rawWrite, wasFCloseCalled, isClosed, cur>>
        BY <1>1 DEF Close_End, streams
  <2>2. ret'.put = "closeWrite" /\ ret'.write = ret.write /\ ret'.close = ret.close
        BY <2>1 DEF Bounds, TypeOK
  <2>3. Closing /\ ret.put = "closeEnd"
        BY <2>1 DEF Control, Returns
  <2>4. Returns' /\ Finishing'
        BY <2>1, <2>2, <2>3 DEF Control, Returns, Finishing, Closing, Putting
  <2>5. Streaming'
        BY <2>1, <2>2 DEF Control, Streaming, Putting
  <2>6. \A t \in Streams \ {cur} : rawWrite[t] <=> wasFCloseCalled[t]
        BY DEF Control, Streaming
  <2>7. Counted(cur) /\ ~Counted(cur)' /\ \A t \in Streams \ {cur} : Counted(t)' <=> Counted(t)
        BY <2>1, <2>2, <2>3, <2>6 DEF Counted, Closing
  <2>8. nWriters = (IF Counted("out") THEN 1 ELSE 0) + (IF Counted("err") THEN 1 ELSE 0)
        BY <2>1 DEF Control, Counts
  <2>9. Counts'
    <3>1. CASE cur = "out"
          BY <2>1, <2>7, <2>8, <3>1 DEF Counts, Streams
    <3>2. CASE cur = "err"
          BY <2>1, <2>7, <2>8, <3>2 DEF Counts, Streams
    <3> QED BY <1>0, <3>1, <3>2 DEF Streams
  <2> QED BY <2>4, <2>5, <2>9 DEF Control
<1>2. CASE Close_Write
  <2>1. /\ pc = "closeWrite" /\ pc' = "write" /\ ret' = [ret EXCEPT !.write = "closed"]
        /\ UNCHANGED <<nWriters, rawWrite, wasFCloseCalled, isClosed, cur>>
        BY <1>2 DEF Close_Write, request
  <2>2. ret'.put = ret.put /\ ret'.write = "closed" /\ ret'.close = ret.close
        BY <2>1 DEF Bounds, TypeOK
  <2>3. Returns' /\ Finishing'
        BY <2>1, <2>2 DEF Control, Returns, Finishing, Closing, Putting
  <2>4. Streaming'
        BY <2>1, <2>2 DEF Control, Streaming, Putting
  <2>5. Counts'
        BY <2>1, <2>2 DEF Control, Counts, Counted
  <2> QED BY <2>3, <2>4, <2>5 DEF Control
<1>3. CASE Close_Done
  <2>1. /\ pc = "closed" /\ pc' = ret.close
        /\ wasFCloseCalled' = [wasFCloseCalled EXCEPT ![cur] = TRUE]
        /\ isClosed' = [isClosed EXCEPT ![cur] = TRUE]
        /\ UNCHANGED <<nWriters, rawWrite, cur, ret>>
        BY <1>3 DEF Close_Done, request
  <2>2. \A t \in Streams : /\ wasFCloseCalled'[t] = IF t = cur THEN TRUE ELSE wasFCloseCalled[t]
                           /\ isClosed'[t] = IF t = cur THEN TRUE ELSE isClosed[t]
        BY <2>1 DEF Bounds, TypeOK
  <2>3. Closing /\ ret.put = "closeWrite" /\ ret.close \in {"app", "finishOut", "finishFree"}
        BY <2>1 DEF Control, Returns, Bounds, TypeOK
  <2>4. ~Closing'
        BY <1>0, <2>1, <2>2 DEF Closing
  <2>5. \A t \in Streams : rawWrite[t] <=> wasFCloseCalled'[t]
        BY <2>2, <2>3 DEF Control, Streaming, Closing
  <2>6. Returns'
        BY <2>1, <2>3, <2>4 DEF Returns, Putting
  <2>7. Finishing'
        BY <2>1, <2>2, <2>3, <2>4 DEF Control, Finishing, Streams
  <2>8. Streaming'
        BY <2>1, <2>2, <2>5 DEF Control, Streaming
  <2>9. \A t \in Streams : Counted(t)' <=> Counted(t)
        BY <2>1, <2>2, <2>3 DEF Counted, Closing
  <2>10. Counts'
        BY <2>1, <2>9 DEF Control, Counts, Streams
  <2> QED BY <2>6, <2>7, <2>8, <2>10 DEF Control
<1> QED BY <1>1, <1>2, <1>3

\* FCGX_Finish_r.
LEMMA ControlFinish ==
    ASSUME Bounds, Control, NEW s \in Streams, NEW at, NEW next, Finish_Close(s, at, next),
           \/ s = "err" /\ at = "app" /\ next = "finishOut"
           \/ s = "out" /\ at = "finishOut" /\ next = "finishFree"
    PROVE  Control'
<1>1. pc = at /\ (pc = "finishOut" => wasFCloseCalled["err"]) /\ pc \in {"app", "finishOut"}
      BY DEF Finish_Close, Control, Finishing
<1>2. CASE wasFCloseCalled[s]
  <2>1. pc' = next /\ UNCHANGED <<ctl, isClosed>>
        BY <1>2 DEF Finish_Close, ctl, request
  <2>2. \A t \in Streams : rawWrite[t] <=> wasFCloseCalled[t]
        BY <1>1, AllAtRest
  <2>3. ~Closing /\ ~Closing'
        BY <1>1, <2>1, AllAtRest DEF Bounds, TypeOK, Closing, ctl
  <2>4. Returns' /\ Finishing'
        BY <1>1, <1>2, <2>1, <2>3 DEF Returns, Finishing, Putting, ctl
  <2>5. Streaming' /\ Counts'
        BY <1>1, <2>1, <2>2 DEF Control, Streaming, Counts, Counted, ctl
  <2> QED BY <2>4, <2>5 DEF Control
<1>3. CASE ~wasFCloseCalled[s]
  <2>1. StartClose(s, next) /\ UNCHANGED <<nWriters, wasFCloseCalled, isClosed>>
        BY <1>3 DEF Finish_Close, request
  <2> QED BY <1>1, <1>3, <2>1, ControlStartClose
<1> QED BY <1>2, <1>3

\* FCGX_Finish_r ends.
LEMMA ControlFree == ASSUME Bounds, Control, NEW keep, Finish_Free(keep) PROVE Control'
<1>1. pc = "finishFree" /\ pc' = "accept" /\ UNCHANGED <<ctl, isClosed>>
      BY DEF Finish_Free, ctl, streams
<1>2. \A t \in Streams : rawWrite[t] <=> wasFCloseCalled[t]
      BY <1>1, AllAtRest
<1>3. ~Closing'
      BY <1>1, AllAtRest DEF Bounds, TypeOK, Closing, ctl
<1>4. Returns' /\ Finishing'
      BY <1>1, <1>3 DEF Returns, Finishing, Putting
<1>5. Streaming' /\ Counts'
      BY <1>1, <1>2 DEF Control, Streaming, Counts, ctl
<1> QED BY <1>4, <1>5 DEF Control

\* Every call returns to where it came from, and nWriters counts the open streams.
LEMMA ControlNext == Bounds /\ Control /\ [Next]_vars => Control'
<1> SUFFICES ASSUME Bounds, Control, [Next]_vars PROVE Control'
    OBVIOUS
<1>1. CASE FCGX_Accept_r
      BY <1>1, ControlAccept
<1>2. CASE App
  <2>1. ASSUME NEW s \in Streams, NEW n \in PutSizes[s], FCGX_PutStr(s, n) PROVE Control'
        BY <2>1, ControlPutStr
  <2>2. ASSUME NEW s \in Streams, FCGX_FFlush(s) PROVE Control'
        BY <2>2, ControlFlush
  <2>3. ASSUME NEW s \in Streams, FCGX_FClose(s) PROVE Control'
        BY <2>3, ControlStartClose DEF FCGX_FClose, request
  <2>4. ASSUME NEW s \in Streams, FCGX_ClearError(s) PROVE Control'
        BY <2>4, ControlFrame DEF FCGX_ClearError, ctl, request
  <2>5. ASSUME NEW status \in Statuses, FCGX_SetExitStatus(status) PROVE Control'
        BY <2>5, ControlFrame DEF FCGX_SetExitStatus, ctl, streams
  <2>6. CASE Finish_Close("err", "app", "finishOut")
        BY <2>6, ControlFinish DEF Streams
  <2> QED BY <1>2, <2>1, <2>2, <2>3, <2>4, <2>5, <2>6 DEF App
<1>3. CASE Library
  <2>1. CASE Write_Byte
        BY <2>1, ControlFrame DEF Write_Byte, ctl, request, streams
  <2>2. CASE Write_Done
        BY <2>2, ControlWrite DEF Write_Done, ctl, request
  <2>3. CASE Write_Fail
    <3>1. \A s \in Streams : isClosed[s] => isClosed'[s]
          BY <2>3 DEF Write_Fail, Bounds, TypeOK
    <3> QED BY <2>3, <3>1, ControlWrite DEF Write_Fail, ctl, request
  <2>4. CASE Put_Done \/ Put_Closed \/ Put_Full
        BY <2>4, ControlPut
  <2>5. CASE Put_Empty
        BY <2>5, ControlPutEmpty
  <2>6. CASE Close_End \/ Close_Write \/ Close_Done
        BY <2>6, ControlClose
  <2>7. CASE Finish_Close("out", "finishOut", "finishFree")
        BY <2>7, ControlFinish DEF Streams
  <2>8. ASSUME NEW keep \in BOOLEAN, Finish_Free(keep) PROVE Control'
        BY <2>8, ControlFree
  <2> QED BY <1>3, <2>1, <2>2, <2>3, <2>4, <2>5, <2>6, <2>7, <2>8 DEF Library
<1>4. CASE UNCHANGED vars
      BY <1>4, ControlFrame DEF vars, ctl, request, streams
<1> QED BY <1>1, <1>2, <1>3, <1>4 DEF Next

-----------------------------------------------------------------------------
(* Errors, and what FCGX_PutStr has still to move.                         *)

\* Steps that neither fail nor close nor come to the end of a close.
LEMMA ErrorsFrame ==
    ASSUME Errors, UNCHANGED <<writeFailed, rx, failed, isClosed, wasFCloseCalled>>,
           pc' = "closed" => UNCHANGED <<pc, buf, cur>>
    PROVE  Errors'
BY DEF Errors

\* A failed write is not forgotten while its connection lasts.
LEMMA ErrorsNext == Bounds /\ Control /\ Errors /\ [Next]_vars => Errors'
<1> SUFFICES ASSUME Bounds, Control, Errors, [Next]_vars PROVE Errors'
    OBVIOUS
<1>0. cur \in Streams
      BY DEF Bounds, TypeOK
<1>1. CASE FCGX_Accept_r
  <2>1. writeFailed' => ~rx'.sound
        BY <1>1 DEF FCGX_Accept_r, Errors, RxInit
  <2> QED BY <1>1, <2>1 DEF FCGX_Accept_r, Errors
<1>2. CASE App
  <2>1. ASSUME NEW s \in Streams, NEW n \in PutSizes[s], FCGX_PutStr(s, n) PROVE Errors'
        BY <2>1, ErrorsFrame DEF FCGX_PutStr, streams
  <2>2. ASSUME NEW s \in Streams, FCGX_FFlush(s) PROVE Errors'
        BY <2>2, ErrorsFrame DEF FCGX_FFlush, EmptyBuff
  <2>3. ASSUME NEW s \in Streams, FCGX_FClose(s) PROVE Errors'
        BY <2>3, ErrorsFrame DEF FCGX_FClose, StartClose
  <2>4. ASSUME NEW s \in Streams, FCGX_ClearError(s) PROVE Errors'
    <3>1. \A t \in Streams : failed'[t] => failed[t]
          BY <2>4 DEF FCGX_ClearError, Bounds, TypeOK
    <3> QED BY <2>4, <3>1 DEF FCGX_ClearError, Errors
  <2>5. ASSUME NEW status \in Statuses, FCGX_SetExitStatus(status) PROVE Errors'
        BY <2>5, ErrorsFrame DEF FCGX_SetExitStatus, streams
  <2>6. CASE Finish_Close("err", "app", "finishOut")
        BY <2>6, ErrorsFrame DEF Finish_Close, StartClose
  <2> QED BY <1>2, <2>1, <2>2, <2>3, <2>4, <2>5, <2>6 DEF App
<1>3. CASE Library
  <2>1. CASE Write_Byte
    <3>1. ~rx.sound => rx' = rx
          BY <2>1 DEF Write_Byte, Receive
    <3> QED BY <2>1, <3>1 DEF Write_Byte, streams, Errors
  <2>2. CASE Write_Done
    <3>1. /\ pc = "write" /\ pc' = ret.write
          /\ buf' = [buf EXCEPT ![cur] = IF rawWrite[cur] THEN <<>> ELSE Reserved]
          /\ UNCHANGED <<writeFailed, rx, failed, isClosed, wasFCloseCalled, cur>>
          BY <2>2 DEF Write_Done
    <3>2. pc' = "closed" => rawWrite[cur]
          BY <3>1 DEF Control, Returns, Closing
    <3>3. pc' = "closed" => buf'[cur'] = <<>>
          BY <1>0, <3>1, <3>2 DEF Bounds, TypeOK
    <3> QED BY <3>1, <3>3 DEF Errors
  <2>3. CASE Write_Fail
    <3>1. writeFailed' = TRUE /\ rx' = RxLost
          BY <2>3 DEF Write_Fail
    <3>2. rx'.sound = FALSE
          BY <3>1 DEF RxLost, RxInit
    <3> QED BY <3>1, <3>2 DEF Errors
  <2>4. CASE Put_Done \/ Put_Closed \/ Put_Full
    <3>1. pc' # "closed"
          BY <2>4 DEF Put_Done, Put_Closed, Put_Full, Bounds, TypeOK
    <3> QED BY <2>4, <3>1, ErrorsFrame DEF Put_Done, Put_Closed, Put_Full
  <2>5. CASE Put_Empty
        BY <2>5, ErrorsFrame DEF Put_Empty, EmptyBuff
  <2>6. CASE Close_End \/ Close_Write
        BY <2>6, ErrorsFrame DEF Close_End, Close_Write, streams
  <2>7. CASE Close_Done
    <3>1. pc' # "closed"
          BY <2>7 DEF Close_Done, Bounds, TypeOK
    <3>2. \A t \in Streams : isClosed'[t] => isClosed[t] \/ wasFCloseCalled'[t]
          BY <2>7 DEF Close_Done, Bounds, TypeOK
    <3>3. \A t \in Streams : wasFCloseCalled[t] => wasFCloseCalled'[t]
          BY <2>7 DEF Close_Done, Bounds, TypeOK
    <3> QED BY <2>7, <3>1, <3>2, <3>3 DEF Close_Done, Errors
  <2>8. CASE Finish_Close("out", "finishOut", "finishFree")
        BY <2>8, ErrorsFrame DEF Finish_Close, StartClose
  <2>9. ASSUME NEW keep \in BOOLEAN, Finish_Free(keep) PROVE Errors'
        BY <2>9, ErrorsFrame DEF Finish_Free, streams
  <2> QED BY <1>3, <2>1, <2>2, <2>3, <2>4, <2>5, <2>6, <2>7, <2>8, <2>9 DEF Library
<1>4. CASE UNCHANGED vars
      BY <1>4, ErrorsFrame DEF vars, streams
<1> QED BY <1>1, <1>2, <1>3, <1>4 DEF Next

\* The application's bytes are moved in order.
LEMMA TodoNext == Bounds /\ Control /\ Todo /\ [Next]_vars => Todo'
<1> SUFFICES ASSUME Bounds, Control, Todo, [Next]_vars PROVE Todo'
    OBVIOUS
<1>0. cur \in Streams /\ Len(<<>>) = 0
      BY DEF Bounds, TypeOK
<1>1. ASSUME todo' = <<>> PROVE Todo'
      BY <1>1 DEF Todo
<1>2. ASSUME pc \in {"accept", "app", "finishOut", "finishFree"}, UNCHANGED todo PROVE Todo'
      BY <1>1, <1>2, AllAtRest DEF Todo
<1>3. ASSUME NEW s \in Streams, NEW back, StartClose(s, back), UNCHANGED wasFCloseCalled, ~wasFCloseCalled[s]
      PROVE  Todo'
  <2>1. pc' = "put" /\ cur' = s /\ rawWrite'[s] = TRUE
        BY <1>3 DEF StartClose, Bounds, TypeOK
  <2>2. Closing' /\ Putting'
        BY <1>3, <2>1 DEF Closing, Putting
  <2> QED BY <2>2 DEF Todo
<1>4. CASE FCGX_Accept_r
      BY <1>2, <1>4 DEF FCGX_Accept_r
<1>5. CASE App
  <2>1. ASSUME NEW s \in Streams, NEW n \in PutSizes[s], FCGX_PutStr(s, n) PROVE Todo'
    <3>1. pc' = "put" /\ cur' = s /\ todo' = Data(put[s] + 1, n) /\ put' = put
          BY <2>1 DEF FCGX_PutStr
    <3>2. n \in Nat /\ put[s] \in Nat
          BY BoundsAssumption DEF Bounds, TypeOK
    <3>3. Len(todo') = n /\ \A i \in 1..n : todo'[i] = Byte("data", put[s] + i)
          BY <3>1, <3>2, Pieces
    <3> QED BY <3>1, <3>3 DEF Todo, Putting
  <2>2. ASSUME NEW s \in Streams, FCGX_FFlush(s) PROVE Todo'
        BY <1>2, <2>2 DEF FCGX_FFlush
  <2>3. ASSUME NEW s \in Streams, FCGX_FClose(s) PROVE Todo'
        BY <1>3, <2>3 DEF FCGX_FClose
  <2>4. ASSUME NEW s \in Streams, FCGX_ClearError(s) PROVE Todo'
        BY <1>2, <2>4 DEF FCGX_ClearError
  <2>5. ASSUME NEW status \in Statuses, FCGX_SetExitStatus(status) PROVE Todo'
        BY <1>2, <2>5 DEF FCGX_SetExitStatus
  <2>6. CASE Finish_Close("err", "app", "finishOut")
        BY <1>2, <1>3, <2>6 DEF Finish_Close, Streams
  <2> QED BY <1>5, <2>1, <2>2, <2>3, <2>4, <2>5, <2>6 DEF App
<1>6. CASE Library
  <2>1. CASE Write_Byte
        BY <2>1 DEF Write_Byte, streams, Todo, Putting, Closing
  <2>2. CASE Write_Done
        BY <2>2 DEF Write_Done, Todo, Putting, Closing
  <2>3. CASE Write_Fail
        BY <2>3 DEF Write_Fail, Todo, Putting, Closing
  <2>4. CASE Put_Done \/ Put_Closed
        BY <1>1, <2>4 DEF Put_Done, Put_Closed
  <2>5. CASE Put_Full
    <3> DEFINE m == Moved
    <3>1. /\ pc = "put" /\ pc' = "empty" /\ todo' = SubSeq(todo, m + 1, Len(todo))
          /\ put' = IF ret.put = "app" THEN [put EXCEPT ![cur] = put[cur] + m] ELSE put
          /\ UNCHANGED <<cur, rawWrite, wasFCloseCalled>>
          BY <2>5 DEF Put_Full
    <3>2. m \in Nat /\ m <= Len(todo) /\ todo \in Seq(Bytes) /\ put[cur] \in Nat
          BY <1>0, MovedBounds DEF Bounds, TypeOK
    <3> HIDE DEF m
    <3>3. Len(todo') = Len(todo) - m /\ \A i \in 1..(Len(todo) - m) : todo'[i] = todo[m + i]
          BY <3>1, <3>2
    <3>4. ASSUME ~Closing, NEW i \in 1..Len(todo') PROVE todo'[i] = Byte("data", put'[cur] + i)
      <4>1. ret.put = "app"
            BY <3>1, <3>4 DEF Control, Returns, Putting
      <4>2. put'[cur] = put[cur] + m
            BY <1>0, <3>1, <4>1 DEF Bounds, TypeOK
      <4>3. m + i \in 1..Len(todo) /\ put[cur] + (m + i) = put'[cur] + i
            BY <3>2, <3>3, <4>2
      <4>4. todo[m + i] = Byte("data", put[cur] + (m + i))
            BY <3>4, <4>3 DEF Todo
      <4> QED BY <3>3, <4>3, <4>4
    <3>5. Closing' <=> Closing
          BY <3>1 DEF Closing
    <3> QED BY <3>1, <3>4, <3>5 DEF Todo, Putting
  <2>6. CASE Put_Empty
        BY <2>6 DEF Put_Empty, EmptyBuff, Todo, Putting, Closing
  <2>7. CASE Close_End
    <3>1. pc' = "put" /\ Closing' /\ pc = "closeEnd"
          BY <2>7 DEF Close_End, streams, Control, Returns, Closing
    <3> QED BY <3>1 DEF Todo, Putting
  <2>8. CASE Close_Write \/ Close_Done
        BY <1>1, <2>8 DEF Close_Write, Close_Done, Todo, Putting
  <2>9. CASE Finish_Close("out", "finishOut", "finishFree")
        BY <1>2, <1>3, <2>9 DEF Finish_Close, Streams
  <2>10. ASSUME NEW keep \in BOOLEAN, Finish_Free(keep) PROVE Todo'
        BY <1>2, <2>10 DEF Finish_Free
  <2> QED BY <1>6, <2>1, <2>2, <2>3, <2>4, <2>5, <2>6, <2>7, <2>8, <2>9, <2>10 DEF Library
<1>7. CASE UNCHANGED vars
      BY <1>7 DEF vars, streams, Todo, Putting, Closing
<1> QED BY <1>4, <1>5, <1>6, <1>7 DEF Next

-----------------------------------------------------------------------------
(* Sequences of bytes and the web server.                                  *)

\* A set of numbers that is not empty has a least element.
LEMMA LeastElement ==
    ASSUME NEW T, T \subseteq Nat, T # {}
    PROVE  \E x \in T : \A y \in T : x <= y
<1> DEFINE R == OpToRel(<, Nat)
<1>1. IsWellFoundedOn(R, Nat)
      BY NatLessThanWellFounded
<1>2. PICK x \in T : \A y \in T : ~ (<<y, x>> \in R)
  <2> HIDE DEF R
  <2> QED BY <1>1, WFMin
<1>3. \A a, b \in Nat : a < b => <<a, b>> \in R
      BY DEF OpToRel
<1> HIDE DEF R
<1>4. \A y \in T : y \in Nat /\ ~(y < x)
      BY <1>2, <1>3
<1>5. \A y \in T : x <= y
      BY <1>4
<1> QED BY <1>5

\* No byte leads nowhere.
LEMMA LeadsNone ==
    ASSUME NEW r PROVE Leads(r, <<>>, r) /\ \A r2 : Leads(r, <<>>, r2) => r2 = r
<1>1. Len(<<>>) = 0 /\ 1..0 = {}
      OBVIOUS
<1>2. Leads(r, <<>>, r)
  <2> DEFINE tr == [i \in {0} |-> r]
  <2>1. tr[0] = r
        OBVIOUS
  <2> HIDE DEF tr
  <2> QED BY <1>1, <2>1 DEF Leads
<1>3. \A r2 : Leads(r, <<>>, r2) => r2 = r
      BY <1>1 DEF Leads
<1> QED BY <1>2, <1>3

\* The web server takes one byte.
LEMMA LeadsTail ==
    ASSUME NEW q \in Seq(Bytes), q # <<>>, NEW r, NEW r2, Leads(r, q, r2)
    PROVE  Leads(Receive(r, q[1]), Tail(q), r2)
<1>1. PICK tr : /\ tr[0] = r /\ tr[Len(q)] = r2
                /\ \A i \in 1..Len(q) : tr[i] = Receive(tr[i - 1], q[i])
      BY DEF Leads
<1> DEFINE n == Len(q)
           u == [i \in 0..(n - 1) |-> tr[i + 1]]
<1>2. n \in Nat /\ n > 0 /\ Len(Tail(q)) = n - 1 /\ \A i \in 1..(n - 1) : Tail(q)[i] = q[i + 1]
      BY EmptySeq
<1>3. 0 \in 0..(n - 1) /\ n - 1 \in 0..(n - 1) /\ (n - 1) + 1 = n /\ 1 \in 1..n /\ 0 + 1 = 1 /\ 1 - 1 = 0
      BY <1>2
<1>4. \A i \in 1..(n - 1) : /\ i \in 0..(n - 1) /\ i - 1 \in 0..(n - 1) /\ i + 1 \in 1..n
                            /\ (i - 1) + 1 = (i + 1) - 1
      BY <1>2
<1>5. \A i \in 0..(n - 1) : u[i] = tr[i + 1]
      OBVIOUS
<1>6. \A i \in 1..n : tr[i] = Receive(tr[i - 1], q[i])
      BY <1>1
<1> HIDE DEF n, u
<1>7. u[0] = Receive(r, q[1])
      BY <1>1, <1>3, <1>5, <1>6
<1>8. u[n - 1] = r2
      BY <1>1, <1>3, <1>5 DEF n
<1>9. ASSUME NEW i \in 1..(n - 1) PROVE u[i] = Receive(u[i - 1], Tail(q)[i])
  <2>1. u[i] = tr[i + 1] /\ u[i - 1] = tr[(i + 1) - 1]
        BY <1>4, <1>5
  <2>2. tr[i + 1] = Receive(tr[(i + 1) - 1], q[i + 1])
        BY <1>4, <1>6
  <2> QED BY <1>2, <2>1, <2>2
<1> QED BY <1>2, <1>7, <1>8, <1>9 DEF Leads

\* One sequence of bytes and then another.
LEMMA LeadsConcat ==
    ASSUME NEW q \in Seq(Bytes), NEW w \in Seq(Bytes), NEW r, NEW r2, NEW r3,
           Leads(r, q, r2), Leads(r2, w, r3)
    PROVE  Leads(r, q \o w, r3)
<1>1. PICK tr : /\ tr[0] = r /\ tr[Len(q)] = r2
                /\ \A i \in 1..Len(q) : tr[i] = Receive(tr[i - 1], q[i])
      BY DEF Leads
<1>2. PICK ur : /\ ur[0] = r2 /\ ur[Len(w)] = r3
                /\ \A i \in 1..Len(w) : ur[i] = Receive(ur[i - 1], w[i])
      BY DEF Leads
<1> DEFINE n == Len(q)
           m == Len(w)
           v == [i \in 0..(n + m) |-> IF i <= n THEN tr[i] ELSE ur[i - n]]
<1>3. /\ n \in Nat /\ m \in Nat /\ Len(q \o w) = n + m
      /\ \A i \in 1..n : (q \o w)[i] = q[i]
      /\ \A i \in (n + 1)..(n + m) : (q \o w)[i] = w[i - n]
      OBVIOUS
<1>4. \A i \in 0..(n + m) : v[i] = IF i <= n THEN tr[i] ELSE ur[i - n]
      OBVIOUS
<1>5. /\ tr[0] = r /\ tr[n] = r2 /\ ur[0] = r2 /\ ur[m] = r3
      /\ \A i \in 1..n : tr[i] = Receive(tr[i - 1], q[i])
      /\ \A i \in 1..m : ur[i] = Receive(ur[i - 1], w[i])
      BY <1>1, <1>2
<1> HIDE DEF n, m, v
<1>6. v[0] = r
      BY <1>3, <1>4, <1>5
<1>7. \A i \in n..(n + m) : v[i] = ur[i - n]
  <2>1. v[n] = ur[n - n]
        BY <1>3, <1>4, <1>5
  <2> QED BY <1>3, <1>4, <2>1
<1>8. v[n + m] = r3
  <2>1. n + m \in n..(n + m) /\ (n + m) - n = m
        BY <1>3
  <2> QED BY <1>5, <1>7, <2>1
<1>9. ASSUME NEW i \in 1..(n + m) PROVE v[i] = Receive(v[i - 1], (q \o w)[i])
  <2>1. CASE i \in 1..n
    <3>1. i \in 0..(n + m) /\ i - 1 \in 0..(n + m) /\ i <= n /\ i - 1 <= n
          BY <1>3, <2>1
    <3>2. v[i] = tr[i] /\ v[i - 1] = tr[i - 1]
          BY <1>4, <3>1
    <3> QED BY <1>3, <1>5, <2>1, <3>2
  <2>2. CASE i \in (n + 1)..(n + m)
    <3>1. i \in n..(n + m) /\ i - 1 \in n..(n + m) /\ i - n \in 1..m /\ (i - 1) - n = (i - n) - 1
          BY <1>3, <2>2
    <3>2. v[i] = ur[i - n] /\ v[i - 1] = ur[(i - n) - 1]
          BY <1>7, <3>1
    <3>3. ur[i - n] = Receive(ur[(i - n) - 1], w[i - n])
          BY <1>5, <3>1
    <3> QED BY <1>3, <2>2, <3>2, <3>3
  <2> QED BY <1>3, <2>1, <2>2
<1> QED BY <1>3, <1>6, <1>8, <1>9 DEF Leads

\* A web server that has lost the thread does not find it again.
LEMMA LeadsSound ==
    ASSUME NEW q \in Seq(Bytes), NEW r, NEW r2, Leads(r, q, r2), r2.sound
    PROVE  r.sound
<1> SUFFICES ASSUME ~r.sound PROVE FALSE
    OBVIOUS
<1>1. PICK tr : /\ tr[0] = r /\ tr[Len(q)] = r2
                /\ \A i \in 1..Len(q) : tr[i] = Receive(tr[i - 1], q[i])
      BY DEF Leads
<1> DEFINE T == {i \in 0..Len(q) : tr[i] # r}
<1>2. Len(q) \in Nat
      OBVIOUS
<1>3. Len(q) \in T /\ T \subseteq Nat
      BY <1>1, <1>2
<1>4. PICK x \in T : \A y \in T : x <= y
      BY <1>3, LeastElement
<1>5. x # 0
      BY <1>1
<1>6. x \in 1..Len(q) /\ x - 1 \in 0..Len(q) /\ ~(x <= x - 1)
      BY <1>2, <1>5
<1>7. tr[x - 1] = r
      BY <1>4, <1>6
<1>8. tr[x] = Receive(r, q[x])
      BY <1>1, <1>6, <1>7
<1>9. tr[x] = r
      BY <1>8 DEF Receive
<1> QED BY <1>9

-----------------------------------------------------------------------------
(* Records and the web server.                                             *)

\* Web servers are equal when their fields are.
LEMMA SameServer ==
    ASSUME NEW r \in Servers, NEW q \in Servers,
           r.header = q.header, r.type = q.type, r.clen = q.clen, r.plen = q.plen, r.sound = q.sound,
           r.got = q.got, r.eof = q.eof, r.ended = q.ended, r.status = q.status
    PROVE  r = q
BY DEF Servers

\* A byte of a header.
LEMMA ReceiveHeader ==
    ASSUME NEW h \in Nat, h < Unit, NEW i, i = h + 1,
           NEW t \in Streams \cup {"end"}, NEW c \in Nat, NEW p \in Nat,
           NEW g \in [Streams -> Nat], NEW e \in [Streams -> BOOLEAN], NEW st \in Nat,
           NEW t0 \in Streams \cup {"none", "end"}, NEW c0 \in Nat, NEW p0 \in Nat,
           h > 0 => t0 = t /\ c0 = c /\ p0 = p, t \in Streams => ~e[t]
    PROVE  Receive(Open(h, t0, c0, p0, g, e, st), HeaderByte(t, c, p, i))
               = AfterHeader(Open(i, t, c, p, g, e, st))
<1> DEFINE r == Open(h, t0, c0, p0, g, e, st)
           b == HeaderByte(t, c, p, i)
           x == [r EXCEPT !.header = i, !.type = t, !.clen = c, !.plen = p, !.sound = TRUE]
<1>1. /\ r \in Servers
      /\ r.header = h /\ r.type = t0 /\ r.clen = c0 /\ r.plen = p0 /\ r.sound = TRUE
      /\ r.got = g /\ r.eof = e /\ r.ended = FALSE /\ r.status = st
      BY DEF Open, Servers
<1>2. b.kind = "header" /\ b.n = i /\ b.type = t /\ b.clen = c /\ b.plen = p
      BY DEF HeaderByte
<1>3. i \in Nat
      OBVIOUS
<1> HIDE DEF r, b
<1>4. RxHeader(r, b) = x
      BY <1>1, <1>2 DEF RxHeader
<1>5. x \in Servers
      BY <1>1, <1>3 DEF Servers
<1>6. /\ x.header = i /\ x.type = t /\ x.clen = c /\ x.plen = p /\ x.sound = TRUE
      /\ x.got = g /\ x.eof = e /\ x.ended = FALSE /\ x.status = st
      BY <1>1 DEF Servers
<1> HIDE DEF x
<1>7. x = Open(i, t, c, p, g, e, st)
  <2> DEFINE q == Open(i, t, c, p, g, e, st)
  <2>1. q \in Servers
        BY <1>1, <1>2, <1>3, <1>4, UnitAssumption DEF Open, Servers
  <2>2. /\ q.header = x.header /\ q.type = x.type /\ q.clen = x.clen /\ q.plen = x.plen /\ q.sound = x.sound
        /\ q.got = x.got /\ q.eof = x.eof /\ q.ended = x.ended /\ q.status = x.status
        BY <1>6 DEF Open
  <2> HIDE DEF q
  <2>3. x = q
        BY <1>5, <2>1, <2>2, SameServer
  <2> QED BY <2>3 DEF q
<1>8. Receive(r, b) = AfterHeader(x)
      BY <1>1, <1>4, <1>6 DEF Receive, AfterHeader
<1> QED BY <1>7, <1>8 DEF r, b

\* A byte of content.
LEMMA ReceiveContent ==
    ASSUME NEW s \in Streams, NEW d \in Nat, NEW c, c = d + 1, NEW p \in Nat,
           NEW g \in [Streams -> Nat], NEW e \in [Streams -> BOOLEAN], NEW st \in Nat,
           NEW k, k = g[s] + 1, NEW f, f = Plus(g, s, 1)
    PROVE  Receive(Open(Unit, s, c, p, g, e, st), Byte("data", k))
               = AfterBody(Open(Unit, s, d, p, f, e, st))
<1> DEFINE r == Open(Unit, s, c, p, g, e, st)
           b == Byte("data", k)
           x == [r EXCEPT !.clen = d, !.got = f, !.status = st, !.sound = TRUE]
<1>1. /\ r \in Servers
      /\ r.header = Unit /\ r.type = s /\ r.clen = c /\ r.plen = p /\ r.sound = TRUE
      /\ r.got = g /\ r.eof = e /\ r.ended = FALSE /\ r.status = st
      BY UnitAssumption DEF Open, Servers
<1>2. s # "end" /\ c - 1 = d /\ c \in Nat /\ f \in [Streams -> Nat]
      BY DEF Streams, Plus
<1>3. b = Byte("data", r.got[r.type] + 1)
      BY <1>1
<1>4. f = [r.got EXCEPT ![r.type] = r.got[r.type] + 1]
      BY <1>1 DEF Plus
<1> HIDE DEF r, b
<1>5. RxContent(r, b) = x
      BY <1>1, <1>2, <1>3, <1>4 DEF RxContent
<1>6. x \in Servers
      BY <1>1, <1>2 DEF Servers
<1>7. /\ x.header = Unit /\ x.type = s /\ x.clen = d /\ x.plen = p /\ x.sound = TRUE
      /\ x.got = f /\ x.eof = e /\ x.ended = FALSE /\ x.status = st
      BY <1>1 DEF Servers
<1> HIDE DEF x
<1>8. x = Open(Unit, s, d, p, f, e, st)
  <2> DEFINE q == Open(Unit, s, d, p, f, e, st)
  <2>1. q \in Servers
        BY <1>1, <1>2, <1>3, <1>4, UnitAssumption DEF Open, Servers
  <2>2. /\ q.header = x.header /\ q.type = x.type /\ q.clen = x.clen /\ q.plen = x.plen /\ q.sound = x.sound
        /\ q.got = x.got /\ q.eof = x.eof /\ q.ended = x.ended /\ q.status = x.status
        BY <1>7 DEF Open
  <2> HIDE DEF q
  <2>3. x = q
        BY <1>6, <2>1, <2>2, SameServer
  <2> QED BY <2>3 DEF q
<1>9. (r.header < Unit) = FALSE /\ (r.clen > 0) = TRUE
      BY <1>1, UnitAssumption
<1>10. Receive(r, b) = AfterBody(x)
      BY <1>1, <1>5, <1>7, <1>9 DEF Receive, AfterBody
<1> QED BY <1>8, <1>10 DEF r, b

\* A byte of padding.
LEMMA ReceivePadding ==
    ASSUME NEW s \in Streams, NEW d \in Nat, NEW p, p = d + 1,
           NEW g \in [Streams -> Nat], NEW e \in [Streams -> BOOLEAN], NEW st \in Nat
    PROVE  Receive(Open(Unit, s, 0, p, g, e, st), Byte("pad", 0))
               = AfterBody(Open(Unit, s, 0, d, g, e, st))
<1> DEFINE r == Open(Unit, s, 0, p, g, e, st)
           b == Byte("pad", 0)
           x == [r EXCEPT !.plen = d, !.sound = TRUE]
<1>1. /\ r \in Servers
      /\ r.header = Unit /\ r.type = s /\ r.clen = 0 /\ r.plen = p /\ r.sound = TRUE
      /\ r.got = g /\ r.eof = e /\ r.ended = FALSE /\ r.status = st
      BY UnitAssumption DEF Open, Servers
<1>2. b.kind = "pad" /\ p - 1 = d /\ p \in Nat
      BY DEF Byte
<1> HIDE DEF r, b
<1>3. RxPadding(r, b) = x
      BY <1>1, <1>2 DEF RxPadding
<1>4. x \in Servers
      BY <1>1, <1>2 DEF Servers
<1>5. /\ x.header = Unit /\ x.type = s /\ x.clen = 0 /\ x.plen = d /\ x.sound = TRUE
      /\ x.got = g /\ x.eof = e /\ x.ended = FALSE /\ x.status = st
      BY <1>1 DEF Servers
<1> HIDE DEF x
<1>6. x = Open(Unit, s, 0, d, g, e, st)
  <2> DEFINE q == Open(Unit, s, 0, d, g, e, st)
  <2>1. q \in Servers
        BY <1>1, <1>2, <1>3, <1>4, UnitAssumption DEF Open, Servers
  <2>2. /\ q.header = x.header /\ q.type = x.type /\ q.clen = x.clen /\ q.plen = x.plen /\ q.sound = x.sound
        /\ q.got = x.got /\ q.eof = x.eof /\ q.ended = x.ended /\ q.status = x.status
        BY <1>5 DEF Open
  <2> HIDE DEF q
  <2>3. x = q
        BY <1>4, <2>1, <2>2, SameServer
  <2> QED BY <2>3 DEF q
<1>7. (r.header < Unit) = FALSE /\ (r.clen > 0) = FALSE
      BY <1>1, UnitAssumption
<1>8. Receive(r, b) = AfterBody(x)
      BY <1>1, <1>3, <1>5, <1>7 DEF Receive, AfterBody
<1> QED BY <1>6, <1>8 DEF r, b

\* A byte of the body of FCGI_END_REQUEST.
LEMMA ReceiveStatus ==
    ASSUME NEW d \in Nat, NEW c, c = d + 1, NEW g \in [Streams -> Nat], NEW e \in [Streams -> BOOLEAN],
           NEW st0 \in Nat, NEW st \in Nat
    PROVE  Receive(Open(Unit, "end", c, 0, g, e, st0), Byte("status", st))
               = AfterBody(Open(Unit, "end", d, 0, g, e, st))
<1> DEFINE r == Open(Unit, "end", c, 0, g, e, st0)
           b == Byte("status", st)
           x == [r EXCEPT !.clen = d, !.got = g, !.status = st, !.sound = TRUE]
<1>1. /\ r \in Servers
      /\ r.header = Unit /\ r.type = "end" /\ r.clen = c /\ r.plen = 0 /\ r.sound = TRUE
      /\ r.got = g /\ r.eof = e /\ r.ended = FALSE /\ r.status = st0
      BY UnitAssumption DEF Open, Servers
<1>2. "end" \notin Streams /\ b.kind = "status" /\ b.n = st /\ c - 1 = d /\ c \in Nat
      BY DEF Streams, Byte
<1> HIDE DEF r, b
<1>3. RxContent(r, b) = x
      BY <1>1, <1>2 DEF RxContent
<1>4. x \in Servers
      BY <1>1, <1>2 DEF Servers
<1>5. /\ x.header = Unit /\ x.type = "end" /\ x.clen = d /\ x.plen = 0 /\ x.sound = TRUE
      /\ x.got = g /\ x.eof = e /\ x.ended = FALSE /\ x.status = st
      BY <1>1 DEF Servers
<1> HIDE DEF x
<1>6. x = Open(Unit, "end", d, 0, g, e, st)
  <2> DEFINE q == Open(Unit, "end", d, 0, g, e, st)
  <2>1. q \in Servers
        BY <1>1, <1>2, <1>3, <1>4, UnitAssumption DEF Open, Servers
  <2>2. /\ q.header = x.header /\ q.type = x.type /\ q.clen = x.clen /\ q.plen = x.plen /\ q.sound = x.sound
        /\ q.got = x.got /\ q.eof = x.eof /\ q.ended = x.ended /\ q.status = x.status
        BY <1>5 DEF Open
  <2> HIDE DEF q
  <2>3. x = q
        BY <1>4, <2>1, <2>2, SameServer
  <2> QED BY <2>3 DEF q
<1>7. (r.header < Unit) = FALSE /\ (r.clen > 0) = TRUE
      BY <1>1, UnitAssumption
<1>8. Receive(r, b) = AfterBody(x)
      BY <1>1, <1>3, <1>5, <1>7 DEF Receive, AfterBody
<1> QED BY <1>6, <1>8 DEF r, b

\* A record that is not complete does not take effect yet.
LEMMA RecordOpen ==
    ASSUME NEW h \in Nat, NEW t \in Streams \cup {"end"}, NEW c \in Nat, NEW p \in Nat,
           NEW g \in [Streams -> Nat], NEW e \in [Streams -> BOOLEAN], NEW st \in Nat,
           h # Unit \/ c # 0 \/ p # 0
    PROVE  /\ AfterHeader(Open(h, t, c, p, g, e, st)) = Open(h, t, c, p, g, e, st)
           /\ AfterBody(Open(h, t, c, p, g, e, st)) = Open(h, t, c, p, g, e, st)
<1> DEFINE r == Open(h, t, c, p, g, e, st)
<1>1. r.header = h /\ r.clen = c /\ r.plen = p
      BY DEF Open
<1> HIDE DEF r
<1>2. AfterHeader(r) = r /\ AfterBody(r) = r
      BY <1>1 DEF RxRecord, AfterHeader, AfterBody
<1> QED BY <1>2 DEF r

\* One that is complete does: an empty record ends its stream.
LEMMA RecordEof ==
    ASSUME NEW s \in Streams, NEW g \in [Streams -> Nat], NEW e \in [Streams -> BOOLEAN], NEW st \in Nat
    PROVE  AfterHeader(Open(Unit, s, 0, 0, g, e, st)) = Open(0, "none", 0, 0, g, Over(e, s), st)
<1> DEFINE r == Open(Unit, s, 0, 0, g, e, st)
           f == Over(e, s)
           q == Open(0, "none", 0, 0, g, f, st)
           x == [r EXCEPT !.header = 0, !.type = "none", !.eof = f, !.ended = FALSE]
<1>1. /\ r \in Servers
      /\ r.header = Unit /\ r.type = s /\ r.clen = 0 /\ r.plen = 0 /\ r.sound = TRUE
      /\ r.got = g /\ r.eof = e /\ r.ended = FALSE /\ r.status = st
      BY UnitAssumption DEF Open, Servers
<1>2. f \in [Streams -> BOOLEAN] /\ s # "end"
      BY DEF Streams, Over
<1>3. f = [r.eof EXCEPT ![r.type] = TRUE]
      BY <1>1 DEF Over
<1> HIDE DEF f
<1>4. /\ q \in Servers /\ q.header = 0 /\ q.type = "none" /\ q.clen = 0 /\ q.plen = 0 /\ q.sound = TRUE
      /\ q.got = g /\ q.eof = f /\ q.ended = FALSE /\ q.status = st
      BY <1>2 DEF Open, Servers
<1> HIDE DEF r, q
<1>5. (r.ended \/ r.type = "end") = FALSE
      BY <1>1, <1>2
<1>6. AfterHeader(r) = x
      BY <1>1, <1>3, <1>5 DEF RxRecord, AfterHeader
<1>7. x \in Servers
      BY <1>1, <1>2 DEF Servers
<1>8. /\ x.header = 0 /\ x.type = "none" /\ x.clen = 0 /\ x.plen = 0 /\ x.sound = TRUE
      /\ x.got = g /\ x.eof = f /\ x.ended = FALSE /\ x.status = st
      BY <1>1 DEF Servers
<1> HIDE DEF x
<1>9. x = q
      BY <1>4, <1>7, <1>8, SameServer
<1> QED BY <1>6, <1>9 DEF r, q, f

\* A record with content leaves its stream open.
LEMMA RecordBody ==
    ASSUME NEW s \in Streams, NEW g \in [Streams -> Nat], NEW e \in [Streams -> BOOLEAN], NEW st \in Nat
    PROVE  AfterBody(Open(Unit, s, 0, 0, g, e, st)) = Open(0, "none", 0, 0, g, e, st)
<1> DEFINE r == Open(Unit, s, 0, 0, g, e, st)
           q == Open(0, "none", 0, 0, g, e, st)
           x == [r EXCEPT !.header = 0, !.type = "none", !.eof = e, !.ended = FALSE]
<1>1. /\ r \in Servers
      /\ r.header = Unit /\ r.type = s /\ r.clen = 0 /\ r.plen = 0 /\ r.sound = TRUE
      /\ r.got = g /\ r.eof = e /\ r.ended = FALSE /\ r.status = st
      BY UnitAssumption DEF Open, Servers
<1>2. s # "end"
      BY DEF Streams
<1>3. /\ q \in Servers /\ q.header = 0 /\ q.type = "none" /\ q.clen = 0 /\ q.plen = 0 /\ q.sound = TRUE
      /\ q.got = g /\ q.eof = e /\ q.ended = FALSE /\ q.status = st
      BY DEF Open, Servers
<1> HIDE DEF r, q
<1>4. (r.ended \/ r.type = "end") = FALSE
      BY <1>1, <1>2
<1>5. AfterBody(r) = x
      BY <1>1, <1>4 DEF RxRecord, AfterBody
<1>6. x \in Servers
      BY <1>1 DEF Servers
<1>7. /\ x.header = 0 /\ x.type = "none" /\ x.clen = 0 /\ x.plen = 0 /\ x.sound = TRUE
      /\ x.got = g /\ x.eof = e /\ x.ended = FALSE /\ x.status = st
      BY <1>1 DEF Servers
<1> HIDE DEF x
<1>8. x = q
      BY <1>3, <1>6, <1>7, SameServer
<1> QED BY <1>5, <1>8 DEF r, q

\* FCGI_END_REQUEST ends the request.
LEMMA RecordEnd ==
    ASSUME NEW g \in [Streams -> Nat], NEW e \in [Streams -> BOOLEAN], NEW st \in Nat
    PROVE  AfterBody(Open(Unit, "end", 0, 0, g, e, st)) = Ended(g, e, st)
<1> DEFINE r == Open(Unit, "end", 0, 0, g, e, st)
           q == Ended(g, e, st)
           x == [r EXCEPT !.header = 0, !.type = "none", !.eof = e, !.ended = TRUE]
<1>1. /\ r \in Servers
      /\ r.header = Unit /\ r.type = "end" /\ r.clen = 0 /\ r.plen = 0 /\ r.sound = TRUE
      /\ r.got = g /\ r.eof = e /\ r.ended = FALSE /\ r.status = st
      BY UnitAssumption DEF Open, Servers
<1>2. "end" \notin Streams
      BY DEF Streams
<1>3. /\ q \in Servers /\ q.header = 0 /\ q.type = "none" /\ q.clen = 0 /\ q.plen = 0 /\ q.sound = TRUE
      /\ q.got = g /\ q.eof = e /\ q.ended = TRUE /\ q.status = st
      BY DEF Ended, Servers
<1> HIDE DEF r, q
<1>4. (r.ended \/ r.type = "end") = TRUE
      BY <1>1
<1>5. AfterBody(r) = x
      BY <1>1, <1>2, <1>4 DEF RxRecord, AfterBody
<1>6. x \in Servers
      BY <1>1 DEF Servers
<1>7. /\ x.header = 0 /\ x.type = "none" /\ x.clen = 0 /\ x.plen = 0 /\ x.sound = TRUE
      /\ x.got = g /\ x.eof = e /\ x.ended = TRUE /\ x.status = st
      BY <1>1 DEF Servers
<1> HIDE DEF x
<1>8. x = q
      BY <1>3, <1>6, <1>7, SameServer
<1> QED BY <1>5, <1>8 DEF r, q

\* A header, after which the record may already be complete.
LEMMA LeadsHeader ==
    ASSUME NEW t \in Streams \cup {"end"}, NEW c \in Nat, NEW p \in Nat,
           NEW g \in [Streams -> Nat], NEW e \in [Streams -> BOOLEAN], NEW st \in Nat,
           t \in Streams => ~e[t]
    PROVE  Leads(Open(0, "none", 0, 0, g, e, st), MakeHeader(t, c, p),
                 AfterHeader(Open(Unit, t, c, p, g, e, st)))
<1> DEFINE r == Open(0, "none", 0, 0, g, e, st)
           S(i) == Open(i, t, c, p, g, e, st)
           q == MakeHeader(t, c, p)
           tr == [i \in 0..Unit |-> IF i = 0 THEN r ELSE AfterHeader(S(i))]
<1>1. Unit \in Nat /\ Unit > 0 /\ 0 \in 0..Unit /\ Unit \in 0..Unit
      BY UnitAssumption
<1>2. Len(q) = Unit /\ \A i \in 1..Unit : q[i] = HeaderByte(t, c, p, i)
      BY <1>1 DEF MakeHeader
<1>3. \A i \in 0..Unit : tr[i] = IF i = 0 THEN r ELSE AfterHeader(S(i))
      OBVIOUS
<1> HIDE DEF tr, q
<1>4. tr[0] = r /\ tr[Unit] = AfterHeader(S(Unit))
      BY <1>1, <1>3
<1>5. ASSUME NEW i \in 1..Unit PROVE tr[i] = Receive(tr[i - 1], q[i])
  <2>1. i \in Nat /\ i \in 0..Unit /\ i # 0 /\ i - 1 \in 0..Unit /\ i - 1 \in Nat /\ i - 1 < Unit /\ (i - 1) + 1 = i
        BY <1>1
  <2>2. tr[i] = AfterHeader(S(i))
        BY <1>3, <2>1
  <2>3. CASE i = 1
    <3>1. tr[i - 1] = r /\ i - 1 = 0
          BY <1>4, <2>1, <2>3
    <3>2. Receive(r, HeaderByte(t, c, p, i)) = AfterHeader(Open(i, t, c, p, g, e, st))
      <4>1. PICK h \in Nat : h = 0
            OBVIOUS
      <4>2. PICK t0 \in Streams \cup {"none", "end"} : t0 = "none"
            OBVIOUS
      <4>3. i = h + 1 /\ h < Unit /\ ~(h > 0)
            BY <1>1, <2>3, <4>1
      <4>4. Receive(Open(h, t0, h, h, g, e, st), HeaderByte(t, c, p, i)) = AfterHeader(Open(i, t, c, p, g, e, st))
            BY <4>3, ReceiveHeader, SMTT(30)
      <4> QED BY <4>1, <4>2, <4>4
    <3> QED BY <1>2, <2>1, <2>2, <3>1, <3>2
  <2>4. CASE i # 1
    <3>1. i - 1 # 0 /\ i - 1 > 0 /\ i - 1 # Unit
          BY <1>1, <2>1, <2>4
    <3>2. tr[i - 1] = AfterHeader(S(i - 1))
          BY <1>3, <2>1, <3>1
    <3>3. PICK h \in Nat : h = i - 1
          BY <2>1
    <3>4. h < Unit /\ i = h + 1 /\ h # Unit /\ t \in Streams \cup {"none", "end"}
          BY <1>1, <2>1, <3>3
    <3>5. AfterHeader(Open(h, t, c, p, g, e, st)) = Open(h, t, c, p, g, e, st)
          BY <3>4, RecordOpen
    <3>6. Receive(Open(h, t, c, p, g, e, st), HeaderByte(t, c, p, i)) = AfterHeader(Open(i, t, c, p, g, e, st))
          BY <3>4, ReceiveHeader
    <3> QED BY <1>2, <2>1, <2>2, <3>2, <3>3, <3>5, <3>6
  <2> QED BY <2>3, <2>4
<1> QED BY <1>2, <1>4, <1>5 DEF Leads, q

\* There is more content to come.
LEMMA ContentOpen ==
    ASSUME NEW s \in Streams, NEW d \in Nat, d # 0, NEW p \in Nat,
           NEW g \in [Streams -> Nat], NEW e \in [Streams -> BOOLEAN], NEW st \in Nat
    PROVE  /\ AfterBody(Open(Unit, s, d, p, g, e, st)) = Open(Unit, s, d, p, g, e, st)
           /\ AfterHeader(Open(Unit, s, d, p, g, e, st)) = Open(Unit, s, d, p, g, e, st)
<1>1. Unit \in Nat /\ s \in Streams \cup {"end"}
      BY UnitAssumption
<1> QED BY <1>1, RecordOpen

\* Content.
LEMMA LeadsContent ==
    ASSUME NEW s \in Streams, NEW c \in Nat, c > 0, NEW p \in Nat,
           NEW g \in [Streams -> Nat], NEW e \in [Streams -> BOOLEAN], NEW st \in Nat
    PROVE  \A q \in Seq(Bytes) :
               Len(q) = c /\ (\A i \in 1..c : q[i] = Byte("data", g[s] + i)) =>
                   Leads(Open(Unit, s, c, p, g, e, st), q, AfterBody(Open(Unit, s, 0, p, Plus(g, s, c), e, st)))
<1> DEFINE G(i) == Plus(g, s, i)
           S(i) == Open(Unit, s, c - i, p, G(i), e, st)
           tr == [i \in 0..c |-> AfterBody(S(i))]
<1>1. Unit \in Nat /\ 0 \in 0..c /\ c \in 0..c /\ c - 0 = c /\ c - c = 0 /\ FALSE \in BOOLEAN /\ s \in Streams \cup {"end"}
      BY UnitAssumption
<1>2. \A i \in 0..c : tr[i] = AfterBody(S(i))
      OBVIOUS
<1>3. \A i \in 0..c : G(i) \in [Streams -> Nat] /\ G(i)[s] = g[s] + i
      BY DEF Plus
<1>4. G(0) = g
      BY DEF Plus
<1>5. \A i \in 1..c : Plus(G(i - 1), s, 1) = G(i)
      BY DEF Plus
<1> HIDE DEF tr, G
<1>6. ASSUME NEW i \in 0..c, i # c PROVE tr[i] = Open(Unit, s, c - i, p, G(i), e, st)
  <2>1. PICK d \in Nat : d = c - i
        BY <1>6
  <2>2. PICK f \in [Streams -> Nat] : f = G(i)
        BY <1>3
  <2>3. Unit \in Nat /\ d \in Nat /\ d # 0 /\ f \in [Streams -> Nat]
        BY <1>1, <1>6, <2>1, <2>2
  <2>4. AfterBody(Open(Unit, s, d, p, f, e, st)) = Open(Unit, s, d, p, f, e, st)
        BY <2>3, ContentOpen
  <2> QED BY <1>2, <2>1, <2>2, <2>4
<1>7. tr[0] = Open(Unit, s, c, p, g, e, st)
      BY <1>1, <1>4, <1>6
<1>8. tr[c] = AfterBody(Open(Unit, s, 0, p, G(c), e, st))
      BY <1>1, <1>2
<1>9. ASSUME NEW i \in 1..c PROVE tr[i] = Receive(tr[i - 1], Byte("data", g[s] + i))
  <2>1. PICK d \in Nat : d = c - i
        OBVIOUS
  <2>2. i \in 0..c /\ i - 1 \in 0..c /\ i - 1 # c /\ c - (i - 1) = d + 1
        BY <2>1
  <2>3. PICK f \in [Streams -> Nat] : f = G(i - 1)
        BY <1>3, <2>2
  <2>4. PICK f2 : f2 = G(i)
        OBVIOUS
  <2>5. PICK m : m = d + 1
        OBVIOUS
  <2>6. PICK k : k = g[s] + i
        OBVIOUS
  <2>7. d \in Nat /\ f \in [Streams -> Nat] /\ m = d + 1 /\ k = f[s] + 1 /\ f2 = Plus(f, s, 1)
        BY <1>3, <1>5, <2>1, <2>2, <2>3, <2>4, <2>5, <2>6
  <2>8. tr[i - 1] = Open(Unit, s, m, p, f, e, st)
        BY <1>6, <2>2, <2>3, <2>5
  <2>9. Receive(Open(Unit, s, m, p, f, e, st), Byte("data", k)) = AfterBody(Open(Unit, s, d, p, f2, e, st))
        BY <2>7, ReceiveContent, SMTT(60)
  <2>10. tr[i] = AfterBody(Open(Unit, s, d, p, f2, e, st))
        BY <1>2, <2>1, <2>2, <2>4
  <2> QED BY <2>6, <2>8, <2>9, <2>10
<1>10. ASSUME NEW q \in Seq(Bytes), Len(q) = c, \A i \in 1..c : q[i] = Byte("data", g[s] + i)
       PROVE  Leads(Open(Unit, s, c, p, g, e, st), q, AfterBody(Open(Unit, s, 0, p, Plus(g, s, c), e, st)))
       BY <1>7, <1>8, <1>9, <1>10 DEF Leads, G
<1> QED BY <1>10

\* Padding, after which the record is complete.
LEMMA LeadsPadding ==
    ASSUME NEW s \in Streams, NEW p \in Nat,
           NEW g \in [Streams -> Nat], NEW e \in [Streams -> BOOLEAN], NEW st \in Nat
    PROVE  Leads(AfterBody(Open(Unit, s, 0, p, g, e, st)), Padding(p),
                 Open(0, "none", 0, 0, g, e, st))
<1> DEFINE S(i) == Open(Unit, s, 0, p - i, g, e, st)
           tr == [i \in 0..p |-> AfterBody(S(i))]
           q == Padding(p)
<1>1. Unit \in Nat /\ 0 \in 0..p /\ p \in 0..p /\ p - 0 = p /\ p - p = 0 /\ s \in Streams \cup {"end"}
      BY UnitAssumption
<1>2. \A i \in 0..p : tr[i] = AfterBody(S(i))
      OBVIOUS
<1>3. Len(q) = p /\ \A i \in 1..p : q[i] = Byte("pad", 0)
      BY DEF Padding
<1> HIDE DEF tr, q
<1>4. tr[0] = AfterBody(Open(Unit, s, 0, p, g, e, st))
      BY <1>1, <1>2
<1>5. tr[p] = Open(0, "none", 0, 0, g, e, st)
  <2>1. AfterBody(Open(Unit, s, 0, 0, g, e, st)) = Open(0, "none", 0, 0, g, e, st)
        BY RecordBody
  <2> QED BY <1>1, <1>2, <2>1
<1>6. ASSUME NEW i \in 1..p PROVE tr[i] = Receive(tr[i - 1], q[i])
  <2>1. PICK d \in Nat : d = p - i
        OBVIOUS
  <2>2. PICK m \in Nat : m = d + 1
        OBVIOUS
  <2>3. i \in 0..p /\ i - 1 \in 0..p /\ p - (i - 1) = m /\ m # 0
        BY <2>1, <2>2
  <2>4. AfterBody(Open(Unit, s, 0, m, g, e, st)) = Open(Unit, s, 0, m, g, e, st)
        BY <1>1, <2>3, RecordOpen
  <2>5. tr[i - 1] = Open(Unit, s, 0, m, g, e, st)
        BY <1>2, <2>3, <2>4
  <2>6. Receive(Open(Unit, s, 0, m, g, e, st), Byte("pad", 0)) = AfterBody(Open(Unit, s, 0, d, g, e, st))
        BY <2>2, ReceivePadding
  <2>7. tr[i] = AfterBody(Open(Unit, s, 0, d, g, e, st))
        BY <1>2, <2>1, <2>3
  <2> QED BY <1>3, <2>5, <2>6, <2>7
<1> QED BY <1>3, <1>4, <1>5, <1>6 DEF Leads, q

\* The body of FCGI_END_REQUEST.
LEMMA LeadsStatus ==
    ASSUME NEW g \in [Streams -> Nat], NEW e \in [Streams -> BOOLEAN], NEW st0 \in Nat, NEW st \in Nat
    PROVE  Leads(Open(Unit, "end", Unit, 0, g, e, st0), [i \in 1..Unit |-> Byte("status", st)],
                 Ended(g, e, st))
<1> DEFINE T(i) == IF i = 0 THEN st0 ELSE st
           S(i) == Open(Unit, "end", Unit - i, 0, g, e, T(i))
           tr == [i \in 0..Unit |-> AfterBody(S(i))]
           q == [i \in 1..Unit |-> Byte("status", st)]
<1>1. /\ Unit \in Nat /\ Unit > 0 /\ Unit # 0 /\ 0 \in 0..Unit /\ Unit \in 0..Unit /\ Unit - 0 = Unit
      /\ Unit - Unit = 0 /\ "end" \in Streams \cup {"end"}
      BY UnitAssumption
<1>2. \A i \in 0..Unit : tr[i] = AfterBody(S(i))
      OBVIOUS
<1>3. Len(q) = Unit /\ \A i \in 1..Unit : q[i] = Byte("status", st)
      BY <1>1
<1>4. T(0) = st0 /\ \A i \in 0..Unit : T(i) \in Nat /\ (i > 0 => T(i) = st)
      OBVIOUS
<1> HIDE DEF tr, q, T
<1>5. ASSUME NEW i \in 0..Unit, i # Unit PROVE tr[i] = Open(Unit, "end", Unit - i, 0, g, e, T(i))
  <2>1. PICK d \in Nat : d = Unit - i
        BY <1>1, <1>5
  <2>2. PICK y \in Nat : y = T(i)
        BY <1>4
  <2>3. d # 0
        BY <1>1, <1>5, <2>1
  <2>4. PICK t \in Streams \cup {"end"} : t = "end"
        OBVIOUS
  <2>5. PICK z \in Nat : z = 0
        OBVIOUS
  <2>6. AfterBody(Open(Unit, t, d, z, g, e, y)) = Open(Unit, t, d, z, g, e, y)
        BY <2>1, <2>2, <2>4, <2>5, <1>1, <2>3, RecordOpen
  <2> QED BY <1>2, <2>1, <2>2, <2>4, <2>5, <2>6
<1>6. tr[0] = Open(Unit, "end", Unit, 0, g, e, st0)
      BY <1>1, <1>4, <1>5
<1>7. tr[Unit] = Ended(g, e, st)
  <2>1. AfterBody(Open(Unit, "end", 0, 0, g, e, st)) = Ended(g, e, st)
        BY RecordEnd
  <2>2. T(Unit) = st
        BY <1>1, <1>4
  <2> QED BY <1>1, <1>2, <2>1, <2>2
<1>8. ASSUME NEW i \in 1..Unit PROVE tr[i] = Receive(tr[i - 1], q[i])
  <2>1. PICK d \in Nat : d = Unit - i
        BY <1>1
  <2>2. PICK m \in Nat : m = d + 1
        OBVIOUS
  <2>3. i \in 0..Unit /\ i > 0 /\ i - 1 \in 0..Unit /\ i - 1 # Unit /\ Unit - (i - 1) = m
        BY <1>1, <2>1, <2>2
  <2>4. PICK y \in Nat : y = T(i - 1)
        BY <1>4, <2>3
  <2>5. T(i) = st
        BY <1>4, <2>3
  <2>6. tr[i - 1] = Open(Unit, "end", m, 0, g, e, y)
        BY <1>5, <2>3, <2>4
  <2>7. Receive(Open(Unit, "end", m, 0, g, e, y), Byte("status", st)) = AfterBody(Open(Unit, "end", d, 0, g, e, st))
        BY <2>2, ReceiveStatus
  <2>8. tr[i] = AfterBody(Open(Unit, "end", d, 0, g, e, st))
        BY <1>2, <2>1, <2>3, <2>5
  <2> QED BY <1>3, <2>6, <2>7, <2>8
<1> QED BY <1>3, <1>6, <1>7, <1>8 DEF Leads, q

\* A web server between two records of a request.
LEMMA BetweenOpen ==
    ASSUME NEW r, Between(r), ~r.ended
    PROVE  /\ r.got \in [Streams -> Nat] /\ r.eof \in [Streams -> BOOLEAN] /\ r.status \in Nat
           /\ r = Open(0, "none", 0, 0, r.got, r.eof, r.status)
<1> DEFINE q == Open(0, "none", 0, 0, r.got, r.eof, r.status)
<1>1. /\ r \in Servers /\ r.header = 0 /\ r.type = "none" /\ r.clen = 0 /\ r.plen = 0 /\ r.sound = TRUE
      /\ r.got \in [Streams -> Nat] /\ r.eof \in [Streams -> BOOLEAN] /\ r.ended = FALSE /\ r.status \in Nat
      BY DEF Between, Servers
<1>2. q \in Servers
      BY <1>1 DEF Open, Servers
<1>3. /\ q.header = 0 /\ q.type = "none" /\ q.clen = 0 /\ q.plen = 0 /\ q.sound = TRUE
      /\ q.got = r.got /\ q.eof = r.eof /\ q.ended = FALSE /\ q.status = r.status
      BY DEF Open
<1> HIDE DEF q
<1>4. r = q
      BY <1>1, <1>2, <1>3, SameServer
<1> QED BY <1>1, <1>4 DEF q

\* A record with content.
LEMMA LeadsRecord ==
    ASSUME NEW r, Between(r), ~r.ended, NEW s \in Streams, ~r.eof[s], NEW c \in Nat, c > 0, NEW p \in Nat,
           NEW q \in Seq(Bytes), Len(q) = c, \A i \in 1..c : q[i] = Byte("data", r.got[s] + i)
    PROVE  Leads(r, (MakeHeader(s, c, p) \o q) \o Padding(p),
                 Open(0, "none", 0, 0, Plus(r.got, s, c), r.eof, r.status))
<1> DEFINE g == r.got
           e == r.eof
           st == r.status
           h == MakeHeader(s, c, p)
           w == Padding(p)
           r2 == Open(Unit, s, c, p, g, e, st)
           r3 == AfterBody(Open(Unit, s, 0, p, Plus(g, s, c), e, st))
           r4 == Open(0, "none", 0, 0, Plus(g, s, c), e, st)
<1>1. g \in [Streams -> Nat] /\ e \in [Streams -> BOOLEAN] /\ st \in Nat /\ r = Open(0, "none", 0, 0, g, e, st)
      BY BetweenOpen
<1>2. ~e[s] /\ s \in Streams \cup {"end"} /\ Unit \in Nat /\ c # 0
      BY UnitAssumption
<1>3. h \in Seq(Bytes) /\ w \in Seq(Bytes)
      BY <1>2, Pieces
<1>4. \A i \in 1..c : q[i] = Byte("data", g[s] + i)
      OBVIOUS
<1>5. Plus(g, s, c) \in [Streams -> Nat]
      BY <1>1 DEF Plus
<1> HIDE DEF g, e, st
<1>6. Leads(r, h, AfterHeader(r2))
      BY <1>1, <1>2, LeadsHeader
<1>7. AfterHeader(r2) = r2
      BY <1>1, <1>2, ContentOpen
<1>8. Leads(r2, q, r3)
      BY <1>1, <1>4, LeadsContent
<1>9. Leads(r3, w, r4)
      BY <1>1, <1>5, LeadsPadding
<1> HIDE DEF h, w, r2, r3, r4
<1>10. Leads(r, h \o q, r3) /\ h \o q \in Seq(Bytes)
      BY <1>3, <1>6, <1>7, <1>8, LeadsConcat
<1>11. Leads(r, (h \o q) \o w, r4)
      BY <1>3, <1>9, <1>10, LeadsConcat
<1> QED BY <1>11 DEF h, w, r4, g, e, st

\* The empty record that ends a stream.
LEMMA LeadsEof ==
    ASSUME NEW r, Between(r), ~r.ended, NEW s \in Streams, ~r.eof[s]
    PROVE  Leads(r, MakeHeader(s, 0, 0), Open(0, "none", 0, 0, r.got, Over(r.eof, s), r.status))
<1> DEFINE g == r.got
           e == r.eof
           st == r.status
<1>1. g \in [Streams -> Nat] /\ e \in [Streams -> BOOLEAN] /\ st \in Nat /\ r = Open(0, "none", 0, 0, g, e, st)
      BY BetweenOpen
<1>2. ~e[s] /\ s \in Streams \cup {"end"}
      OBVIOUS
<1> HIDE DEF g, e, st
<1>3. Leads(r, MakeHeader(s, 0, 0), AfterHeader(Open(Unit, s, 0, 0, g, e, st)))
  <2>1. PICK z \in Nat : z = 0
        OBVIOUS
  <2>2. Leads(r, MakeHeader(s, z, z), AfterHeader(Open(Unit, s, z, z, g, e, st)))
        BY <1>1, <1>2, <2>1, LeadsHeader
  <2> QED BY <2>1, <2>2
<1>4. AfterHeader(Open(Unit, s, 0, 0, g, e, st)) = Open(0, "none", 0, 0, g, Over(e, s), st)
      BY <1>1, RecordEof
<1> QED BY <1>3, <1>4 DEF g, e, st

\* FCGI_END_REQUEST.
LEMMA LeadsEnd ==
    ASSUME NEW r, Between(r), ~r.ended, NEW st \in Nat
    PROVE  Leads(r, EndRequestRecord(st), Ended(r.got, r.eof, st))
<1> DEFINE g == r.got
           e == r.eof
           st0 == r.status
           h == MakeHeader("end", Unit, 0)
           w == [i \in 1..Unit |-> Byte("status", st)]
           r2 == Open(Unit, "end", Unit, 0, g, e, st0)
           r3 == Ended(g, e, st)
<1>1. g \in [Streams -> Nat] /\ e \in [Streams -> BOOLEAN] /\ st0 \in Nat /\ r = Open(0, "none", 0, 0, g, e, st0)
      BY BetweenOpen
<1> HIDE DEF g, e, st0
<1>2. PICK t \in Streams \cup {"end"} : t = "end"
      OBVIOUS
<1>3. PICK z \in Nat : z = 0
      OBVIOUS
<1>4. t \notin Streams /\ Unit \in Nat /\ Unit # 0
      BY <1>2, UnitAssumption DEF Streams
<1>5. Leads(r, h, AfterHeader(r2))
  <2>1. Leads(r, MakeHeader(t, Unit, z), AfterHeader(Open(Unit, t, Unit, z, g, e, st0)))
        BY <1>1, <1>2, <1>3, <1>4, LeadsHeader
  <2> QED BY <1>2, <1>3, <2>1
<1>6. AfterHeader(r2) = r2
  <2>1. AfterHeader(Open(Unit, t, Unit, z, g, e, st0)) = Open(Unit, t, Unit, z, g, e, st0)
        BY <1>1, <1>2, <1>3, <1>4, RecordOpen
  <2> QED BY <1>2, <1>3, <2>1
<1>7. Leads(r2, w, r3)
      BY <1>1, LeadsStatus
<1>8. h \in Seq(Bytes) /\ w \in Seq(Bytes)
  <2>1. h \in Seq(Bytes)
        BY <1>2, <1>3, <1>4, Pieces
  <2>2. Byte("status", st) \in Bytes
        BY DEF Byte, Bytes, Kinds
  <2> QED BY <1>4, <2>1, <2>2
<1> HIDE DEF h, w, r2, r3
<1>9. Leads(r, h \o w, r3)
      BY <1>5, <1>6, <1>7, <1>8, LeadsConcat
<1> QED BY <1>9 DEF EndRequestRecord, h, w, r3, g, e

\* A stream goes on, or ends, between two records.
LEMMA PlusBetween ==
    ASSUME NEW r, Between(r), ~r.ended, NEW s \in Streams, NEW n \in Nat,
           NEW r2, r2 = Open(0, "none", 0, 0, Plus(r.got, s, n), r.eof, r.status)
    PROVE  Between(r2) /\ r2.got = Plus(r.got, s, n) /\ r2.eof = r.eof /\ ~r2.ended
<1> DEFINE f == Plus(r.got, s, n)
<1>1. r.got \in [Streams -> Nat] /\ r.eof \in [Streams -> BOOLEAN] /\ r.status \in Nat
      BY BetweenOpen
<1>2. f \in [Streams -> Nat]
      BY <1>1 DEF Plus
<1>3. r2 = Open(0, "none", 0, 0, f, r.eof, r.status)
      OBVIOUS
<1> HIDE DEF f
<1>4. /\ r2.header = 0 /\ r2.type = "none" /\ r2.clen = 0 /\ r2.plen = 0 /\ r2.sound = TRUE
      /\ r2.got = f /\ r2.eof = r.eof /\ r2.ended = FALSE
      BY <1>3 DEF Open
<1>5. r2 \in Servers
      BY <1>1, <1>2, <1>3 DEF Open, Servers
<1> QED BY <1>4, <1>5 DEF Between, f

\* The web server after the empty record that ends a stream.
LEMMA OverBetween ==
    ASSUME NEW r, Between(r), ~r.ended, NEW s \in Streams,
           NEW r2, r2 = Open(0, "none", 0, 0, r.got, Over(r.eof, s), r.status)
    PROVE  Between(r2) /\ r2.got = r.got /\ r2.eof = Over(r.eof, s) /\ ~r2.ended
<1> DEFINE f == Over(r.eof, s)
<1>1. r.got \in [Streams -> Nat] /\ r.eof \in [Streams -> BOOLEAN] /\ r.status \in Nat
      BY BetweenOpen
<1>2. f \in [Streams -> BOOLEAN]
      BY <1>1 DEF Over
<1>3. r2 = Open(0, "none", 0, 0, r.got, f, r.status)
      OBVIOUS
<1> HIDE DEF f
<1>4. /\ r2.header = 0 /\ r2.type = "none" /\ r2.clen = 0 /\ r2.plen = 0 /\ r2.sound = TRUE
      /\ r2.got = r.got /\ r2.eof = f /\ r2.ended = FALSE
      BY <1>3 DEF Open
<1>5. r2 \in Servers
      BY <1>1, <1>2, <1>3 DEF Open, Servers
<1> QED BY <1>4, <1>5 DEF Between, f

\* FCGI_END_REQUEST ends it.
LEMMA EndedBetween ==
    ASSUME NEW r, Between(r), ~r.ended, NEW st \in Nat, NEW r2, r2 = Ended(r.got, r.eof, st)
    PROVE  Between(r2) /\ r2.got = r.got /\ r2.eof = r.eof /\ r2.ended
<1>1. r.got \in [Streams -> Nat] /\ r.eof \in [Streams -> BOOLEAN]
      BY BetweenOpen
<1>2. /\ r2.header = 0 /\ r2.type = "none" /\ r2.clen = 0 /\ r2.plen = 0 /\ r2.sound = TRUE
      /\ r2.got = r.got /\ r2.eof = r.eof /\ r2.ended = TRUE
      BY DEF Ended
<1>3. r2 \in Servers
      BY <1>1 DEF Ended, Servers
<1> QED BY <1>2, <1>3 DEF Between

\* A record has its header.
LEMMA NotEmpty ==
    ASSUME NEW h \in Seq(Bytes), NEW q \in Seq(Bytes), NEW w \in Seq(Bytes), Len(h) > 0
    PROVE  (h \o q) \o w # <<>>
<1> DEFINE x == h \o q
<1>1. x \in Seq(Bytes) /\ Len(x) = Len(h) + Len(q) /\ Len(h) \in Nat /\ Len(q) \in Nat
      OBVIOUS
<1> HIDE DEF x
<1>2. Len(x \o w) = Len(x) + Len(w) /\ Len(w) \in Nat
  <2>1. x \in Seq(Bytes)
        BY <1>1
  <2> QED BY <2>1
<1>3. Len(x \o w) # 0
      BY <1>1, <1>2
<1> QED BY <1>2, <1>3 DEF x

\* What EmptyBuffProc makes of a buffer takes the web server to all that has been put.
LEMMA LeadsEncapsulated ==
    ASSUME TypeOK, BufferFits, NEW s \in Streams, ~rawWrite[s],
           NEW r, Between(r), ~r.ended, ~r.eof[s], Holding(s, r.got[s])
    PROVE  /\ \E r2 : /\ Leads(r, Encapsulated(s), r2) /\ Between(r2) /\ ~r2.ended /\ r2.eof = r.eof
                      /\ \A t \in Streams : r2.got[t] = IF t = s THEN put[s] ELSE r.got[t]
           /\ Encapsulated(s) = <<>> => r.got[s] = put[s]
<1> DEFINE g == r.got
           n == g[s]
           cLen == Len(buf[s]) - Unit
           eLen == AlignInt8(cLen)
<1>1. g \in [Streams -> Nat] /\ r.eof \in [Streams -> BOOLEAN] /\ r.status \in Nat
      BY BetweenOpen
<1>2. buf[s] \in Seq(Bytes) /\ put[s] \in Nat /\ Len(buf[s]) \in Nat /\ Len(buf[s]) <= Size(s) /\ Unit \in Nat /\ Unit > 0
      BY UnitAssumption DEF TypeOK, BufferFits
<1>3. /\ n \in Nat /\ n <= put[s] /\ Len(buf[s]) = Unit + (put[s] - n)
      /\ \A i \in 1..(put[s] - n) : buf[s][Unit + i] = Byte("data", n + i)
      BY <1>1 DEF Holding, Holds
<1>4. cLen = put[s] - n /\ cLen \in Nat
      BY <1>2, <1>3
<1>5. CASE cLen > 0
  <2>1. Encapsulated(s) = (MakeHeader(s, cLen, eLen - cLen) \o SubSeq(buf[s], Unit + 1, Len(buf[s])))
                              \o Padding(eLen - cLen)
        BY <1>5 DEF Encapsulated
  <2>2. BuffUnits[s] - 1 \in Nat /\ cLen <= (BuffUnits[s] - 1) * Unit
        BY <1>2, <1>4, Sizes
  <2> HIDE DEF cLen
  <2>3. eLen \in Nat /\ cLen <= eLen
        BY <1>4, <2>2, Align
  <2> HIDE DEF eLen
  <2>4. PICK p \in Nat : p = eLen - cLen
        BY <1>4, <2>3
  <2> DEFINE q == SubSeq(buf[s], Unit + 1, Len(buf[s]))
             h == MakeHeader(s, cLen, p)
             w == Padding(p)
             r2 == Open(0, "none", 0, 0, Plus(g, s, cLen), r.eof, r.status)
  <2>5. q \in Seq(Bytes) /\ Len(q) = cLen /\ \A i \in 1..cLen : q[i] = buf[s][Unit + i]
        BY <1>2, <1>3, <1>4
  <2>6. \A i \in 1..cLen : q[i] = Byte("data", n + i)
        BY <1>3, <1>4, <2>5
  <2>7. Encapsulated(s) = (h \o q) \o w
        BY <2>1, <2>4
  <2> HIDE DEF q
  <2>8. Leads(r, (h \o q) \o w, r2)
        BY <1>4, <1>5, <2>4, <2>5, <2>6, LeadsRecord
  <2>9. Plus(g, s, cLen) \in [Streams -> Nat] /\ \A t \in Streams : Plus(g, s, cLen)[t] = IF t = s THEN put[s] ELSE g[t]
        BY <1>1, <1>2, <1>3, <1>4 DEF Plus
  <2>10. Between(r2) /\ r2.got = Plus(g, s, cLen) /\ r2.eof = r.eof /\ ~r2.ended
        BY <1>4, PlusBetween
  <2>11. Encapsulated(s) # <<>>
    <3>1. h \in Seq(Bytes) /\ Len(h) = Unit /\ w \in Seq(Bytes)
          BY <1>4, <2>4, Pieces
    <3> HIDE DEF h, w
    <3>2. Len(h) > 0
          BY <1>2, <3>1
    <3> QED BY <2>5, <2>7, <3>1, <3>2, NotEmpty
  <2> HIDE DEF r2
  <2>12. Leads(r, Encapsulated(s), r2)
        BY <2>7, <2>8
  <2> QED BY <2>9, <2>10, <2>11, <2>12
<1>6. CASE ~(cLen > 0)
  <2>1. Encapsulated(s) = <<>>
        BY <1>6 DEF Encapsulated
  <2>2. n = put[s]
    <3> HIDE DEF cLen, n
    <3>1. cLen = 0
          BY <1>4, <1>6
    <3> QED BY <1>2, <1>3, <1>4, <3>1
  <2>3. Leads(r, <<>>, r)
        BY LeadsNone
  <2>4. \A t \in Streams : r.got[t] = IF t = s THEN put[s] ELSE r.got[t]
        BY <2>2
  <2> QED BY <2>1, <2>2, <2>3, <2>4
<1> QED BY <1>5, <1>6

-----------------------------------------------------------------------------
(* What the web server can expect.                                         *)

\* Steps that leave the streams that are open as they are.
LEMMA ExpectedFrame ==
    ASSUME NEW r, Expected(r), UNCHANGED <<nWriters, rawWrite, put>>,
           \A s \in Streams : isAnythingWritten[s] => isAnythingWritten'[s],
           \A s \in Streams : ~rawWrite[s] => buf'[s] = buf[s],
           \A s \in Streams : ~rawWrite[s] => ((pc = "write" /\ s = cur) <=> (pc' = "write" /\ s = cur'))
    PROVE  Expected(r)'
<1>1. Between(r) /\ (r.ended <=> nWriters' = 0)
      BY DEF Expected
<1>2. ASSUME NEW s \in Streams, rawWrite[s]
      PROVE  r.got[s] = put'[s] /\ (r.eof[s] \/ (s = "err" /\ put'[s] = 0))
      BY <1>2 DEF Expected
<1>3. ASSUME NEW s \in Streams, ~rawWrite[s]
      PROVE  /\ ~r.eof[s] /\ (r.got[s] > 0 => isAnythingWritten'[s])
             /\ IF pc' = "write" /\ s = cur' THEN r.got[s] = put'[s] ELSE Holding(s, r.got[s])'
  <2>1. ~r.eof[s] /\ (r.got[s] > 0 => isAnythingWritten'[s])
        BY <1>3 DEF Expected
  <2>2. CASE pc = "write" /\ s = cur
        BY <1>3, <2>2 DEF Expected
  <2>3. CASE ~(pc = "write" /\ s = cur)
    <3>1. Holding(s, r.got[s])
          BY <1>3, <2>3 DEF Expected
    <3>2. Holding(s, r.got[s])'
          BY <1>3, <3>1 DEF Holding
    <3>3. ~(pc' = "write" /\ s = cur')
          BY <1>3, <2>3
    <3> QED BY <2>1, <3>2, <3>3
  <2> QED BY <2>1, <2>2, <2>3
<1>4. Between(r)'
      BY <1>1 DEF Between, Servers
<1> QED BY <1>1, <1>2, <1>3, <1>4 DEF Expected

\* Between two calls nothing is certain to be sent.
LEMMA PendingNone ==
    /\ pc # "write" /\ ~Closing => Pending = <<>>
    /\ pc \in {"app", "finishOut", "finishFree"} /\ Bounds /\ Control => ~Closing /\ Pending = <<>>
<1>1. <<>> \o <<>> = <<>>
      OBVIOUS
<1>2. pc # "write" /\ ~Closing => Pending = <<>>
      BY <1>1 DEF Pending
<1>3. pc \in {"app", "finishOut", "finishFree"} /\ Bounds /\ Control => ~Closing
      BY AllAtRest DEF Closing, Bounds, TypeOK
<1> QED BY <1>2, <1>3

\* A byte is sent.
LEMMA PendingTail ==
    ASSUME NEW b \in Seq(Bytes), NEW t \in Seq(Bytes), NEW w \in Nat, w < Len(b)
    PROVE  LET q == SubSeq(b, w + 1, Len(b)) \o t
           IN  q \in Seq(Bytes) /\ q # <<>> /\ q[1] = b[w + 1] /\ Tail(q) = SubSeq(b, (w + 1) + 1, Len(b)) \o t
<1> DEFINE u == SubSeq(b, w + 1, Len(b))
           v == SubSeq(b, (w + 1) + 1, Len(b))
<1>1. Len(b) \in Nat /\ u \in Seq(Bytes) /\ Len(u) = Len(b) - w /\ u[1] = b[w + 1] /\ \A i \in 1..Len(u) : u[i] = b[w + i]
  <2>1. Len(b) \in Nat /\ u \in Seq(Bytes)
        OBVIOUS
  <2>2. Len(u) = Len(b) - w
        OBVIOUS
  <2>3. \A i \in 1..(Len(b) - w) : u[i] = b[w + i]
        OBVIOUS
  <2>4. 1 \in 1..(Len(b) - w)
        BY <2>1
  <2> QED BY <2>1, <2>2, <2>3, <2>4
<1>2. v \in Seq(Bytes) /\ Len(v) = Len(u) - 1 /\ \A i \in 1..Len(v) : v[i] = u[i + 1]
      BY <1>1
<1>3. Len(u) \in Nat /\ Len(u) > 0
      BY <1>1
<1> HIDE DEF u, v
<1>4. u \o t \in Seq(Bytes) /\ Len(u \o t) = Len(u) + Len(t) /\ Len(t) \in Nat
  <2>1. u \in Seq(Bytes)
        BY <1>1
  <2> QED BY <2>1
<1>5. u \o t # <<>>
      BY <1>3, <1>4
<1>6. (u \o t)[1] = u[1]
      BY <1>1, <1>3
<1>7. Tail(u \o t) = v \o t
  <2>1. Tail(u \o t) \in Seq(Bytes) /\ Len(Tail(u \o t)) = Len(u) + Len(t) - 1
        BY <1>3, <1>4
  <2>2. v \o t \in Seq(Bytes) /\ Len(v \o t) = Len(u) + Len(t) - 1
    <3>1. v \in Seq(Bytes)
          BY <1>2
    <3>2. v \o t \in Seq(Bytes) /\ Len(v \o t) = Len(v) + Len(t)
          BY <3>1
    <3> QED BY <1>2, <1>3, <1>4, <3>2
  <2>3. ASSUME NEW i \in 1..(Len(u) + Len(t) - 1) PROVE Tail(u \o t)[i] = (v \o t)[i]
    <3>1. Tail(u \o t)[i] = (u \o t)[i + 1]
          BY <1>3, <1>4
    <3>2. u \in Seq(Bytes) /\ v \in Seq(Bytes) /\ Len(t) \in Nat /\ Len(u) \in Nat /\ Len(v) = Len(u) - 1 /\ Len(u) > 0
          BY <1>1, <1>2, <1>3
    <3>3. CASE i <= Len(v)
      <4>1. i \in 1..Len(v) /\ i + 1 \in 1..Len(u)
            BY <3>2, <3>3
      <4>2. (u \o t)[i + 1] = u[i + 1] /\ (v \o t)[i] = v[i]
            BY <3>2, <4>1
      <4> QED BY <1>2, <3>1, <4>1, <4>2
    <3>4. CASE i > Len(v)
      <4>1. i - Len(v) \in 1..Len(t) /\ (i + 1) - Len(u) = i - Len(v)
            BY <3>2, <3>4
      <4>2. (u \o t)[i + 1] = t[(i + 1) - Len(u)]
            BY <3>2, <3>4
      <4>3. (v \o t)[i] = t[i - Len(v)]
            BY <3>2, <3>4
      <4> QED BY <3>1, <4>1, <4>2, <4>3
    <3> QED BY <3>2, <3>3, <3>4
  <2> QED BY <2>1, <2>2, <2>3
<1> QED BY <1>1, <1>4, <1>5, <1>6, <1>7 DEF u, v

\* Three sequences of bytes.
LEMMA ThreeParts ==
    ASSUME NEW u \in Seq(Bytes), NEW v \in Seq(Bytes), NEW w \in Seq(Bytes)
    PROVE  (u \o v) \o w = u \o (v \o w)
BY ConcatAssociative, SMTT(30)

\* Sequences of bytes that are sent in two parts.
LEMMA Parts ==
    ASSUME NEW b \in Seq(Bytes), NEW q \in Seq(Bytes)
    PROVE  /\ SubSeq(b, 0 + 1, Len(b)) = b /\ SubSeq(b, Len(b) + 1, Len(b)) = <<>>
           /\ <<>> \o b = b /\ b \o <<>> = b
           /\ \A m \in 0..Len(q) : (b \o SubSeq(q, 1, m)) \o SubSeq(q, m + 1, Len(q)) = b \o q
<1>1. SubSeq(b, 0 + 1, Len(b)) = b
      OBVIOUS
<1>2. SubSeq(b, Len(b) + 1, Len(b)) = <<>>
      OBVIOUS
<1>3. <<>> \o b = b /\ b \o <<>> = b
      OBVIOUS
<1>4. ASSUME NEW m \in 0..Len(q)
      PROVE  (b \o SubSeq(q, 1, m)) \o SubSeq(q, m + 1, Len(q)) = b \o q
  <2> DEFINE u == SubSeq(q, 1, m)
             v == SubSeq(q, m + 1, Len(q))
  <2>1. u \in Seq(Bytes) /\ v \in Seq(Bytes)
        OBVIOUS
  <2>2. u \o v = q
    <3>1. PICK n : n = Len(q)
          OBVIOUS
    <3>2. PICK k : k = 1
          OBVIOUS
    <3>3. k \in 1..Len(q) + 1 /\ m \in k - 1 .. Len(q) /\ n \in m..Len(q)
          BY <3>1, <3>2
    <3>4. SubSeq(q, k, m) \o SubSeq(q, m + 1, n) = SubSeq(q, k, n)
          BY <3>3, ConcatAdjacentSubSeq
    <3>5. SubSeq(q, 1, Len(q)) = q
          BY SubSeqFull
    <3> QED BY <3>1, <3>2, <3>4, <3>5
  <2> HIDE DEF u, v
  <2>3. (b \o u) \o v = b \o (u \o v)
        BY <2>1, ThreeParts
  <2>4. (b \o u) \o v = b \o q
        BY <2>2, <2>3
  <2> QED BY <2>4 DEF u, v
<1> QED BY <1>1, <1>2, <1>3, <1>4

\* write_it_all sends a byte.
LEMMA SendingWriteByte == ASSUME Bounds, Control, Sending, Write_Byte PROVE Sending'
<1> SUFFICES ASSUME ~writeFailed' PROVE \E r : Expected(r)' /\ Leads(rx', Pending', r)
    BY DEF Sending
<1>1. /\ pc = "write" /\ wrote < Len(buf[cur]) /\ rx' = Receive(rx, buf[cur][wrote + 1]) /\ wrote' = wrote + 1
      /\ UNCHANGED <<nWriters, buf, rawWrite, isAnythingWritten, wasFCloseCalled, pc, cur, todo, put, writeFailed>>
      BY DEF Write_Byte, request, streams
<1>2. PICK r : Expected(r) /\ Leads(rx, Pending, r)
      BY <1>1 DEF Sending
<1>3. Expected(r)'
      BY <1>1, <1>2, ExpectedFrame
<1> DEFINE t == IF Closing THEN todo ELSE <<>>
           b == buf[cur]
<1>4. b \in Seq(Bytes) /\ t \in Seq(Bytes) /\ wrote \in Nat
      BY DEF Bounds, TypeOK
<1>5. Pending = SubSeq(b, wrote + 1, Len(b)) \o t
      BY <1>1 DEF Pending
<1>6. Pending' = SubSeq(b, (wrote + 1) + 1, Len(b)) \o t
  <2>1. Closing' <=> Closing
        BY <1>1 DEF Closing
  <2> QED BY <1>1, <2>1 DEF Pending
<1>7. wrote < Len(b) /\ rx' = Receive(rx, b[wrote + 1])
      BY <1>1
<1> HIDE DEF t, b
<1>8. Pending \in Seq(Bytes) /\ Pending # <<>> /\ Pending[1] = b[wrote + 1] /\ Tail(Pending) = Pending'
      BY <1>4, <1>5, <1>6, <1>7, PendingTail
<1>9. Leads(Receive(rx, Pending[1]), Tail(Pending), r)
      BY <1>2, <1>8, LeadsTail
<1> QED BY <1>3, <1>7, <1>8, <1>9

\* It has sent them all.
LEMMA SendingWriteDone == ASSUME Bounds, Control, Sending, Write_Done PROVE Sending'
<1> SUFFICES ASSUME ~writeFailed' PROVE \E r : Expected(r)' /\ Leads(rx', Pending', r)
    BY DEF Sending
<1>1. /\ pc = "write" /\ wrote = Len(buf[cur]) /\ pc' = ret.write
      /\ buf' = [buf EXCEPT ![cur] = IF rawWrite[cur] THEN <<>> ELSE Reserved]
      /\ UNCHANGED <<nWriters, rawWrite, isAnythingWritten, wasFCloseCalled, cur, todo, put, writeFailed, rx>>
      BY DEF Write_Done, request
<1>2. PICK r : Expected(r) /\ Leads(rx, Pending, r)
      BY <1>1 DEF Sending
<1>3. /\ cur \in Streams /\ buf[cur] \in Seq(Bytes) /\ todo \in Seq(Bytes) /\ pc' # "write"
      /\ buf \in [Streams -> Seq(Bytes)] /\ put[cur] \in Nat
      BY <1>1 DEF Bounds, TypeOK
<1>4. Closing' <=> Closing
      BY <1>1 DEF Closing
<1>5. SubSeq(buf[cur], wrote + 1, Len(buf[cur])) = <<>>
      BY <1>1, <1>3, Parts
<1>6. CASE rawWrite[cur]
  <2>1. Closing
        BY <1>1, <1>6 DEF Control, Returns
  <2>2. Pending = <<>> \o todo
        BY <1>1, <1>5, <2>1 DEF Pending
  <2>3. buf'[cur'] = <<>>
        BY <1>1, <1>3, <1>6
  <2>4. Pending' = <<>> \o todo
        BY <1>1, <1>3, <1>4, <2>1, <2>3 DEF Pending
  <2>5. \A s \in Streams : ~rawWrite[s] => buf'[s] = buf[s] /\ s # cur
        BY <1>1, <1>3, <1>6
  <2>6. Expected(r)'
        BY <1>1, <1>2, <2>5, ExpectedFrame
  <2> QED BY <1>1, <1>2, <2>2, <2>4, <2>6
<1>7. CASE ~rawWrite[cur]
  <2>1. ~Closing
        BY <1>7 DEF Closing
  <2>2. Pending = <<>> \o <<>>
        BY <1>1, <1>5, <2>1 DEF Pending
  <2>3. Pending = <<>> /\ Pending' = <<>>
        BY <1>3, <1>4, <2>1, <2>2, PendingNone DEF Pending
  <2>4. buf'[cur] = Reserved /\ Len(Reserved) = Unit /\ \A s \in Streams : s # cur => buf'[s] = buf[s]
        BY <1>1, <1>3, <1>7, Pieces
  <2>5. r.got[cur] = put[cur]
        BY <1>1, <1>2, <1>3, <1>7 DEF Expected
  <2>6. Holding(cur, r.got[cur])'
    <3>1. put[cur] - put[cur] = 0 /\ Unit + 0 = Unit /\ put[cur] <= put[cur] /\ 1..0 = {}
          BY <1>3, UnitAssumption
    <3> QED BY <1>1, <2>4, <2>5, <3>1 DEF Holding, Holds
  <2>7. ASSUME NEW s \in Streams
        PROVE  IF rawWrite'[s] THEN r.got[s] = put'[s] /\ (r.eof[s] \/ (s = "err" /\ put'[s] = 0))
               ELSE ~r.eof[s] /\ (r.got[s] > 0 => isAnythingWritten'[s]) /\ Holding(s, r.got[s])'
    <3>1. CASE s = cur
          BY <1>1, <1>2, <1>7, <2>6, <3>1 DEF Expected
    <3>2. CASE s # cur /\ rawWrite[s]
          BY <1>1, <1>2, <3>2 DEF Expected
    <3>3. CASE s # cur /\ ~rawWrite[s]
      <4>1. Holding(s, r.got[s]) /\ ~r.eof[s] /\ (r.got[s] > 0 => isAnythingWritten[s])
            BY <1>2, <3>3 DEF Expected
      <4>2. Holding(s, r.got[s])'
            BY <1>1, <2>4, <3>3, <4>1 DEF Holding
      <4> QED BY <1>1, <3>3, <4>1, <4>2
    <3> QED BY <3>1, <3>2, <3>3
  <2>8. Between(r)' /\ (r.ended <=> nWriters' = 0)
        BY <1>1, <1>2 DEF Expected, Between, Servers
  <2>9. Expected(r)'
        BY <1>3, <2>7, <2>8 DEF Expected
  <2> QED BY <1>1, <1>2, <2>3, <2>9
<1> QED BY <1>6, <1>7

\* What is moved to the buffer of a stream follows the content that it holds.
LEMMA HoldingMore ==
    ASSUME NEW b \in Seq(Bytes), NEW q \in Seq(Bytes), NEW m \in 0..Len(q), NEW g \in Nat, NEW n \in Nat,
           Holds(b, g, n), Follows(q, n)
    PROVE  Holds(b \o SubSeq(q, 1, m), g, n + m)
<1> DEFINE u == SubSeq(q, 1, m)
           x == b \o u
<1>1. u \in Seq(Bytes) /\ Len(u) = m /\ m \in Nat /\ (\A i \in 1..m : u[i] = q[i]) /\ Unit \in Nat
      BY UnitAssumption
<1> HIDE DEF u
<1>2. /\ Len(x) = Len(b) + Len(u) /\ Len(b) \in Nat
      /\ \A i \in 1..Len(b) : x[i] = b[i]
      /\ \A i \in 1..Len(u) : x[Len(b) + i] = u[i]
  <2>1. u \in Seq(Bytes)
        BY <1>1
  <2> QED BY <2>1, TwoParts
<1> HIDE DEF x
<1>3. g <= n /\ Len(b) = Unit + (n - g)
      BY DEF Holds
<1>4. Len(x) = Unit + ((n + m) - g) /\ g <= n + m
      BY <1>1, <1>2, <1>3
<1>5. ASSUME NEW i \in 1..((n + m) - g) PROVE x[Unit + i] = Byte("data", g + i)
  <2>1. CASE i <= n - g
    <3>1. Unit + i \in 1..Len(b) /\ i \in 1..(n - g)
          BY <1>1, <1>3, <2>1
    <3>2. x[Unit + i] = b[Unit + i]
          BY <1>2, <3>1
    <3>3. b[Unit + i] = Byte("data", g + i)
          BY <3>1 DEF Holds
    <3> QED BY <3>2, <3>3
  <2>2. CASE i > n - g
    <3>1. PICK j \in Nat : j = i - (n - g)
          BY <1>3, <2>2
    <3>2. j \in 1..m /\ j \in 1..Len(q) /\ n + j = g + i /\ Unit + i = Len(b) + j /\ j \in 1..Len(u)
          BY <1>1, <1>3, <2>2, <3>1
    <3>3. x[Len(b) + j] = u[j]
          BY <1>2, <3>2
    <3>4. u[j] = q[j]
          BY <1>1, <3>2
    <3>5. q[j] = Byte("data", n + j)
          BY <3>2 DEF Follows
    <3> QED BY <3>2, <3>3, <3>4, <3>5
  <2> QED BY <1>1, <1>3, <2>1, <2>2
<1>6. Holds(x, g, n + m)
      BY <1>4, <1>5 DEF Holds
<1> QED BY <1>6 DEF x, u

\* FCGX_PutStr moves bytes to the buffer.
LEMMA SendingPut ==
    ASSUME Bounds, Control, Errors, Todo, Sending, Put_Done \/ Put_Closed \/ Put_Full
    PROVE  Sending'
<1> SUFFICES ASSUME ~writeFailed' PROVE \E r : Expected(r)' /\ Leads(rx', Pending', r)
    BY DEF Sending
<1> DEFINE m == Moved
           b == buf[cur]
           u == SubSeq(todo, 1, m)
<1>1. /\ pc = "put" /\ buf' = [buf EXCEPT ![cur] = b \o u]
      /\ put' = IF ret.put = "app" THEN [put EXCEPT ![cur] = put[cur] + m] ELSE put
      /\ UNCHANGED <<nWriters, rawWrite, isAnythingWritten, wasFCloseCalled, cur, writeFailed, rx>>
  <2>1. CASE Put_Done
    <3>1. m = Len(todo) => u = todo
          BY PutParts
    <3> QED BY <2>1, <3>1 DEF Put_Done, request
  <2>2. CASE Put_Closed
        BY <2>2 DEF Put_Closed, request
  <2>3. CASE Put_Full
        BY <2>3 DEF Put_Full, request
  <2> QED BY <2>1, <2>2, <2>3
<1>2. pc' \in {"app", "closeEnd", "closeWrite", "empty"}
      BY DEF Put_Done, Put_Closed, Put_Full, Bounds, TypeOK
<1>3. Put_Done \/ Put_Full => todo' = SubSeq(todo, m + 1, Len(todo))
  <2>1. CASE Put_Done
    <3>1. m = Len(todo) /\ todo' = <<>> /\ todo \in Seq(Bytes)
          BY <2>1 DEF Put_Done, Bounds, TypeOK
    <3> HIDE DEF m
    <3> QED BY <3>1, Parts
  <2>2. CASE Put_Full
        BY <2>2 DEF Put_Full
  <2> QED BY <2>1, <2>2
<1>4. /\ m \in Nat /\ m <= Len(todo) /\ m \in 0..Len(todo) /\ todo \in Seq(Bytes) /\ b \in Seq(Bytes) /\ cur \in Streams
      /\ put \in [Streams -> Nat] /\ buf \in [Streams -> Seq(Bytes)] /\ (wasFCloseCalled[cur] => m = 0)
  <2>1. m \in Nat /\ m <= Len(todo) /\ (wasFCloseCalled[cur] => m = 0)
        BY MovedBounds DEF Bounds
  <2> HIDE DEF m
  <2>2. todo \in Seq(Bytes) /\ b \in Seq(Bytes) /\ cur \in Streams /\ put \in [Streams -> Nat] /\ buf \in [Streams -> Seq(Bytes)]
        BY DEF Bounds, TypeOK
  <2> QED BY <2>1, <2>2
<1>5. PICK r : Expected(r) /\ Leads(rx, Pending, r)
      BY <1>1 DEF Sending
<1>6. Closing' <=> Closing
      BY <1>1 DEF Closing
<1>7. ~(Closing /\ Put_Closed)
      BY <1>1 DEF Put_Closed, Errors, Closing, Bounds, TypeOK
<1> HIDE DEF m
<1>8. CASE Closing
  <2>1. ret.put # "app" /\ rawWrite[cur]
        BY <1>4, <1>8 DEF Control, Streaming, Closing
  <2>2. todo' = SubSeq(todo, m + 1, Len(todo))
        BY <1>3, <1>7, <1>8
  <2>3. Pending = b \o todo
        BY <1>1, <1>8 DEF Pending
  <2>4. buf'[cur'] = b \o u
        BY <1>1, <1>4
  <2>5. Pending' = (b \o u) \o todo'
        BY <1>2, <1>6, <1>8, <2>4 DEF Pending
  <2>6. (b \o u) \o SubSeq(todo, m + 1, Len(todo)) = b \o todo
        BY <1>4, Parts
  <2>7. \A s \in Streams : ~rawWrite[s] => buf'[s] = buf[s] /\ s # cur
        BY <1>1, <1>4, <2>1
  <2>8. put' = put
        BY <1>1, <2>1
  <2>9. Expected(r)'
        BY <1>1, <1>2, <1>5, <2>7, <2>8, ExpectedFrame
  <2> QED BY <1>1, <1>5, <2>2, <2>3, <2>5, <2>6, <2>9
<1>9. CASE ~Closing
  <2>1. ret.put = "app"
        BY <1>1, <1>9 DEF Control, Returns, Putting
  <2>2. Pending = <<>> /\ Pending' = <<>>
        BY <1>1, <1>2, <1>6, <1>9, PendingNone DEF Pending
  <2>3. put'[cur] = put[cur] + m /\ (\A s \in Streams : s # cur => put'[s] = put[s] /\ buf'[s] = buf[s]) /\ buf'[cur] = b \o u
        BY <1>1, <1>4, <2>1
  <2>4. ASSUME NEW s \in Streams
        PROVE  IF rawWrite'[s] THEN r.got[s] = put'[s] /\ (r.eof[s] \/ (s = "err" /\ put'[s] = 0))
               ELSE ~r.eof[s] /\ (r.got[s] > 0 => isAnythingWritten'[s]) /\ Holding(s, r.got[s])'
    <3>1. CASE s # cur /\ rawWrite[s]
          BY <1>1, <1>5, <2>3, <3>1 DEF Expected
    <3>2. CASE s # cur /\ ~rawWrite[s]
      <4>1. Holding(s, r.got[s]) /\ ~r.eof[s] /\ (r.got[s] > 0 => isAnythingWritten[s])
            BY <1>5, <3>2 DEF Expected
      <4>2. Holding(s, r.got[s])'
            BY <1>1, <2>3, <3>2, <4>1 DEF Holding
      <4> QED BY <1>1, <3>2, <4>1, <4>2
    <3>3. CASE s = cur /\ rawWrite[s]
      <4>1. wasFCloseCalled[cur] /\ m = 0
            BY <1>4, <1>9, <3>3 DEF Closing
      <4>2. put'[s] = put[s]
            BY <1>4, <2>3, <3>3, <4>1
      <4> QED BY <1>1, <1>5, <3>3, <4>2 DEF Expected
    <3>4. CASE s = cur /\ ~rawWrite[s]
      <4>1. Holding(cur, r.got[cur]) /\ ~r.eof[s] /\ (r.got[s] > 0 => isAnythingWritten[s])
            BY <1>1, <1>5, <3>4 DEF Expected
      <4>2. r.got[cur] \in Nat
            BY <1>4, <1>5 DEF Expected, Between, Servers
      <4> DEFINE g == r.got[cur]
                 n == put[cur]
      <4>3. Holds(b, g, n) /\ n \in Nat /\ g \in Nat
            BY <1>4, <4>1, <4>2 DEF Holding
      <4>4. Follows(todo, n)
            BY <1>9 DEF Todo, Follows
      <4>5. put'[cur] = n + m
            BY <2>3
      <4> HIDE DEF g, n, b
      <4>6. Holds(b \o u, g, n + m)
            BY <1>4, <4>3, <4>4, HoldingMore
      <4>7. Holds(buf'[cur], g, put'[cur])
            BY <2>3, <4>5, <4>6
      <4>8. Holding(s, r.got[s])'
            BY <3>4, <4>7 DEF Holding, g
      <4> QED BY <1>1, <3>4, <4>1, <4>8
    <3> QED BY <3>1, <3>2, <3>3, <3>4
  <2>5. Between(r)' /\ (r.ended <=> nWriters' = 0)
        BY <1>1, <1>5 DEF Expected, Between, Servers
  <2>6. Expected(r)'
        BY <1>2, <2>4, <2>5 DEF Expected
  <2> QED BY <1>1, <1>5, <2>2, <2>6
<1> QED BY <1>8, <1>9

\* As long as a stream is open FCGI_END_REQUEST has not been sent.
LEMMA OpenWriters ==
    ASSUME Bounds, Control, pc # "accept", NEW s \in Streams, ~rawWrite[s]
    PROVE  nWriters # 0
BY DEF Control, Counts, Counted, Streams

\* EmptyBuffProc(stream, FALSE) packs what the stream has buffered into a record.
LEMMA SendingEmpty ==
    ASSUME Bounds, Control, Sending, NEW s \in Streams, NEW back, EmptyBuff(s, back),
           pc \notin {"accept", "write"}, rawWrite[s] => Closing /\ s = cur, ~rawWrite[s] => ~Closing,
           UNCHANGED <<nWriters, rawWrite, wasFCloseCalled, todo, put, writeFailed, rx>>
    PROVE  Sending'
<1> SUFFICES ASSUME ~writeFailed' PROVE \E r : Expected(r)' /\ Leads(rx', Pending', r)
    BY DEF Sending
<1> DEFINE q == Encapsulated(s)
<1>1. /\ buf' = [buf EXCEPT ![s] = q] /\ cur' = s /\ wrote' = 0 /\ pc' = "write"
      /\ isAnythingWritten' = [isAnythingWritten EXCEPT ![s] = isAnythingWritten[s] \/ q # <<>>]
      BY DEF EmptyBuff
<1>2. PICK r : Expected(r) /\ Leads(rx, Pending, r)
      BY DEF Sending
<1>3. /\ buf \in [Streams -> Seq(Bytes)] /\ isAnythingWritten \in [Streams -> BOOLEAN]
      /\ todo \in Seq(Bytes) /\ put \in [Streams -> Nat] /\ TypeOK /\ BufferFits
      BY DEF Bounds, TypeOK
<1>4. q \in Seq(Bytes)
      BY <1>3, EncapsulatedFits
<1>5. /\ buf'[s] = q /\ (isAnythingWritten'[s] <=> isAnythingWritten[s] \/ q # <<>>)
      /\ \A t \in Streams : t # s => buf'[t] = buf[t] /\ isAnythingWritten'[t] = isAnythingWritten[t]
      BY <1>1, <1>3
<1>6. rawWrite[s] => q = buf[s]
      BY DEF Encapsulated
<1> HIDE DEF q
<1>7. SubSeq(q, 0 + 1, Len(q)) = q /\ q \o <<>> = q
      BY <1>4, Parts
<1>8. CASE rawWrite[s]
  <2>1. Closing /\ s = cur /\ Closing'
        BY <1>1, <1>8 DEF Closing
  <2>2. Pending = q \o todo
        BY <1>6, <1>8, <2>1 DEF Pending
  <2>3. Pending' = SubSeq(q, 0 + 1, Len(q)) \o todo
        BY <1>1, <1>5, <2>1 DEF Pending
  <2>4. /\ \A t \in Streams : ~rawWrite[t] => t # s
        /\ \A t \in Streams : isAnythingWritten[t] => isAnythingWritten'[t]
        BY <1>5, <1>8
  <2>5. Expected(r)'
        BY <1>1, <1>2, <1>5, <2>1, <2>4, ExpectedFrame
  <2> QED BY <1>2, <1>7, <2>2, <2>3, <2>5
<1>9. CASE ~rawWrite[s]
  <2>1. ~Closing /\ ~Closing'
        BY <1>1, <1>9 DEF Closing
  <2>2. Pending = <<>>
        BY <2>1, PendingNone
  <2>3. rx = r
        BY <1>2, <2>2, LeadsNone
  <2>4. Pending' = SubSeq(q, 0 + 1, Len(q)) \o <<>>
        BY <1>1, <1>5, <2>1 DEF Pending
  <2>5. Pending' = q
        BY <1>7, <2>4
  <2>6. nWriters # 0
        BY <1>9, OpenWriters
  <2>7. Between(r) /\ ~r.ended /\ ~r.eof[s] /\ Holding(s, r.got[s]) /\ (r.got[s] > 0 => isAnythingWritten[s])
        BY <1>2, <1>9, <2>6 DEF Expected
  <2>8. PICK r2 : /\ Leads(r, q, r2) /\ Between(r2) /\ ~r2.ended /\ r2.eof = r.eof
                  /\ \A t \in Streams : r2.got[t] = IF t = s THEN put[s] ELSE r.got[t]
        BY <1>3, <1>9, <2>7, LeadsEncapsulated DEF q
  <2>9. q = <<>> => r.got[s] = put[s]
        BY <1>3, <1>9, <2>7, LeadsEncapsulated DEF q
  <2>10. ASSUME NEW t \in Streams
        PROVE  IF rawWrite'[t] THEN r2.got[t] = put'[t] /\ (r2.eof[t] \/ (t = "err" /\ put'[t] = 0))
               ELSE /\ ~r2.eof[t] /\ (r2.got[t] > 0 => isAnythingWritten'[t])
                    /\ IF pc' = "write" /\ t = cur' THEN r2.got[t] = put'[t] ELSE Holding(t, r2.got[t])'
    <3>1. CASE t = s
      <4>1. r2.got[t] = put'[t] /\ ~r2.eof[t] /\ ~rawWrite'[t]
            BY <1>9, <2>7, <2>8, <3>1
      <4>2. r2.got[t] > 0 => isAnythingWritten'[t]
            BY <1>5, <2>7, <2>8, <2>9, <3>1
      <4> QED BY <1>1, <3>1, <4>1, <4>2
    <3>2. CASE t # s /\ rawWrite[t]
          BY <1>2, <2>8, <3>2 DEF Expected
    <3>3. CASE t # s /\ ~rawWrite[t]
      <4>1. Holding(t, r.got[t]) /\ ~r.eof[t] /\ (r.got[t] > 0 => isAnythingWritten[t])
            BY <1>2, <3>3 DEF Expected
      <4>2. r2.got[t] = r.got[t] /\ r2.eof[t] = r.eof[t]
            BY <2>8, <3>3
      <4>3. Holding(t, r2.got[t])'
            BY <1>5, <3>3, <4>1, <4>2 DEF Holding
      <4> QED BY <1>1, <1>5, <3>3, <4>1, <4>2, <4>3
    <3> QED BY <3>1, <3>2, <3>3
  <2>11. Between(r2)' /\ (r2.ended <=> nWriters' = 0)
        BY <2>6, <2>8 DEF Between, Servers
  <2>12. Expected(r2)'
        BY <2>10, <2>11 DEF Expected
  <2> QED BY <2>3, <2>5, <2>8, <2>12
<1> QED BY <1>8, <1>9

\* FCGX_PutStr empties the buffer that is full.
LEMMA SendingPutEmpty == ASSUME Bounds, Control, Sending, Put_Empty PROVE Sending'
<1>1. /\ pc = "empty" /\ EmptyBuff(cur, "put") /\ cur \in Streams
      /\ UNCHANGED <<nWriters, rawWrite, wasFCloseCalled, todo, put, writeFailed, rx>>
      BY DEF Put_Empty, request, Bounds, TypeOK
<1>2. (rawWrite[cur] => Closing) /\ (~rawWrite[cur] => ~Closing)
      BY <1>1 DEF Control, Returns, Closing
<1> QED BY <1>1, <1>2, SendingEmpty

\* FCGX_FFlush does so between two calls.
LEMMA SendingFlush == ASSUME Bounds, Control, Sending, NEW s \in Streams, FCGX_FFlush(s) PROVE Sending'
<1>1. /\ pc = "app" /\ ~isClosed[s] /\ EmptyBuff(s, "app")
      /\ UNCHANGED <<nWriters, rawWrite, wasFCloseCalled, todo, put, writeFailed, rx>>
      BY DEF FCGX_FFlush, request
<1>2. ~Closing /\ ~rawWrite[s]
      BY <1>1, PendingNone, AllAtRest DEF Control, Streaming
<1> QED BY <1>1, <1>2, SendingEmpty

\* EmptyBuffProc(stream, TRUE) begins: the last content, and the end of the stream.
LEMMA SendingStartClose ==
    ASSUME Bounds, Control, Sending, NEW s \in Streams, NEW back, StartClose(s, back),
           pc \in {"app", "finishOut"}, ~wasFCloseCalled[s],
           UNCHANGED <<nWriters, isAnythingWritten, wasFCloseCalled, put, writeFailed, rx>>
    PROVE  Sending'
<1> SUFFICES ASSUME ~writeFailed' PROVE \E r : Expected(r)' /\ Leads(rx', Pending', r)
    BY DEF Sending
<1> DEFINE q == Encapsulated(s)
<1>1. /\ buf' = [buf EXCEPT ![s] = q] /\ rawWrite' = [rawWrite EXCEPT ![s] = TRUE] /\ cur' = s /\ pc' = "put"
      /\ EofNeeded(s) => todo' = MakeHeader(s, 0, 0)
      /\ ~EofNeeded(s) => todo' = <<>> /\ s = "err" /\ q = <<>> /\ ~isAnythingWritten[s]
      BY DEF StartClose, EofNeeded
<1>2. PICK r : Expected(r) /\ Leads(rx, Pending, r)
      BY DEF Sending
<1>3. /\ buf \in [Streams -> Seq(Bytes)] /\ rawWrite \in [Streams -> BOOLEAN] /\ put \in [Streams -> Nat]
      /\ TypeOK /\ BufferFits
      BY DEF Bounds, TypeOK
<1>4. q \in Seq(Bytes)
      BY <1>3, EncapsulatedFits
<1> HIDE DEF q
<1>5. /\ buf'[s] = q /\ rawWrite'[s]
      /\ \A t \in Streams : t # s => buf'[t] = buf[t] /\ rawWrite'[t] = rawWrite[t]
      BY <1>1, <1>3
<1>6. ~rawWrite[s] /\ Pending = <<>>
      BY PendingNone, AllAtRest
<1>7. rx = r
      BY <1>2, <1>6, LeadsNone
<1>8. Closing'
      BY <1>1, <1>5 DEF Closing
<1>9. Pending' = q \o todo'
      BY <1>1, <1>5, <1>8 DEF Pending
<1>10. nWriters # 0
      BY <1>6, OpenWriters
<1>11. Between(r) /\ ~r.ended /\ ~r.eof[s] /\ Holding(s, r.got[s]) /\ (r.got[s] > 0 => isAnythingWritten[s])
      BY <1>2, <1>6, <1>10 DEF Expected
<1>12. PICK r2 : /\ Leads(r, q, r2) /\ Between(r2) /\ ~r2.ended /\ r2.eof = r.eof
                 /\ \A t \in Streams : r2.got[t] = IF t = s THEN put[s] ELSE r.got[t]
      BY <1>3, <1>6, <1>11, LeadsEncapsulated DEF q
<1>13. q = <<>> => r.got[s] = put[s]
      BY <1>3, <1>6, <1>11, LeadsEncapsulated DEF q
<1>14. \E r3 : /\ Leads(r, q \o todo', r3) /\ Between(r3) /\ ~r3.ended /\ r3.got = r2.got
               /\ \A t \in Streams : t # s => r3.eof[t] = r.eof[t]
               /\ r3.eof[s] \/ (s = "err" /\ put[s] = 0)
  <2>1. CASE EofNeeded(s)
    <3> DEFINE r3 == Open(0, "none", 0, 0, r2.got, Over(r2.eof, s), r2.status)
    <3>1. ~r2.eof[s]
          BY <1>11, <1>12
    <3>2. Leads(r2, MakeHeader(s, 0, 0), r3)
          BY <1>12, <3>1, LeadsEof
    <3>3. Between(r3) /\ r3.got = r2.got /\ r3.eof = Over(r2.eof, s) /\ ~r3.ended
          BY <1>12, OverBetween
    <3> HIDE DEF r3
    <3>4. MakeHeader(s, 0, 0) \in Seq(Bytes)
          BY Pieces
    <3>5. Leads(r, q \o MakeHeader(s, 0, 0), r3)
          BY <1>4, <1>12, <3>2, <3>4, LeadsConcat
    <3>6. r2.eof \in [Streams -> BOOLEAN]
          BY <1>12, BetweenOpen
    <3>7. r3.eof[s] /\ \A t \in Streams : t # s => r3.eof[t] = r.eof[t]
          BY <1>12, <3>3, <3>6 DEF Over
    <3> QED BY <1>1, <2>1, <3>3, <3>5, <3>7
  <2>2. CASE ~EofNeeded(s)
    <3>1. q \o todo' = q
          BY <1>1, <1>4, <2>2, Parts
    <3>2. s = "err" /\ put[s] = 0
          BY <1>1, <1>3, <1>11, <1>13, <2>2
    <3> QED BY <1>12, <3>1, <3>2
  <2> QED BY <2>1, <2>2
<1>15. PICK r3 : /\ Leads(r, q \o todo', r3) /\ Between(r3) /\ ~r3.ended /\ r3.got = r2.got
                 /\ \A t \in Streams : t # s => r3.eof[t] = r.eof[t]
                 /\ r3.eof[s] \/ (s = "err" /\ put[s] = 0)
      BY <1>14
<1>16. ASSUME NEW t \in Streams
      PROVE  IF rawWrite'[t] THEN r3.got[t] = put'[t] /\ (r3.eof[t] \/ (t = "err" /\ put'[t] = 0))
             ELSE /\ ~r3.eof[t] /\ (r3.got[t] > 0 => isAnythingWritten'[t])
                  /\ Holding(t, r3.got[t])'
  <2>1. CASE t = s
        BY <1>5, <1>12, <1>15, <2>1
  <2>2. CASE t # s /\ rawWrite[t]
        BY <1>2, <1>5, <1>12, <1>15, <2>2 DEF Expected
  <2>3. CASE t # s /\ ~rawWrite[t]
    <3>1. Holding(t, r.got[t]) /\ ~r.eof[t] /\ (r.got[t] > 0 => isAnythingWritten[t])
          BY <1>2, <2>3 DEF Expected
    <3>2. r3.got[t] = r.got[t] /\ r3.eof[t] = r.eof[t]
          BY <1>12, <1>15, <2>3
    <3>3. Holding(t, r3.got[t])'
          BY <1>5, <2>3, <3>1, <3>2 DEF Holding
    <3> QED BY <1>5, <2>3, <3>1, <3>2, <3>3
  <2> QED BY <2>1, <2>2, <2>3
<1>17. Between(r3)' /\ (r3.ended <=> nWriters' = 0)
      BY <1>10, <1>15 DEF Between, Servers
<1>18. Expected(r3)'
      BY <1>1, <1>16, <1>17 DEF Expected
<1> QED BY <1>7, <1>9, <1>15, <1>18

\* WriteCloseRecords ends the request after the last stream.
LEMMA SendingCloseEnd == ASSUME Bounds, Control, Todo, Sending, Close_End PROVE Sending'
<1> SUFFICES ASSUME ~writeFailed' PROVE \E r : Expected(r)' /\ Leads(rx', Pending', r)
    BY DEF Sending
<1>1. /\ pc = "closeEnd" /\ nWriters' = nWriters - 1 /\ pc' = "put"
      /\ nWriters = 1 => todo' = EndRequestRecord(appStatus)
      /\ nWriters # 1 => todo' = <<>>
      /\ UNCHANGED <<buf, rawWrite, isAnythingWritten, wasFCloseCalled, cur, put, writeFailed, rx>>
      BY DEF Close_End, streams
<1>2. PICK r : Expected(r) /\ Leads(rx, Pending, r)
      BY <1>1 DEF Sending
<1>3. Closing /\ Closing'
      BY <1>1 DEF Control, Returns, Closing
<1>4. todo = <<>> /\ cur \in Streams /\ buf[cur] \in Seq(Bytes) /\ appStatus \in Nat /\ nWriters \in 0..2
      BY <1>1 DEF Todo, Putting, Bounds, TypeOK
<1>5. nWriters \in {1, 2}
      BY <1>1, <1>3, <1>4 DEF Control, Returns, Counts, Counted, Closing, Streams
<1>6. Pending = buf[cur] /\ Pending' = buf[cur] \o todo'
  <2>1. Pending = buf[cur] \o <<>> /\ Pending' = buf[cur] \o todo'
        BY <1>1, <1>3, <1>4 DEF Pending
  <2> QED BY <1>4, <2>1, Parts
<1>7. Between(r) /\ ~r.ended
      BY <1>2, <1>5 DEF Expected
<1>8. ASSUME NEW r2, Between(r2), r2.got = r.got, r2.eof = r.eof, r2.ended <=> nWriters' = 0
      PROVE  Expected(r2)'
  <2>1. ASSUME NEW t \in Streams
        PROVE  IF rawWrite'[t] THEN r2.got[t] = put'[t] /\ (r2.eof[t] \/ (t = "err" /\ put'[t] = 0))
               ELSE /\ ~r2.eof[t] /\ (r2.got[t] > 0 => isAnythingWritten'[t])
                    /\ Holding(t, r2.got[t])'
    <3>1. CASE rawWrite[t]
          BY <1>1, <1>2, <1>8, <3>1 DEF Expected
    <3>2. CASE ~rawWrite[t]
      <4>1. Holding(t, r.got[t]) /\ ~r.eof[t] /\ (r.got[t] > 0 => isAnythingWritten[t])
            BY <1>1, <1>2, <3>2 DEF Expected
      <4>2. Holding(t, r2.got[t])'
            BY <1>1, <1>8, <4>1 DEF Holding
      <4> QED BY <1>1, <1>8, <3>2, <4>1, <4>2
    <3> QED BY <3>1, <3>2
  <2>2. Between(r2)'
        BY <1>8 DEF Between, Servers
  <2> QED BY <1>1, <1>8, <2>1, <2>2 DEF Expected
<1>9. CASE nWriters = 1
  <2> PICK r2 : r2 = Ended(r.got, r.eof, appStatus)
      OBVIOUS
  <2>1. Leads(r, EndRequestRecord(appStatus), r2)
        BY <1>4, <1>7, LeadsEnd
  <2>2. Between(r2) /\ r2.got = r.got /\ r2.eof = r.eof /\ r2.ended
        BY <1>4, <1>7, EndedBetween
  <2>3. EndRequestRecord(appStatus) \in Seq(Bytes)
        BY <1>4, Pieces
  <2>4. Leads(rx, buf[cur], r)
        BY <1>2, <1>6
  <2>5. Leads(rx, buf[cur] \o EndRequestRecord(appStatus), r2)
        BY <1>4, <2>1, <2>3, <2>4, LeadsConcat
  <2>6. nWriters' = 0
        BY <1>1, <1>9
  <2>7. Expected(r2)'
        BY <1>8, <2>2, <2>6
  <2> QED BY <1>1, <1>6, <1>9, <2>5, <2>7
<1>10. CASE nWriters = 2
  <2>1. nWriters' = 1
        BY <1>1, <1>10
  <2>2. Expected(r)'
        BY <1>7, <1>8, <2>1
  <2>3. Pending' = Pending
        BY <1>1, <1>4, <1>6, <1>10, Parts
  <2> QED BY <1>1, <1>2, <2>2, <2>3
<1> QED BY <1>5, <1>9, <1>10

\* Steps that change neither what is sent nor what the open streams hold.
LEMMA SendingFrame ==
    ASSUME Sending, pc # "accept", UNCHANGED <<nWriters, buf, rawWrite, put, writeFailed, rx>>,
           \A s \in Streams : isAnythingWritten[s] => isAnythingWritten'[s],
           \A s \in Streams : ~rawWrite[s] => ((pc = "write" /\ s = cur) <=> (pc' = "write" /\ s = cur')),
           ~writeFailed => Pending' = Pending
    PROVE  Sending'
<1> SUFFICES ASSUME ~writeFailed' PROVE \E r : Expected(r)' /\ Leads(rx', Pending', r)
    BY DEF Sending
<1>1. PICK r : Expected(r) /\ Leads(rx, Pending, r)
      BY DEF Sending
<1>2. Expected(r)'
      BY <1>1, ExpectedFrame
<1> QED BY <1>1, <1>2

\* The second part of EmptyBuffProc(stream, TRUE), and the end of FCGX_FClose.
LEMMA SendingClose ==
    ASSUME Bounds, Control, Errors, Todo, Sending, Close_Write \/ Close_Done
    PROVE  Sending'
<1>1. /\ pc \in {"closeWrite", "closed"} /\ cur' = cur /\ todo' = todo
      /\ UNCHANGED <<nWriters, buf, rawWrite, put, writeFailed, rx>>
      /\ \A s \in Streams : isAnythingWritten[s] => isAnythingWritten'[s]
  <2>1. CASE Close_Write
    <3>1. isAnythingWritten \in [Streams -> BOOLEAN] /\ cur \in Streams
          BY DEF Bounds, TypeOK
    <3>2. isAnythingWritten' = [isAnythingWritten EXCEPT ![cur] = isAnythingWritten[cur] \/ buf[cur] # <<>>]
          BY <2>1 DEF Close_Write
    <3>3. \A s \in Streams : isAnythingWritten[s] => isAnythingWritten'[s]
          BY <3>1, <3>2
    <3> QED BY <2>1, <3>3 DEF Close_Write, request
  <2>2. CASE Close_Done
        BY <2>2 DEF Close_Done, request
  <2> QED BY <2>1, <2>2
<1>2. Closing /\ rawWrite[cur]
      BY <1>1 DEF Control, Returns, Closing
<1>3. cur \in Streams /\ buf[cur] \in Seq(Bytes) /\ todo = <<>>
      BY <1>1 DEF Todo, Putting, Bounds, TypeOK
<1>4. \A s \in Streams : ~rawWrite[s] => ((pc = "write" /\ s = cur) <=> (pc' = "write" /\ s = cur'))
      BY <1>1, <1>2
<1>5. Pending = buf[cur] \o <<>>
      BY <1>1, <1>2, <1>3 DEF Pending
<1>6. buf[cur] \o <<>> = buf[cur] /\ SubSeq(buf[cur], 0 + 1, Len(buf[cur])) = buf[cur]
      BY <1>3, Parts
<1>7. ASSUME ~writeFailed PROVE Pending' = Pending
  <2>1. CASE Close_Write
    <3>1. pc' = "write" /\ wrote' = 0 /\ Closing'
          BY <1>1, <1>2, <2>1 DEF Close_Write, Closing
    <3>2. Pending' = SubSeq(buf[cur], 0 + 1, Len(buf[cur])) \o <<>>
          BY <1>1, <1>3, <3>1 DEF Pending
    <3> QED BY <1>5, <1>6, <3>2
  <2>2. CASE Close_Done
    <3>1. pc = "closed" /\ pc' = ret.close /\ wasFCloseCalled'[cur]
          BY <1>3, <2>2 DEF Close_Done, Bounds, TypeOK
    <3>2. pc' # "write" /\ ~Closing'
          BY <1>1, <3>1 DEF Closing, Bounds, TypeOK
    <3>3. buf[cur] = <<>>
          BY <1>7, <3>1 DEF Errors
    <3>4. Pending' = <<>> \o <<>>
          BY <3>2 DEF Pending
    <3> QED BY <1>5, <3>3, <3>4
  <2> QED BY <2>1, <2>2
<1> QED BY <1>1, <1>4, <1>7, SendingFrame

\* A new request: the web server has had the whole answer to the last one.
LEMMA SendingAccept == ASSUME Bounds, Errors, Answered, FCGX_Accept_r PROVE Sending'
<1> SUFFICES ASSUME ~writeFailed' PROVE \E r : Expected(r)' /\ Leads(rx', Pending', r)
    BY DEF Sending
<1>1. /\ pc = "accept" /\ pc' = "app" /\ nWriters' = 2
      /\ rx' = IF ipcOpen THEN [RxInit EXCEPT !.sound = rx.sound /\ rx.header = 0] ELSE RxInit
      /\ buf' = [s \in Streams |-> Reserved] /\ rawWrite' = [s \in Streams |-> FALSE]
      /\ put' = [s \in Streams |-> 0] /\ cur' = "out" /\ (ipcOpen => ~writeFailed)
  <2>1. writeFailed' <=> (ipcOpen /\ writeFailed)
        BY DEF FCGX_Accept_r
  <2> QED BY <2>1 DEF FCGX_Accept_r
<1>2. PICK r : r = rx'
      OBVIOUS
<1>3. /\ r.header = 0 /\ r.type = "none" /\ r.clen = 0 /\ r.plen = 0 /\ r.ended = FALSE /\ r.status = 0
      /\ r.got = [s \in Streams |-> 0] /\ r.eof = [s \in Streams |-> FALSE] /\ r.sound = TRUE
      /\ r \in Servers
  <2>1. ipcOpen => rx.sound = TRUE /\ rx.header = 0
        BY <1>1 DEF Answered, Between, Servers
  <2>2. RxInit \in Servers
        BY DEF RxInit, Servers
  <2>3. CASE ipcOpen
    <3>1. PICK b : b = (rx.sound /\ rx.header = 0)
          OBVIOUS
    <3>2. b = TRUE
          BY <2>1, <2>3, <3>1
    <3>3. r = [RxInit EXCEPT !.sound = b]
          BY <1>1, <1>2, <2>3, <3>1
    <3>4. b \in BOOLEAN
          BY <3>2
    <3>5. r \in Servers
          BY <2>2, <3>3, <3>4 DEF Servers
    <3>6. r.sound = b
          BY <3>3 DEF RxInit
    <3> QED BY <3>2, <3>3, <3>5, <3>6 DEF RxInit
  <2>4. CASE ~ipcOpen
    <3>1. r = RxInit
          BY <1>1, <1>2, <2>4
    <3> QED BY <2>2, <3>1 DEF RxInit
  <2> QED BY <2>3, <2>4
<1>4. ASSUME NEW s \in Streams
      PROVE  ~rawWrite'[s] /\ ~r.eof[s] /\ r.got[s] = 0 /\ Holding(s, r.got[s])'
  <2>1. ~rawWrite'[s] /\ ~r.eof[s] /\ r.got[s] = 0 /\ buf'[s] = Reserved /\ put'[s] = 0
        BY <1>1, <1>3
  <2>2. Len(Reserved) = Unit /\ Unit + (0 - 0) = Unit /\ 1..(0 - 0) = {} /\ 0 <= 0
        BY Pieces, UnitAssumption
  <2> QED BY <2>1, <2>2 DEF Holding, Holds
<1>5. Between(r)'
      BY <1>3 DEF Between, Servers
<1>6. Expected(r)'
      BY <1>1, <1>3, <1>4, <1>5 DEF Expected
<1>7. ~Closing'
      BY <1>1 DEF Closing, Streams
<1>8. Pending' = <<>> \o <<>>
      BY <1>1, <1>7 DEF Pending
<1>9. Pending' = <<>>
      BY <1>8
<1> QED BY <1>2, <1>6, <1>9, LeadsNone

\* FCGX_Finish_r has seen both streams closed: the answer is complete.
LEMMA AnsweredFree ==
    ASSUME Bounds, Control, Sending, NEW keep, Finish_Free(keep)
    PROVE  Answered'
<1> SUFFICES ASSUME ~writeFailed'
             PROVE  /\ Between(rx')
                    /\ rx'.ended => /\ \A s \in Streams : rx'.got[s] = put'[s]
                                    /\ rx'.eof["out"] /\ (rx'.got["err"] > 0 => rx'.eof["err"])
    BY DEF Answered, Between, Servers
<1>1. pc = "finishFree" /\ UNCHANGED <<nWriters, writeFailed, rx, put>>
      BY DEF Finish_Free
<1>2. PICK r : Expected(r) /\ Leads(rx, Pending, r)
      BY <1>1 DEF Sending
<1>3. Pending = <<>>
      BY <1>1, PendingNone
<1>4. rx = r
      BY <1>2, <1>3, LeadsNone
<1>5. rawWrite["out"] /\ rawWrite["err"]
      BY <1>1, AllAtRest DEF Control, Finishing, Streams
<1>6. /\ Between(r)
      /\ \A s \in Streams : r.got[s] = put[s] /\ (r.eof[s] \/ (s = "err" /\ put[s] = 0))
      BY <1>2, <1>5 DEF Expected, Streams
<1>7. r.eof["out"] /\ (r.got["err"] > 0 => r.eof["err"])
      BY <1>6 DEF Streams
<1> QED BY <1>1, <1>4, <1>6, <1>7

\* The application calls FCGX_PutStr, or FCGX_Finish_r passes a stream that is closed.
LEMMA SendingRest ==
    ASSUME Bounds, Control, Sending, pc \in {"app", "finishOut"}, pc' \in {"put", "finishOut", "finishFree"},
           cur' \in Streams,
           UNCHANGED <<nWriters, buf, rawWrite, isAnythingWritten, wasFCloseCalled, put, writeFailed, rx>>
    PROVE  Sending'
<1>1. Pending = <<>> /\ ~Closing'
      BY PendingNone, AllAtRest DEF Closing
<1>2. Pending' = <<>> \o <<>>
      BY <1>1 DEF Pending
<1>3. Pending' = Pending
      BY <1>1, <1>2
<1> QED BY <1>3, SendingFrame

\* FCGX_FClose and FCGX_Finish_r.
LEMMA SendingFinish ==
    ASSUME Bounds, Control, Sending, NEW s \in Streams, NEW at \in {"app", "finishOut"},
           NEW next \in {"finishOut", "finishFree"}, Finish_Close(s, at, next)
    PROVE  Sending'
<1>1. pc = at /\ UNCHANGED <<nWriters, isAnythingWritten, wasFCloseCalled, put, writeFailed, rx>>
      BY DEF Finish_Close, request
<1>2. CASE wasFCloseCalled[s]
  <2>1. pc' = next /\ UNCHANGED <<buf, rawWrite, cur>>
        BY <1>2 DEF Finish_Close
  <2>2. cur' \in Streams
        BY <2>1 DEF Bounds, TypeOK
  <2> QED BY <1>1, <2>1, <2>2, SendingRest
<1>3. CASE ~wasFCloseCalled[s]
  <2>1. StartClose(s, next)
        BY <1>3 DEF Finish_Close
  <2> QED BY <1>1, <1>3, <2>1, SendingStartClose
<1> QED BY <1>2, <1>3

\* Every step keeps the promise to the web server.
LEMMA SendingNext ==
    Bounds /\ Control /\ Errors /\ Todo /\ Sending /\ Answered /\ [Next]_vars => Sending'
<1> SUFFICES ASSUME Bounds, Control, Errors, Todo, Sending, Answered, [Next]_vars PROVE Sending'
    OBVIOUS
<1>1. CASE FCGX_Accept_r
      BY <1>1, SendingAccept
<1>2. CASE App
  <2>1. ASSUME NEW s \in Streams, NEW n \in PutSizes[s], FCGX_PutStr(s, n) PROVE Sending'
    <3>1. /\ pc = "app" /\ pc' = "put" /\ cur' = s
          /\ UNCHANGED <<nWriters, buf, rawWrite, isAnythingWritten, wasFCloseCalled, put, writeFailed, rx>>
          BY <2>1 DEF FCGX_PutStr, request, streams
    <3> QED BY <3>1, SendingRest
  <2>2. ASSUME NEW s \in Streams, FCGX_FFlush(s) PROVE Sending'
        BY <2>2, SendingFlush
  <2>3. ASSUME NEW s \in Streams, FCGX_FClose(s) PROVE Sending'
    <3>1. /\ pc = "app" /\ ~wasFCloseCalled[s] /\ StartClose(s, "app")
          /\ UNCHANGED <<nWriters, isAnythingWritten, wasFCloseCalled, put, writeFailed, rx>>
          BY <2>3 DEF FCGX_FClose, request
    <3> QED BY <3>1, SendingStartClose
  <2>4. ASSUME NEW s \in Streams, FCGX_ClearError(s) PROVE Sending'
    <3>1. /\ pc = "app"
          /\ UNCHANGED <<pc, cur, todo, wrote, wasFCloseCalled, nWriters, buf, rawWrite, isAnythingWritten, put, writeFailed, rx>>
          BY <2>4 DEF FCGX_ClearError, request
    <3>2. Pending' = Pending
          BY <3>1 DEF Pending, Closing
    <3> QED BY <3>1, <3>2, SendingFrame
  <2>5. ASSUME NEW status \in Statuses, FCGX_SetExitStatus(status) PROVE Sending'
    <3>1. /\ pc = "app"
          /\ UNCHANGED <<pc, cur, todo, wrote, wasFCloseCalled, nWriters, buf, rawWrite, isAnythingWritten, put, writeFailed, rx>>
          BY <2>5 DEF FCGX_SetExitStatus, streams
    <3>2. Pending' = Pending
          BY <3>1 DEF Pending, Closing
    <3> QED BY <3>1, <3>2, SendingFrame
  <2>6. CASE Finish_Close("err", "app", "finishOut")
        BY <2>6, SendingFinish DEF Streams
  <2> QED BY <1>2, <2>1, <2>2, <2>3, <2>4, <2>5, <2>6 DEF App
<1>3. CASE Library
  <2>1. CASE Write_Byte
        BY <2>1, SendingWriteByte
  <2>2. CASE Write_Done
        BY <2>2, SendingWriteDone
  <2>3. CASE Write_Fail
        BY <2>3 DEF Write_Fail, Sending
  <2>4. CASE Put_Done \/ Put_Closed \/ Put_Full
        BY <2>4, SendingPut
  <2>5. CASE Put_Empty
        BY <2>5, SendingPutEmpty
  <2>6. CASE Close_End
        BY <2>6, SendingCloseEnd
  <2>7. CASE Close_Write \/ Close_Done
        BY <2>7, SendingClose
  <2>8. CASE Finish_Close("out", "finishOut", "finishFree")
        BY <2>8, SendingFinish DEF Streams
  <2>9. ASSUME NEW keep \in BOOLEAN, Finish_Free(keep) PROVE Sending'
        BY <2>9 DEF Finish_Free, Sending
  <2> QED BY <1>3, <2>1, <2>2, <2>3, <2>4, <2>5, <2>6, <2>7, <2>8, <2>9 DEF Library
<1>4. CASE UNCHANGED vars
  <2>1. UNCHANGED <<pc, cur, todo, wrote, wasFCloseCalled, nWriters, buf, rawWrite, isAnythingWritten, put, writeFailed, rx>>
        BY <1>4 DEF vars, request, streams
  <2>2. Pending' = Pending
        BY <2>1 DEF Pending, Closing
  <2>3. CASE pc = "accept"
        BY <2>1, <2>3 DEF Sending
  <2>4. CASE pc # "accept"
        BY <2>1, <2>2, <2>4, SendingFrame
  <2> QED BY <2>3, <2>4
<1> QED BY <1>1, <1>2, <1>3, <1>4 DEF Next

\* Only FCGX_Finish_r goes back to FCGX_Accept_r.
LEMMA OnlyFinishFrees ==
    ASSUME Bounds, Next, pc' = "accept" PROVE \E keep \in BOOLEAN : Finish_Free(keep)
<1>1. pc' # ret.write /\ pc' # ret.put /\ pc' # ret.close
      BY DEF Bounds, TypeOK
<1>2. ~FCGX_Accept_r
      BY DEF FCGX_Accept_r
<1>3. ~App
  <2>1. \A s \in Streams : ~FCGX_FFlush(s) /\ ~FCGX_FClose(s) /\ ~FCGX_ClearError(s)
        BY DEF FCGX_FFlush, EmptyBuff, FCGX_FClose, StartClose, FCGX_ClearError
  <2>2. \A s \in Streams : \A n \in PutSizes[s] : ~FCGX_PutStr(s, n)
        BY DEF FCGX_PutStr
  <2>3. \A status \in Statuses : ~FCGX_SetExitStatus(status)
        BY DEF FCGX_SetExitStatus
  <2>4. ~Finish_Close("err", "app", "finishOut")
        BY DEF Finish_Close, StartClose
  <2> QED BY <2>1, <2>2, <2>3, <2>4 DEF App
<1>4. ~Write_Byte /\ ~Write_Done /\ ~Write_Fail /\ ~Put_Done /\ ~Put_Closed /\ ~Put_Full
      BY <1>1 DEF Write_Byte, Write_Done, Write_Fail, Put_Done, Put_Closed, Put_Full
<1>5. ~Put_Empty /\ ~Close_End /\ ~Close_Write /\ ~Close_Done /\ ~Finish_Close("out", "finishOut", "finishFree")
      BY <1>1 DEF Put_Empty, EmptyBuff, Close_End, Close_Write, Close_Done, Finish_Close, StartClose
<1> QED BY <1>2, <1>3, <1>4, <1>5 DEF Next, Library

\* The answer to the last request stays what it is until the next.
LEMMA AnsweredNext == Bounds /\ Control /\ Sending /\ Answered /\ [Next]_vars => Answered'
<1> SUFFICES ASSUME Bounds, Control, Sending, Answered, [Next]_vars PROVE Answered'
    OBVIOUS
<1>1. CASE Next /\ pc' = "accept"
      BY <1>1, OnlyFinishFrees, AnsweredFree
<1>2. CASE pc' # "accept"
      BY <1>2 DEF Answered
<1>3. CASE UNCHANGED vars
  <2>1. UNCHANGED <<writeFailed, pc, rx, put>>
        BY <1>3 DEF vars
  <2> QED BY <2>1 DEF Answered, Between, Servers
<1> QED BY <1>1, <1>2, <1>3

-----------------------------------------------------------------------------
(* The end of the answer.                                                  *)

\* A new web server, and one that cannot tell any more what the bytes mean.
LEMMA LostEnds ==
    /\ Ends(RxInit) /\ Ends(RxLost) /\ ~RxLost.sound
    /\ \A x \in BOOLEAN : Ends([RxInit EXCEPT !.sound = x]) /\ ~[RxInit EXCEPT !.sound = x].ended
<1>1. RxInit \in Views /\ RxInit.ended = FALSE
      BY DEF RxInit, Views
<1>2. ASSUME NEW x \in BOOLEAN
      PROVE  /\ Ends([RxInit EXCEPT !.sound = x]) /\ ~[RxInit EXCEPT !.sound = x].ended
             /\ [RxInit EXCEPT !.sound = x].sound = x
  <2> DEFINE r == [RxInit EXCEPT !.sound = x]
  <2>1. r \in Views /\ r.ended = RxInit.ended /\ r.sound = x
        BY <1>1 DEF Views
  <2> QED BY <1>1, <2>1 DEF Ends
<1>3. PICK x : x = FALSE
      OBVIOUS
<1>4. RxLost = [RxInit EXCEPT !.sound = x] /\ x \in BOOLEAN /\ ~x
      BY <1>3 DEF RxLost
<1>5. Ends(RxLost) /\ ~RxLost.sound
      BY <1>2, <1>4
<1> QED BY <1>1, <1>2, <1>5 DEF Ends

\* A byte leaves the web server between two records if it has the whole answer.
LEMMA ReceiveEnds ==
    ASSUME NEW r, Ends(r), NEW b \in Bytes
    PROVE  Ends(Receive(r, b)) /\ (r.ended /\ r.sound => ~Receive(r, b).sound)
<1>1. Unit \in Nat /\ Unit > 0 /\ r \in Views /\ (r.ended => r.header = 0)
      BY UnitAssumption DEF Ends
<1>2. Ends(RxLost) /\ ~RxLost.sound
      BY LostEnds
<1>3. ASSUME NEW n \in Views, NEW empty \in BOOLEAN, n.ended => n.header = 0 PROVE Ends(RxRecord(n, empty))
      BY <1>1, <1>3 DEF RxRecord, Ends, Views
<1>4. CASE ~r.sound
  <2>1. Receive(r, b) = r
        BY <1>4 DEF Receive
  <2> QED BY <1>4, <2>1
<1>5. CASE r.sound /\ r.header < Unit
  <2> DEFINE n == RxHeader(r, b)
  <2>1. n \in Views /\ n.ended = r.ended /\ (r.ended => ~n.sound)
    <3>1. b.type \in Streams \cup {"none", "end"} /\ b.clen \in Int /\ b.plen \in Int
          BY DEF Bytes
    <3>2. PICK x : x = (/\ r.sound /\ ~r.ended
                        /\ b.kind = "header" /\ b.n = r.header + 1
                        /\ r.header > 0 => b.type = r.type /\ b.clen = r.clen /\ b.plen = r.plen
                        /\ b.type \in Streams => ~r.eof[b.type])
          OBVIOUS
    <3>3. x \in BOOLEAN /\ (r.ended => ~x)
          BY <3>2
    <3>4. n = [r EXCEPT !.header = r.header + 1, !.type = b.type, !.clen = b.clen, !.plen = b.plen, !.sound = x]
          BY <3>2 DEF RxHeader
    <3> HIDE DEF n
    <3>5. r.header + 1 \in Nat
          BY <1>1 DEF Views
    <3>6. n \in Views
          BY <1>1, <3>1, <3>3, <3>4, <3>5 DEF Views
    <3>7. n.ended = r.ended /\ n.sound = x
          BY <1>1, <3>4 DEF Views
    <3> QED BY <3>3, <3>6, <3>7
  <2>2. Receive(r, b) = IF n.sound THEN RxRecord(n, TRUE) ELSE RxLost
    <3>1. (r.header < Unit) = TRUE
          BY <1>5
    <3> QED BY <1>5, <3>1 DEF Receive
  <2> HIDE DEF n
  <2>3. CASE n.sound
    <3>1. ~n.ended /\ ~r.ended
          BY <2>1, <2>3
    <3>2. Ends(RxRecord(n, TRUE))
          BY <1>3, <2>1, <3>1
    <3> QED BY <2>2, <2>3, <3>1, <3>2
  <2>4. CASE ~n.sound
        BY <1>2, <2>2, <2>4
  <2> QED BY <2>3, <2>4
<1>6. CASE r.sound /\ ~(r.header < Unit)
  <2> DEFINE n == IF r.clen > 0 THEN RxContent(r, b) ELSE RxPadding(r, b)
  <2>1. ~r.ended
        BY <1>1, <1>6
  <2>2. RxContent(r, b) \in Views /\ RxContent(r, b).ended = r.ended
    <3>1. PICK x : x = (/\ r.sound
                        /\ IF r.type \in Streams THEN b = Byte("data", r.got[r.type] + 1)
                           ELSE b.kind = "status")
          OBVIOUS
    <3>2. x \in BOOLEAN
          BY <3>1
    <3>3. PICK g : g = IF r.type \in Streams THEN [r.got EXCEPT ![r.type] = @ + 1] ELSE r.got
          OBVIOUS
    <3>4. g \in [Streams -> Nat]
          BY <1>1, <3>3 DEF Views
    <3>5. PICK st : st = IF r.type = "end" THEN b.n ELSE r.status
          OBVIOUS
    <3>6. st \in Nat
          BY <1>1, <3>5 DEF Views, Bytes
    <3>7. RxContent(r, b) = [r EXCEPT !.clen = r.clen - 1, !.got = g, !.status = st, !.sound = x]
          BY <3>1, <3>3, <3>5 DEF RxContent
    <3>8. r.clen - 1 \in Int
          BY <1>1 DEF Views
    <3>9. RxContent(r, b) \in Views
          BY <1>1, <3>2, <3>4, <3>6, <3>7, <3>8 DEF Views
    <3> QED BY <1>1, <3>7, <3>9 DEF Views
  <2>3. RxPadding(r, b) \in Views /\ RxPadding(r, b).ended = r.ended
    <3>1. PICK x : x = (r.sound /\ b.kind = "pad")
          OBVIOUS
    <3>2. x \in BOOLEAN
          BY <3>1
    <3>3. RxPadding(r, b) = [r EXCEPT !.plen = r.plen - 1, !.sound = x]
          BY <3>1 DEF RxPadding
    <3>4. r.plen - 1 \in Int
          BY <1>1 DEF Views
    <3>5. RxPadding(r, b) \in Views
          BY <1>1, <3>2, <3>3, <3>4 DEF Views
    <3> QED BY <1>1, <3>3, <3>5 DEF Views
  <2>4. n \in Views /\ ~n.ended
        BY <2>1, <2>2, <2>3
  <2>5. Receive(r, b) = IF n.sound THEN RxRecord(n, FALSE) ELSE RxLost
    <3>1. (r.header < Unit) = FALSE
          BY <1>6
    <3> QED BY <1>6, <3>1 DEF Receive
  <2> HIDE DEF n
  <2>6. Ends(RxRecord(n, FALSE))
        BY <1>3, <2>4
  <2> QED BY <1>2, <2>1, <2>5, <2>6
<1> QED BY <1>4, <1>5, <1>6

\* The web server takes part in few steps.
LEMMA ServersApart == Next => FCGX_Accept_r \/ Write_Byte \/ Write_Fail \/ rx' = rx
<1> SUFFICES ASSUME Next, ~FCGX_Accept_r, ~Write_Byte, ~Write_Fail PROVE rx' = rx
    OBVIOUS
<1>1. CASE App
  <2>1. ASSUME NEW s \in Streams, FCGX_FFlush(s) \/ FCGX_FClose(s) \/ FCGX_ClearError(s) PROVE rx' = rx
        BY <2>1 DEF FCGX_FFlush, FCGX_FClose, FCGX_ClearError
  <2>2. ASSUME NEW s \in Streams, NEW n \in PutSizes[s], FCGX_PutStr(s, n) PROVE rx' = rx
        BY <2>2 DEF FCGX_PutStr
  <2>3. ASSUME NEW status \in Statuses, FCGX_SetExitStatus(status) PROVE rx' = rx
        BY <2>3 DEF FCGX_SetExitStatus
  <2>4. CASE Finish_Close("err", "app", "finishOut")
        BY <2>4 DEF Finish_Close
  <2> QED BY <1>1, <2>1, <2>2, <2>3, <2>4 DEF App
<1>2. CASE Library
  <2>1. CASE Write_Done \/ Put_Done \/ Put_Closed \/ Put_Full \/ Put_Empty
        BY <2>1 DEF Write_Done, Put_Done, Put_Closed, Put_Full, Put_Empty
  <2>2. CASE Close_End \/ Close_Write \/ Close_Done
        BY <2>2 DEF Close_End, Close_Write, Close_Done
  <2>3. CASE Finish_Close("out", "finishOut", "finishFree")
        BY <2>3 DEF Finish_Close
  <2>4. ASSUME NEW keep \in BOOLEAN, Finish_Free(keep) PROVE rx' = rx
        BY <2>4 DEF Finish_Free
  <2> QED BY <1>2, <2>1, <2>2, <2>3, <2>4 DEF Library
<1> QED BY <1>1, <1>2 DEF Next

\* They leave it a record, and between two records once it has the whole answer.
LEMMA EndsNext == Bounds /\ Ends(rx) /\ [Next]_vars => Ends(rx)'
<1> SUFFICES ASSUME Bounds, Ends(rx), [Next]_vars PROVE Ends(rx')
    BY DEF Ends, Views
<1>1. CASE FCGX_Accept_r
  <2>1. PICK x : x = (rx.sound /\ rx.header = 0)
        OBVIOUS
  <2>2. rx' = IF ipcOpen THEN [RxInit EXCEPT !.sound = x] ELSE RxInit
        BY <1>1, <2>1 DEF FCGX_Accept_r
  <2>3. x \in BOOLEAN
        BY <2>1
  <2> QED BY <2>2, <2>3, LostEnds
<1>2. CASE Write_Byte
  <2>1. PICK b : b = buf[cur][wrote + 1]
        OBVIOUS
  <2>2. b \in Bytes
    <3>1. cur \in Streams /\ buf[cur] \in Seq(Bytes) /\ wrote \in Nat /\ wrote < Len(buf[cur])
          BY <1>2 DEF Bounds, TypeOK, Write_Byte
    <3> QED BY <2>1, <3>1
  <2>3. rx' = Receive(rx, b)
        BY <1>2, <2>1 DEF Write_Byte
  <2> QED BY <2>2, <2>3, ReceiveEnds
<1>3. CASE Write_Fail
      BY <1>3, LostEnds DEF Write_Fail
<1>4. CASE rx' = rx
      BY <1>4
<1>5. Next => FCGX_Accept_r \/ Write_Byte \/ Write_Fail \/ rx' = rx
      BY ServersApart
<1>6. UNCHANGED vars => rx' = rx
      BY DEF vars
<1> QED BY <1>1, <1>2, <1>3, <1>4, <1>5, <1>6

\* A connection that is kept has no error.
LEMMA KeptNext == Bounds /\ Kept /\ [Next]_vars => Kept'
<1> SUFFICES ASSUME Bounds, Kept, [Next]_vars, pc' = "accept", ipcOpen' PROVE \A s \in Streams : ~failed'[s]
    BY DEF Kept
<1>1. CASE Next
  <2>1. PICK keep \in BOOLEAN : Finish_Free(keep)
        BY <1>1, OnlyFinishFrees
  <2>2. failed' = failed /\ (ipcOpen' <=> keep /\ \A s \in Streams : ~failed[s])
        BY <2>1 DEF Finish_Free, streams
  <2> QED BY <2>2
<1>2. CASE UNCHANGED vars
  <2>1. UNCHANGED <<ipcOpen, pc, failed>>
        BY <1>2 DEF vars, request, streams
  <2> QED BY <2>1 DEF Kept
<1> QED BY <1>1, <1>2

-----------------------------------------------------------------------------
(* The theorems.                                                           *)

\* The streams before the first request.
LEMMA InitInvariant == Init => IInv
<1> SUFFICES ASSUME Init PROVE IInv
    OBVIOUS
<1> USE DEF Init
<1>1. TypeOK /\ \A s \in Streams : Len(buf[s]) = 0
  <2>1. buf \in [Streams -> Seq(Bytes)] /\ \A s \in Streams : Len(buf[s]) = 0
        OBVIOUS
  <2>2. ret \in [put : {"app", "closeEnd", "closeWrite"}, write : {"app", "put", "closed"},
                 close : {"app", "finishOut", "finishFree"}]
        OBVIOUS
  <2>3. todo \in Seq(Bytes) /\ cur \in Streams
        BY DEF Streams
  <2>4. /\ rawWrite \in [Streams -> BOOLEAN] /\ isAnythingWritten \in [Streams -> BOOLEAN]
        /\ isClosed \in [Streams -> BOOLEAN] /\ wasFCloseCalled \in [Streams -> BOOLEAN]
        /\ failed \in [Streams -> BOOLEAN] /\ put \in [Streams -> Nat]
        OBVIOUS
  <2>5. nWriters \in 0..2 /\ appStatus \in Nat /\ wrote \in Nat /\ reqs \in Nat
        OBVIOUS
  <2>6. ipcOpen \in BOOLEAN /\ writeFailed \in BOOLEAN
        OBVIOUS
  <2>7. pc = "accept"
        OBVIOUS
  <2> HIDE DEF Init
  <2> QED BY <2>1, <2>2, <2>3, <2>4, <2>5, <2>6, <2>7 DEF TypeOK
<1>2. BufferFits
      BY <1>1, Sizes DEF BufferFits
<1>3. Control
      BY DEF Control, Returns, Streaming, Counts, Finishing, Closing, Putting, Streams
<1>4. Wrote /\ Errors /\ Sending
      BY DEF Wrote, Errors, Sending
<1>5. Todo
      BY DEF Todo
<1>6. Answered
      BY DEF Answered, Between, Servers, RxInit
<1>7. Ends(rx) /\ Kept
      BY LostEnds DEF Kept
<1> QED BY <1>1, <1>2, <1>3, <1>4, <1>5, <1>6, <1>7 DEF IInv

\* Every step keeps the invariant.
LEMMA InvariantNext == IInv /\ [Next]_vars => IInv'
<1> SUFFICES ASSUME IInv, [Next]_vars PROVE IInv'
    OBVIOUS
<1>1. Bounds /\ Control /\ Errors /\ Todo /\ Sending /\ Answered
      BY DEF IInv, Bounds
<1>2. Bounds'
      BY <1>1, BoundsNext
<1>3. Control'
      BY <1>1, ControlNext
<1>4. Errors'
      BY <1>1, ErrorsNext
<1>5. Todo'
      BY <1>1, TodoNext
<1>6. Sending'
      BY <1>1, SendingNext
<1>7. Answered'
      BY <1>1, AnsweredNext
<1>8. Ends(rx)' /\ Kept'
      BY <1>1, EndsNext, KeptNext DEF IInv
<1> QED BY <1>2, <1>3, <1>4, <1>5, <1>6, <1>7, <1>8 DEF IInv, Bounds

\* The inductive invariant of the output streams: control, types and bounds, and the
\* promise that the bytes in the buffers of fcgiapp.c complete the answer.
THEOREM WriterInvariant == Spec => []IInv
BY InitInvariant, InvariantNext, PTL DEF Spec

\* No byte is stored past the end of a stream's buffer by FCGX_PutStr, EmptyBuffProc
\* and WriteCloseRecords, whatever is written, fails and is closed: "padding can't
\* overflow the buffer because the buffer is a multiple of 8 bytes in length".
THEOREM WriterBufferFits == Spec => []BufferFits
<1>1. IInv => BufferFits
      BY DEF IInv
<1> QED BY <1>1, WriterInvariant, PTL

\* The bytes that are certain to be sent are bytes.
LEMMA PendingBytes == Bounds => Pending \in Seq(Bytes)
<1> SUFFICES ASSUME Bounds PROVE Pending \in Seq(Bytes)
    OBVIOUS
<1> DEFINE u == IF pc = "write" THEN SubSeq(buf[cur], wrote + 1, Len(buf[cur])) ELSE IF Closing THEN buf[cur] ELSE <<>>
           v == IF Closing THEN todo ELSE <<>>
<1>1. cur \in Streams /\ buf[cur] \in Seq(Bytes) /\ wrote \in Nat /\ todo \in Seq(Bytes)
      BY DEF Bounds, TypeOK
<1>2. SubSeq(buf[cur], wrote + 1, Len(buf[cur])) \in Seq(Bytes)
      BY <1>1
<1>3. u \in Seq(Bytes) /\ v \in Seq(Bytes)
      BY <1>1, <1>2
<1>4. Pending = u \o v
      BY DEF Pending
<1> HIDE DEF u, v
<1> QED BY <1>3, <1>4, TwoParts

\* As long as no write has failed the web server understands what it gets.  Once it
\* has FCGI_END_REQUEST nothing more is sent, and it has all that was put.
LEMMA EndOfAnswer ==
    ASSUME IInv, ~writeFailed, pc # "accept"
    PROVE  /\ rx.sound
           /\ rx.ended => /\ Pending = <<>> /\ Expected(rx)
                          /\ rawWrite["out"] /\ rawWrite["err"]
<1>1. PICK r : Expected(r) /\ Leads(rx, Pending, r)
      BY DEF IInv, Sending
<1>2. Pending \in Seq(Bytes)
      BY PendingBytes DEF IInv, Bounds
<1>3. r.sound
      BY <1>1 DEF Expected, Between
<1>4. rx.sound
      BY <1>1, <1>2, <1>3, LeadsSound
<1>5. ASSUME rx.ended, Pending # <<>> PROVE FALSE
  <2> DEFINE b == Pending[1]
  <2>1. b \in Bytes /\ Tail(Pending) \in Seq(Bytes)
        BY <1>2, <1>5
  <2>2. Leads(Receive(rx, b), Tail(Pending), r)
        BY <1>1, <1>2, <1>5, LeadsTail
  <2> HIDE DEF b
  <2>3. Receive(rx, b).sound
        BY <1>3, <2>1, <2>2, LeadsSound
  <2> QED BY <1>4, <1>5, <2>1, <2>3, ReceiveEnds DEF IInv
<1>6. ASSUME rx.ended PROVE Pending = <<>> /\ Expected(rx) /\ rawWrite["out"] /\ rawWrite["err"]
  <2>1. rx = r
        BY <1>1, <1>5, <1>6, LeadsNone
  <2>2. nWriters = 0
        BY <1>1, <1>6, <2>1 DEF Expected
  <2>3. rawWrite["out"] /\ rawWrite["err"]
        BY <2>2 DEF IInv, Control, Counts, Counted
  <2> QED BY <1>1, <1>5, <1>6, <2>1, <2>3
<1> QED BY <1>4, <1>6

\* The bytes in the buffers and those on their way make the answer complete.
LEMMA IntactAnswer == IInv => ResponseIntact
<1> SUFFICES ASSUME IInv, ~writeFailed
             PROVE  /\ rx.sound
                    /\ rx.ended => /\ \A s \in Streams : rx.got[s] = put[s]
                                   /\ rx.eof["out"]
                                   /\ rx.got["err"] > 0 => rx.eof["err"]
    BY DEF ResponseIntact
<1>1. CASE pc = "accept"
      BY <1>1 DEF IInv, Answered, Between
<1>2. CASE pc # "accept"
  <2>1. rx.sound
        BY <1>2, EndOfAnswer
  <2>2. ASSUME rx.ended
        PROVE  /\ \A s \in Streams : rx.got[s] = put[s]
               /\ rx.eof["out"] /\ (rx.got["err"] > 0 => rx.eof["err"])
    <3>1. \A s \in Streams : rx.got[s] = put[s] /\ (rx.eof[s] \/ (s = "err" /\ put[s] = 0))
          BY <1>2, <2>2, EndOfAnswer DEF Expected, Streams
    <3>2. rx.eof["out"] /\ (rx.got["err"] > 0 => rx.eof["err"])
          BY <3>1 DEF Streams
    <3> QED BY <3>1, <3>2
  <2> QED BY <2>1, <2>2
<1> QED BY <1>1, <1>2

\* As long as no write has failed the web server can take apart what EmptyBuffProc and
\* WriteCloseRecords send, and FCGI_END_REQUEST comes after all the application has put
\* and after the end of both streams.
THEOREM WriterResponseIntact == Spec => []ResponseIntact
BY WriterInvariant, IntactAnswer, PTL

-----------------------------------------------------------------------------
(* FcgiWriter implements FcgiRequest.                                      *)

\* The web server has the whole answer as soon as it understands FCGI_END_REQUEST.
LEMMA CompleteAnswer == IInv => (Complete <=> rx.sound /\ rx.ended)
<1> SUFFICES ASSUME IInv, rx.sound, rx.ended PROVE Complete
    BY DEF Complete
<1>1. ~writeFailed /\ rx.header = 0
      BY DEF IInv, Errors, Ends
<1>2. \A s \in Streams : rx.got[s] = put[s]
      BY <1>1, IntactAnswer DEF ResponseIntact
<1> QED BY <1>1, <1>2 DEF Complete

\* Whether it has is not changed by steps that leave the web server alone.
LEMMA SameAnswer == IInv /\ IInv' /\ rx' = rx => (Complete' <=> Complete)
<1>1. (IInv => (Complete <=> rx.sound /\ rx.ended))'
      BY CompleteAnswer, PTL
<1> QED BY <1>1, CompleteAnswer

\* As long as there are bytes to send the answer is not complete.
LEMMA NotComplete ==
    ASSUME IInv, pc = "write", wrote < Len(buf[cur]) PROVE ~Complete
<1>1. CASE writeFailed
      BY <1>1 DEF IInv, Errors, Complete
<1>2. CASE ~writeFailed /\ rx.ended
  <2>1. Pending = <<>>
        BY <1>2, EndOfAnswer
  <2> DEFINE t == IF Closing THEN todo ELSE <<>>
             b == buf[cur]
  <2>2. b \in Seq(Bytes) /\ t \in Seq(Bytes) /\ wrote \in Nat
        BY DEF IInv, TypeOK
  <2>3. Pending = SubSeq(b, wrote + 1, Len(b)) \o t
        BY DEF Pending
  <2> HIDE DEF t, b
  <2>4. SubSeq(b, wrote + 1, Len(b)) \o t # <<>>
    <3>1. wrote < Len(b)
          BY DEF b
    <3> QED BY <2>2, <3>1, PendingTail
  <2> QED BY <2>1, <2>3, <2>4
<1>3. CASE ~rx.ended
      BY <1>3 DEF Complete
<1> QED BY <1>1, <1>2, <1>3

\* A step within a request that leaves the web server and the errors alone is a stutter.
LEMMA MapStutter ==
    ASSUME IInv, IInv', pc # "accept", pc' # "accept", UNCHANGED <<rx, failed, writeFailed>>
    PROVE  UNCHANGED Request!vars
<1>1. Complete' <=> Complete
      BY SameAnswer
<1> QED BY <1>1 DEF Request!vars

\* A new request is Begin.
LEMMA MapAccept == ASSUME IInv, FCGX_Accept_r PROVE Request!Next
<1>1. /\ pc = "accept" /\ pc' = "app" /\ (writeFailed' <=> ipcOpen /\ writeFailed)
      /\ failed' = [s \in Streams |-> FALSE]
      BY DEF FCGX_Accept_r
<1>2. ~Complete'
  <2>1. PICK x : x = (rx.sound /\ rx.header = 0)
        OBVIOUS
  <2>2. rx' = IF ipcOpen THEN [RxInit EXCEPT !.sound = x] ELSE RxInit
        BY <2>1 DEF FCGX_Accept_r
  <2>3. x \in BOOLEAN
        BY <2>1
  <2>4. ~RxInit.ended
        BY DEF RxInit
  <2>5. ~rx'.ended
        BY <2>2, <2>3, <2>4, LostEnds
  <2> QED BY <2>5 DEF Complete
<1>3. ~ \E s \in Streams : failed'[s]
      BY <1>1
<1>4. ipcOpen => ~ \E s \in Streams : failed[s]
      BY <1>1 DEF IInv, Kept
<1>5. ipcOpen \in BOOLEAN
      BY DEF IInv, TypeOK
<1>6. Request!Begin
  <2>1. CASE ipcOpen
        BY <1>1, <1>2, <1>3, <1>4, <2>1 DEF Request!Begin
  <2>2. CASE ~ipcOpen
        BY <1>1, <1>2, <1>3, <2>2 DEF Request!Begin
  <2> QED BY <2>1, <2>2
<1> QED BY <1>6 DEF Request!Next

\* A byte is Answer, or nothing.
LEMMA MapWriteByte == ASSUME IInv, Write_Byte PROVE Request!Next \/ UNCHANGED Request!vars
<1>1. pc = "write" /\ wrote < Len(buf[cur]) /\ UNCHANGED <<pc, failed, writeFailed>>
      BY DEF Write_Byte, streams
<1>2. ~Complete
      BY <1>1, NotComplete
<1>3. CASE Complete'
      BY <1>1, <1>2, <1>3 DEF Request!Answer, Request!Next
<1>4. CASE ~Complete'
      BY <1>1, <1>2, <1>4 DEF Request!vars
<1> QED BY <1>3, <1>4

\* OS_Write fails: Fail.
LEMMA MapWriteFail == ASSUME IInv, Write_Fail PROVE Request!Next
<1>1. /\ pc = "write" /\ wrote < Len(buf[cur]) /\ rx' = RxLost /\ pc' = ret.write
      /\ failed' = [failed EXCEPT ![cur] = TRUE]
      BY DEF Write_Fail
<1>2. ~Complete
      BY <1>1, NotComplete
<1>3. ~Complete'
      BY <1>1, LostEnds DEF Complete
<1>4. \E s \in Streams : failed'[s]
      BY <1>1 DEF IInv, TypeOK
<1>5. pc' # "accept"
      BY <1>1 DEF IInv, TypeOK
<1>6. Request!Fail
      BY <1>1, <1>2, <1>3, <1>4, <1>5 DEF Request!Fail
<1> QED BY <1>6 DEF Request!Next

\* FCGX_ClearError is Waive once the last error is cleared.
LEMMA MapClearError ==
    ASSUME IInv, IInv', NEW s \in Streams, FCGX_ClearError(s) PROVE Request!Next \/ UNCHANGED Request!vars
<1>1. pc = "app" /\ pc' = pc /\ failed[s] /\ UNCHANGED <<rx, writeFailed>>
      BY DEF FCGX_ClearError
<1>2. writeFailed
      BY <1>1 DEF IInv, Errors
<1>3. Complete' <=> Complete
      BY <1>1, SameAnswer
<1>4. CASE \E t \in Streams : failed'[t]
      BY <1>1, <1>3, <1>4 DEF Request!vars
<1>5. CASE ~ \E t \in Streams : failed'[t]
      BY <1>1, <1>2, <1>3, <1>5 DEF Request!Waive, Request!Next
<1> QED BY <1>4, <1>5

\* The end of FCGX_Finish_r is Keep or Close.
LEMMA MapFree == ASSUME IInv, IInv', NEW keep \in BOOLEAN, Finish_Free(keep) PROVE Request!Next
<1>1. /\ pc = "finishFree" /\ pc' = "accept" /\ UNCHANGED <<rx, failed, writeFailed>>
      /\ ipcOpen' => \A s \in Streams : ~failed[s]
      BY DEF Finish_Free, streams
<1>2. Complete' <=> Complete
      BY <1>1, SameAnswer
<1>3. ASSUME ~writeFailed PROVE Complete
  <2>1. PICK r : Expected(r) /\ Leads(rx, Pending, r)
        BY <1>1, <1>3 DEF IInv, Sending
  <2>2. Pending = <<>>
        BY <1>1, PendingNone DEF IInv, Bounds
  <2>3. rx = r
        BY <2>1, <2>2, LeadsNone
  <2>4. nWriters = 0
        BY <1>1, AllAtRest DEF IInv, Control, Finishing, Counts, Counted, Streams
  <2>5. rx.ended /\ rx.sound
        BY <2>1, <2>3, <2>4 DEF Expected, Between
  <2> QED BY <2>5, CompleteAnswer
<1>4. CASE ~ipcOpen'
      BY <1>1, <1>4 DEF Request!Close, Request!Next
<1>5. CASE ipcOpen'
  <2>1. ~(\E s \in Streams : failed[s]) /\ ~(\E s \in Streams : failed'[s])
        BY <1>1, <1>5
  <2>2. Request!Keep
        BY <1>1, <1>2, <1>3, <1>5, <2>1 DEF Request!Keep
  <2> QED BY <2>2 DEF Request!Next
<1> QED BY <1>4, <1>5

\* Errors are set by a failed write and cleared by the application, within a request.
LEMMA ErrorsApart ==
    ASSUME Next, ~FCGX_Accept_r, ~Write_Fail, ~ \E s \in Streams : FCGX_ClearError(s)
    PROVE  UNCHANGED <<failed, writeFailed>> /\ pc # "accept"
<1>1. CASE App
  <2>1. ASSUME NEW s \in Streams, FCGX_FFlush(s) \/ FCGX_FClose(s)
        PROVE  UNCHANGED <<failed, writeFailed>> /\ pc # "accept"
        BY <2>1 DEF FCGX_FFlush, FCGX_FClose
  <2>2. ASSUME NEW s \in Streams, NEW n \in PutSizes[s], FCGX_PutStr(s, n)
        PROVE  UNCHANGED <<failed, writeFailed>> /\ pc # "accept"
        BY <2>2 DEF FCGX_PutStr, streams
  <2>3. ASSUME NEW status \in Statuses, FCGX_SetExitStatus(status)
        PROVE  UNCHANGED <<failed, writeFailed>> /\ pc # "accept"
        BY <2>3 DEF FCGX_SetExitStatus, streams
  <2>4. CASE Finish_Close("err", "app", "finishOut")
        BY <2>4 DEF Finish_Close
  <2> QED BY <1>1, <2>1, <2>2, <2>3, <2>4 DEF App
<1>2. CASE Library
  <2>1. CASE Write_Byte \/ Write_Done \/ Put_Done \/ Put_Closed \/ Put_Full \/ Put_Empty
        BY <2>1 DEF Write_Byte, Write_Done, Put_Done, Put_Closed, Put_Full, Put_Empty, streams
  <2>2. CASE Close_End \/ Close_Write \/ Close_Done
        BY <2>2 DEF Close_End, Close_Write, Close_Done, streams
  <2>3. CASE Finish_Close("out", "finishOut", "finishFree")
        BY <2>3 DEF Finish_Close
  <2>4. ASSUME NEW keep \in BOOLEAN, Finish_Free(keep)
        PROVE  UNCHANGED <<failed, writeFailed>> /\ pc # "accept"
        BY <2>4 DEF Finish_Free, streams
  <2> QED BY <1>2, <2>1, <2>2, <2>3, <2>4 DEF Library
<1> QED BY <1>1, <1>2 DEF Next

\* Every step is a step of FcgiRequest or a stutter.
LEMMA MapNext == IInv /\ [Next]_vars => (Request!Next \/ UNCHANGED Request!vars)
<1> SUFFICES ASSUME IInv, [Next]_vars PROVE (Request!Next \/ UNCHANGED Request!vars)
    OBVIOUS
<1>1. IInv'
      BY InvariantNext
<1>2. CASE FCGX_Accept_r
      BY <1>2, MapAccept
<1>3. CASE Write_Byte
      BY <1>3, MapWriteByte
<1>4. CASE Write_Fail
      BY <1>4, MapWriteFail
<1>5. ASSUME NEW s \in Streams, FCGX_ClearError(s) PROVE (Request!Next \/ UNCHANGED Request!vars)
      BY <1>1, <1>5, MapClearError
<1>6. ASSUME NEW keep \in BOOLEAN, Finish_Free(keep) PROVE (Request!Next \/ UNCHANGED Request!vars)
      BY <1>1, <1>6, MapFree
<1>7. CASE UNCHANGED vars
  <2>1. UNCHANGED <<pc, ipcOpen, rx, put, failed, writeFailed>>
        BY <1>7 DEF vars, request, streams
  <2>2. Complete' <=> Complete
        BY <1>1, <2>1, SameAnswer
  <2> QED BY <2>1, <2>2 DEF Request!vars
<1>8. CASE /\ Next /\ ~FCGX_Accept_r /\ ~Write_Byte /\ ~Write_Fail
           /\ ~(\E s \in Streams : FCGX_ClearError(s)) /\ ~(\E keep \in BOOLEAN : Finish_Free(keep))
  <2>1. rx' = rx
        BY <1>8, ServersApart
  <2>2. UNCHANGED <<failed, writeFailed>> /\ pc # "accept"
        BY <1>8, ErrorsApart
  <2>3. pc' # "accept"
        BY <1>8, OnlyFinishFrees DEF IInv, Bounds
  <2> QED BY <1>1, <2>1, <2>2, <2>3, MapStutter
<1> QED BY <1>2, <1>3, <1>4, <1>5, <1>6, <1>7, <1>8

\* Whatever write fails, in whatever order the streams are closed, FCGX_Finish_r keeps
\* the connection only if the web server has had a complete answer, or the application
\* has cleared the error: the output streams implement FcgiRequest.
THEOREM WriterImplementsRequest == Spec => ImplementsRequest
<1>1. Init => Request!Init
      BY DEF Init, Request!Init
<1>2. IInv /\ [Next]_vars => [Request!Next]_(Request!vars)
      BY MapNext
<1> QED BY <1>1, <1>2, WriterInvariant, PTL DEF Spec, ImplementsRequest, Request!Spec

-----------------------------------------------------------------------------
(* Calls return.                                                           *)

\* The steps of FCGX_Finish_r that come after the close that is under way.
ToFinish == CASE ret.close = "app" -> 0
              [] ret.close = "finishFree" -> 1
              [] ret.close = "finishOut" -> 8

PutPhase == CASE ret.put = "app" -> 1
              [] ret.put = "closeWrite" -> ToFinish + 4
              [] ret.put = "closeEnd" -> ToFinish + 6

\* How far the call under way has come: the parts of EmptyBuffProc, WriteCloseRecords
\* and FCGX_Finish_r that are ahead.
Phase ==
    CASE pc \in {"app", "accept"} -> 0
      [] pc = "finishFree" -> 1
      [] pc = "finishOut" -> 8
      [] Putting -> PutPhase
      [] pc = "write" /\ ret.write = "app" -> 1
      [] pc = "write" /\ ret.write = "closed" -> ToFinish + 2
      [] pc = "closed" -> ToFinish + 1
      [] pc = "closeWrite" -> ToFinish + 3
      [] pc = "closeEnd" -> ToFinish + 5

\* Within an iteration of FCGX_PutStr: a buffer without room has to be emptied first.
Turn == CASE pc = "put" -> (IF Room(cur) > 0 \/ isClosed[cur] THEN 0 ELSE 3)
          [] pc = "empty" -> 2
          [] pc = "write" -> 1
          [] OTHER -> 0

\* Within write_it_all.
Unsent == IF pc = "write" THEN Len(buf[cur]) - wrote ELSE 0

Rank == <<Phase, Len(todo), Turn, Unsent>>
Ranks == [1..4 -> Nat]
Smaller == LexProductOrdering(OpToRel(<, Nat), Nat, 4)

\* No sequence of ranks gets smaller for ever.
LEMMA RanksWellFounded == IsWellFoundedOn(Smaller, Ranks)
<1> DEFINE R == OpToRel(<, Nat)
<1>1. IsWellFoundedOn(R, Nat)
      BY NatLessThanWellFounded
<1>2. PICK n \in Nat : n = 4
      OBVIOUS
<1>3. IsWellFoundedOn(LexProductOrdering(R, Nat, n), [1..n -> Nat])
  <2> HIDE DEF R
  <2> QED BY <1>1, WFLexProductOrdering
<1> QED BY <1>2, <1>3 DEF Smaller, Ranks

\* What makes a rank smaller.
LEMMA SmallerRank ==
    ASSUME NEW a \in Nat, NEW b \in Nat, NEW c \in Nat, NEW d \in Nat,
           NEW a2 \in Nat, NEW b2 \in Nat, NEW c2 \in Nat, NEW d2 \in Nat,
           \/ a2 < a
           \/ a2 = a /\ b2 < b
           \/ a2 = a /\ b2 = b /\ c2 < c
           \/ a2 = a /\ b2 = b /\ c2 = c /\ d2 < d
    PROVE  <<<<a2, b2, c2, d2>>, <<a, b, c, d>>>> \in Smaller
<1> DEFINE R == OpToRel(<, Nat)
           x == <<a2, b2, c2, d2>>
           y == <<a, b, c, d>>
<1>1. \A i, j \in Nat : i < j => <<i, j>> \in R
      BY DEF OpToRel
<1>2. x \in [1..4 -> Nat] /\ y \in [1..4 -> Nat]
      OBVIOUS
<1>3. /\ x[1] = a2 /\ x[2] = b2 /\ x[3] = c2 /\ x[4] = d2
      /\ y[1] = a /\ y[2] = b /\ y[3] = c /\ y[4] = d
      OBVIOUS
<1> HIDE DEF R, x, y
<1>4. \E i \in 1..4 : (\A j \in 1..(i - 1) : x[j] = y[j]) /\ <<x[i], y[i]>> \in R
  <2>1. CASE a2 < a
    <3>1. (\A j \in 1..(1 - 1) : x[j] = y[j]) /\ <<x[1], y[1]>> \in R
          BY <1>1, <1>3, <2>1
    <3> QED BY <3>1
  <2>2. CASE a2 = a /\ b2 < b
    <3>1. (\A j \in 1..(2 - 1) : x[j] = y[j]) /\ <<x[2], y[2]>> \in R
          BY <1>1, <1>3, <2>2
    <3> QED BY <3>1
  <2>3. CASE a2 = a /\ b2 = b /\ c2 < c
    <3>1. \A j \in 1..(3 - 1) : j = 1 \/ j = 2
          OBVIOUS
    <3>2. (\A j \in 1..(3 - 1) : x[j] = y[j]) /\ <<x[3], y[3]>> \in R
          BY <1>1, <1>3, <2>3, <3>1
    <3> QED BY <3>2
  <2>4. CASE a2 = a /\ b2 = b /\ c2 = c /\ d2 < d
    <3>1. \A j \in 1..(4 - 1) : j = 1 \/ j = 2 \/ j = 3
          OBVIOUS
    <3>2. (\A j \in 1..(4 - 1) : x[j] = y[j]) /\ <<x[4], y[4]>> \in R
          BY <1>1, <1>3, <2>4, <3>1
    <3> QED BY <3>2
  <2> QED BY <2>1, <2>2, <2>3, <2>4
<1>5. <<x, y>> \in Smaller
      BY <1>2, <1>4 DEF Smaller, LexProductOrdering, R
<1> QED BY <1>5 DEF x, y

\* A rank is made of numbers.
Numbered == /\ ToFinish \in Nat /\ Phase \in Nat /\ Len(todo) \in Nat
            /\ Turn \in Nat /\ Unsent \in Nat

\* Whatever the call.
LEMMA RankNat == Bounds => Numbered
<1> SUFFICES ASSUME Bounds PROVE Numbered
    OBVIOUS
<1>1. ToFinish \in Nat
      BY DEF Bounds, TypeOK, ToFinish
<1>2. PutPhase \in Nat
      BY <1>1 DEF Bounds, TypeOK, PutPhase
<1>3. Phase \in Nat
  <2>1. CASE Putting
    <3>1. Phase = PutPhase
          BY <2>1 DEF Phase, Putting
    <3> QED BY <1>2, <3>1
  <2>2. CASE ~Putting
    <3>1. /\ pc \in {"accept", "app", "write", "closeEnd", "closeWrite", "closed", "finishOut", "finishFree"}
          /\ pc = "write" => ret.write \in {"app", "closed"}
          BY <2>2 DEF Bounds, TypeOK, Putting
    <3>2. Phase \in {0, 1, 8, ToFinish + 1, ToFinish + 2, ToFinish + 3, ToFinish + 5}
          BY <2>2, <3>1 DEF Phase
    <3> QED BY <1>1, <3>2
  <2> QED BY <2>1, <2>2
<1>4. Len(todo) \in Nat
      BY DEF Bounds, TypeOK
<1>5. Turn \in Nat
      BY DEF Turn
<1>6. Unsent \in Nat
  <2>1. Len(buf[cur]) \in Nat /\ wrote \in Nat
        BY DEF Bounds, TypeOK
  <2> QED BY <2>1 DEF Unsent, Bounds, Wrote
<1> QED BY <1>1, <1>3, <1>4, <1>5, <1>6 DEF Numbered

\* So is the next one.
LEMMA NextRankNat == Bounds' => Numbered'
BY RankNat, PTL

\* While FCGX_PutStr is under way the phase is the same.
LEMMA SamePhase ==
    ASSUME Putting, Putting', ret'.put = ret.put, ret'.close = ret.close
    PROVE  Phase' = Phase
<1>1. Phase = PutPhase
      BY DEF Phase, Putting
<1>2. Phase' = PutPhase'
      BY DEF Phase, Putting
<1>3. PutPhase' = PutPhase
      BY DEF PutPhase, ToFinish
<1> QED BY <1>1, <1>2, <1>3

\* A step that makes the rank smaller.
LEMMA RankDown ==
    ASSUME Bounds, Bounds',
           \/ Phase' < Phase
           \/ Phase' = Phase /\ Len(todo') < Len(todo)
           \/ Phase' = Phase /\ todo' = todo /\ Turn' < Turn
           \/ Phase' = Phase /\ todo' = todo /\ Turn' = Turn /\ Unsent' < Unsent
    PROVE  <<Rank', Rank>> \in Smaller
<1>1. Phase \in Nat /\ Len(todo) \in Nat /\ Turn \in Nat /\ Unsent \in Nat
      BY RankNat DEF Numbered
<1>2. Phase' \in Nat /\ Len(todo') \in Nat /\ Turn' \in Nat /\ Unsent' \in Nat
      BY NextRankNat DEF Numbered
<1>3. Rank = <<Phase, Len(todo), Turn, Unsent>> /\ Rank' = <<Phase', Len(todo'), Turn', Unsent'>>
      BY DEF Rank
<1> QED BY <1>1, <1>2, <1>3, SmallerRank

\* write_it_all gets on.
LEMMA RankWriteByte == ASSUME Bounds, Bounds', Write_Byte PROVE <<Rank', Rank>> \in Smaller
<1>1. /\ pc = "write" /\ pc' = pc /\ ret' = ret /\ cur' = cur /\ buf' = buf /\ todo' = todo
      /\ wrote' = wrote + 1 /\ wrote < Len(buf[cur])
      BY DEF Write_Byte, streams
<1>2. Phase' = Phase
      BY <1>1 DEF Phase, PutPhase, Putting, ToFinish
<1>3. Turn' = 1 /\ Turn = 1
      BY <1>1 DEF Turn
<1>4. Unsent' < Unsent
  <2>1. Len(buf[cur]) \in Nat /\ wrote \in Nat
        BY DEF Bounds, TypeOK
  <2> QED BY <1>1, <2>1 DEF Unsent
<1> QED BY <1>1, <1>2, <1>3, <1>4, RankDown

\* The end of write_it_all, with or without an error.
LEMMA RankWriteEnd ==
    ASSUME Bounds, Bounds', Control, Write_Done \/ Write_Fail
    PROVE  <<Rank', Rank>> \in Smaller
<1>1. /\ pc = "write" /\ pc' = ret.write /\ ret' = ret /\ cur' = cur /\ todo' = todo
      /\ wasFCloseCalled' = wasFCloseCalled
      BY DEF Write_Done, Write_Fail
<1>2. ToFinish' = ToFinish /\ ToFinish \in Nat
      BY <1>1, RankNat DEF ToFinish, Numbered
<1>3. CASE ret.write = "app"
  <2>1. Phase = 1 /\ Phase' = 0
        BY <1>1, <1>3 DEF Phase, PutPhase, Putting
  <2> QED BY <2>1, RankDown
<1>4. CASE ret.write = "closed"
  <2>1. Phase = ToFinish + 2 /\ Phase' = ToFinish' + 1
        BY <1>1, <1>4 DEF Phase, PutPhase, Putting
  <2> QED BY <1>2, <2>1, RankDown
<1>5. CASE ret.write = "put"
  <2>1. Phase' = Phase
        BY <1>1, <1>5, SamePhase DEF Putting
  <2>2. Turn = 1
        BY <1>1 DEF Turn
  <2>3. Room(cur)' > 0 \/ isClosed'[cur]
    <3>1. cur \in Streams /\ wasFCloseCalled \in [Streams -> BOOLEAN] /\ isClosed \in [Streams -> BOOLEAN]
          /\ buf \in [Streams -> Seq(Bytes)]
          BY DEF Bounds, TypeOK
    <3>2. CASE Write_Fail
          BY <3>1, <3>2 DEF Write_Fail
    <3>3. CASE Write_Done
      <4>1. CASE wasFCloseCalled[cur]
        <5>1. isClosed[cur]
              BY <3>1, <4>1 DEF Control, Streaming
        <5> QED BY <3>3, <5>1 DEF Write_Done
      <4>2. CASE ~wasFCloseCalled[cur]
        <5>1. Unit \in Nat /\ Unit > 0 /\ Size(cur) \in Nat /\ Unit < Size(cur)
          <6>1. BuffUnits[cur] \in Nat /\ BuffUnits[cur] >= 4 /\ Unit \in Nat /\ Unit > 0
                BY <3>1, UnitAssumption, BuffAssumption
          <6>2. PICK b \in Nat : b = BuffUnits[cur] /\ b >= 4
                BY <6>1
          <6>3. Unit < b * Unit /\ b * Unit \in Nat
                BY <6>1, <6>2
          <6> QED BY <6>1, <6>2, <6>3 DEF Size
        <5>2. buf'[cur] = IF rawWrite[cur] THEN <<>> ELSE Reserved
              BY <3>1, <3>3 DEF Write_Done
        <5>3. Len(buf'[cur]) \in Nat /\ Len(buf'[cur]) <= Unit
          <6>1. Len(Reserved) = Unit /\ Len(<<>>) = 0
                BY Pieces
          <6>2. CASE rawWrite[cur]
                BY <5>1, <5>2, <6>1, <6>2
          <6>3. CASE ~rawWrite[cur]
                BY <5>1, <5>2, <6>1, <6>3
          <6> QED BY <6>2, <6>3
        <5>4. Room(cur)' = Size(cur) - Len(buf'[cur])
              BY <1>1, <4>2 DEF Room, Size
        <5> QED BY <5>1, <5>3, <5>4
      <4> QED BY <4>1, <4>2
    <3> QED BY <3>2, <3>3
  <2>4. Turn' = 0
        BY <1>1, <1>5, <2>3 DEF Turn
  <2> QED BY <1>1, <2>1, <2>2, <2>4, RankDown
<1>6. ret.write \in {"app", "put", "closed"}
      BY DEF Bounds, TypeOK
<1> QED BY <1>3, <1>4, <1>5, <1>6

\* The end of FCGX_PutStr.
LEMMA RankPutEnd ==
    ASSUME Bounds, Bounds', Put_Done \/ Put_Closed
    PROVE  <<Rank', Rank>> \in Smaller
<1>1. pc = "put" /\ pc' = ret.put /\ ret' = ret /\ ret.put \in {"app", "closeEnd", "closeWrite"}
      BY DEF Put_Done, Put_Closed, Bounds, TypeOK
<1>2. ToFinish' = ToFinish /\ ToFinish \in Nat
      BY <1>1, RankNat DEF ToFinish, Numbered
<1>3. CASE ret.put = "app"
  <2>1. Phase = 1 /\ Phase' = 0
        BY <1>1, <1>3 DEF Phase, PutPhase, Putting
  <2> QED BY <2>1, RankDown
<1>4. CASE ret.put = "closeEnd"
  <2>1. Phase = ToFinish + 6 /\ Phase' = ToFinish' + 5
        BY <1>1, <1>4 DEF Phase, PutPhase, Putting
  <2> QED BY <1>2, <2>1, RankDown
<1>5. CASE ret.put = "closeWrite"
  <2>1. Phase = ToFinish + 4 /\ Phase' = ToFinish' + 3
        BY <1>1, <1>5 DEF Phase, PutPhase, Putting
  <2> QED BY <1>2, <2>1, RankDown
<1> QED BY <1>1, <1>3, <1>4, <1>5

\* An iteration of FCGX_PutStr: it moves something, or there is no room.
LEMMA RankPutFull == ASSUME Bounds, Bounds', Put_Full PROVE <<Rank', Rank>> \in Smaller
<1>1. /\ pc = "put" /\ pc' = "empty" /\ ret' = ret /\ Moved < Len(todo) /\ ~isClosed[cur]
      /\ todo' = SubSeq(todo, Moved + 1, Len(todo))
      BY DEF Put_Full
<1>2. PICK m \in Nat : m = Moved /\ m < Len(todo)
      BY <1>1, MovedBounds DEF Bounds
<1>3. todo \in Seq(Bytes) /\ Len(todo) \in Nat /\ cur \in Streams
      BY DEF Bounds, TypeOK
<1>4. Phase' = Phase
      BY <1>1, SamePhase DEF Putting
<1>5. CASE m = 0
  <2>1. todo' = todo
    <3>1. todo' = SubSeq(todo, 1, Len(todo))
          BY <1>1, <1>2, <1>5
    <3> QED BY <1>3, <3>1, SubSeqFull
  <2>2. Room(cur) \in Int /\ ~(Room(cur) > 0)
    <3>1. Room(cur) \in Int
      <4>1. Len(buf[cur]) \in Nat /\ Size(cur) \in Nat
            BY <1>3, Sizes DEF Bounds, TypeOK
      <4> QED BY <4>1 DEF Room
    <3>2. Min2(Len(todo), Room(cur)) = 0
          BY <1>2, <1>5 DEF Moved
    <3> QED BY <1>2, <1>3, <1>5, <3>1, <3>2 DEF Min2
  <2>3. Turn = 3 /\ Turn' = 2
        BY <1>1, <2>2 DEF Turn
  <2> QED BY <1>4, <2>1, <2>3, RankDown
<1>6. CASE m # 0
  <2>1. todo' = SubSeq(todo, m + 1, Len(todo))
        BY <1>1, <1>2
  <2>2. Len(todo') = Len(todo) - m
        BY <1>2, <1>3, <2>1
  <2> QED BY <1>2, <1>3, <1>4, <1>6, <2>2, RankDown
<1> QED BY <1>5, <1>6

\* The buffer of FCGX_PutStr is handed to write_it_all.
LEMMA RankPutEmpty == ASSUME Bounds, Bounds', Put_Empty PROVE <<Rank', Rank>> \in Smaller
<1>1. /\ pc = "empty" /\ pc' = "write" /\ ret' = [ret EXCEPT !.write = "put"] /\ todo' = todo
      BY DEF Put_Empty, EmptyBuff
<1>2. ret'.write = "put" /\ ret'.put = ret.put /\ ret'.close = ret.close
      BY <1>1 DEF Bounds, TypeOK
<1>3. Phase' = Phase
      BY <1>1, <1>2, SamePhase DEF Putting
<1>4. Turn = 2 /\ Turn' = 1
      BY <1>1 DEF Turn
<1> QED BY <1>1, <1>3, <1>4, RankDown

\* The parts of a close follow one another.
LEMMA RankClose ==
    ASSUME Bounds, Bounds', Close_End \/ Close_Write \/ Close_Done
    PROVE  <<Rank', Rank>> \in Smaller
<1>0. ToFinish \in Nat
      BY RankNat DEF Numbered
<1>1. CASE Close_End
  <2>1. /\ pc = "closeEnd" /\ pc' = "put" /\ ret'.put = "closeWrite" /\ ret'.close = ret.close
        BY <1>1 DEF Close_End, Bounds, TypeOK
  <2>2. Phase = ToFinish + 5 /\ Phase' = ToFinish' + 4 /\ ToFinish' = ToFinish
        BY <2>1 DEF Phase, PutPhase, Putting, ToFinish
  <2> QED BY <1>0, <2>2, RankDown
<1>2. CASE Close_Write
  <2>1. /\ pc = "closeWrite" /\ pc' = "write" /\ ret'.write = "closed" /\ ret'.close = ret.close
        BY <1>2 DEF Close_Write, Bounds, TypeOK
  <2>2. Phase = ToFinish + 3 /\ Phase' = ToFinish' + 2 /\ ToFinish' = ToFinish
        BY <2>1 DEF Phase, PutPhase, Putting, ToFinish
  <2> QED BY <1>0, <2>2, RankDown
<1>3. CASE Close_Done
  <2>1. /\ pc = "closed" /\ pc' = ret.close /\ ret.close \in {"app", "finishOut", "finishFree"}
        BY <1>3 DEF Close_Done, Bounds, TypeOK
  <2>2. Phase = ToFinish + 1
        BY <2>1 DEF Phase, PutPhase, Putting
  <2>3. Phase' = ToFinish
        BY <2>1 DEF Phase, PutPhase, Putting, ToFinish
  <2> QED BY <1>0, <2>2, <2>3, RankDown
<1> QED BY <1>1, <1>2, <1>3

\* FCGX_Finish_r goes on.
LEMMA RankFinish ==
    ASSUME Bounds, Bounds',
           Finish_Close("out", "finishOut", "finishFree") \/ \E keep \in BOOLEAN : Finish_Free(keep)
    PROVE  <<Rank', Rank>> \in Smaller
<1>1. CASE Finish_Close("out", "finishOut", "finishFree")
  <2>1. pc = "finishOut"
        BY <1>1 DEF Finish_Close
  <2>2. Phase = 8
        BY <2>1 DEF Phase, PutPhase, Putting
  <2>3. CASE wasFCloseCalled["out"]
    <3>1. pc' = "finishFree"
          BY <1>1, <2>3 DEF Finish_Close
    <3>2. Phase' = 1
          BY <3>1 DEF Phase, PutPhase, Putting
    <3> QED BY <2>2, <3>2, RankDown
  <2>4. CASE ~wasFCloseCalled["out"]
    <3>1. pc' = "put" /\ ret'.put = "closeEnd" /\ ret'.close = "finishFree"
          BY <1>1, <2>4 DEF Finish_Close, StartClose, Bounds, TypeOK
    <3>2. Phase' = 7
          BY <3>1 DEF Phase, PutPhase, Putting, ToFinish
    <3> QED BY <2>2, <3>2, RankDown
  <2> QED BY <2>3, <2>4
<1>2. ASSUME NEW keep \in BOOLEAN, Finish_Free(keep) PROVE <<Rank', Rank>> \in Smaller
  <2>1. pc = "finishFree" /\ pc' = "accept"
        BY <1>2 DEF Finish_Free
  <2>2. Phase = 1 /\ Phase' = 0
        BY <2>1 DEF Phase, PutPhase, Putting
  <2> QED BY <2>2, RankDown
<1> QED BY <1>1, <1>2

\* Every call of the application returns: each step that is taken within FCGX_PutStr,
\* FCGX_FFlush, FCGX_FClose or FCGX_Finish_r, whether a write transfers a byte, is done
\* or fails, makes the rank smaller, which it cannot do for ever.  With the fairness of
\* FairSpec this is what CallsReturn says.
THEOREM WriterCallsEnd ==
    /\ IsWellFoundedOn(Smaller, Ranks)
    /\ Spec => [][pc \notin {"app", "accept"} => <<Rank', Rank>> \in Smaller]_vars
<1>1. ASSUME Bounds, Bounds', Control, Next, pc \notin {"app", "accept"} PROVE <<Rank', Rank>> \in Smaller
  <2>1. Library
        BY <1>1 DEF Next, App, FCGX_Accept_r, FCGX_PutStr, FCGX_FFlush, FCGX_FClose, FCGX_ClearError,
                    FCGX_SetExitStatus, Finish_Close
  <2> QED BY <1>1, <2>1, RankWriteByte, RankWriteEnd, RankPutEnd, RankPutFull, RankPutEmpty, RankClose,
             RankFinish DEF Library
<1>2. IInv => Bounds /\ Control
      BY DEF IInv, Bounds
<1>3. IInv' => Bounds'
      BY DEF IInv, Bounds
<1>4. IInv /\ IInv' /\ [Next]_vars => [pc \notin {"app", "accept"} => <<Rank', Rank>> \in Smaller]_vars
      BY <1>1, <1>2, <1>3
<1>5. Spec => [][pc \notin {"app", "accept"} => <<Rank', Rank>> \in Smaller]_vars
      BY <1>4, WriterInvariant, PTL DEF Spec
<1> QED BY <1>5, RanksWellFounded

-----------------------------------------------------------------------------
(* What the abstract specification promises.                               *)

\* A connection that is kept for another request owes the web server nothing, unless a
\* write on it has failed (FCGX_Finish_r): FcgiRequest keeps NothingOwed, and the output
\* streams implement FcgiRequest.
THEOREM WriterNothingOwed == Spec => []Request!NothingOwed
<1>1. Request!Init => Request!NothingOwed
      BY DEF Request!Init, Request!NothingOwed
<1>2. Request!NothingOwed /\ [Request!Next]_(Request!vars) => Request!NothingOwed'
      BY DEF Request!NothingOwed, Request!vars, Request!Next, Request!Connect, Request!Begin,
             Request!Answer, Request!Fail, Request!Waive, Request!Keep, Request!Close
<1> QED BY <1>1, <1>2, WriterImplementsRequest, PTL DEF ImplementsRequest, Request!Spec
=============================================================================
