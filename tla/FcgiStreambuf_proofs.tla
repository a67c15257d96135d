------------------------ MODULE FcgiStreambuf_proofs ------------------------
(***************************************************************************)
(* Proofs about the C++ stream buffer of FcgiStreambuf, for any number of  *)
(* requests, any buffer sizes, sizes of calls and lengths of streams.      *)
(***************************************************************************)
EXTENDS FcgiStreambuf, SequenceTheorems, TLAPS

Char == Nat \X Nat

-----------------------------------------------------------------------------
(* The inductive invariant.                                                *)

\* The types of the module's variables, but for read and peeked: nothing is known of
\* them once the application has strayed.
TypeOK ==
    /\ dir \in {"in", "out"} /\ alive \in BOOLEAN
    /\ bufsize \in Nat /\ fcgx \in 0..MaxReqs /\ todo \in Nat
    /\ gbuf \in Seq(Char) /\ gptr \in Nat /\ pbuf \in Seq(Char)
    /\ inLen \in [Requests -> Nat] /\ taken \in [Requests -> Nat]
    /\ out \in [Requests -> Seq(Char)] /\ puts \in [Requests -> Nat]
    /\ failed \in [Requests -> BOOLEAN] /\ room \in [Requests -> Nat]
    /\ dirty \in [Requests -> BOOLEAN]
    /\ eof \in BOOLEAN /\ strayed \in BOOLEAN

\* Nothing has been read from or written to a stream before it is attached.
Fresh == \A r \in Requests : r > fcgx => taken[r] = 0 /\ puts[r] = 0 /\ out[r] = <<>>

\* The stream still takes characters: an error may have closed it, but there is space
\* left in its buffer.
Takes == ~failed[fcgx] \/ room[fcgx] > 0

\* As long as its stream takes characters, the put area holds what has been written and
\* has not been handed on, and it is empty unless the application knows that it is not.
PutArea ==
    /\ bufsize = 0 \/ fcgx = 0 => pbuf = <<>>
    /\ fcgx # 0 /\ Takes =>
          /\ pbuf = Chars(fcgx, Len(out[fcgx]), Len(pbuf))
          /\ Len(out[fcgx]) + Len(pbuf) = puts[fcgx]
          /\ ~dirty[fcgx] => pbuf = <<>>
    /\ dir = "out" /\ todo > 0 => bufsize # 0 /\ dirty[fcgx]

\* The get area holds the last characters that FCGX has given; gptr is beyond it only
\* at the end of file.
GetArea ==
    /\ bufsize = 0 \/ fcgx = 0 => gbuf = <<>> /\ gptr = 0
    /\ gptr <= Len(gbuf) + 1 /\ (gptr = Len(gbuf) + 1 => eof)
    /\ fcgx # 0 => /\ taken[fcgx] <= inLen[fcgx] /\ Len(gbuf) <= taken[fcgx]
                   /\ gbuf = Chars(fcgx, taken[fcgx] - Len(gbuf), Len(gbuf))

\* What the application has read is what FCGX has given, less what is between gptr and
\* egptr.
Position ==
    fcgx # 0 /\ ~strayed =>
        /\ Len(read) = taken[fcgx] - Len(gbuf) + Least(gptr, Len(gbuf))
        /\ read = Chars(fcgx, 0, Len(read))
        /\ peeked # None => peeked = <<fcgx, Len(read) + 1>>
        /\ eof /\ ~refused => Len(read) = inLen[fcgx]

\* While the loop of a base class call reads, there is a buffer and nothing is peeked.
Looping == dir = "in" /\ todo > 0 => bufsize # 0 /\ peeked = None

\* FlushedMeansAll, for the streams that no error has closed.
AllFlushed == \A r \in Requests : ~dirty[r] /\ ~failed[r] => Len(out[r]) = puts[r]

\* An application is told of every error, but for those that the destructor meets.
Told == /\ reported \in [Requests -> BOOLEAN]
        /\ \A r \in Requests : failed[r] /\ alive => reported[r]

IInv ==
    /\ TypeOK /\ Fresh /\ PutArea /\ GetArea /\ Position /\ Looping
    /\ OutputInOrder /\ AllFlushed

-----------------------------------------------------------------------------
(* Chars: pieces of a stream.                                              *)

\* A piece of a stream is a sequence of so many characters.
LEMMA CharsType ==
    ASSUME NEW r \in Nat, NEW k \in Nat, NEW c \in Nat
    PROVE  /\ Chars(r, k, c) \in Seq(Char)
           /\ Len(Chars(r, k, c)) = c
           /\ \A i \in 1..c : Chars(r, k, c)[i] = <<r, k + i>>
BY DEF Chars, Char

\* A piece of no characters is the empty sequence.
LEMMA CharsEmpty ==
    ASSUME NEW r \in Nat, NEW k \in Nat
    PROVE  Chars(r, k, 0) = <<>>
BY CharsType

\* A sequence with the characters of a piece is that piece.
LEMMA CharsEqual ==
    ASSUME NEW r \in Nat, NEW k \in Nat, NEW c \in Nat, NEW s \in Seq(Char),
           Len(s) = c, \A i \in 1..c : s[i] = <<r, k + i>>
    PROVE  s = Chars(r, k, c)
<1> DEFINE t == Chars(r, k, c)
<1>1. t \in Seq(Char) /\ Len(t) = c /\ \A i \in 1..c : t[i] = <<r, k + i>>
      BY CharsType
<1>2. \A i \in 1..Len(s) : s[i] = t[i]
      BY <1>1
<1> HIDE DEF t
<1>3. s = t
      BY <1>1, <1>2, SeqEqual
<1> QED BY <1>3 DEF t

\* Two pieces of a stream that follow each other make one piece.
LEMMA CharsConcat ==
    ASSUME NEW r \in Nat, NEW k \in Nat, NEW c \in Nat, NEW d \in Nat
    PROVE  Chars(r, k, c) \o Chars(r, k + c, d) = Chars(r, k, c + d)
<1> DEFINE s == Chars(r, k, c)
           t == Chars(r, k + c, d)
<1>1. s \in Seq(Char) /\ Len(s) = c /\ \A i \in 1..c : s[i] = <<r, k + i>>
      BY CharsType
<1>2. t \in Seq(Char) /\ Len(t) = d /\ \A i \in 1..d : t[i] = <<r, k + c + i>>
  <2>1. k + c \in Nat
        OBVIOUS
  <2> QED BY <2>1, CharsType
<1> HIDE DEF s, t
<1>3. s \o t \in Seq(Char) /\ Len(s \o t) = c + d
      BY <1>1, <1>2
<1>4. \A i \in 1..(c + d) : (s \o t)[i] = <<r, k + i>>
  <2> TAKE i \in 1..(c + d)
  <2>1. CASE i <= c
        BY <2>1, <1>1, <1>2
  <2>2. CASE ~(i <= c)
    <3>1. i - c \in 1..d /\ i \in 1 .. Len(s) + Len(t) /\ ~(i <= Len(s))
          BY <2>2, <1>1, <1>2
    <3>2. (s \o t)[i] = IF i <= Len(s) THEN s[i] ELSE t[i - Len(s)]
          BY <3>1, <1>1, <1>2, ConcatProperties
    <3>3. (s \o t)[i] = t[i - c]
          BY <3>1, <3>2, <1>1
    <3>4. t[i - c] = <<r, k + c + (i - c)>>
          BY <3>1, <1>2
    <3> QED BY <3>1, <3>3, <3>4
  <2> QED BY <2>1, <2>2
<1>5. c + d \in Nat
      OBVIOUS
<1>6. s \o t = Chars(r, k, c + d)
      BY <1>5, <1>3, <1>4, CharsEqual
<1> QED BY <1>6 DEF s, t

\* What follows the beginning of a stream makes it longer.
LEMMA CharsGrow ==
    ASSUME NEW r \in Nat, NEW c \in Nat, NEW d \in Nat
    PROVE  Chars(r, 0, c) \o Chars(r, c, d) = Chars(r, 0, c + d)
<1> HIDE DEF Chars
<1>1. \A k \in Nat : Chars(r, k, c) \o Chars(r, k + c, d) = Chars(r, k, c + d)
      BY CharsConcat, ZenonT(30)
<1>2. 0 \in Nat /\ 0 + c = c
      OBVIOUS
<1>3. Chars(r, 0, c) \o Chars(r, 0 + c, d) = Chars(r, 0, c + d)
      BY <1>1, <1>2
<1> QED BY <1>2, <1>3

\* The characters from one place of a piece to another are a piece.
LEMMA CharsSub ==
    ASSUME NEW r \in Nat, NEW k \in Nat, NEW c \in Nat, NEW i \in 0..c, NEW j \in i..c
    PROVE  SubSeq(Chars(r, k, c), i + 1, j) = Chars(r, k + i, j - i)
<1> DEFINE s == Chars(r, k, c)
           t == SubSeq(s, i + 1, j)
<1>1. s \in Seq(Char) /\ Len(s) = c /\ \A h \in 1..c : s[h] = <<r, k + h>>
      BY CharsType
<1> HIDE DEF s
<1>2. \A h \in (i + 1)..j : s[h] \in Char
      BY <1>1 DEF Char
<1>3. t \in Seq(Char) /\ Len(t) = j - i /\ \A h \in 1..(j - i) : t[h] = s[i + h]
  <2>1. /\ SubSeq(s, i + 1, j) \in Seq(Char)
        /\ Len(SubSeq(s, i + 1, j)) = IF i + 1 <= j THEN j - (i + 1) + 1 ELSE 0
        /\ \A h \in 1..(j - (i + 1) + 1) : SubSeq(s, i + 1, j)[h] = s[i + 1 + h - 1]
        BY <1>2, SubSeqProperties
  <2>2. \A h \in 1..(j - i) : i + 1 + h - 1 = i + h
        OBVIOUS
  <2> HIDE DEF t
  <2> QED BY <2>1, <2>2 DEF t
<1> HIDE DEF t
<1>4. \A h \in 1..(j - i) : t[h] = <<r, (k + i) + h>>
      BY <1>1, <1>3
<1>5. k + i \in Nat /\ j - i \in Nat
      OBVIOUS
<1>6. t = Chars(r, k + i, j - i)
      BY <1>5, <1>3, <1>4, CharsEqual
<1> QED BY <1>6 DEF s, t

\* A piece and the character after it.
LEMMA CharsAppend ==
    ASSUME NEW r \in Nat, NEW k \in Nat, NEW c \in Nat
    PROVE  Append(Chars(r, k, c), <<r, k + c + 1>>) = Chars(r, k, c + 1)
<1> DEFINE s == Chars(r, k, c)
           e == <<r, k + c + 1>>
<1>1. s \in Seq(Char) /\ Len(s) = c /\ \A i \in 1..c : s[i] = <<r, k + i>>
      BY CharsType
<1>2. e \in Char
      BY DEF Char
<1> HIDE DEF s
<1>3. Append(s, e) \in Seq(Char) /\ Len(Append(s, e)) = c + 1
      BY <1>1, <1>2
<1>4. \A i \in 1..(c + 1) : Append(s, e)[i] = <<r, k + i>>
      BY <1>1, <1>2
<1>5. c + 1 \in Nat
      OBVIOUS
<1> HIDE DEF e
<1>6. Append(s, e) = Chars(r, k, c + 1)
      BY <1>5, <1>3, <1>4, CharsEqual
<1> QED BY <1>6 DEF s, e

-----------------------------------------------------------------------------
(* The beginning, and the calls that change buffers and streams.           *)

\* The invariant holds when the stream buffer has been made.
LEMMA StreambufInit == Init => IInv
<1> SUFFICES ASSUME Init PROVE IInv
    OBVIOUS
<1> USE DEF Init
<1>1. <<>> \in Seq(Char) /\ Len(<<>>) = 0
      BY EmptySeq
<1>2. Requests \subseteq Nat /\ MaxReqs \in Nat /\ MaxReqs >= 1 /\ InLen \in Nat
      BY StreambufAssumption DEF Requests
<1>3. inLen \in [Requests -> Nat]
      BY <1>2
<1>4. alive \in BOOLEAN /\ eof \in BOOLEAN /\ strayed \in BOOLEAN
      BY Zenon
<1>5. failed \in [Requests -> BOOLEAN] /\ dirty \in [Requests -> BOOLEAN]
      BY Zenon
<1>6. bufsize \in Nat /\ fcgx \in 0..MaxReqs
      BY <1>2, StreambufAssumption
<1>7. TypeOK
      BY <1>1, <1>2, <1>3, <1>4, <1>5, <1>6 DEF TypeOK
<1>8. \A r \in Nat : Chars(r, 0, 0) = <<>>
      BY CharsEmpty
<1>9. fcgx # 0 => fcgx \in Requests /\ fcgx \in Nat
      BY <1>2 DEF Requests
<1>10. Fresh /\ OutputInOrder /\ AllFlushed
      BY <1>1, <1>2, <1>8 DEF Fresh, OutputInOrder, AllFlushed
<1>11. PutArea /\ Looping
      BY <1>1, <1>8, <1>9 DEF PutArea, Looping
<1>12. GetArea
      BY <1>1, <1>3, <1>8, <1>9 DEF GetArea
<1>13. Position
      BY <1>1, <1>8, <1>9 DEF Position, Least
<1> QED BY <1>7, <1>10, <1>11, <1>12, <1>13 DEF IInv

\* A put area that is thrown away by attach belongs to a stream that has failed or
\* that the application has not flushed.
LEMMA StreambufAttach == IInv /\ attach => IInv'
<1> SUFFICES ASSUME IInv, attach PROVE IInv'
    OBVIOUS
<1> USE DEF IInv, attach
<1>1. <<>> \in Seq(Char) /\ Len(<<>>) = 0
      BY EmptySeq
<1>2. MaxReqs \in Nat /\ fcgx \in Nat /\ fcgx + 1 \in Requests /\ fcgx' = fcgx + 1
      BY StreambufAssumption DEF TypeOK, Requests
<1>3. eof' \in BOOLEAN /\ strayed' \in BOOLEAN
      BY Zenon
<1>4. TypeOK'
      BY <1>1, <1>2, <1>3 DEF TypeOK, Requests
<1>5. Fresh'
      BY <1>2 DEF Fresh, Requests
<1>6. taken[fcgx'] = 0 /\ puts[fcgx'] = 0 /\ out[fcgx'] = <<>>
      BY <1>2 DEF Fresh
<1>7. Chars(fcgx', 0, 0) = <<>>
      BY <1>2, CharsEmpty
<1>8. PutArea'
      BY <1>1, <1>2, <1>6, <1>7 DEF PutArea, Idle
<1>9. GetArea'
      BY <1>1, <1>2, <1>6, <1>7 DEF GetArea, TypeOK
<1>10. Position'
      BY <1>1, <1>2, <1>6, <1>7 DEF Position, Least
<1>11. Looping'
      BY DEF Looping, Idle
<1>12. OutputInOrder' /\ AllFlushed'
      BY DEF OutputInOrder, AllFlushed
<1> QED BY <1>4, <1>5, <1>8, <1>9, <1>10, <1>11, <1>12

\* There is nothing in a buffer that is not there.
LEMMA StreambufSetbuf == ASSUME NEW bs \in BufSizes, IInv, setbuf(bs) PROVE IInv'
<1> USE DEF IInv, setbuf
<1>1. <<>> \in Seq(Char) /\ Len(<<>>) = 0
      BY EmptySeq
<1>2. bs \in Nat /\ bs # 0
      BY StreambufAssumption
<1>3. gbuf = <<>> /\ gptr = 0 /\ pbuf = <<>> /\ todo = 0
      BY DEF GetArea, PutArea, Idle
<1>4. gbuf' = gbuf /\ gptr' = gptr /\ pbuf' = pbuf
      BY <1>3
<1>5. TypeOK'
      BY <1>2, <1>4 DEF TypeOK
<1>6. Fresh' /\ OutputInOrder' /\ AllFlushed'
      BY DEF Fresh, OutputInOrder, AllFlushed
<1>7. PutArea'
      BY <1>2, <1>3, <1>4 DEF PutArea, Takes
<1>8. GetArea'
      BY <1>2, <1>3, <1>4 DEF GetArea
<1>9. Position'
      BY <1>4 DEF Position
<1>10. Looping'
      BY <1>2, <1>3 DEF Looping
<1> QED BY <1>5, <1>6, <1>7, <1>8, <1>9, <1>10

-----------------------------------------------------------------------------
(* Input.                                                                  *)

\* What a call that reads leaves alone: the put area and the output streams.
LEMMA InputFrame ==
    ASSUME IInv, dir = "in", UNCHANGED <<dir, bufsize, fcgx, output>>
    PROVE  PutArea' /\ OutputInOrder' /\ AllFlushed'
BY DEF IInv, PutArea, Takes, OutputInOrder, AllFlushed, output

\* The stream that is attached.
LEMMA Attached ==
    ASSUME IInv, fcgx # 0
    PROVE  /\ fcgx \in Requests /\ fcgx \in Nat
           /\ taken[fcgx] \in Nat /\ inLen[fcgx] \in Nat /\ taken[fcgx] <= inLen[fcgx]
           /\ Len(gbuf) \in Nat /\ Len(gbuf) <= taken[fcgx]
<1>1. fcgx \in Requests /\ fcgx \in Nat
      BY StreambufAssumption DEF IInv, TypeOK, Requests
<1>2. taken[fcgx] \in Nat /\ inLen[fcgx] \in Nat /\ Len(gbuf) \in Nat
      BY <1>1 DEF IInv, TypeOK
<1> QED BY <1>1, <1>2 DEF IInv, GetArea

\* What FCGX_GetStr gives: no more than there is, and less than asked for only at the
\* end.
LEMMA GivenProperties ==
    ASSUME IInv, fcgx # 0, NEW c \in Nat
    PROVE  /\ Given(c) \in Nat /\ Given(c) <= c
           /\ taken[fcgx] + Given(c) <= inLen[fcgx]
           /\ Given(c) < c => taken[fcgx] + Given(c) = inLen[fcgx]
BY Attached DEF Given, Least

\* Taking characters from the stream.
LEMMA Taking ==
    ASSUME IInv, fcgx # 0, NEW c \in Nat, Take(c), fcgx' = fcgx
    PROVE  /\ taken' \in [Requests -> Nat]
           /\ taken'[fcgx] = taken[fcgx] + c
           /\ \A r \in Requests : r > fcgx => taken'[r] = 0
<1>1. fcgx \in Requests /\ fcgx \in Nat /\ taken[fcgx] \in Nat /\ taken \in [Requests -> Nat]
      BY Attached DEF IInv, TypeOK
<1>2. taken' = [taken EXCEPT ![fcgx] = taken[fcgx] + c]
      BY DEF Take
<1>3. \A r \in Requests : r > fcgx => r # fcgx /\ taken[r] = 0
      BY <1>1 DEF IInv, Fresh
<1> QED BY <1>1, <1>2, <1>3

\* A read without a buffer.
LEMMA StreambufGetUnbuffered ==
    ASSUME NEW c \in Sizes, IInv, xsgetn_unbuffered(c) PROVE IInv'
<1>1. c \in Nat /\ c # 0
      BY StreambufAssumption
<1>2. fcgx # 0 /\ dir = "in" /\ bufsize = 0 /\ todo = 0
      BY DEF xsgetn_unbuffered, Readable
<1> DEFINE g == Given(c)
           p == taken[fcgx]
<1>3. /\ g \in Nat /\ p \in Nat /\ p + g <= inLen[fcgx]
      /\ fcgx \in Requests /\ fcgx \in Nat
      /\ g < c => p + g = inLen[fcgx]
      BY <1>1, <1>2, Attached, GivenProperties, Zenon
<1>4. /\ read' = read \o Chars(fcgx, p, g) /\ Take(g) /\ eof' = (g < c) /\ peeked' = None
      /\ UNCHANGED <<dir, alive, bufsize, fcgx, todo, inLen, gbuf, gptr, strayed, refused, output>>
      BY DEF xsgetn_unbuffered
<1>5. gbuf = <<>> /\ gptr = 0 /\ Len(gbuf) = 0
      BY <1>2, EmptySeq DEF IInv, GetArea
<1> HIDE DEF g
<1>6. /\ taken' \in [Requests -> Nat] /\ taken'[fcgx] = p + g
      /\ \A r \in Requests : r > fcgx => taken'[r] = 0
      BY <1>2, <1>3, <1>4, Taking
<1> HIDE DEF p
<1>7. eof' \in BOOLEAN /\ (eof' => p + g = inLen[fcgx])
  <2>1. eof' = (g < c) /\ c \in Nat /\ g \in Nat
        BY <1>1, <1>3, <1>4
  <2>2. eof' \in BOOLEAN
        BY <2>1
  <2>3. eof' <=> g < c
        BY <2>1
  <2> QED BY <2>2, <2>3, <1>3
<1>8. PutArea' /\ OutputInOrder' /\ AllFlushed'
      BY <1>2, <1>4, InputFrame
<1>9. TypeOK'
      BY <1>4, <1>6, <1>7 DEF IInv, TypeOK, output
<1>10. Fresh'
      BY <1>4, <1>6 DEF IInv, Fresh, output
<1>11. GetArea'
  <2>1. Chars(fcgx, p + g, 0) = <<>>
        BY <1>3, CharsEmpty
  <2> QED BY <1>2, <1>3, <1>4, <1>5, <1>6, <2>1 DEF GetArea
<1>12. Position'
  <2> SUFFICES ASSUME ~strayed PROVE Position'
      BY <1>4 DEF Position
  <2>1. Len(read) = p /\ read = Chars(fcgx, 0, p)
        BY <1>2, <1>3, <1>5 DEF IInv, Position, Least, p
  <2>2. p + g \in Nat
        BY <1>3
  <2>3. read' = Chars(fcgx, 0, p) \o Chars(fcgx, p, g)
        BY <2>1, <1>4
  <2>4. read' = Chars(fcgx, 0, p + g)
        BY <2>3, <1>3, CharsGrow
  <2>5. Len(read') = p + g
        BY <2>2, <2>4, <1>3, CharsType
  <2> QED BY <2>4, <2>5, <1>3, <1>4, <1>5, <1>6, <1>7 DEF Position, Least
<1>13. Looping'
      BY <1>2, <1>4 DEF Looping
<1> QED BY <1>8, <1>9, <1>10, <1>11, <1>12, <1>13 DEF IInv

\* A read above INT_MAX.
LEMMA StreambufGetTooLong ==
    ASSUME NEW c \in Sizes, IInv, xsgetn_tooLong(c) PROVE IInv'
<1>1. fcgx # 0 /\ dir = "in" /\ todo = 0
      BY DEF xsgetn_tooLong, Readable
<1>2. /\ eof' = TRUE /\ refused' = TRUE
      /\ UNCHANGED <<dir, alive, bufsize, fcgx, todo, inLen, gbuf, gptr, taken, read, peeked, strayed, output>>
      BY DEF xsgetn_tooLong
<1>3. PutArea' /\ OutputInOrder' /\ AllFlushed'
      BY <1>1, <1>2, InputFrame
<1>4. TypeOK' /\ Fresh'
  <2>1. eof' \in BOOLEAN
        BY <1>2, Zenon
  <2> QED BY <1>2, <2>1 DEF IInv, TypeOK, Fresh, output
<1>5. GetArea' /\ Position' /\ Looping'
      BY <1>1, <1>2 DEF IInv, GetArea, Position, Looping
<1> QED BY <1>3, <1>4, <1>5 DEF IInv

\* The beginning of a read with a buffer.
LEMMA StreambufGet == ASSUME NEW c \in Sizes, IInv, xsgetn(c) PROVE IInv'
<1> USE DEF IInv, xsgetn
<1>1. c \in Nat /\ dir = "in"
      BY StreambufAssumption DEF Readable
<1>2. PutArea' /\ OutputInOrder' /\ AllFlushed'
      BY <1>1, InputFrame
<1>3. TypeOK' /\ Fresh'
      BY <1>1 DEF TypeOK, Fresh, output
<1>4. GetArea' /\ Position' /\ Looping'
      BY DEF GetArea, Position, Looping
<1> QED BY <1>2, <1>3, <1>4

\* The loop copies from the get area.
LEMMA StreambufCopyIn == IInv /\ xsgetn_copy => IInv'
<1> SUFFICES ASSUME IInv, xsgetn_copy PROVE IInv'
    OBVIOUS
<1>1. fcgx # 0 /\ dir = "in" /\ todo > 0 /\ ~eof
      BY DEF xsgetn_copy, Readable
<1> DEFINE k == Least(todo, Len(gbuf) - gptr)
           p == taken[fcgx]
           l == Len(gbuf)
<1>2. /\ p \in Nat /\ l \in Nat /\ l <= p /\ fcgx \in Nat
      /\ gptr \in Nat /\ todo \in Nat /\ gptr < l
      BY <1>1, Attached DEF IInv, TypeOK, xsgetn_copy
<1>3. k \in Nat /\ k <= todo /\ gptr + k <= l
      BY <1>2 DEF Least
<1>4. /\ gptr' = gptr + k /\ todo' = todo - k
      /\ read' = read \o SubSeq(gbuf, gptr + 1, gptr + k)
      /\ UNCHANGED <<dir, alive, bufsize, fcgx, inLen, gbuf, taken, peeked, eof, strayed, refused, output>>
      BY DEF xsgetn_copy
<1> HIDE DEF k
<1>5. PutArea' /\ OutputInOrder' /\ AllFlushed'
      BY <1>1, <1>4, InputFrame
<1>6. gptr' \in Nat /\ todo' \in Nat
      BY <1>2, <1>3, <1>4
<1>7. TypeOK' /\ Fresh'
      BY <1>4, <1>6 DEF IInv, TypeOK, Fresh, output
<1>8. GetArea'
  <2>1. gptr' <= l /\ bufsize # 0
        BY <1>1, <1>2, <1>3, <1>4 DEF IInv, Looping
  <2> QED BY <1>1, <1>2, <1>4, <1>6, <2>1 DEF IInv, GetArea
<1>9. Position'
  <2> SUFFICES ASSUME ~strayed PROVE Position'
      BY <1>4 DEF Position
  <2> DEFINE a == (p - l) + gptr
  <2>1. Len(read) = a /\ read = Chars(fcgx, 0, a)
        BY <1>1, <1>2 DEF IInv, Position, Least
  <2>2. gbuf = Chars(fcgx, p - l, l)
        BY <1>1 DEF IInv, GetArea
  <2>3. p - l \in Nat /\ gptr \in 0..l /\ gptr + k \in gptr..l /\ a \in Nat
        BY <1>2, <1>3
  <2>4. SubSeq(gbuf, gptr + 1, gptr + k) = Chars(fcgx, a, (gptr + k) - gptr)
    <3> HIDE DEF p, l
    <3>1. \A q \in Nat : \A i \in 0..l : \A j \in i..l :
             SubSeq(Chars(fcgx, q, l), i + 1, j) = Chars(fcgx, q + i, j - i)
          BY <1>2, CharsSub
    <3> QED BY <3>1, <2>2, <2>3
  <2> HIDE DEF a
  <2>5. (gptr + k) - gptr = k
        BY <1>2, <1>3
  <2>6. read' = Chars(fcgx, 0, a) \o Chars(fcgx, a, k)
        BY <2>1, <2>4, <2>5, <1>4
  <2>7. read' = Chars(fcgx, 0, a + k)
        BY <2>6, <2>3, <1>2, <1>3, CharsGrow, ZenonT(30)
  <2>8. a + k \in Nat
        BY <2>3, <1>3
  <2>9. Len(read') = a + k
        BY <2>7, <2>8, <1>2, CharsType
  <2>10. a + k = p - l + Least(gptr', l)
    <3> HIDE DEF p, l
    <3> QED BY <1>2, <1>3, <1>4 DEF Least, a
  <2>11. peeked' = None /\ ~eof'
        BY <1>1, <1>4 DEF IInv, Looping
  <2> QED BY <2>7, <2>9, <2>10, <2>11, <1>4 DEF Position
<1>10. Looping'
      BY <1>1, <1>4 DEF IInv, Looping
<1> QED BY <1>5, <1>7, <1>8, <1>9, <1>10 DEF IInv

\* Refilling the get area.
LEMMA Refilled ==
    ASSUME IInv, fcgx # 0, fcgx' = fcgx, inLen' = inLen, NEW c \in Nat,
           gbuf' = Chars(fcgx, taken[fcgx], Given(c)), Take(Given(c))
    PROVE  /\ gbuf' \in Seq(Char) /\ Len(gbuf') = Given(c)
           /\ taken' \in [Requests -> Nat] /\ taken'[fcgx] = taken[fcgx] + Given(c)
           /\ \A r \in Requests : r > fcgx => taken'[r] = 0
           /\ taken'[fcgx] <= inLen[fcgx] /\ Len(gbuf') <= taken'[fcgx]
           /\ gbuf' = Chars(fcgx, taken'[fcgx] - Len(gbuf'), Len(gbuf'))
           /\ \A i \in 1..Len(gbuf') : gbuf'[i] = <<fcgx, taken[fcgx] + i>>
<1> DEFINE g == Given(c)
           p == taken[fcgx]
<1>1. g \in Nat /\ p \in Nat /\ fcgx \in Nat /\ p + g <= inLen[fcgx]
      BY Attached, GivenProperties
<1>2. gbuf' = Chars(fcgx, p, g)
      OBVIOUS
<1>3. /\ taken' \in [Requests -> Nat] /\ taken'[fcgx] = p + g
      /\ \A r \in Requests : r > fcgx => taken'[r] = 0
      BY <1>1, Taking
<1> HIDE DEF g, p
<1>4. gbuf' \in Seq(Char) /\ Len(gbuf') = g /\ \A i \in 1..g : gbuf'[i] = <<fcgx, p + i>>
  <2>1. /\ Chars(fcgx, p, g) \in Seq(Char)
        /\ Len(Chars(fcgx, p, g)) = g
        /\ \A i \in 1..g : Chars(fcgx, p, g)[i] = <<fcgx, p + i>>
        BY <1>1, CharsType
  <2> QED BY <2>1, <1>2
<1>5. (p + g) - g = p /\ g <= p + g
      BY <1>1
<1>6. taken'[fcgx] - Len(gbuf') = p
      BY <1>3, <1>4, <1>5
<1> QED BY <1>1, <1>2, <1>3, <1>4, <1>5, <1>6 DEF g, p

\* uflow: refill, and take one character.
LEMMA StreambufUflow == IInv /\ uflow => IInv'
<1> SUFFICES ASSUME IInv, uflow PROVE IInv'
    OBVIOUS
<1>1. fcgx # 0 /\ dir = "in" /\ todo > 0 /\ ~eof /\ gptr = Len(gbuf) /\ Given(bufsize) > 0
      BY DEF uflow, Readable
<1>2. /\ gbuf' = Chars(fcgx, taken[fcgx], Given(bufsize)) /\ Take(Given(bufsize))
      /\ gptr' = 1 /\ read' = Append(read, gbuf'[1]) /\ todo' = todo - 1
      /\ UNCHANGED <<dir, alive, bufsize, fcgx, inLen, peeked, eof, strayed, refused, output>>
      BY DEF uflow
<1>3. bufsize \in Nat /\ bufsize # 0 /\ todo \in Nat
      BY <1>1 DEF IInv, TypeOK, Looping
<1> DEFINE g == Given(bufsize)
           p == taken[fcgx]
<1>4. g \in Nat /\ g > 0 /\ p \in Nat /\ fcgx \in Nat
      BY <1>1, <1>3, Attached, GivenProperties
<1>5. /\ gbuf' \in Seq(Char) /\ Len(gbuf') = g
      /\ taken' \in [Requests -> Nat] /\ taken'[fcgx] = p + g
      /\ \A r \in Requests : r > fcgx => taken'[r] = 0
      /\ taken'[fcgx] <= inLen[fcgx] /\ Len(gbuf') <= taken'[fcgx]
      /\ gbuf' = Chars(fcgx, taken'[fcgx] - Len(gbuf'), Len(gbuf'))
      /\ \A i \in 1..Len(gbuf') : gbuf'[i] = <<fcgx, p + i>>
      BY <1>1, <1>2, <1>3, Refilled
<1> HIDE DEF g
<1>6. PutArea' /\ OutputInOrder' /\ AllFlushed'
      BY <1>1, <1>2, InputFrame
<1>7. TypeOK'
      BY <1>1, <1>2, <1>3, <1>5, SMTT(30) DEF IInv, TypeOK, output
<1>8. Fresh'
      BY <1>2, <1>5 DEF IInv, Fresh, output
<1>9. GetArea'
  <2>1. bufsize' # 0 /\ fcgx' # 0 /\ gptr' <= Len(gbuf')
        BY <1>1, <1>2, <1>3, <1>4, <1>5
  <2>2. gptr' \in Nat /\ Len(gbuf') \in Nat
        BY <1>2, <1>4, <1>5
  <2>3. gptr' <= Len(gbuf') + 1 /\ gptr' # Len(gbuf') + 1
        BY <2>1, <2>2
  <2>4. /\ taken'[fcgx'] <= inLen'[fcgx'] /\ Len(gbuf') <= taken'[fcgx']
        /\ gbuf' = Chars(fcgx', taken'[fcgx'] - Len(gbuf'), Len(gbuf'))
        BY <1>2, <1>5
  <2> QED BY <2>1, <2>3, <2>4 DEF GetArea
<1>10. Position'
  <2> SUFFICES ASSUME ~strayed PROVE Position'
      BY <1>2 DEF Position
  <2>1. Len(read) = p /\ read = Chars(fcgx, 0, p)
        BY <1>1, <1>4, Attached DEF IInv, Position, Least
  <2> HIDE DEF p
  <2>2. gbuf'[1] = <<fcgx, p + 1>>
        BY <1>4, <1>5
  <2>3. read' = Chars(fcgx, 0, p + 1)
    <3>1. \A k \in Nat : Append(Chars(fcgx, k, p), <<fcgx, k + p + 1>>) = Chars(fcgx, k, p + 1)
          BY <1>4, CharsAppend
    <3>2. 0 \in Nat /\ 0 + p + 1 = p + 1
          BY <1>4
    <3> QED BY <3>1, <3>2, <2>1, <2>2, <1>2
  <2>4. p + 1 \in Nat
        BY <1>4
  <2>5. Len(read') = p + 1
        BY <2>3, <2>4, <1>4, CharsType
  <2>6. Least(gptr', g) = 1 /\ (p + g) - g + 1 = p + 1
        BY <1>2, <1>4 DEF Least
  <2>7. peeked' = None /\ ~eof'
        BY <1>1, <1>2 DEF IInv, Looping
  <2> QED BY <2>3, <2>5, <2>6, <2>7, <1>2, <1>5 DEF Position
<1>11. Looping'
      BY <1>1, <1>2 DEF IInv, Looping
<1> QED BY <1>6, <1>7, <1>8, <1>9, <1>10, <1>11 DEF IInv

\* uflow at the end of the stream.
LEMMA StreambufUflowEOF == IInv /\ uflow_EOF => IInv'
<1> SUFFICES ASSUME IInv, uflow_EOF PROVE IInv'
    OBVIOUS
<1>1. fcgx # 0 /\ dir = "in" /\ todo > 0 /\ gptr = Len(gbuf) /\ Given(bufsize) = 0
      BY DEF uflow_EOF, Readable
<1>2. /\ gptr' = gptr + 1 /\ todo' = 0 /\ eof' = TRUE
      /\ UNCHANGED <<dir, alive, bufsize, fcgx, inLen, gbuf, taken, read, peeked, strayed, refused, output>>
      BY DEF uflow_EOF
<1>3. bufsize \in Nat /\ bufsize # 0 /\ peeked = None
      BY <1>1 DEF IInv, TypeOK, Looping
<1>4. taken[fcgx] = inLen[fcgx] /\ taken[fcgx] \in Nat /\ Len(gbuf) \in Nat
  <2>1. Given(bufsize) < bufsize => taken[fcgx] + Given(bufsize) = inLen[fcgx]
        BY <1>1, <1>3, GivenProperties
  <2>2. taken[fcgx] \in Nat /\ Len(gbuf) \in Nat
        BY <1>1, Attached
  <2> QED BY <2>1, <2>2, <1>1, <1>3
<1>5. PutArea' /\ OutputInOrder' /\ AllFlushed'
      BY <1>1, <1>2, InputFrame
<1>6. TypeOK' /\ Fresh'
  <2>1. eof' \in BOOLEAN
        BY <1>2, Zenon
  <2> QED BY <1>1, <1>2, <1>4, <2>1 DEF IInv, TypeOK, Fresh, output
<1>7. GetArea'
      BY <1>1, <1>2, <1>3, <1>4 DEF IInv, GetArea
<1>8. Position'
      BY <1>1, <1>2, <1>3, <1>4 DEF IInv, Position, Least
<1>9. Looping'
      BY <1>2 DEF Looping
<1> QED BY <1>5, <1>6, <1>7, <1>8, <1>9 DEF IInv

\* sgetc with a buffer: the get area is refilled if there is nothing in it.
LEMMA StreambufUnderflow == IInv /\ underflow => IInv'
<1> SUFFICES ASSUME IInv, underflow PROVE IInv'
    OBVIOUS
<1>1. /\ fcgx # 0 /\ dir = "in" /\ todo = 0 /\ bufsize # 0 /\ ~eof
      /\ gptr = Len(gbuf) => Given(bufsize) > 0
      BY DEF underflow, Readable
<1>2. /\ peeked' = gbuf'[gptr' + 1]
      /\ UNCHANGED <<dir, alive, bufsize, fcgx, todo, inLen, read, eof, strayed, refused, output>>
      BY DEF underflow
<1>3. bufsize \in Nat /\ gptr \in Nat /\ gbuf \in Seq(Char)
      BY DEF IInv, TypeOK
<1>4. PutArea' /\ OutputInOrder' /\ AllFlushed'
      BY <1>1, <1>2, InputFrame
<1>5. Looping'
      BY <1>1, <1>2 DEF Looping
<1>6. CASE gptr = Len(gbuf)
  <2> DEFINE g == Given(bufsize)
             p == taken[fcgx]
  <2>1. gbuf' = Chars(fcgx, p, g) /\ gptr' = 0 /\ Take(g)
        BY <1>6 DEF underflow
  <2>2. g \in Nat /\ g > 0 /\ p \in Nat /\ fcgx \in Nat
        BY <1>1, <1>3, <1>6, Attached, GivenProperties
  <2>3. /\ gbuf' \in Seq(Char) /\ Len(gbuf') = g
        /\ taken' \in [Requests -> Nat] /\ taken'[fcgx] = p + g
        /\ \A r \in Requests : r > fcgx => taken'[r] = 0
        /\ taken'[fcgx] <= inLen[fcgx] /\ Len(gbuf') <= taken'[fcgx]
        /\ gbuf' = Chars(fcgx, taken'[fcgx] - Len(gbuf'), Len(gbuf'))
        /\ \A i \in 1..Len(gbuf') : gbuf'[i] = <<fcgx, p + i>>
        BY <1>1, <1>2, <1>3, <2>1, Refilled
  <2> HIDE DEF g
  <2>4. TypeOK'
        BY <1>2, <2>1, <2>3 DEF IInv, TypeOK, output
  <2>5. Fresh'
        BY <1>2, <2>3 DEF IInv, Fresh, output
  <2>6. GetArea'
    <3>1. bufsize' # 0 /\ fcgx' # 0 /\ gptr' <= Len(gbuf') + 1 /\ gptr' # Len(gbuf') + 1
          BY <1>1, <1>2, <2>1, <2>2, <2>3
    <3>2. /\ taken'[fcgx'] <= inLen'[fcgx'] /\ Len(gbuf') <= taken'[fcgx']
          /\ gbuf' = Chars(fcgx', taken'[fcgx'] - Len(gbuf'), Len(gbuf'))
          BY <1>2, <2>3
    <3> QED BY <3>1, <3>2 DEF GetArea
  <2>7. Position'
    <3> SUFFICES ASSUME ~strayed PROVE Position'
        BY <1>2 DEF Position
    <3>1. Len(read) = p /\ read = Chars(fcgx, 0, Len(read))
          BY <1>1, <1>6, <2>2, Attached DEF IInv, Position, Least
    <3> HIDE DEF p
    <3>2. 1 \in 1..Len(gbuf') /\ gptr' + 1 = 1
          BY <2>1, <2>2, <2>3
    <3>3. peeked' = <<fcgx, p + 1>>
          BY <3>2, <1>2, <2>3
    <3>4. (p + g) - g + Least(gptr', g) = p
          BY <2>1, <2>2 DEF Least
    <3> QED BY <1>1, <1>2, <2>3, <3>1, <3>3, <3>4 DEF Position
  <2> QED BY <1>4, <1>5, <2>4, <2>5, <2>6, <2>7 DEF IInv
<1>7. CASE gptr # Len(gbuf)
  <2> DEFINE p == taken[fcgx]
             l == Len(gbuf)
  <2>1. UNCHANGED <<gbuf, gptr, taken>>
        BY <1>7 DEF underflow
  <2>2. TypeOK' /\ Fresh' /\ GetArea'
        BY <1>2, <2>1 DEF IInv, TypeOK, Fresh, GetArea, output
  <2>3. p \in Nat /\ l \in Nat /\ l <= p /\ gptr < l /\ fcgx \in Nat
        BY <1>1, <1>3, <1>7, Attached DEF IInv, GetArea
  <2>4. gbuf = Chars(fcgx, p - l, l) /\ p - l \in Nat
        BY <1>1, <2>3 DEF IInv, GetArea
  <2>5. \A q \in Nat : \A i \in 1..l : Chars(fcgx, q, l)[i] = <<fcgx, q + i>>
        BY <2>3, CharsType
  <2>6. gptr + 1 \in 1..l
        BY <1>3, <2>3
  <2>7. peeked' = <<fcgx, (p - l) + (gptr + 1)>>
    <3> HIDE DEF p, l
    <3> QED BY <1>2, <2>1, <2>4, <2>5, <2>6
  <2>8. Position'
    <3> SUFFICES ASSUME ~strayed PROVE Position'
        BY <1>2 DEF Position
    <3>1. Len(read) = (p - l) + gptr /\ Least(gptr, l) = gptr
          BY <1>1, <1>3, <2>3 DEF IInv, Position, Least
    <3>2. (p - l) + (gptr + 1) = Len(read) + 1
          BY <3>1, <1>3, <2>3
    <3> QED BY <1>1, <1>2, <2>1, <2>7, <3>2 DEF IInv, Position
  <2> QED BY <1>4, <1>5, <2>2, <2>8 DEF IInv
<1> QED BY <1>6, <1>7

\* sgetc at the end of the stream.
LEMMA StreambufUnderflowEOF == IInv /\ underflow_EOF => IInv'
<1> SUFFICES ASSUME IInv, underflow_EOF PROVE IInv'
    OBVIOUS
<1>1. /\ fcgx # 0 /\ dir = "in" /\ todo = 0 /\ bufsize # 0
      /\ gptr = Len(gbuf) /\ Given(bufsize) = 0
      BY DEF underflow_EOF, Readable
<1>2. /\ eof' = TRUE /\ peeked' = None
      /\ UNCHANGED <<dir, alive, bufsize, fcgx, todo, inLen, gbuf, gptr, taken, read, strayed, refused, output>>
      BY DEF underflow_EOF
<1>3. bufsize \in Nat
      BY DEF IInv, TypeOK
<1>4. taken[fcgx] = inLen[fcgx] /\ taken[fcgx] \in Nat /\ Len(gbuf) \in Nat
  <2>1. Given(bufsize) < bufsize => taken[fcgx] + Given(bufsize) = inLen[fcgx]
        BY <1>1, <1>3, GivenProperties
  <2>2. taken[fcgx] \in Nat /\ Len(gbuf) \in Nat
        BY <1>1, Attached
  <2> QED BY <2>1, <2>2, <1>1, <1>3
<1>5. PutArea' /\ OutputInOrder' /\ AllFlushed'
      BY <1>1, <1>2, InputFrame
<1>6. TypeOK' /\ Fresh'
  <2>1. eof' \in BOOLEAN
        BY <1>2, Zenon
  <2> QED BY <1>2, <2>1 DEF IInv, TypeOK, Fresh, output
<1>7. GetArea'
      BY <1>1, <1>2, <1>4 DEF IInv, GetArea
<1>8. Position'
      BY <1>1, <1>2, <1>4 DEF IInv, Position, Least
<1>9. Looping'
      BY <1>1, <1>2 DEF Looping
<1> QED BY <1>5, <1>6, <1>7, <1>8, <1>9 DEF IInv

\* sgetc without a buffer takes a character that the application does not get.
LEMMA StreambufUnderflowUnbuffered == IInv /\ underflow_unbuffered => IInv'
<1> SUFFICES ASSUME IInv, underflow_unbuffered PROVE IInv'
    OBVIOUS
<1>1. fcgx # 0 /\ dir = "in" /\ todo = 0 /\ bufsize = 0
      BY DEF underflow_unbuffered, Readable
<1>2. /\ Take(Given(1)) /\ eof' = (Given(1) = 0) /\ strayed' = TRUE
      /\ UNCHANGED <<dir, alive, bufsize, fcgx, todo, inLen, gbuf, gptr, read, refused, output>>
      BY DEF underflow_unbuffered
<1>3. /\ Given(1) \in Nat /\ taken[fcgx] + Given(1) <= inLen[fcgx]
      /\ taken[fcgx] \in Nat /\ fcgx \in Nat
      BY <1>1, Attached, GivenProperties
<1>4. /\ taken' \in [Requests -> Nat] /\ taken'[fcgx] = taken[fcgx] + Given(1)
      /\ \A r \in Requests : r > fcgx => taken'[r] = 0
      BY <1>1, <1>2, <1>3, Taking
<1>5. PutArea' /\ OutputInOrder' /\ AllFlushed'
      BY <1>1, <1>2, InputFrame
<1>6. eof' \in BOOLEAN /\ strayed' \in BOOLEAN
      BY <1>2, Zenon
<1>7. TypeOK'
      BY <1>2, <1>4, <1>6 DEF IInv, TypeOK, output
<1>8. Fresh'
      BY <1>2, <1>4 DEF IInv, Fresh, output
<1>9. GetArea'
  <2>1. gbuf = <<>> /\ gptr = 0 /\ Len(gbuf) = 0
        BY <1>1, EmptySeq DEF IInv, GetArea
  <2>2. taken'[fcgx] \in Nat
        BY <1>3, <1>4
  <2>3. Chars(fcgx, taken'[fcgx], 0) = <<>>
        BY <1>3, <2>2, CharsEmpty
  <2> QED BY <1>1, <1>2, <1>3, <1>4, <2>1, <2>2, <2>3 DEF GetArea
<1>10. Position' /\ Looping'
      BY <1>1, <1>2 DEF Position, Looping
<1> QED BY <1>5, <1>7, <1>8, <1>9, <1>10 DEF IInv

\* unget.
LEMMA StreambufUnget == IInv /\ sungetc => IInv'
<1> SUFFICES ASSUME IInv, sungetc PROVE IInv'
    OBVIOUS
<1>1. dir = "in" /\ todo = 0 /\ fcgx # 0 /\ gptr > 0
      BY DEF sungetc, Idle
<1>2. /\ gptr' = gptr - 1 /\ read' = SubSeq(read, 1, Len(read) - 1) /\ eof' = FALSE
      /\ refused' = FALSE /\ peeked' = None /\ strayed' = (strayed \/ gptr > Len(gbuf))
      /\ UNCHANGED <<dir, alive, bufsize, fcgx, todo, inLen, gbuf, taken, output>>
      BY DEF sungetc
<1> DEFINE p == taken[fcgx]
           l == Len(gbuf)
<1>3. p \in Nat /\ l \in Nat /\ l <= p /\ fcgx \in Nat /\ gptr \in Nat
      BY <1>1, Attached DEF IInv, TypeOK
<1>4. PutArea' /\ OutputInOrder' /\ AllFlushed'
      BY <1>1, <1>2, InputFrame
<1>5. eof' \in BOOLEAN /\ strayed' \in BOOLEAN
  <2>1. eof' \in BOOLEAN
        BY <1>2, Zenon
  <2>2. strayed \in BOOLEAN
        BY DEF IInv, TypeOK
  <2>3. strayed' = (strayed \/ gptr > l)
        BY <1>2
  <2>4. strayed' \in BOOLEAN
        BY <2>2, <2>3, <1>3
  <2> QED BY <2>1, <2>4
<1>6. TypeOK' /\ Fresh'
  <2>1. gptr' \in Nat
        BY <1>1, <1>2, <1>3
  <2> QED BY <1>2, <1>5, <2>1 DEF IInv, TypeOK, Fresh, output
<1>7. GetArea'
  <2>1. gptr' <= l /\ bufsize # 0
        BY <1>1, <1>2, <1>3 DEF IInv, GetArea
  <2>2. gptr' <= l + 1 /\ gptr' # l + 1
        BY <2>1, <1>1, <1>2, <1>3
  <2> QED BY <1>1, <1>2, <2>1, <2>2 DEF IInv, GetArea
<1>8. Position'
  <2> SUFFICES ASSUME ~strayed' PROVE Position'
      BY DEF Position
  <2>1. ~strayed /\ gptr <= l
    <3>1. strayed' = (strayed \/ gptr > l)
          BY <1>2
    <3>2. ~(strayed \/ gptr > l)
          BY <3>1
    <3> QED BY <3>2, <1>3
  <2> DEFINE a == (p - l) + gptr
  <2>2. a \in Nat /\ a - 1 \in 0..a /\ 0 \in 0..a
        BY <1>1, <1>3, <2>1
  <2>3. Len(read) = a /\ read = Chars(fcgx, 0, a)
        BY <1>1, <1>3, <2>1 DEF IInv, Position, Least
  <2>4. (p - l) + Least(gptr', l) = a - 1
        BY <1>1, <1>2, <1>3, <2>1 DEF Least
  <2> HIDE DEF a
  <2>5. \A q \in Nat : \A i \in 0..a : \A j \in i..a :
           SubSeq(Chars(fcgx, q, a), i + 1, j) = Chars(fcgx, q + i, j - i)
        BY <2>2, <1>3, CharsSub
  <2>6. SubSeq(Chars(fcgx, 0, a), 0 + 1, a - 1) = Chars(fcgx, 0 + 0, (a - 1) - 0)
        BY <2>2, <2>5
  <2>7. read' = Chars(fcgx, 0, a - 1)
        BY <2>2, <2>3, <2>6, <1>2
  <2>8. a - 1 \in Nat
        BY <2>2
  <2>9. Len(read') = a - 1
        BY <2>7, <2>8, <1>3, CharsType
  <2> QED BY <1>2, <2>4, <2>7, <2>9 DEF Position
<1>9. Looping'
      BY <1>1, <1>2 DEF Looping
<1> QED BY <1>4, <1>6, <1>7, <1>8, <1>9 DEF IInv

-----------------------------------------------------------------------------
(* Output.                                                                 *)

\* What a call that writes leaves alone: the get area and what has been read.
LEMMA OutputFrame ==
    ASSUME IInv, dir = "out", UNCHANGED <<dir, bufsize, fcgx, inLen, input>>
    PROVE  GetArea' /\ Position' /\ Looping'
BY DEF IInv, GetArea, Position, Looping, input

\* The stream that is written to.
LEMMA AttachedOut ==
    ASSUME IInv, fcgx # 0
    PROVE  /\ fcgx \in Requests /\ fcgx \in Nat
           /\ out[fcgx] \in Seq(Char) /\ Len(out[fcgx]) \in Nat
           /\ out[fcgx] = Chars(fcgx, 0, Len(out[fcgx]))
           /\ puts[fcgx] \in Nat /\ Len(pbuf) \in Nat /\ pbuf \in Seq(Char)
<1>1. fcgx \in Requests /\ fcgx \in Nat
      BY Attached
<1>2. out[fcgx] \in Seq(Char) /\ puts[fcgx] \in Nat /\ pbuf \in Seq(Char)
      BY <1>1 DEF IInv, TypeOK
<1>3. out[fcgx] = Chars(fcgx, 0, Len(out[fcgx]))
      BY <1>1 DEF IInv, OutputInOrder
<1> QED BY <1>1, <1>2, <1>3

\* FCGX takes the first j of the c characters that come next in the stream.
LEMMA HandedOn ==
    ASSUME IInv, fcgx # 0, NEW s, NEW c \in Nat, s = Chars(fcgx, Len(out[fcgx]), c),
           NEW j \in 0..c, out' = [out EXCEPT ![fcgx] = @ \o SubSeq(s, 1, j)]
    PROVE  /\ out' \in [Requests -> Seq(Char)]
           /\ Len(out'[fcgx]) = Len(out[fcgx]) + j
           /\ \A r \in Requests : out'[r] = Chars(r, 0, Len(out'[r]))
           /\ \A r \in Requests : r # fcgx => out'[r] = out[r]
<1> DEFINE o == Len(out[fcgx])
<1>1. /\ fcgx \in Requests /\ fcgx \in Nat /\ o \in Nat /\ j \in Nat
      /\ out[fcgx] = Chars(fcgx, 0, o) /\ out \in [Requests -> Seq(Char)]
      BY AttachedOut DEF IInv, TypeOK
<1>2. out' = [out EXCEPT ![fcgx] = out[fcgx] \o SubSeq(s, 1, j)]
      OBVIOUS
<1>3. s = Chars(fcgx, o, c)
      OBVIOUS
<1> HIDE DEF o
<1>4. SubSeq(s, 1, j) = Chars(fcgx, o, j)
  <2>1. \A i \in 0..c : \A h \in i..c :
           SubSeq(Chars(fcgx, o, c), i + 1, h) = Chars(fcgx, o + i, h - i)
        BY <1>1, CharsSub
  <2>2. 0 \in 0..c /\ j \in 0..c /\ 0 + 1 = 1 /\ o + 0 = o /\ j - 0 = j
        BY <1>1
  <2> QED BY <2>1, <2>2, <1>3
<1>5. out'[fcgx] = Chars(fcgx, 0, o) \o Chars(fcgx, o, j)
      BY <1>1, <1>2, <1>4
<1>6. out'[fcgx] = Chars(fcgx, 0, o + j)
  <2>1. Chars(fcgx, 0, o) \o Chars(fcgx, o, j) = Chars(fcgx, 0, o + j)
        BY <1>1, CharsGrow
  <2> QED BY <2>1, <1>5
<1>7. out'[fcgx] \in Seq(Char) /\ Len(out'[fcgx]) = o + j
  <2>1. \A d \in Nat : Chars(fcgx, 0, d) \in Seq(Char) /\ Len(Chars(fcgx, 0, d)) = d
        BY <1>1, CharsType
  <2>2. o + j \in Nat
        BY <1>1
  <2> QED BY <2>1, <2>2, <1>6
<1>8. \A r \in Requests : r # fcgx => out'[r] = out[r]
      BY <1>1, <1>2
<1>9. out' \in [Requests -> Seq(Char)]
  <2>1. out[fcgx] \o SubSeq(s, 1, j) = out'[fcgx]
        BY <1>1, <1>2
  <2> QED BY <2>1, <1>1, <1>2, <1>7
<1>10. \A r \in Requests : out'[r] = Chars(r, 0, Len(out'[r]))
      BY <1>6, <1>7, <1>8 DEF IInv, OutputInOrder
<1> QED BY <1>7, <1>8, <1>9, <1>10 DEF o

\* FCGX_PutStr takes all of the characters that come next.
LEMMA PutStrTakes ==
    ASSUME IInv, fcgx # 0, NEW s, NEW c \in Nat, s = Chars(fcgx, Len(out[fcgx]), c), FCGX_PutStr(s)
    PROVE  /\ out' \in [Requests -> Seq(Char)]
           /\ Len(out'[fcgx]) = Len(out[fcgx]) + c
           /\ \A r \in Requests : out'[r] = Chars(r, 0, Len(out'[r]))
           /\ \A r \in Requests : r # fcgx => out'[r] = out[r]
           /\ failed' = failed /\ room' \in [Requests -> Nat]
           /\ c # 0 => Takes
<1>1. fcgx \in Nat /\ Len(out[fcgx]) \in Nat
      BY AttachedOut
<1>2. s \in Seq(Char) /\ Len(s) = c
      BY <1>1, CharsType
<1>3. SubSeq(s, 1, c) = s
      BY <1>2, SubSeqFull
<1>4. out' = [out EXCEPT ![fcgx] = @ \o SubSeq(s, 1, c)]
      BY <1>3 DEF FCGX_PutStr
<1>5. c \in 0..c
      OBVIOUS
<1>6. failed' = failed /\ room' \in [Requests -> Nat] /\ (c # 0 => Takes)
  <2>1. /\ fcgx \in Requests /\ room \in [Requests -> Nat] /\ room[fcgx] \in Nat
        /\ failed \in [Requests -> BOOLEAN]
        BY Attached DEF IInv, TypeOK
  <2>2. CASE failed[fcgx]
    <3>1. c <= room[fcgx] /\ room' = [room EXCEPT ![fcgx] = room[fcgx] - c]
          BY <1>2, <2>2 DEF FCGX_PutStr
    <3>2. room[fcgx] - c \in Nat /\ (c # 0 => room[fcgx] > 0)
          BY <2>1, <3>1
    <3> QED BY <2>1, <3>1, <3>2 DEF FCGX_PutStr, Takes
  <2>3. CASE ~failed[fcgx]
        BY <2>1, <2>3 DEF FCGX_PutStr, Takes
  <2> QED BY <2>2, <2>3
<1> QED BY <1>4, <1>5, <1>6, HandedOn

\* What FCGX_PutStr takes all of, the stream takes.
LEMMA PutTakes ==
    ASSUME IInv, fcgx # 0, NEW s \in Seq(Char), Len(s) # 0, FCGX_PutStr(s)
    PROVE  Takes
<1>1. fcgx \in Requests /\ room[fcgx] \in Nat /\ Len(s) \in Nat
      BY Attached DEF IInv, TypeOK
<1> QED BY <1>1 DEF FCGX_PutStr, Takes

\* FCGX_PutStr fails: it takes some of the characters that come next, or none if there
\* is no space left, and leaves none.
LEMMA PutStrFails ==
    ASSUME IInv, fcgx # 0, NEW s \in Seq(Char), FCGX_PutStr_fails(s),
           Takes => s = Chars(fcgx, Len(out[fcgx]), Len(s))
    PROVE  /\ out' \in [Requests -> Seq(Char)]
           /\ \A r \in Requests : out'[r] = Chars(r, 0, Len(out'[r]))
           /\ \A r \in Requests : r # fcgx => out'[r] = out[r]
           /\ failed' \in [Requests -> BOOLEAN] /\ failed'[fcgx]
           /\ \A r \in Requests : r # fcgx => failed'[r] = failed[r]
           /\ room' \in [Requests -> Nat] /\ room'[fcgx] = 0
<1>1. PICK k \in 0..(Len(s) - 1) : /\ failed[fcgx] => k = room[fcgx]
                                   /\ out' = [out EXCEPT ![fcgx] = @ \o SubSeq(s, 1, k)]
      BY DEF FCGX_PutStr_fails
<1>2. failed' = [failed EXCEPT ![fcgx] = TRUE] /\ failed \in [Requests -> BOOLEAN]
      BY DEF FCGX_PutStr_fails, IInv, TypeOK
<1>3. fcgx \in Requests /\ out \in [Requests -> Seq(Char)] /\ out[fcgx] \in Seq(Char)
      BY AttachedOut DEF IInv, TypeOK
<1>4. /\ failed' \in [Requests -> BOOLEAN] /\ failed'[fcgx]
      /\ \A r \in Requests : r # fcgx => failed'[r] = failed[r]
      /\ room' \in [Requests -> Nat] /\ room'[fcgx] = 0
  <2>1. room' = [room EXCEPT ![fcgx] = 0] /\ room \in [Requests -> Nat]
        BY DEF FCGX_PutStr_fails, IInv, TypeOK
  <2> QED BY <1>2, <1>3, <2>1
<1>5. CASE ~Takes
  <2>0. k = 0
    <3>1. room[fcgx] \in Nat
          BY <1>3 DEF IInv, TypeOK
    <3> QED BY <1>1, <1>5, <3>1 DEF Takes
  <2>1. SubSeq(s, 1, k) = <<>>
        BY <2>0, SubSeqEmpty
  <2>2. out[fcgx] \o <<>> = out[fcgx]
        BY <1>3, ConcatEmptySeq
  <2>3. out' = out
        BY <1>1, <1>3, <2>1, <2>2
  <2> QED BY <1>3, <1>4, <2>3 DEF IInv, OutputInOrder
<1>6. CASE Takes
  <2>1. Len(s) \in Nat /\ k \in 0..Len(s)
        OBVIOUS
  <2> QED BY <1>1, <1>4, <1>6, <2>1, HandedOn
<1> QED BY <1>5, <1>6

\* The streams after a write: what is left to show for the stream that is attached.
LEMMA OutputParts ==
    ASSUME IInv, fcgx # 0, dir = "out",
           UNCHANGED <<dir, bufsize, fcgx, inLen, input>>,
           alive' \in BOOLEAN, todo' \in Nat, pbuf' \in Seq(Char),
           out' \in [Requests -> Seq(Char)], puts' \in [Requests -> Nat],
           failed' \in [Requests -> BOOLEAN], dirty' \in [Requests -> BOOLEAN],
           room' \in [Requests -> Nat],
           \A r \in Requests : out'[r] = Chars(r, 0, Len(out'[r])),
           \A r \in Requests : r # fcgx => /\ out'[r] = out[r] /\ puts'[r] = puts[r]
                                           /\ failed'[r] = failed[r] /\ dirty'[r] = dirty[r],
           bufsize = 0 => pbuf' = <<>>,
           todo' > 0 => bufsize # 0 /\ dirty'[fcgx],
           Takes' =>
               /\ pbuf' = Chars(fcgx, Len(out'[fcgx]), Len(pbuf'))
               /\ Len(out'[fcgx]) + Len(pbuf') = puts'[fcgx]
               /\ ~dirty'[fcgx] => pbuf' = <<>>
    PROVE  IInv'
<1>1. TypeOK'
      BY DEF IInv, TypeOK, input
<1>2. Fresh'
  <2>1. \A r \in Requests : r > fcgx => r # fcgx
        BY Attached DEF Requests
  <2> QED BY <2>1 DEF IInv, Fresh, input
<1>3. PutArea'
      BY DEF PutArea
<1>4. GetArea' /\ Position' /\ Looping'
      BY OutputFrame
<1>5. OutputInOrder'
      BY DEF OutputInOrder
<1>6. AllFlushed'
  <2> SUFFICES ASSUME NEW r \in Requests, ~dirty'[r], ~failed'[r]
               PROVE  Len(out'[r]) = puts'[r]
      BY DEF AllFlushed
  <2>1. CASE r # fcgx
        BY <2>1 DEF IInv, AllFlushed
  <2>2. CASE r = fcgx
    <3>1. Len(pbuf') = 0 /\ Len(out'[r]) \in Nat
          BY <2>2, EmptySeq DEF Takes
    <3> QED BY <2>2, <3>1 DEF Takes
  <2> QED BY <2>1, <2>2
<1> QED BY <1>1, <1>2, <1>3, <1>4, <1>5, <1>6 DEF IInv

\* The characters that are written next come after those in the put area.
LEMMA WrittenNext ==
    ASSUME IInv, fcgx # 0, Takes, NEW c \in Nat
    PROVE  /\ pbuf = Chars(fcgx, Len(out[fcgx]), Len(pbuf))
           /\ pbuf \o Written(c) = Chars(fcgx, Len(out[fcgx]), Len(pbuf) + c)
           /\ Len(out[fcgx]) + Len(pbuf) = puts[fcgx]
<1> DEFINE o == Len(out[fcgx])
           l == Len(pbuf)
<1>1. o \in Nat /\ l \in Nat /\ fcgx \in Nat
      BY AttachedOut
<1>2. pbuf = Chars(fcgx, o, l) /\ o + l = puts[fcgx]
      BY DEF IInv, PutArea
<1> HIDE DEF o, l
<1>3. Written(c) = Chars(fcgx, o + l, c)
      BY <1>2 DEF Written
<1>4. Chars(fcgx, o, l) \o Chars(fcgx, o + l, c) = Chars(fcgx, o, l + c)
  <2>1. \A d, e \in Nat : Chars(fcgx, o, d) \o Chars(fcgx, o + d, e) = Chars(fcgx, o, d + e)
        BY <1>1, CharsConcat
  <2> QED BY <2>1, <1>1
<1> QED BY <1>2, <1>3, <1>4 DEF o, l

\* A write above INT_MAX.
LEMMA StreambufPutTooLong ==
    ASSUME NEW c \in Sizes, IInv, xsputn_tooLong(c) PROVE IInv'
BY DEF xsputn_tooLong, IInv, TypeOK, Fresh, PutArea, Takes, GetArea, Position, Looping,
       OutputInOrder, AllFlushed, input

\* A write without a buffer.
LEMMA StreambufPutUnbuffered ==
    ASSUME NEW c \in Sizes, IInv, xsputn_unbuffered(c) PROVE IInv'
<1>1. fcgx # 0 /\ dir = "out" /\ bufsize = 0 /\ todo = 0 /\ c \in Nat /\ c # 0
      BY StreambufAssumption DEF xsputn_unbuffered, Writable
<1>2. /\ FCGX_PutStr(Written(c)) \/ FCGX_PutStr_fails(Written(c))
      /\ puts' = [puts EXCEPT ![fcgx] = @ + c]
      /\ UNCHANGED <<dir, alive, bufsize, fcgx, todo, inLen, input, pbuf, dirty>>
      BY DEF xsputn_unbuffered
<1>3. pbuf = <<>> /\ Len(pbuf) = 0 /\ pbuf' = <<>>
      BY <1>1, <1>2, EmptySeq DEF IInv, PutArea
<1>4. /\ alive' \in BOOLEAN /\ todo' \in Nat /\ pbuf' \in Seq(Char)
      /\ dirty' \in [Requests -> BOOLEAN] /\ failed \in [Requests -> BOOLEAN]
      /\ puts \in [Requests -> Nat]
      BY <1>2 DEF IInv, TypeOK
<1>5. /\ fcgx \in Requests /\ fcgx \in Nat /\ puts[fcgx] \in Nat /\ Len(out[fcgx]) \in Nat
      BY <1>1, AttachedOut
<1>6. /\ puts' \in [Requests -> Nat] /\ puts'[fcgx] = puts[fcgx] + c
      /\ \A r \in Requests : r # fcgx => puts'[r] = puts[r]
      BY <1>1, <1>2, <1>4, <1>5
<1>7. Written(c) \in Seq(Char) /\ Len(Written(c)) = c
      BY <1>1, <1>5, CharsType DEF Written
<1>8. Takes => Written(c) = Chars(fcgx, Len(out[fcgx]), c) /\ Len(out[fcgx]) = puts[fcgx]
  <2> SUFFICES ASSUME Takes
               PROVE  Written(c) = Chars(fcgx, Len(out[fcgx]), c) /\ Len(out[fcgx]) = puts[fcgx]
      OBVIOUS
  <2>1. Len(out[fcgx]) + Len(pbuf) = puts[fcgx]
        BY <1>1, WrittenNext
  <2>2. Len(out[fcgx]) = puts[fcgx]
        BY <2>1, <1>3, <1>5
  <2> QED BY <2>2 DEF Written
<1>9. CASE FCGX_PutStr(Written(c))
  <2>1. /\ out' \in [Requests -> Seq(Char)]
        /\ Len(out'[fcgx]) = Len(out[fcgx]) + c
        /\ \A r \in Requests : out'[r] = Chars(r, 0, Len(out'[r]))
        /\ \A r \in Requests : r # fcgx => out'[r] = out[r]
        /\ failed' = failed /\ room' \in [Requests -> Nat]
    <3>1. Takes
          BY <1>1, <1>5, <1>7, <1>9, PutTakes
    <3> QED BY <3>1, <1>1, <1>8, <1>9, PutStrTakes
  <2>0. Takes
        BY <1>1, <1>5, <1>7, <1>9, PutTakes
  <2>2. Len(out'[fcgx]) \in Nat /\ Len(out'[fcgx]) = puts'[fcgx] /\ Len(pbuf') = 0
        BY <2>0, <2>1, <1>1, <1>3, <1>5, <1>6, <1>8
  <2>3. Chars(fcgx, Len(out'[fcgx]), 0) = <<>>
        BY <2>2, <1>5, CharsEmpty
  <2>4. /\ pbuf' = Chars(fcgx, Len(out'[fcgx]), Len(pbuf'))
        /\ Len(out'[fcgx]) + Len(pbuf') = puts'[fcgx]
        BY <2>2, <2>3, <1>3
  <2> QED BY <1>1, <1>2, <1>3, <1>4, <1>6, <2>1, <2>4, OutputParts
<1>10. CASE FCGX_PutStr_fails(Written(c))
  <2>1. /\ out' \in [Requests -> Seq(Char)]
        /\ \A r \in Requests : out'[r] = Chars(r, 0, Len(out'[r]))
        /\ \A r \in Requests : r # fcgx => out'[r] = out[r]
        /\ failed' \in [Requests -> BOOLEAN] /\ failed'[fcgx]
        /\ \A r \in Requests : r # fcgx => failed'[r] = failed[r]
        /\ room' \in [Requests -> Nat] /\ room'[fcgx] = 0
        BY <1>1, <1>7, <1>8, <1>10, PutStrFails
  <2>2. ~Takes'
        BY <1>2, <2>1 DEF Takes
  <2> QED BY <1>1, <1>2, <1>3, <1>4, <1>6, <2>1, <2>2, OutputParts
<1> QED BY <1>2, <1>9, <1>10

\* The beginning of a write with a buffer.
LEMMA StreambufPut == ASSUME NEW c \in Sizes, IInv, xsputn(c) PROVE IInv'
<1>1. fcgx # 0 /\ dir = "out" /\ bufsize # 0 /\ c \in Nat
      BY StreambufAssumption DEF xsputn, Writable
<1>2. /\ todo' = c /\ dirty' = [dirty EXCEPT ![fcgx] = TRUE]
      /\ UNCHANGED <<dir, alive, bufsize, fcgx, inLen, input, pbuf, out, failed, room, puts>>
      BY DEF xsputn
<1>3. fcgx \in Requests
      BY <1>1, Attached
<1>4. /\ dirty' \in [Requests -> BOOLEAN] /\ dirty'[fcgx]
      /\ \A r \in Requests : r # fcgx => dirty'[r] = dirty[r]
      BY <1>2, <1>3 DEF IInv, TypeOK
<1>5. /\ alive' \in BOOLEAN /\ todo' \in Nat /\ pbuf' \in Seq(Char)
      /\ out' \in [Requests -> Seq(Char)] /\ puts' \in [Requests -> Nat]
      /\ failed' \in [Requests -> BOOLEAN] /\ room' \in [Requests -> Nat]
      BY <1>1, <1>2 DEF IInv, TypeOK
<1>6. \A r \in Requests : out'[r] = Chars(r, 0, Len(out'[r]))
      BY <1>2 DEF IInv, OutputInOrder
<1>7. Takes' => /\ pbuf' = Chars(fcgx, Len(out'[fcgx]), Len(pbuf'))
                /\ Len(out'[fcgx]) + Len(pbuf') = puts'[fcgx]
      BY <1>1, <1>2 DEF IInv, PutArea, Takes
<1> QED BY <1>1, <1>2, <1>4, <1>5, <1>6, <1>7, OutputParts

\* The loop copies to the put area.
LEMMA StreambufCopyOut == IInv /\ xsputn_copy => IInv'
<1> SUFFICES ASSUME IInv, xsputn_copy PROVE IInv'
    OBVIOUS
<1> DEFINE k == Least(todo, bufsize - Len(pbuf))
<1>1. fcgx # 0 /\ dir = "out" /\ todo > 0 /\ Len(pbuf) < bufsize
      BY DEF xsputn_copy, Writable
<1>2. /\ pbuf' = pbuf \o Written(k)
      /\ puts' = [puts EXCEPT ![fcgx] = @ + k] /\ todo' = todo - k
      /\ UNCHANGED <<dir, alive, bufsize, fcgx, inLen, input, out, failed, room, dirty>>
      BY DEF xsputn_copy
<1>3. /\ fcgx \in Requests /\ fcgx \in Nat /\ puts[fcgx] \in Nat
      /\ Len(pbuf) \in Nat /\ pbuf \in Seq(Char) /\ Len(out[fcgx]) \in Nat
      BY <1>1, AttachedOut
<1>4. todo \in Nat /\ bufsize \in Nat /\ puts \in [Requests -> Nat]
      BY DEF IInv, TypeOK
<1>5. k \in Nat /\ k <= todo
      BY <1>1, <1>3, <1>4 DEF Least
<1> HIDE DEF k
<1>6. bufsize # 0 /\ dirty[fcgx]
      BY <1>1 DEF IInv, PutArea
<1>7. Written(k) \in Seq(Char)
      BY <1>3, <1>5, CharsType DEF Written
<1>8. /\ alive' \in BOOLEAN /\ todo' \in Nat
      /\ out' \in [Requests -> Seq(Char)]
      /\ failed' \in [Requests -> BOOLEAN] /\ dirty' \in [Requests -> BOOLEAN]
      /\ room' \in [Requests -> Nat]
      BY <1>2, <1>4, <1>5 DEF IInv, TypeOK
<1>9. pbuf' \in Seq(Char)
      BY <1>2, <1>3, <1>7
<1>10. /\ puts' \in [Requests -> Nat] /\ puts'[fcgx] = puts[fcgx] + k
       /\ \A r \in Requests : r # fcgx => puts'[r] = puts[r]
      BY <1>2, <1>3, <1>4, <1>5
<1>11. \A r \in Requests : out'[r] = Chars(r, 0, Len(out'[r]))
      BY <1>2 DEF IInv, OutputInOrder
<1>12. Takes' => /\ pbuf' = Chars(fcgx, Len(out'[fcgx]), Len(pbuf'))
                 /\ Len(out'[fcgx]) + Len(pbuf') = puts'[fcgx]
  <2> SUFFICES ASSUME Takes
               PROVE  /\ pbuf' = Chars(fcgx, Len(out'[fcgx]), Len(pbuf'))
                      /\ Len(out'[fcgx]) + Len(pbuf') = puts'[fcgx]
      BY <1>2 DEF Takes
  <2> DEFINE o == Len(out[fcgx])
             l == Len(pbuf)
  <2>1. pbuf' = Chars(fcgx, o, l + k) /\ o + l = puts[fcgx]
        BY <1>1, <1>2, <1>5, WrittenNext
  <2>2. o \in Nat /\ l \in Nat /\ Len(out'[fcgx]) = o
        BY <1>2, <1>3
  <2> HIDE DEF o, l
  <2>3. Len(pbuf') = l + k
    <3>1. \A d \in Nat : Len(Chars(fcgx, o, d)) = d
          BY <1>3, <2>2, CharsType
    <3>2. l + k \in Nat
          BY <1>5, <2>2
    <3> QED BY <2>1, <3>1, <3>2
  <2>4. o + (l + k) = puts'[fcgx]
        BY <1>3, <1>5, <1>10, <2>1, <2>2
  <2> QED BY <2>1, <2>2, <2>3, <2>4
<1> QED BY <1>1, <1>2, <1>6, <1>8, <1>9, <1>10, <1>11, <1>12, OutputParts

\* overflow(c): the put area and one character more.
LEMMA StreambufOverflow == IInv /\ overflow => IInv'
<1> SUFFICES ASSUME IInv, overflow PROVE IInv'
    OBVIOUS
<1> DEFINE s == pbuf \o Written(1)
<1>1. fcgx # 0 /\ dir = "out" /\ todo > 0
      BY DEF overflow, Writable
<1>2. UNCHANGED <<dir, alive, bufsize, fcgx, inLen, input, dirty>>
      BY DEF overflow
<1>3. /\ fcgx \in Requests /\ fcgx \in Nat /\ puts[fcgx] \in Nat
      /\ Len(pbuf) \in Nat /\ pbuf \in Seq(Char) /\ Len(out[fcgx]) \in Nat
      BY <1>1, AttachedOut
<1>4. todo \in Nat /\ puts \in [Requests -> Nat] /\ bufsize # 0 /\ dirty[fcgx]
      BY <1>1 DEF IInv, TypeOK, PutArea
<1>5. alive' \in BOOLEAN /\ dirty' \in [Requests -> BOOLEAN] /\ failed \in [Requests -> BOOLEAN]
      BY <1>2 DEF IInv, TypeOK
<1>6. <<>> \in Seq(Char) /\ Len(<<>>) = 0
      BY EmptySeq
<1>7. CASE /\ FCGX_PutStr(s) /\ pbuf' = <<>>
           /\ puts' = [puts EXCEPT ![fcgx] = @ + 1] /\ todo' = todo - 1
  <2> DEFINE o == Len(out[fcgx])
             l == Len(pbuf)
  <2>0. s \in Seq(Char) /\ Len(s) = l + 1
    <3> DEFINE w == Written(1)
    <3>1. w \in Seq(Char) /\ Len(w) = 1
      <4>1. 1 \in Nat
            OBVIOUS
      <4>2. Chars(fcgx, puts[fcgx], 1) \in Seq(Char) /\ Len(Chars(fcgx, puts[fcgx], 1)) = 1
            BY ONLY <1>3, <4>1, CharsType
      <4> QED BY <4>2 DEF Written
    <3> HIDE DEF w
    <3>2. pbuf \o w \in Seq(Char) /\ Len(pbuf \o w) = Len(pbuf) + Len(w)
          BY <1>3, <3>1, ConcatProperties
    <3> QED BY <3>1, <3>2 DEF w
  <2>1. Takes
    <3>1. Len(s) # 0
          BY <1>3, <2>0
    <3> HIDE DEF s
    <3> QED BY <1>1, <1>7, <2>0, <3>1, PutTakes
  <2>2. s = Chars(fcgx, o, l + 1) /\ o + l = puts[fcgx] /\ l + 1 \in Nat
    <3>1. \A c \in Nat : pbuf \o Written(c) = Chars(fcgx, o, l + c) /\ o + l = puts[fcgx]
          BY <1>1, <2>1, WrittenNext
    <3>2. l + 1 \in Nat
          BY <1>3
    <3> QED BY <3>1, <3>2
  <2>3. FCGX_PutStr(s)
        BY <1>7
  <2> HIDE DEF l, s
  <2>4. /\ out' \in [Requests -> Seq(Char)]
        /\ Len(out'[fcgx]) = o + (l + 1)
        /\ \A r \in Requests : out'[r] = Chars(r, 0, Len(out'[r]))
        /\ \A r \in Requests : r # fcgx => out'[r] = out[r]
        /\ failed' = failed /\ room' \in [Requests -> Nat]
        BY <1>1, <2>2, <2>3, PutStrTakes
  <2>5. /\ puts' \in [Requests -> Nat] /\ puts'[fcgx] = puts[fcgx] + 1
        /\ \A r \in Requests : r # fcgx => puts'[r] = puts[r]
        BY <1>3, <1>4, <1>7
  <2>6. Len(out'[fcgx]) \in Nat /\ Len(out'[fcgx]) = puts'[fcgx] /\ Len(pbuf') = 0
    <3>1. o + (l + 1) = puts[fcgx] + 1
      <4>1. o \in Nat /\ l \in Nat /\ o + l = puts[fcgx]
            BY <1>3, <2>2 DEF l
      <4> HIDE DEF o
      <4> QED BY <4>1
    <3>2. puts[fcgx] + 1 \in Nat
          BY <1>3
    <3> QED BY <3>1, <3>2, <1>6, <1>7, <2>4, <2>5
  <2>7. Chars(fcgx, Len(out'[fcgx]), 0) = <<>>
        BY <2>6, <1>3, CharsEmpty
  <2>8. /\ pbuf' = Chars(fcgx, Len(out'[fcgx]), Len(pbuf'))
        /\ Len(out'[fcgx]) + Len(pbuf') = puts'[fcgx]
        BY <2>6, <2>7, <1>7
  <2>9. todo' \in Nat /\ pbuf' \in Seq(Char)
        BY <1>1, <1>4, <1>6, <1>7
  <2> QED BY <1>1, <1>2, <1>4, <1>5, <1>7, <2>4, <2>5, <2>8, <2>9, OutputParts
<1>8. CASE /\ FCGX_PutStr_fails(s)
           /\ pbuf' = IF Len(out'[fcgx]) = Len(out[fcgx]) + Len(pbuf) THEN <<>> ELSE pbuf
           /\ todo' = 0 /\ UNCHANGED puts
  <2>1. Written(1) \in Seq(Char)
        BY <1>3, CharsType DEF Written
  <2>2. s \in Seq(Char)
        BY <1>3, <2>1
  <2>3. Takes => s = Chars(fcgx, Len(out[fcgx]), Len(s))
    <3> SUFFICES ASSUME Takes PROVE s = Chars(fcgx, Len(out[fcgx]), Len(s))
        OBVIOUS
    <3>1. s = Chars(fcgx, Len(out[fcgx]), Len(pbuf) + 1) /\ Len(pbuf) + 1 \in Nat
      <4>1. \A c \in Nat : pbuf \o Written(c) = Chars(fcgx, Len(out[fcgx]), Len(pbuf) + c)
            BY <1>1, WrittenNext
      <4>2. Len(pbuf) + 1 \in Nat
            BY <1>3
      <4> QED BY <4>1, <4>2
    <3> HIDE DEF s
    <3>2. Len(s) = Len(pbuf) + 1
          BY <1>3, <3>1, CharsType
    <3> QED BY <3>1, <3>2
  <2>4. FCGX_PutStr_fails(s)
        BY <1>8
  <2> HIDE DEF s
  <2>5. /\ out' \in [Requests -> Seq(Char)]
        /\ \A r \in Requests : out'[r] = Chars(r, 0, Len(out'[r]))
        /\ \A r \in Requests : r # fcgx => out'[r] = out[r]
        /\ failed' \in [Requests -> BOOLEAN] /\ failed'[fcgx]
        /\ \A r \in Requests : r # fcgx => failed'[r] = failed[r]
        /\ room' \in [Requests -> Nat] /\ room'[fcgx] = 0
        BY <1>1, <2>2, <2>3, <2>4, PutStrFails
  <2>8. ~Takes'
        BY <1>2, <2>5 DEF Takes
  <2>6. todo' \in Nat /\ pbuf' \in Seq(Char) /\ puts' \in [Requests -> Nat] /\ todo' = 0
        BY <1>3, <1>4, <1>6, <1>8
  <2>7. \A r \in Requests : puts'[r] = puts[r] /\ dirty'[r] = dirty[r]
        BY <1>2, <1>8
  <2> QED BY <1>1, <1>2, <1>4, <1>5, <2>5, <2>6, <2>7, <2>8, OutputParts
<1> QED BY <1>7, <1>8 DEF overflow

\* overflow(EOF): the put area is empty after it, or the stream has failed.
LEMMA Consumed ==
    ASSUME IInv, fcgx # 0, NEW rv \in BOOLEAN, Consume(rv)
    PROVE  /\ out' \in [Requests -> Seq(Char)] /\ pbuf' \in Seq(Char)
           /\ \A r \in Requests : out'[r] = Chars(r, 0, Len(out'[r]))
           /\ \A r \in Requests : r # fcgx => out'[r] = out[r] /\ failed'[r] = failed[r]
           /\ failed' \in [Requests -> BOOLEAN] /\ room' \in [Requests -> Nat]
           /\ pbuf' = <<>> \/ pbuf' = pbuf
           /\ ~failed'[fcgx] \/ room'[fcgx] > 0 => pbuf' = <<>> /\ Len(out'[fcgx]) = puts[fcgx]
<1>1. /\ fcgx \in Requests /\ fcgx \in Nat /\ puts[fcgx] \in Nat
      /\ Len(pbuf) \in Nat /\ pbuf \in Seq(Char) /\ Len(out[fcgx]) \in Nat
      BY AttachedOut
<1>2. <<>> \in Seq(Char) /\ Len(<<>>) = 0
      BY EmptySeq
<1>3. Takes => /\ pbuf = Chars(fcgx, Len(out[fcgx]), Len(pbuf))
               /\ Len(out[fcgx]) + Len(pbuf) = puts[fcgx]
      BY DEF IInv, PutArea
<1>4. CASE pbuf = <<>> /\ UNCHANGED <<pbuf, out, failed, room>>
  <2>1. Takes => Len(out[fcgx]) = puts[fcgx]
        BY <1>1, <1>2, <1>3, <1>4
  <2> QED BY <1>4, <2>1 DEF IInv, TypeOK, OutputInOrder, Takes
<1>5. CASE pbuf # <<>> /\ FCGX_PutStr(pbuf) /\ pbuf' = <<>>
  <2>1. Takes
    <3>1. Len(pbuf) # 0
          BY <1>1, <1>5, EmptySeq
    <3> QED BY <1>1, <1>5, <3>1, PutTakes
  <2>2. pbuf = Chars(fcgx, Len(out[fcgx]), Len(pbuf)) /\ Len(out[fcgx]) + Len(pbuf) = puts[fcgx]
        BY <1>3, <2>1
  <2>3. \A s : \A c \in Nat : s = Chars(fcgx, Len(out[fcgx]), c) /\ FCGX_PutStr(s) =>
           /\ out' \in [Requests -> Seq(Char)]
           /\ Len(out'[fcgx]) = Len(out[fcgx]) + c
           /\ \A r \in Requests : out'[r] = Chars(r, 0, Len(out'[r]))
           /\ \A r \in Requests : r # fcgx => out'[r] = out[r]
           /\ failed' = failed /\ room' \in [Requests -> Nat]
        BY PutStrTakes
  <2>4. /\ out' \in [Requests -> Seq(Char)]
        /\ Len(out'[fcgx]) = Len(out[fcgx]) + Len(pbuf)
        /\ \A r \in Requests : out'[r] = Chars(r, 0, Len(out'[r]))
        /\ \A r \in Requests : r # fcgx => out'[r] = out[r]
        /\ failed' = failed /\ room' \in [Requests -> Nat]
        BY <1>1, <1>5, <2>2, <2>3
  <2>5. failed \in [Requests -> BOOLEAN]
        BY DEF IInv, TypeOK
  <2> QED BY <1>2, <1>5, <2>2, <2>4, <2>5
<1>6. CASE FCGX_PutStr_fails(pbuf) /\ UNCHANGED pbuf
  <2>1. /\ out' \in [Requests -> Seq(Char)]
        /\ \A r \in Requests : out'[r] = Chars(r, 0, Len(out'[r]))
        /\ \A r \in Requests : r # fcgx => out'[r] = out[r]
        /\ failed' \in [Requests -> BOOLEAN] /\ failed'[fcgx]
        /\ \A r \in Requests : r # fcgx => failed'[r] = failed[r]
        /\ room' \in [Requests -> Nat] /\ room'[fcgx] = 0
        BY <1>1, <1>3, <1>6, PutStrFails
  <2> QED BY <1>1, <1>6, <2>1
<1> QED BY <1>4, <1>5, <1>6 DEF Consume

\* After overflow(EOF), whatever dirty says.
LEMMA AfterConsume ==
    ASSUME IInv, fcgx # 0, dir = "out", todo = 0, NEW rv \in BOOLEAN, Consume(rv),
           alive' \in BOOLEAN, dirty' \in [Requests -> BOOLEAN],
           \A r \in Requests : r # fcgx => dirty'[r] = dirty[r],
           UNCHANGED <<dir, bufsize, fcgx, todo, inLen, input, puts>>
    PROVE  IInv'
<1>1. /\ out' \in [Requests -> Seq(Char)] /\ pbuf' \in Seq(Char)
      /\ \A r \in Requests : out'[r] = Chars(r, 0, Len(out'[r]))
      /\ \A r \in Requests : r # fcgx => out'[r] = out[r] /\ failed'[r] = failed[r]
      /\ failed' \in [Requests -> BOOLEAN] /\ room' \in [Requests -> Nat]
      /\ pbuf' = <<>> \/ pbuf' = pbuf
      /\ ~failed'[fcgx] \/ room'[fcgx] > 0 => pbuf' = <<>> /\ Len(out'[fcgx]) = puts[fcgx]
      BY Consumed
<1>2. fcgx \in Requests /\ fcgx \in Nat /\ puts \in [Requests -> Nat] /\ puts[fcgx] \in Nat
      BY AttachedOut DEF IInv, TypeOK
<1>3. Len(<<>>) = 0 /\ Chars(fcgx, puts[fcgx], 0) = <<>>
      BY <1>2, EmptySeq, CharsEmpty
<1>4. Takes' =>
          /\ pbuf' = Chars(fcgx, Len(out'[fcgx]), Len(pbuf'))
          /\ Len(out'[fcgx]) + Len(pbuf') = puts'[fcgx]
          /\ ~dirty'[fcgx] => pbuf' = <<>>
      BY <1>1, <1>2, <1>3 DEF Takes
<1>5. bufsize = 0 => pbuf' = <<>>
      BY <1>1 DEF IInv, PutArea
<1>6. todo' = 0 /\ todo' \in Nat /\ puts' \in [Requests -> Nat]
      BY <1>2
<1> QED BY <1>1, <1>4, <1>5, <1>6, OutputParts

\* sync, when FCGX_FFlush succeeds or the put area could not be handed on.
LEMMA StreambufSync == IInv /\ sync => IInv'
<1> SUFFICES ASSUME IInv, sync PROVE IInv'
    OBVIOUS
<1>1. fcgx # 0 /\ dir = "out" /\ todo = 0
      BY DEF sync, Writable
<1>2. UNCHANGED <<dir, alive, bufsize, fcgx, todo, inLen, input, puts>>
      BY DEF sync
<1>3. fcgx \in Requests /\ alive' \in BOOLEAN /\ dirty \in [Requests -> BOOLEAN]
      BY <1>1, <1>2, Attached DEF IInv, TypeOK
<1>4. CASE Consume(TRUE) /\ dirty' = [dirty EXCEPT ![fcgx] = FALSE]
  <2>1. dirty' \in [Requests -> BOOLEAN] /\ \A r \in Requests : r # fcgx => dirty'[r] = dirty[r]
        BY <1>3, <1>4
  <2> QED BY <1>1, <1>2, <1>3, <1>4, <2>1, AfterConsume
<1>5. CASE Consume(FALSE) /\ UNCHANGED dirty
      BY <1>1, <1>2, <1>3, <1>5, AfterConsume
<1> QED BY <1>4, <1>5 DEF sync

\* sync, when FCGX_FFlush fails.
LEMMA StreambufFFlushFails == IInv /\ sync_FFlushFails => IInv'
<1> SUFFICES ASSUME IInv, sync_FFlushFails PROVE IInv'
    OBVIOUS
<1>1. fcgx # 0 /\ dir = "out" /\ todo = 0
      BY DEF sync_FFlushFails, Writable
<1>2. /\ pbuf' = <<>> /\ failed' = [failed EXCEPT ![fcgx] = TRUE] /\ ~failed[fcgx]
      /\ UNCHANGED <<dir, alive, bufsize, fcgx, todo, inLen, input, puts, dirty>>
      BY DEF sync_FFlushFails, FCGX_FFlush_fails
<1>3. /\ fcgx \in Requests /\ Len(pbuf) \in Nat /\ pbuf \in Seq(Char)
      BY <1>1, AttachedOut
<1>4. /\ alive' \in BOOLEAN /\ dirty' \in [Requests -> BOOLEAN] /\ puts' \in [Requests -> Nat]
      /\ failed \in [Requests -> BOOLEAN] /\ todo' \in Nat /\ pbuf' \in Seq(Char)
      BY <1>2, EmptySeq DEF IInv, TypeOK
<1>5. /\ failed' \in [Requests -> BOOLEAN] /\ failed'[fcgx]
      /\ \A r \in Requests : r # fcgx => failed'[r] = failed[r]
      BY <1>2, <1>3, <1>4
<1>6. /\ pbuf = Chars(fcgx, Len(out[fcgx]), Len(pbuf)) /\ Len(out[fcgx]) + Len(pbuf) = puts[fcgx]
      BY <1>1, <1>2 DEF IInv, PutArea, Takes
<1>7. /\ out' \in [Requests -> Seq(Char)] /\ Len(out'[fcgx]) = Len(out[fcgx]) + Len(pbuf)
      /\ \A r \in Requests : out'[r] = Chars(r, 0, Len(out'[r]))
      /\ \A r \in Requests : r # fcgx => out'[r] = out[r]
  <2>1. SubSeq(pbuf, 1, Len(pbuf)) = pbuf
        BY <1>3, SubSeqFull
  <2>2. out' = [out EXCEPT ![fcgx] = @ \o SubSeq(pbuf, 1, Len(pbuf))]
        BY <2>1 DEF sync_FFlushFails
  <2>3. Len(pbuf) \in 0..Len(pbuf)
        BY <1>3
  <2> QED BY <1>1, <1>3, <1>6, <2>2, <2>3, HandedOn
<1>8. room' \in [Requests -> Nat]
  <2>1. PICK k \in 0..OutLen : room' = [room EXCEPT ![fcgx] = k]
        BY DEF sync_FFlushFails, FCGX_FFlush_fails
  <2>2. k \in Nat
        BY StreambufAssumption
  <2> QED BY <1>3, <2>1, <2>2 DEF IInv, TypeOK
<1>9. /\ pbuf' = Chars(fcgx, Len(out'[fcgx]), Len(pbuf'))
      /\ Len(out'[fcgx]) + Len(pbuf') = puts'[fcgx]
  <2>1. Len(pbuf') = 0 /\ fcgx \in Nat /\ puts[fcgx] \in Nat /\ Len(out'[fcgx]) = puts'[fcgx]
        BY <1>1, <1>2, <1>6, <1>7, EmptySeq, AttachedOut
  <2>2. Chars(fcgx, puts[fcgx], 0) = <<>>
        BY <2>1, CharsEmpty
  <2> QED BY <1>2, <2>1, <2>2
<1> QED BY <1>1, <1>2, <1>4, <1>5, <1>7, <1>8, <1>9, OutputParts

\* The destructor.
LEMMA StreambufDestructor == IInv /\ destructor => IInv'
<1> SUFFICES ASSUME IInv, destructor PROVE IInv'
    OBVIOUS
<1>1. fcgx # 0 /\ dir = "out" /\ todo = 0
      BY DEF destructor, Writable
<1>2. /\ alive' = FALSE /\ dirty' = [dirty EXCEPT ![fcgx] = FALSE]
      /\ UNCHANGED <<dir, bufsize, fcgx, todo, inLen, input, puts>>
      BY DEF destructor
<1>3. PICK rv \in BOOLEAN : Consume(rv)
      BY DEF destructor
<1>4. fcgx \in Requests /\ dirty \in [Requests -> BOOLEAN]
      BY <1>1, Attached DEF IInv, TypeOK
<1>5. dirty' \in [Requests -> BOOLEAN] /\ \A r \in Requests : r # fcgx => dirty'[r] = dirty[r]
      BY <1>2, <1>4
<1>6. alive' \in BOOLEAN
      BY <1>2, Zenon
<1> QED BY <1>1, <1>2, <1>3, <1>5, <1>6, AfterConsume

-----------------------------------------------------------------------------
(* The results.                                                            *)

\* Every call, and every round of the loops of the base class, preserves the invariant.
LEMMA StreambufNext == IInv /\ [Next]_vars => IInv'
<1> SUFFICES ASSUME IInv, [Next]_vars PROVE IInv'
    OBVIOUS
<1>1. CASE UNCHANGED vars
      BY <1>1 DEF vars, input, output, IInv, TypeOK, Fresh, PutArea, Takes, GetArea, Position, Looping,
                  OutputInOrder, AllFlushed
<1>2. CASE Input
      BY <1>2, StreambufGetTooLong, StreambufGetUnbuffered, StreambufGet, StreambufCopyIn, StreambufUflow,
         StreambufUflowEOF, StreambufUnderflow, StreambufUnderflowEOF,
         StreambufUnderflowUnbuffered, StreambufUnget DEF Input
<1>3. CASE Output
      BY <1>3, StreambufPutTooLong, StreambufPutUnbuffered, StreambufPut, StreambufCopyOut,
         StreambufOverflow, StreambufSync, StreambufFFlushFails, StreambufDestructor DEF Output
<1> QED BY <1>1, <1>2, <1>3, StreambufAttach, StreambufSetbuf DEF Next

\* So it holds always.
LEMMA StreambufInvariant == Spec => []IInv
BY StreambufInit, StreambufNext, PTL DEF Spec

\* An application reads the characters of its stream, each once and in order, however
\* it mixes the calls.
THEOREM StreambufInputInOrder == Spec => []InputInOrder
<1>1. IInv => InputInOrder
      BY DEF IInv, Position, InputInOrder
<1> QED BY <1>1, StreambufInvariant, PTL

\* A response holds the characters of its own request, each once and in order, however
\* writes fail.
THEOREM StreambufOutputInOrder == Spec => []OutputInOrder
<1>1. IInv => OutputInOrder
      BY DEF IInv
<1> QED BY <1>1, StreambufInvariant, PTL

\* Every call that meets an error returns one, but for the destructor.
LEMMA ToldNext == IInv /\ Told /\ [Next]_vars => Told'
<1> SUFFICES ASSUME IInv, Told, [Next]_vars PROVE Told'
    OBVIOUS
<1>0. reported \in [Requests -> BOOLEAN] /\ failed \in [Requests -> BOOLEAN] /\ alive \in BOOLEAN
      BY DEF IInv, TypeOK, Told
<1>1. CASE UNCHANGED <<failed, reported>> /\ alive' = alive
      BY <1>1 DEF Told
<1>2. CASE UNCHANGED failed /\ Report /\ alive' = alive
      BY <1>0, <1>2 DEF Told, Report
<1>3. CASE failed' = [failed EXCEPT ![fcgx] = TRUE] /\ Report /\ alive' = alive
      BY <1>0, <1>3 DEF Told, Report
<1>4. CASE UNCHANGED reported /\ alive' = FALSE
      BY <1>4 DEF Told
<1>5. CASE UNCHANGED vars
      BY <1>1, <1>5 DEF vars, output
<1>6. CASE Input
      BY <1>1, <1>6 DEF Input, xsgetn_tooLong, xsgetn_unbuffered, xsgetn, xsgetn_copy, uflow, uflow_EOF,
                        underflow, underflow_EOF, underflow_unbuffered, sungetc, output
<1>7. CASE Output
  <2>1. ASSUME NEW c \in Sizes, xsputn_tooLong(c) \/ xsputn_unbuffered(c) \/ xsputn(c) PROVE Told'
        BY <1>1, <1>2, <1>3, <2>1 DEF xsputn_tooLong, xsputn_unbuffered, xsputn, FCGX_PutStr, FCGX_PutStr_fails
  <2>2. CASE xsputn_copy \/ overflow
        BY <1>1, <1>3, <2>2 DEF xsputn_copy, overflow, FCGX_PutStr, FCGX_PutStr_fails
  <2>3. CASE sync \/ sync_FFlushFails
        BY <1>1, <1>3, <2>3 DEF sync, sync_FFlushFails, Consume, FCGX_PutStr, FCGX_PutStr_fails,
                                FCGX_FFlush_fails
  <2>4. CASE destructor
        BY <1>4, <2>4 DEF destructor
  <2> QED BY <1>7, <2>1, <2>2, <2>3, <2>4 DEF Output
<1>8. ASSUME NEW bs \in BufSizes, setbuf(bs) PROVE Told'
      BY <1>1, <1>8 DEF setbuf
<1>9. CASE attach
      BY <1>1, <1>9 DEF attach
<1> QED BY <1>5, <1>6, <1>7, <1>8, <1>9 DEF Next

\* An application that flushes its stream buffer loses nothing, unless it is told so.
THEOREM StreambufFlushedMeansAll == Spec => []FlushedMeansAll
<1>1. IInv /\ Told => FlushedMeansAll
      BY DEF IInv, TypeOK, AllFlushed, Told, FlushedMeansAll
<1>2. Init => Told
      BY Zenon DEF Init, Told
<1> QED BY <1>1, <1>2, StreambufInvariant, ToldNext, PTL DEF Spec
=============================================================================
