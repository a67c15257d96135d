------------------------- MODULE WgiConnector_proofs -------------------------
(***************************************************************************)
(* Proofs about the responses of WgiConnector, for any sizes, number of    *)
(* requests and connectors.                                                *)
(***************************************************************************)
EXTENDS WgiConnector, TLAPS

\* How far the response has come on the wire, as long as the client is there.
Progress ==
    /\ ~made => Len(sent) = 0 /\ status_code = Unset /\ ~header_committed
    /\ ~made => pc \notin {"execute", "header", "reading", "rescued"}
    /\ status_code = Unset => Len(sent) = 0 /\ ~header_committed /\ pc # "header"
    /\ pc = "create" => ~made
    /\ pc = "rescued" => status_code # Unset
    /\ pc = "header" => ~header_committed
    /\ ~header_committed => Len(sent) <= 2
    /\ ~gone /\ status_code # Unset => Len(sent) >= 1
    /\ ~gone /\ pc \in {"execute", "reading"} /\ status_code # Unset /\ ~header_committed => Len(sent) = 1
    /\ ~gone /\ pc = "header" => Len(sent) = 2
    /\ ~gone /\ header_committed => Len(sent) >= 3
    /\ pc = "finished" /\ made => status_code # Unset
    /\ got <= arrived /\ arrived <= length
    /\ pc = "reading" => form = "reading" /\ left + got = length /\ nb32 >= 0

\* The trace ends the response and the execution.
TraceLast ==
    \A i \in DOMAIN sent : sent[i] = "trace" => pc \in {"finished", "listen", "stopped"}

IInv == TypeOK /\ ResponseShape /\ Progress /\ TraceLast

\* A response of which nothing has been sent.
LEMMA NothingSent ==
    /\ <<>> \in Seq(Codes \cup {"header", "crlf", "body", "trace"})
    /\ Len(<<>>) = 0
    /\ DOMAIN <<>> = {}
OBVIOUS

\* The invariant holds before the first request.
LEMMA ConnectorInit == Init => IInv
<1> SUFFICES ASSUME Init PROVE IInv
    OBVIOUS
<1> USE DEF Init, Unset
<1>1. sent \in Seq(Codes \cup {"header", "crlf", "body", "trace"})
      BY NothingSent
<1>2. gone \in BOOLEAN /\ made \in BOOLEAN /\ header_committed \in BOOLEAN
      BY Zenon
<1>3. TypeOK
      BY <1>1, <1>2 DEF TypeOK
<1>4. ResponseShape /\ Progress /\ TraceLast
      BY NothingSent DEF ResponseShape, Progress, TraceLast
<1> QED BY <1>3, <1>4 DEF IInv

\* What to_integer_32 makes of a length: nothing only of a multiple of 2^32.
LEMMA Width ==
    ASSUME length \in Nat
    PROVE  /\ nb32 \in Int /\ n \in Int
           /\ nb32 >= 0 => n \in Nat
           /\ nb32 >= 0 /\ length % (2 * TwoTo31) # 0 => n > 0
<1> DEFINE H == TwoTo31
           bits == length % (2 * H)
<1>1. H \in Nat /\ H > 0 /\ 2 * H \in Nat /\ 2 * H > 0
      BY WidthAssumption
<1>2. bits \in Int /\ 0 <= bits /\ bits < 2 * H
  <2> HIDE DEF H
  <2> DEFINE W == 2 * H
  <2>1. W \in Nat /\ W > 0
        BY <1>1
  <2> HIDE DEF W
  <2>2. length % W \in Int /\ 0 <= length % W /\ length % W < W
        BY <2>1
  <2> QED BY <2>2 DEF W
<1>3. nb32 = IF bits < H THEN bits ELSE bits - 2 * H
      BY DEF nb32
<1> HIDE DEF bits, H
<1>4. nb32 \in Int /\ (nb32 >= 0 => nb32 = bits)
      BY <1>1, <1>2, <1>3
<1>5. n = IF nb32 <= Chunk THEN nb32 ELSE Chunk
      BY DEF n, Min
<1>6. nb32 >= 0 /\ bits # 0 => n > 0
      BY <1>2, <1>4, <1>5, ChunkAssumption
<1> QED BY <1>4, <1>5, <1>6, ChunkAssumption DEF bits, H

\* What a write does to the response: the client gets s, or the exception leads to
\* the rescue clause.
LEMMA WriteSends ==
    ASSUME TypeOK, NEW s \in Codes \cup {"header", "crlf", "body", "trace"}, NEW l, Write(s, l)
    PROVE  /\ sent' \in Seq(Codes \cup {"header", "crlf", "body", "trace"})
           /\ \/ pc' \in {"rescue", "aborted"} /\ sent' = sent /\ gone
              \/ pc' = l /\ sent' = sent /\ gone
              \/ /\ pc' = l /\ ~gone
                 /\ Len(sent') = Len(sent) + 1
                 /\ sent'[Len(sent) + 1] = s
                 /\ \A i \in 1 .. Len(sent) : sent'[i] = sent[i]
BY DEF Write, Raises, Aborts, Put, TypeOK

\* Every step of the connector, of the service and of the client preserves it.
LEMMA ConnectorNext == IInv /\ [Next]_vars => IInv'
<1> SUFFICES ASSUME IInv, [Next]_vars PROVE IInv'
    OBVIOUS
<1> USE DEF IInv, TypeOK, ResponseShape, Progress, TraceLast, Unset, Codes
<1>1. CASE Arrive
      BY <1>1 DEF Arrive, response, nb32
<1>2. CASE GoAway
      BY <1>2 DEF GoAway, response, input, nb32
<1>3. ASSUME NEW size \in Lengths, fcgi_listen(size) PROVE IInv'
  <2>1. TypeOK'
    <3>1. sent' \in Seq(Codes \cup {"header", "crlf", "body", "trace"})
          BY <1>3, NothingSent DEF fcgi_listen
    <3>2. gone' \in BOOLEAN /\ made' \in BOOLEAN /\ header_committed' \in BOOLEAN
          BY <1>3, Zenon DEF fcgi_listen
    <3>3. requests' \in Nat /\ length' \in Nat /\ arrived' \in Nat /\ left' \in Nat /\ got' \in Nat
          BY <1>3, LengthsAssumption DEF fcgi_listen
    <3> QED BY <1>3, <3>1, <3>2, <3>3 DEF fcgi_listen
  <2>2. ResponseShape' /\ TraceLast'
        BY <1>3, NothingSent DEF fcgi_listen
  <2>3. Progress'
        BY <1>3, LengthsAssumption, NothingSent DEF fcgi_listen
  <2> QED BY <2>1, <2>2, <2>3
<1>4. CASE fcgi_listen_Fails
      BY <1>4 DEF fcgi_listen_Fails, response, input
<1>5. CASE make
      BY <1>5 DEF make, response, input
<1>6. CASE Finish
      BY <1>6 DEF Finish, response, input
<1>7. CASE set_status_code("ok")
  <2>1. TypeOK'
        BY <1>7, WriteSends DEF set_status_code, input
  <2>2. ResponseShape'
        BY <1>7, WriteSends DEF set_status_code, input
  <2>3. Progress'
        BY <1>7, WriteSends DEF set_status_code, input
  <2>4. TraceLast'
        BY <1>7, WriteSends DEF set_status_code, input
  <2> QED BY <2>1, <2>2, <2>3, <2>4
<1>8. CASE write_header_text
  <2>1. TypeOK'
        BY <1>8, WriteSends DEF write_header_text, input
  <2>2. ResponseShape'
        BY <1>8, WriteSends DEF write_header_text, input
  <2>3. Progress'
    <3>1. CASE sent' = sent /\ gone /\ pc' \in {"header", "rescue", "aborted"}
          BY <1>8, <3>1 DEF write_header_text, input
    <3>2. CASE pc' = "header" /\ ~gone /\ Len(sent') = Len(sent) + 1
      <4> HIDE DEF TypeOK, ResponseShape, TraceLast
      <4>1. ~gone /\ pc \in {"execute", "reading"} /\ status_code # Unset /\ ~header_committed
            BY <1>8, <3>2 DEF write_header_text
      <4>2. Len(sent) = 1
            BY <4>1
      <4>3. Len(sent) = 1 /\ Len(sent') = 2
            BY <4>2, <3>2
      <4>4. made' /\ status_code' # Unset /\ ~header_committed' /\ pc' = "header"
            BY <1>8, <3>2 DEF write_header_text
      <4>5. got' <= arrived' /\ arrived' <= length'
            BY <1>8 DEF write_header_text, input
      <4> QED BY <4>3, <4>4, <4>5
    <3> QED BY <1>8, <3>1, <3>2, WriteSends DEF write_header_text
  <2>4. TraceLast'
        BY <1>8, WriteSends DEF write_header_text, input
  <2> QED BY <2>1, <2>2, <2>3, <2>4
<1>9. CASE write_header_end
      BY <1>9, WriteSends DEF write_header_end, Raises, input
<1>10. CASE write_string
  <2> USE DEF write_string, message_writable, input
  <2>1. TypeOK'
        BY <1>10, WriteSends
  <2>2. ResponseShape'
        BY <1>10, WriteSends
  <2>3. Progress'
        BY <1>10, WriteSends
  <2>4. TraceLast'
        BY <1>10, WriteSends
  <2> QED BY <2>1, <2>2, <2>3, <2>4
<1>11. CASE Raise \/ Return
      BY <1>11, SMTT(30) DEF Raise, Return, response, input
<1>12. CASE read_input_data
  <2>1. /\ got' = 0 /\ left' = length
        /\ UNCHANGED <<connector, requests, gone, length, arrived>> /\ UNCHANGED response
        /\ \/ pc' = "execute" /\ form' = "done"
           \/ pc' = "reading" /\ form' = "reading" /\ nb32 >= 0
           \/ pc' \in {"rescue", "aborted"} /\ form' = form
        BY <1>12 DEF read_input_data
  <2>2. nb32' = nb32 /\ pc = "execute"
        BY <1>12, <2>1 DEF read_input_data, nb32
  <2> QED BY <2>1, <2>2 DEF response
<1>13. CASE read_string
  <2>1. nb32 >= 0 /\ n \in Nat
        BY <1>13, Width DEF read_string
  <2>2. nb32' = nb32
        BY <1>13 DEF read_string, nb32
  <2> QED BY <1>13, <2>1, <2>2 DEF read_string, Min, response
<1>14. CASE rescue_status
      BY <1>14, WriteSends DEF rescue_status, input
<1>15. CASE rescue_void
      BY <1>15 DEF rescue_void, response, input
<1>18. CASE rescue_untraced
      BY <1>18 DEF rescue_untraced, response, input
<1>16. CASE rescue_trace
      BY <1>16, WriteSends DEF rescue_trace, message_writable, input
<1>17. CASE UNCHANGED vars
      BY <1>17 DEF vars, response, input, nb32
<1> QED BY <1>1, <1>2, <1>3, <1>4, <1>5, <1>6, <1>7, <1>8, <1>9,
           <1>10, <1>11, <1>12, <1>13, <1>14, <1>15, <1>16, <1>17, <1>18
        DEF Next, Connector, Service

\* So it holds always.
LEMMA ConnectorInvariant == Spec => []IInv
BY ConnectorInit, ConnectorNext, PTL DEF Spec

\* Whatever the service does and wherever it raises an exception, a client receives
\* the beginning of one well-formed response.
THEOREM ConnectorResponseShape == Spec => []ResponseShape
<1>1. IInv => ResponseShape
      BY DEF IInv
<1> QED BY <1>1, ConnectorInvariant, PTL

\* A client that stays gets a status.
THEOREM ConnectorAnswered == Spec => []Answered
<1>1. IInv => Answered
      BY DEF IInv, TypeOK, Progress, Answered, Unset
<1> QED BY <1>1, ConnectorInvariant, PTL

\* header_committed agrees with what has been sent.
THEOREM ConnectorHeaderAgrees == Spec => []HeaderAgrees
<1>1. IInv => HeaderAgrees
      BY DEF IInv, TypeOK, Progress, HeaderAgrees
<1> QED BY <1>1, ConnectorInvariant, PTL

\* The form data are complete in the next state too: read_input_data starts with
\* everything left, and a string that is short, or the last one, comes only when the
\* whole content has come (Progress: got and left make up CONTENT_LENGTH).
LEMMA FormCompleteNext == IInv /\ FormComplete /\ [Next]_vars => FormComplete'
<1> SUFFICES ASSUME IInv, FormComplete, [Next]_vars PROVE FormComplete'
    OBVIOUS
<1> USE DEF IInv, FormComplete
<1>1. CASE UNCHANGED <<connector, form, length, got>> /\ (gone => gone')
      BY <1>1
<1>2. CASE \E size \in Lengths : fcgi_listen(size)
      BY <1>2 DEF fcgi_listen
<1>3. CASE read_input_data
      BY <1>3 DEF read_input_data
<1>4. CASE read_string
  <2> DEFINE count == Min(n, arrived - got)
             rest  == IF count < n THEN 0 ELSE left - count
  <2>1. /\ pc = "reading" /\ Ready
        /\ got' = got + count /\ left' = rest
        /\ rest <= 0 \/ form' = form
        /\ UNCHANGED <<connector, gone, length, arrived>>
        BY <1>4 DEF read_string
  <2>2. /\ length \in Nat /\ arrived \in Nat /\ left \in Nat /\ got \in Nat
        /\ got <= arrived /\ arrived <= length /\ left + got = length
        BY <2>1 DEF TypeOK, Progress
  <2>3. n \in Nat /\ count \in Nat /\ count <= arrived - got /\ count <= n
    <3>1. n \in Nat
          BY <2>1, <2>2, Width DEF Progress
    <3> QED BY <2>2, <3>1 DEF Min
  <2>4. CASE rest <= 0 /\ ~gone /\ connector # "nino"
    <3>1. arrived - got >= n \/ arrived = length
          BY <2>1, <2>4 DEF Ready
    <3>2. CASE count < n
      <4>1. count = arrived - got /\ arrived - got < n
            BY <3>2, <2>2, <2>3 DEF Min
      <4> QED BY <4>1, <3>1, <2>1, <2>2, <2>3
    <3>3. CASE count = n
          BY <3>3, <2>1, <2>2, <2>3, <2>4
    <3> QED BY <3>2, <3>3, <2>2, <2>3
  <2>5. CASE ~(rest <= 0)
        \* The form is still being read.
    <3>1. form' = form
          BY <2>1, <2>5
    <3> QED BY <3>1, <2>1 DEF Progress
  <2> QED BY <2>1, <2>4, <2>5
<1>5. CASE Next /\ ~(\E size \in Lengths : fcgi_listen(size)) /\ ~read_input_data /\ ~read_string
  <2>1. UNCHANGED <<connector, form, length, got>> /\ (gone => gone')
        BY <1>5 DEF Next, Connector, Service, Arrive, GoAway, fcgi_listen_Fails, make, Finish,
                    rescue_status, rescue_untraced, rescue_void, rescue_trace, set_status_code,
                    write_header_text, write_header_end, write_string, Raise, Return,
                    response, input
  <2> QED BY <2>1, <1>1
<1>6. CASE UNCHANGED vars
      BY <1>6, <1>1 DEF vars, response, input
<1> QED BY <1>2, <1>3, <1>4, <1>5, <1>6

\* The service gets all of the form data, in however many pieces they come, with
\* every connector that waits for what it asked for.
THEOREM ConnectorFormComplete == Spec => []FormComplete
<1>1. Init => FormComplete
      BY DEF Init, FormComplete
<1> QED BY <1>1, ConnectorInvariant, FormCompleteNext, PTL DEF Spec

\* While read_input_data reads, something is left to be read.
Remaining == pc = "reading" => left > 0

\* It stays so: the loop is left when nothing is.
LEMMA RemainingNext == IInv /\ Remaining /\ [Next]_vars => Remaining'
<1> SUFFICES ASSUME IInv, Remaining, [Next]_vars PROVE Remaining'
    OBVIOUS
<1>1. CASE read_input_data
  <2>1. left' = length /\ (length = 0 => pc' # "reading") /\ length \in Nat
        BY <1>1 DEF read_input_data, IInv, TypeOK
  <2> QED BY <2>1 DEF Remaining
<1>2. CASE read_string
  <2> DEFINE count == Min(n, arrived - got)
             rest  == IF count < n THEN 0 ELSE left - count
  <2>1. left' = rest /\ (rest <= 0 => pc' = "execute") /\ left' \in Int
    <3>1. left' \in Nat
          BY ConnectorNext DEF IInv, TypeOK
    <3> QED BY <1>2, <3>1 DEF read_string
  <2> HIDE DEF rest
  <2> QED BY <2>1 DEF Remaining
<1>3. CASE ~read_input_data /\ ~read_string
  <2>1. pc' = "reading" => pc = "reading" /\ left' = left
        BY <1>3 DEF Next, Connector, Service, Arrive, GoAway, fcgi_listen, fcgi_listen_Fails, make, Finish,
                    rescue_status, rescue_untraced, rescue_void, rescue_trace, set_status_code, write_header_text,
                    write_header_end, write_string, Write, Raise, Return, vars, response, input
  <2> QED BY <2>1 DEF Remaining
<1> QED BY <1>1, <1>2, <1>3

\* What a round of read_input_data does: less is left than before, and never less than
\* nothing, if the size it asks for is not 0.
Decreasing == read_string /\ length % (2 * TwoTo31) # 0 => left' \in Nat /\ left' < left

\* The loop of read_input_data ends and n64 does not wrap around, though the size asked
\* for is not adapted to what is left, for every CONTENT_LENGTH that is not a multiple of
\* 2^32: whatever read_string returns, also when the client has gone, less is left.  (For a
\* multiple nothing changes in a round, which is Endless.)
THEOREM ConnectorReadingEnds == Spec => [][Decreasing]_vars
<1>1. ASSUME IInv, IInv', Remaining, read_string, length % (2 * TwoTo31) # 0
      PROVE  left' \in Nat /\ left' < left
  <2> DEFINE count == Min(n, arrived - got)
             rest  == IF count < n THEN 0 ELSE left - count
  <2>1. pc = "reading" /\ left' = rest
        BY <1>1 DEF read_string
  <2>2. /\ length \in Nat /\ arrived \in Nat /\ left \in Nat /\ got \in Nat
        /\ got <= arrived /\ left + got = length /\ left > 0
        BY <1>1, <2>1 DEF IInv, TypeOK, Progress, Remaining
  <2>3. n \in Nat /\ n > 0
        BY <1>1, <2>1, <2>2, Width DEF IInv, Progress
  <2>4. count \in Nat
        BY <2>2, <2>3 DEF Min
  <2>5. left' < left
    <3> HIDE DEF count
    <3>1. CASE count < n
          BY <2>1, <2>2, <3>1
    <3>2. CASE ~(count < n)
          BY <2>1, <2>2, <2>3, <2>4, <3>2
    <3> QED BY <3>1, <3>2
  <2>6. left' \in Nat
        BY <1>1 DEF IInv, TypeOK
  <2> QED BY <2>5, <2>6
<1>2. IInv /\ IInv' /\ Remaining /\ [Next]_vars => [Decreasing]_vars
      BY <1>1 DEF Decreasing
<1>3. Init => Remaining
      BY DEF Init, Remaining
<1> QED BY <1>2, <1>3, ConnectorInvariant, RemainingNext, PTL DEF Spec
=============================================================================
