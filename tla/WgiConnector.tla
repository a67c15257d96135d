---------------------------- MODULE WgiConnector ----------------------------
(***************************************************************************)
(* The Eiffel connectors (WGI_LIBFCGI_CONNECTOR, WGI_CGI_CONNECTOR,        *)
(* WGI_NINO_CONNECTOR): the loop over requests, the execution of the       *)
(* service with its rescue clause, the response (WGI_RESPONSE_STREAM on a  *)
(* WGI_OUTPUT_STREAM), and the reading of form data.                       *)
(*                                                                         *)
(* A service calls the features of the response in any order that their    *)
(* preconditions allow, and may raise an exception anywhere.  The client   *)
(* may go away: a write then raises an exception, except with libfcgi,     *)
(* which ignores the result of FCGI_fwrite; but FCGI_fwrite asserts that   *)
(* the write has succeeded, and aborts the process where assertions are    *)
(* compiled in (FcgiStdio).                                                *)
(***************************************************************************)
EXTENDS Integers, Sequences

CONSTANTS
    Connectors,   \* the connectors to look at, of "libfcgi", "cgi" and "nino"
    Chunk,        \* bytes read at a time by read_input_data (1024)
    TwoTo31,      \* 2^31, the least number that is too large for an INTEGER_32
    Lengths,      \* values of CONTENT_LENGTH, a NATURAL_64
    MaxReqs,      \* bound: requests
    MaxBody       \* bound: strings written to the body of a response

ASSUME ConnectorsAssumption == Connectors \subseteq {"libfcgi", "cgi", "nino"}
ASSUME ChunkAssumption == Chunk \in Nat \ {0}
ASSUME WidthAssumption == TwoTo31 \in Nat \ {0}
ASSUME LengthsAssumption == Lengths \subseteq Nat
ASSUME BoundsAssumption == MaxReqs \in Nat /\ MaxBody \in Nat

\* The status codes that are set, and status_code = 0; a status line is named by its code.
Codes == {"ok", "internal_server_error"}
Unset == "0"

VARIABLES
    connector,
    pc,
    requests,                        \* requests so far
    gone,                            \* the client has gone away
    made,                            \* res /= Void
    status_code, header_committed,   \* of the response
    sent,                            \* what the client has received of it
    form,                            \* read_input_data: "no", "reading" or "done"
    length, arrived,                 \* CONTENT_LENGTH, and how much of it has come
    left, got                        \* n64 and s.count of read_input_data

response == <<made, status_code, header_committed, sent>>
input    == <<form, length, arrived, left, got>>
vars     == <<connector, pc, requests, gone, response, input>>

Init ==
    /\ connector \in Connectors
    /\ pc = "listen" /\ requests = 0 /\ gone = FALSE
    /\ made = FALSE /\ status_code = Unset /\ header_committed = FALSE /\ sent = <<>>
    /\ form = "no" /\ length = 0 /\ arrived = 0 /\ left = 0 /\ got = 0

Min(a, b) == IF a <= b THEN a ELSE b

-----------------------------------------------------------------------------
(* The client.                                                             *)

Arrive ==
    /\ pc \notin {"listen", "stopped", "aborted"} /\ ~gone /\ arrived < length
    /\ arrived' = arrived + 1
    /\ UNCHANGED <<connector, pc, requests, gone, response, form, length, left, got>>

GoAway ==
    /\ pc \notin {"listen", "stopped", "aborted"} /\ ~gone
    /\ gone' = TRUE
    /\ UNCHANGED <<connector, pc, requests, response, input>>

-----------------------------------------------------------------------------
(* launch.                                                                 *)

\* A request arrives; CGI has only one.
fcgi_listen(size) ==
    /\ pc = "listen" /\ requests < MaxReqs
    /\ connector = "cgi" => requests = 0
    /\ pc' = "create" /\ requests' = requests + 1 /\ gone' = FALSE
    /\ made' = FALSE /\ status_code' = Unset /\ header_committed' = FALSE /\ sent' = <<>>
    /\ form' = "no" /\ length' = size /\ arrived' = 0 /\ left' = 0 /\ got' = 0
    /\ UNCHANGED connector

\* The connector cannot accept any more, or the program ends.
fcgi_listen_Fails ==
    /\ pc = "listen"
    /\ pc' = "stopped"
    /\ UNCHANGED <<connector, requests, gone, response, input>>

\* create req.make and res.make.
make ==
    /\ pc = "create"
    /\ pc' = "execute" /\ made' = TRUE
    /\ UNCHANGED <<connector, requests, gone, status_code, header_committed, sent, input>>

\* The end of process_request.
Finish ==
    /\ pc \in {"finished", "untraced"}
    /\ pc' = IF connector = "cgi" THEN "stopped" ELSE "listen"
    /\ UNCHANGED <<connector, requests, gone, response, input>>

-----------------------------------------------------------------------------
(* service.execute.                                                        *)

\* Mutant: every write raises when the client has gone.
Raises_always == gone

\* put_string raises an exception.
Raises == gone /\ connector # "libfcgi"

\* ASSERT (n >= 0) in FCGI_fwrite fails.
Aborts == gone /\ connector = "libfcgi"

Put(s) == sent' = IF gone THEN sent ELSE Append(sent, s)

\* write (s), and then on to l or to the rescue clause.
Write(s, l) ==
    \/ Raises /\ pc' = "rescue" /\ UNCHANGED sent
    \/ ~Raises /\ pc' = l /\ Put(s)
    \/ Aborts /\ pc' = "aborted" /\ UNCHANGED sent

set_status_code(c) ==
    /\ pc = "execute" /\ status_code = Unset /\ ~header_committed
    /\ status_code' = c
    /\ Write(c, "execute")
    /\ UNCHANGED <<connector, requests, gone, made, header_committed, input>>

write_header_text ==
    /\ pc = "execute" /\ status_code # Unset /\ ~header_committed
    /\ Write("header", "header")
    /\ UNCHANGED <<connector, requests, gone, made, status_code, header_committed, input>>

\* write (crlf).
write_header_end ==
    /\ pc = "header"
    /\ Write("crlf", "execute")
    /\ header_committed' = ~Raises
    /\ UNCHANGED <<connector, requests, gone, made, status_code, input>>

message_writable == status_code # Unset /\ header_committed

\* write_string, write_substring, write_chunk and write_file_content.
write_string ==
    /\ pc = "execute" /\ message_writable
    /\ Len(sent) < 3 + MaxBody
    /\ Write("body", "execute")
    /\ UNCHANGED <<connector, requests, gone, made, status_code, header_committed, input>>

\* An exception in the service, or while req is created.
Raise ==
    /\ pc \in {"create", "execute", "header", "reading"}
    /\ pc' = "rescue"
    /\ UNCHANGED <<connector, requests, gone, response, input>>

\* "ensure res_status_set: res.status_is_set".
Return ==
    /\ pc = "execute" /\ status_code # Unset
    /\ pc' = "finished"
    /\ UNCHANGED <<connector, requests, gone, response, input>>

-----------------------------------------------------------------------------
(* read_input_data, called by the service when it looks at form data.      *)

\* n64.to_integer_32, which keeps 32 bits.
nb32 ==
    LET bits == length % (2 * TwoTo31)
    IN  IF bits < TwoTo31 THEN bits ELSE bits - 2 * TwoTo31

\* A string cannot be created with a negative size, nor read: the runtime raises an
\* exception or the process comes to its end.
read_input_data ==
    /\ pc = "execute" /\ form = "no"
    /\ \/ length = 0 /\ form' = "done" /\ UNCHANGED pc
       \/ length # 0 /\ nb32 >= 0 /\ form' = "reading" /\ pc' = "reading"
       \/ nb32 < 0 /\ pc' \in {"rescue", "aborted"} /\ UNCHANGED form
    /\ left' = length /\ got' = 0
    /\ UNCHANGED <<connector, requests, gone, response, length, arrived>>

\* The argument of read_string: it is not adapted to what is left.
n == Min(nb32, Chunk)

\* Mutant: FCGI_fread returns what it has.
Ready_short == arrived > got \/ gone

\* read_string can return: a socket gives what has come; the other streams wait
\* for all of it or the end of the input.
Ready ==
    IF connector = "nino"
    THEN arrived > got \/ gone
    ELSE arrived - got >= n \/ arrived = length \/ gone

\* A string that is shorter than n is taken for the end.
read_string ==
    /\ pc = "reading" /\ Ready
    /\ LET count == Min(n, arrived - got)
           rest  == IF count < n THEN 0 ELSE left - count
       IN  /\ got' = got + count
           /\ left' = rest
           /\ IF rest <= 0 THEN form' = "done" /\ pc' = "execute"
                           ELSE UNCHANGED <<form, pc>>
    /\ UNCHANGED <<connector, requests, gone, response, length, arrived>>

-----------------------------------------------------------------------------
(* The rescue clause: rescued := True; retry.                              *)

\* Mutant: whether the status is set is not tested.
rescue_status_untested ==
    /\ pc = "rescue" /\ made
    /\ status_code' = "internal_server_error"
    /\ Write("internal_server_error", "rescued")
    /\ UNCHANGED <<connector, requests, gone, made, header_committed, input>>

\* Mutant: no status is sent.
rescue_status_unsent ==
    /\ pc = "rescue" /\ made
    /\ status_code' = IF status_code = Unset THEN "internal_server_error" ELSE status_code
    /\ pc' = "rescued"
    /\ UNCHANGED <<connector, requests, gone, made, header_committed, sent, input>>

rescue_status ==
    /\ pc = "rescue" /\ made
    /\ IF status_code = Unset
       THEN status_code' = "internal_server_error" /\ Write("internal_server_error", "rescued")
       ELSE pc' = "rescued" /\ UNCHANGED <<status_code, sent>>
    /\ UNCHANGED <<connector, requests, gone, made, header_committed, input>>

\* The exception has left no trace: the clause does nothing.
rescue_untraced ==
    /\ pc = "rescue"
    /\ pc' = "untraced"
    /\ UNCHANGED <<connector, requests, gone, response, input>>

\* res = Void.
rescue_void ==
    /\ pc = "rescue" /\ ~made
    /\ pc' = "finished"
    /\ UNCHANGED <<connector, requests, gone, response, input>>

\* The exception trace; if writing it raises an exception, the clause is retried.
rescue_trace ==
    /\ pc = "rescued"
    /\ IF message_writable THEN Write("trace", "finished")
                           ELSE pc' = "finished" /\ UNCHANGED sent
    /\ UNCHANGED <<connector, requests, gone, made, status_code, header_committed, input>>

-----------------------------------------------------------------------------
Connector ==
    \/ fcgi_listen_Fails \/ make \/ Finish
    \/ rescue_status \/ rescue_untraced \/ rescue_void \/ rescue_trace

Service ==
    \/ set_status_code("ok") \/ write_header_text \/ write_header_end \/ write_string
    \/ Raise \/ Return \/ read_input_data \/ read_string

Next ==
    \/ Arrive \/ GoAway
    \/ \E size \in Lengths : fcgi_listen(size)
    \/ Connector \/ Service

Spec == Init /\ [][Next]_vars

-----------------------------------------------------------------------------
\* The types of the module's variables.
TypeOK ==
    /\ connector \in Connectors
    /\ pc \in {"listen", "create", "execute", "header", "reading", "rescue", "rescued", "finished",
               "untraced", "stopped", "aborted"}
    /\ requests \in Nat
    /\ gone \in BOOLEAN /\ made \in BOOLEAN /\ header_committed \in BOOLEAN
    /\ status_code \in Codes \cup {Unset}
    /\ sent \in Seq(Codes \cup {"header", "crlf", "body", "trace"})
    /\ form \in {"no", "reading", "done"}
    /\ length \in Nat /\ arrived \in Nat /\ left \in Nat /\ got \in Nat

\* What a client receives is always the beginning of one well-formed response, with
\* the status that the response object has: a status line, the header, the empty
\* line, the body, and at the very end perhaps the trace of an exception - wherever
\* the exception was raised, and whatever the rescue clause found.
ResponseShape ==
    /\ Len(sent) >= 1 => sent[1] = status_code
    /\ Len(sent) >= 2 => sent[2] = "header"
    /\ Len(sent) >= 3 => sent[3] = "crlf"
    /\ \A i \in DOMAIN sent : i > 3 => sent[i] \in {"body", "trace"}
    /\ \A i \in DOMAIN sent : sent[i] = "trace" => i = Len(sent) /\ pc \notin {"execute", "rescued"}

\* A client that stays gets at least a status for every request for which the
\* response object could be created, also when the service raised an exception
\* before it set one - if the exception has a trace, without which the rescue clause
\* sends nothing (pc is "untraced" then).
Answered == pc = "finished" /\ made /\ ~gone => sent # <<>>

\* What message_writable tells the service and the rescue clause agrees with what
\* the client has received: the body starts after the end of the header.
HeaderAgrees ==
    /\ made /\ ~gone => (header_committed <=> Len(sent) >= 3)
    /\ Len(sent) >= 3 => header_committed

\* "All data from input form": with libfcgi and CGI the service gets the whole
\* content, in however many pieces it comes; a socket (Nino) returns what has come
\* and read_input_data takes a short string for the end.
FormComplete == form = "done" /\ ~gone /\ connector # "nino" => got = length

-----------------------------------------------------------------------------
\* The service ends by itself, the client sends its content or goes away, and the
\* connector goes on.
FairSpec ==
    /\ Spec
    /\ WF_vars(make) /\ WF_vars(Finish) /\ WF_vars(Arrive)
    /\ WF_vars(rescue_status) /\ WF_vars(rescue_void) /\ WF_vars(rescue_trace)
    /\ WF_vars(set_status_code("ok")) /\ WF_vars(Return)
    /\ WF_vars(read_string) /\ WF_vars(write_header_end)

\* The client has gone after the end of the header, and writes raise exceptions: the
\* rescue clause fails at the trace and is retried, for ever.
Retrying ==
    pc \in {"rescue", "rescued"} /\ message_writable /\ gone /\ connector # "libfcgi"

\* CONTENT_LENGTH is a multiple of 2^32: read_string is asked for nothing, for ever.
Endless == pc = "reading" /\ n = 0

\* The connector comes back from every request, whatever the service, the client and the
\* length of the content, but for the two loops above and for a process that is
\* aborted.
RequestEnds ==
    (pc = "create") ~> (pc \in {"listen", "stopped", "aborted"} \/ Retrying \/ Endless)
=============================================================================
