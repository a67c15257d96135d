--------------------------- MODULE FcgiStdio_proofs ---------------------------
(***************************************************************************)
(* Proofs of the safety properties of FcgiStdio, and that it implements    *)
(* FcgiRequest, for any number of files and requests; and, behind them, of *)
(* FcgiPrintf, the FCGX_VFPrintF that FCGI_printf, FCGI_fprintf and their  *)
(* relatives call, for any formats.                                        *)
(***************************************************************************)
EXTENDS FcgiStdio, FcgiPrintf, FiniteSetTheorems, WellFoundedInduction, TLAPS

\* There is no request while none has been accepted, in a CGI program, and after
\* FCGX_Finish_r; and FCGX_Finish_r is always called from somewhere.
Control ==
    /\ isCGI => acceptCalled
    /\ ~acceptCalled \/ isCGI => req = 0 /\ pc \in {"run", "wrap", "exited", "aborted"}
    /\ pc \in {"closeErr", "closeOut", "free"} => ret # "run"
    /\ pc \in {"accept", "finished", "exited"} => req = 0

\* NoDangling, also while FCGI_fopen is under way.
Pointers ==
    /\ pc \in {"run", "wrap"} /\ ~refused =>
           /\ \A s \in Std : fcgx_stream[s] \in {0, req}
           /\ environ \in {process, 0, req}
           /\ req # 0 => \A s \in Std : wasFCloseCalled[s] \/ fcgx_stream[s] = req
    /\ \A s \in Std : fcgx_stream[s] = 0 \/ stdio_stream[s] = NULL

Unclosed(s) == IF wasFCloseCalled[s] THEN 0 ELSE 1

\* Without a request nothing is left of the streams.
Fresh == req = 0 => (\A s \in Std : ~error[s]) /\ (\A s \in Writers : ~buffered[s])

\* nWriters counts the writers that are not closed.
Counted == req # 0 => nWriters = Unclosed("stdout") + Unclosed("stderr")

\* FCGX_Finish_r closes both.
Closing ==
    /\ pc = "closeOut" => req = 0 \/ wasFCloseCalled["stderr"]
    /\ pc = "free" => req = 0 \/ (wasFCloseCalled["stderr"] /\ wasFCloseCalled["stdout"])

\* The last writer to be closed answers the request, unless a write has failed.
Answering ==
    /\ req = 0 \/ nWriters = 0 => answered \/ lost
    /\ req # 0 /\ answered => nWriters = 0

\* A writer that is closed holds nothing.
Flushed == ~lost => \A s \in Writers : wasFCloseCalled[s] => ~buffered[s]

\* An error on the connection is seen, or the application has cleared it.
Seen == ipcOpen /\ lost => cleared \/ \E s \in Std : error[s]

Ends == Fresh /\ Counted /\ Closing /\ Answering /\ Flushed /\ Seen

\* The status that is going to be sent, and the one that was, unless the application
\* has set it too late or where it is ignored.
Status ==
    req # 0 /\ ~ignored =>
        (IF answered THEN sentStatus ELSE appStatus) = (IF lastSet = None THEN inherited ELSE lastSet)

Live == (Std \cup allocated) \ spoiled

\* The FILE that FCGI_fopen has in hand is nobody else's.
InHand == file # NULL => pc = "wrap" /\ file \in open /\ \A h \in Live : stdio_stream[h] # file

\* A FILE that is open has a holder, and no more than one; what is held is open.
HasHolder == \A fp \in (open \cap FILEs) \ orphans : fp = file \/ \E h \in Live : stdio_stream[h] = fp
OneHolder == \A h, k \in Live : stdio_stream[h] # NULL /\ stdio_stream[h] = stdio_stream[k] => h = k
HeldOpen == \A h \in Live : stdio_stream[h] # NULL => stdio_stream[h] \in open

\* The C library's own files, and the FCGI_FILEs that are no longer used.
OwnFiles ==
    /\ \A h \in Heap : stdio_stream[h] \notin Std
    /\ ~acceptCalled => Std \subseteq open /\ \A s \in Std : stdio_stream[s] = NULL
    /\ spoiled \cap Heap \subseteq allocated

Held == InHand /\ HasHolder /\ OneHolder /\ HeldOpen /\ OwnFiles

IInv == TypeOK /\ Control /\ Pointers /\ Ends /\ Status /\ Held

\* What the provers need to know of the names of files.
LEMMA StdFacts ==
    /\ Writers \subseteq Std /\ Std \subseteq Handles /\ Heap \subseteq Handles /\ Reopened \subseteq Std
    /\ Handles = Std \cup Heap /\ Heap \cap Std = {} /\ FILEs \cap Std = {}
    /\ NULL \notin FILEs /\ NULL \notin Std
    /\ "stdin" \in Std /\ "stdout" \in Writers /\ "stderr" \in Writers
    /\ \A s \in Writers : s = "stdout" \/ s = "stderr"
    /\ MaxReqs \in Nat /\ Statuses \subseteq Nat
BY HeapAssumption, FILEsAssumption, ReopenedAssumption, NumbersAssumption DEF Std, Writers,
   Handles

\* The invariant holds when the process starts.
LEMMA StdioInit == Init => IInv
<1> SUFFICES ASSUME Init PROVE IInv
    OBVIOUS
<1> USE StdFacts DEF Init
<1>1. TypeOK
  <2>1. /\ stdio_stream \in [Handles -> FILEs \cup Std \cup {NULL}] /\ fcgx_stream \in [Std -> Nat]
        /\ isClosed \in [Std -> BOOLEAN] /\ wasFCloseCalled \in [Std -> BOOLEAN]
        /\ error \in [Std -> BOOLEAN] /\ buffered \in [Writers -> BOOLEAN]
        OBVIOUS
  <2>2. /\ acceptCalled \in BOOLEAN /\ isCGI \in BOOLEAN /\ keepConnection \in BOOLEAN
        /\ ipcOpen \in BOOLEAN /\ answered \in BOOLEAN /\ lost \in BOOLEAN /\ cleared \in BOOLEAN
        /\ refused \in BOOLEAN /\ ignored \in BOOLEAN
        OBVIOUS
  <2> QED BY <2>1, <2>2 DEF TypeOK, process, None
<1>2. Control /\ Pointers
      BY DEF Control, Pointers
<1>3. Ends /\ Status
      BY DEF Ends, Fresh, Counted, Closing, Answering, Flushed, Seen, Status
<1>4. Held
      BY DEF Held, InHand, HasHolder, OneHolder, HeldOpen, OwnFiles, Live
<1> QED BY <1>1, <1>2, <1>3, <1>4 DEF IInv

\* SetError changes three things.
LEMMA StreamFailsTypes ==
    ASSUME TypeOK, NEW s \in Std, StreamFails(s)
    PROVE  error' \in [Std -> BOOLEAN] /\ isClosed' \in [Std -> BOOLEAN] /\ lost' \in BOOLEAN
<1>1. error' \in [Std -> BOOLEAN] /\ isClosed' \in [Std -> BOOLEAN]
      BY StdFacts DEF StreamFails, TypeOK
<1>2. lost' \in BOOLEAN
      BY DEF StreamFails
<1> QED BY <1>1, <1>2

\* FCGX_FClose marks the stream as closed.
LEMMA FCloseTypes ==
    ASSUME TypeOK, NEW s \in Std, FCGX_FClose(s)
    PROVE  /\ wasFCloseCalled' = [wasFCloseCalled EXCEPT ![s] = TRUE]
           /\ nWriters' \in Int /\ sentStatus' \in Nat
           /\ isClosed' \in [Std -> BOOLEAN] /\ wasFCloseCalled' \in [Std -> BOOLEAN]
           /\ error' \in [Std -> BOOLEAN] /\ buffered' \in [Writers -> BOOLEAN]
           /\ answered' \in BOOLEAN /\ lost' \in BOOLEAN /\ cleared' \in BOOLEAN
<1>1. CASE wasFCloseCalled[s]
      BY <1>1 DEF FCGX_FClose, streams, server, TypeOK
<1>2. CASE ~wasFCloseCalled[s] /\ s \in Writers
  <2>1. CloseWriter(s)
        BY <1>2 DEF FCGX_FClose
  <2>2. nWriters' \in Int /\ sentStatus' \in Nat
        BY <2>1 DEF CloseWriter, TypeOK
  <2>3. answered' \in BOOLEAN
        BY <2>1 DEF CloseWriter, TypeOK
  <2>4. lost' \in BOOLEAN /\ cleared' \in BOOLEAN
        BY <2>1 DEF CloseWriter, TypeOK
  <2>5. buffered' \in [Writers -> BOOLEAN]
        BY <2>1 DEF CloseWriter, TypeOK
  <2>6. error' \in [Std -> BOOLEAN]
        BY <2>1 DEF CloseWriter, TypeOK
  <2> QED BY <2>1, <2>2, <2>3, <2>4, <2>5, <2>6 DEF CloseWriter, TypeOK
<1>3. CASE ~wasFCloseCalled[s] /\ s \notin Writers
      BY <1>3 DEF FCGX_FClose, server, TypeOK
<1> QED BY <1>1, <1>2, <1>3

\* FCGX_Finish_r returns to its caller.
LEMMA FreeReturns ==
    ASSUME IInv, Finish_Free
    PROVE  pc' \in {"accept", "finished", "exited"}
BY DEF IInv, TypeOK, Control, Finish_Free

\* A file that stands for a stream is one of the current request's.
LEMMA OnStreamRequest ==
    ASSUME IInv, NEW s \in Std, OnStream(s)
    PROVE  req # 0 /\ pc = "run" /\ acceptCalled /\ ~refused
BY DEF IInv, Control, Pointers, OnStream, Usable

\* Closing a stream keeps the account of writers, answers and errors.
LEMMA FCloseEnds ==
    ASSUME IInv, NEW s \in Std, req # 0, FCGX_FClose(s), UNCHANGED <<req, ipcOpen>>
    PROVE  Fresh' /\ Counted' /\ Answering' /\ Flushed' /\ Seen'
<1> USE StdFacts DEF IInv, TypeOK, Ends
<1>1. CASE wasFCloseCalled[s]
      BY <1>1 DEF FCGX_FClose, streams, server, Fresh, Counted, Answering, Flushed, Seen, Unclosed
<1>2. CASE ~wasFCloseCalled[s] /\ s \in Writers
  <2>1. CloseWriter(s)
        BY <1>2 DEF FCGX_FClose
  <2>2. Counted' /\ nWriters > 0
        BY <1>2, <2>1 DEF CloseWriter, Counted, Unclosed
  <2>3. Answering'
    <3>1. nWriters' = nWriters - 1 /\ ~answered /\ nWriters \in Int
          BY <2>1, <2>2 DEF CloseWriter, Answering
    <3>2. nWriters = 1 => answered' \/ lost'
          BY <2>1, Zenon DEF CloseWriter
    <3>3. nWriters # 1 => ~answered'
          BY <2>1, <3>1, Zenon DEF CloseWriter
    <3> QED BY <2>2, <3>1, <3>2, <3>3 DEF Answering
  <2>4. Flushed'
        BY <1>2, <2>1 DEF CloseWriter, Flushed
  <2>5. Seen'
        BY <2>1 DEF CloseWriter, Seen
  <2> QED BY <2>2, <2>3, <2>4, <2>5 DEF Fresh
<1>3. CASE ~wasFCloseCalled[s] /\ s \notin Writers
  <2>1. s # "stdout" /\ s # "stderr"
        BY <1>3
  <2>2. Fresh' /\ Answering' /\ Seen'
        BY <1>3 DEF FCGX_FClose, server, Fresh, Answering, Seen
  <2>3. Counted'
    <3>1. /\ wasFCloseCalled'["stdout"] = wasFCloseCalled["stdout"]
          /\ wasFCloseCalled'["stderr"] = wasFCloseCalled["stderr"]
          BY <1>3, <2>1 DEF FCGX_FClose
    <3> QED BY <1>3, <3>1 DEF FCGX_FClose, Counted, Unclosed
  <2>4. Flushed'
        BY <1>3 DEF FCGX_FClose, server, Flushed
  <2> QED BY <2>2, <2>3, <2>4
<1> QED BY <1>1, <1>2, <1>3

\* The last writer sends the status of the request.
LEMMA FCloseStatus ==
    ASSUME IInv, NEW s \in Std, req # 0, FCGX_FClose(s)
    PROVE  (IF answered' THEN sentStatus' ELSE appStatus) = (IF answered THEN sentStatus ELSE appStatus)
<1> USE StdFacts DEF IInv, TypeOK
<1>1. CASE wasFCloseCalled[s] \/ s \notin Writers
      BY <1>1 DEF FCGX_FClose, streams, server
<1>2. CASE ~wasFCloseCalled[s] /\ s \in Writers
  <2>1. CloseWriter(s)
        BY <1>2 DEF FCGX_FClose
  <2>2. nWriters = 1 => ~answered
        BY DEF Ends, Answering
  <2> QED BY <2>1, <2>2 DEF CloseWriter
<1> QED BY <1>1, <1>2

\* The parts of IInv one by one.  The types.
LEMMA TypeNext == TypeOK /\ [Next]_vars => TypeOK'
<1> SUFFICES ASSUME TypeOK, [Next]_vars PROVE TypeOK'
    OBVIOUS
<1> USE DEF files, mode, request, streams, server, history, TypeOK, None, process
<1>1. CASE FCGX_IsCGI
      BY <1>1, StdFacts DEF FCGX_IsCGI
<1>2. CASE FCGX_OpenSocket
      BY <1>2, StdFacts DEF FCGX_OpenSocket
<1>3. CASE FCGX_Init_Fail
      BY <1>3, StdFacts DEF FCGX_Init_Fail
<1>4. CASE FCGI_Accept_CGI
      BY <1>4, StdFacts DEF FCGI_Accept_CGI
<1>5. CASE FCGI_Accept
      BY <1>5, StdFacts DEF FCGI_Accept
<1>6. CASE FCGI_Finish
      BY <1>6, StdFacts DEF FCGI_Finish
<1>7. CASE Exit
      BY <1>7, StdFacts DEF Exit
<1>8. CASE Finish_Close("stderr", "closeErr", "closeOut")
      BY <1>8, FCloseTypes, StdFacts DEF Finish_Close
<1>9. CASE Finish_Close("stdout", "closeOut", "free")
      BY <1>9, FCloseTypes, StdFacts DEF Finish_Close
<1>10. CASE Finish_Free
  <2>1. ignored' \in BOOLEAN /\ ipcOpen' \in BOOLEAN
        BY <1>10 DEF Finish_Free, FreeStreams
  <2>2. /\ nWriters' \in Int /\ lastSet' \in Nat \cup {None} /\ inherited' \in Nat
        /\ isClosed' \in [Std -> BOOLEAN] /\ wasFCloseCalled' \in [Std -> BOOLEAN]
        /\ error' \in [Std -> BOOLEAN] /\ buffered' \in [Writers -> BOOLEAN]
        BY <1>10 DEF Finish_Free, FreeStreams
  <2> QED BY <1>10, <2>1, <2>2 DEF Finish_Free
<1>11. CASE Finish_Done
      BY <1>11, StdFacts DEF Finish_Done
<1>12. CASE Accept_Connect
      BY <1>12, StdFacts, ZenonT(30) DEF Accept_Connect
<1>13. CASE Accept_TryAgain
  <2>1. keepConnection' \in BOOLEAN /\ ipcOpen' \in BOOLEAN
        BY <1>13 DEF Accept_TryAgain
  <2> QED BY <1>13, <2>1 DEF Accept_TryAgain
<1>14. CASE Accept_Fail
      BY <1>14, StdFacts DEF Accept_Fail
<1>15. CASE Accept_Request
  <2>1. orphans' \subseteq FILEs \cup Std
        BY <1>15 DEF Accept_Request
  <2>2. stdio_stream' \in [Handles -> FILEs \cup Std \cup {NULL}]
        BY <1>15 DEF Accept_Request
  <2>3. /\ fcgx_stream' \in [Std -> Nat] /\ served' \in Nat /\ req' \in Nat /\ environ' \in Nat
        /\ spoiled' \subseteq Handles /\ keepConnection' \in BOOLEAN
        BY <1>15 DEF Accept_Request
  <2>4. /\ nWriters' \in Int
        /\ isClosed' \in [Std -> BOOLEAN] /\ wasFCloseCalled' \in [Std -> BOOLEAN]
        /\ error' \in [Std -> BOOLEAN] /\ buffered' \in [Writers -> BOOLEAN]
        BY <1>15 DEF Accept_Request
  <2> QED BY <1>15, <2>1, <2>2, <2>3, <2>4 DEF Accept_Request
<1>16. ASSUME NEW s \in Writers, FCGI_fputs(s) PROVE TypeOK'
  <2>1. error' \in [Std -> BOOLEAN] /\ isClosed' \in [Std -> BOOLEAN] /\ lost' \in BOOLEAN
        /\ buffered' \in [Writers -> BOOLEAN]
        BY <1>16, StreamFailsTypes, StdFacts DEF FCGI_fputs
  <2> QED BY <1>16, <2>1 DEF FCGI_fputs
<1>17. ASSUME NEW s \in Writers, FCGI_fflush(s) PROVE TypeOK'
  <2>1. error' \in [Std -> BOOLEAN] /\ isClosed' \in [Std -> BOOLEAN] /\ lost' \in BOOLEAN
        /\ buffered' \in [Writers -> BOOLEAN]
        BY <1>17, StreamFailsTypes, StdFacts DEF FCGI_fflush
  <2> QED BY <1>17, <2>1 DEF FCGI_fflush
<1>18. CASE FCGI_fgetc
  <2>1. error' \in [Std -> BOOLEAN] /\ isClosed' \in [Std -> BOOLEAN] /\ lost' \in BOOLEAN
        /\ buffered' \in [Writers -> BOOLEAN]
        BY <1>18, StreamFailsTypes, StdFacts DEF FCGI_fgetc
  <2> QED BY <1>18, <2>1 DEF FCGI_fgetc
<1>19. CASE FCGI_StartFilterData
  <2>1. error' \in [Std -> BOOLEAN] /\ isClosed' \in [Std -> BOOLEAN] /\ lost' \in BOOLEAN
        /\ buffered' \in [Writers -> BOOLEAN]
        BY <1>19, StreamFailsTypes, StdFacts DEF FCGI_StartFilterData
  <2> QED BY <1>19, <2>1 DEF FCGI_StartFilterData
<1>20. ASSUME NEW s \in Std, FCGI_clearerr(s) PROVE TypeOK'
      BY <1>20, StdFacts DEF FCGI_clearerr
<1>21. ASSUME NEW status \in Statuses, FCGI_SetExitStatus(status) PROVE TypeOK'
  <2>1. appStatus' \in Nat /\ lastSet' \in Nat \cup {None}
        BY <1>21, StdFacts DEF FCGI_SetExitStatus, Called
  <2>2. ignored' \in BOOLEAN
        BY <1>21 DEF FCGI_SetExitStatus, Called
  <2> QED BY <1>21, <2>1, <2>2 DEF FCGI_SetExitStatus
<1>22. ASSUME NEW fp \in FILEs, FCGI_fopen(fp) PROVE TypeOK'
      BY <1>22, StdFacts DEF FCGI_fopen
<1>23. ASSUME NEW h \in Heap, FCGI_OpenFromFILE(h) PROVE TypeOK'
      BY <1>23, StdFacts DEF FCGI_OpenFromFILE
<1>24. CASE OpenFromFILE_Fail
      BY <1>24, StdFacts DEF OpenFromFILE_Fail
<1>25. ASSUME NEW h \in Handles, FCGI_fclose_FILE(h) PROVE TypeOK'
      BY <1>25, StdFacts DEF FCGI_fclose_FILE, Freed
<1>26. ASSUME NEW h \in Heap \cup Reopened, FCGI_freopen_FILE(h) PROVE TypeOK'
      BY <1>26, StdFacts DEF FCGI_freopen_FILE
<1>27. ASSUME NEW s \in Std, FCGI_fclose_stream(s) PROVE TypeOK'
      BY <1>27, FCloseTypes, StdFacts DEF FCGI_fclose_stream
<1>28. ASSUME NEW s \in Reopened, FCGI_freopen_Fail(s) PROVE TypeOK'
      BY <1>28, FCloseTypes, StdFacts DEF FCGI_freopen_Fail
<1>29. ASSUME NEW s \in Reopened, NEW fp \in FILEs, FCGI_freopen_stream(s, fp) PROVE TypeOK'
      BY <1>29, FCloseTypes, StdFacts DEF FCGI_freopen_stream
<1>30. CASE UNCHANGED vars
      BY <1>30, StdFacts DEF vars
<1>31. ASSUME NEW s \in Writers, FCGI_fwrite_Assert(s, 1) PROVE TypeOK'
  <2>1. error' \in [Std -> BOOLEAN] /\ isClosed' \in [Std -> BOOLEAN] /\ lost' \in BOOLEAN
        BY <1>31, StreamFailsTypes, StdFacts DEF FCGI_fwrite_Assert
  <2> QED BY <1>31, <2>1 DEF FCGI_fwrite_Assert
<1>32. CASE StartFilterData_NULL
      BY <1>32, StdFacts DEF StartFilterData_NULL
<1> QED BY <1>1, <1>2, <1>3, <1>4, <1>5, <1>6, <1>7, <1>8, <1>9, <1>10, <1>11, <1>12, <1>13, <1>14,
           <1>15, <1>16, <1>17, <1>18, <1>19, <1>20, <1>21, <1>22, <1>23, <1>24, <1>25, <1>26,
           <1>27, <1>28, <1>29, <1>30, <1>31, <1>32, StdFacts
        DEF Next, Mode, FCGX_Finish_r, FCGX_Accept_r, Standard, Files, FCGI_fwrite,
            FCGI_perror, FCGI_fread, FCGI_pclose

\* Control: streams are made and freed by FCGX_Accept_r and FCGX_Finish_r only.
LEMMA ControlNext == IInv /\ [Next]_vars => Control'
<1> SUFFICES ASSUME IInv, [Next]_vars PROVE Control'
    OBVIOUS
<1> USE DEF files, mode, request, streams, server, history, IInv, Control
<1>1. CASE FCGX_IsCGI
      BY <1>1 DEF FCGX_IsCGI
<1>2. CASE FCGX_OpenSocket
      BY <1>2 DEF FCGX_OpenSocket
<1>3. CASE FCGX_Init_Fail
      BY <1>3 DEF FCGX_Init_Fail
<1>4. CASE FCGI_Accept_CGI
      BY <1>4 DEF FCGI_Accept_CGI
<1>5. CASE FCGI_Accept
      BY <1>5 DEF FCGI_Accept
<1>6. CASE FCGI_Finish
      BY <1>6 DEF FCGI_Finish
<1>7. CASE Exit
      BY <1>7 DEF Exit
<1>8. CASE Finish_Close("stderr", "closeErr", "closeOut")
      BY <1>8 DEF Finish_Close
<1>9. CASE Finish_Close("stdout", "closeOut", "free")
      BY <1>9 DEF Finish_Close
<1>10. CASE Finish_Free
  <2>1. ret \in {"accept", "finished", "exited"}
        BY <1>10 DEF Finish_Free, TypeOK
  <2> QED BY <1>10, <2>1 DEF Finish_Free
<1>11. CASE Finish_Done
      BY <1>11 DEF Finish_Done
<1>12. CASE Accept_Connect
      BY <1>12 DEF Accept_Connect
<1>13. CASE Accept_TryAgain
      BY <1>13 DEF Accept_TryAgain
<1>14. CASE Accept_Fail
      BY <1>14 DEF Accept_Fail
<1>15. CASE Accept_Request
      BY <1>15 DEF Accept_Request
<1>16. ASSUME NEW s \in Writers, FCGI_fputs(s) PROVE Control'
      BY <1>16 DEF FCGI_fputs
<1>17. ASSUME NEW s \in Writers, FCGI_fflush(s) PROVE Control'
      BY <1>17 DEF FCGI_fflush
<1>18. CASE FCGI_fgetc
      BY <1>18 DEF FCGI_fgetc
<1>19. CASE FCGI_StartFilterData
      BY <1>19 DEF FCGI_StartFilterData
<1>20. ASSUME NEW s \in Std, FCGI_clearerr(s) PROVE Control'
      BY <1>20 DEF FCGI_clearerr
<1>21. ASSUME NEW status \in Statuses, FCGI_SetExitStatus(status) PROVE Control'
      BY <1>21 DEF FCGI_SetExitStatus
<1>22. ASSUME NEW fp \in FILEs, FCGI_fopen(fp) PROVE Control'
      BY <1>22 DEF FCGI_fopen
<1>23. ASSUME NEW h \in Heap, FCGI_OpenFromFILE(h) PROVE Control'
      BY <1>23 DEF FCGI_OpenFromFILE
<1>24. CASE OpenFromFILE_Fail
      BY <1>24 DEF OpenFromFILE_Fail
<1>25. ASSUME NEW h \in Handles, FCGI_fclose_FILE(h) PROVE Control'
      BY <1>25 DEF FCGI_fclose_FILE
<1>26. ASSUME NEW h \in Heap \cup Reopened, FCGI_freopen_FILE(h) PROVE Control'
      BY <1>26 DEF FCGI_freopen_FILE
<1>27. ASSUME NEW s \in Std, FCGI_fclose_stream(s) PROVE Control'
      BY <1>27 DEF FCGI_fclose_stream
<1>28. ASSUME NEW s \in Reopened, FCGI_freopen_Fail(s) PROVE Control'
      BY <1>28 DEF FCGI_freopen_Fail
<1>29. ASSUME NEW s \in Reopened, NEW fp \in FILEs, FCGI_freopen_stream(s, fp) PROVE Control'
      BY <1>29 DEF FCGI_freopen_stream
<1>30. CASE UNCHANGED vars
      BY <1>30 DEF vars
<1>31. ASSUME NEW s \in Writers, FCGI_fwrite_Assert(s, 1) PROVE Control'
      BY <1>31 DEF FCGI_fwrite_Assert, OnStream, Usable
<1>32. CASE StartFilterData_NULL
      BY <1>32 DEF StartFilterData_NULL, Usable
<1> QED BY <1>1, <1>2, <1>3, <1>4, <1>5, <1>6, <1>7, <1>8, <1>9, <1>10, <1>11, <1>12, <1>13, <1>14,
           <1>15, <1>16, <1>17, <1>18, <1>19, <1>20, <1>21, <1>22, <1>23, <1>24, <1>25, <1>26,
           <1>27, <1>28, <1>29, <1>30, <1>31, <1>32, StdFacts
        DEF Next, Mode, FCGX_Finish_r, FCGX_Accept_r, Standard, Files, FCGI_fwrite,
            FCGI_perror, FCGI_fread, FCGI_pclose

\* Pointers: a file points at a stream only as long as the request lasts.
LEMMA PointersNext == IInv /\ [Next]_vars => Pointers'
<1> SUFFICES ASSUME IInv, [Next]_vars PROVE Pointers'
    OBVIOUS
<1> USE DEF files, mode, request, streams, server, history, IInv, Control, Pointers
<1>1. CASE FCGX_IsCGI
      BY <1>1, StdFacts DEF FCGX_IsCGI
<1>2. CASE FCGX_OpenSocket
      BY <1>2, StdFacts DEF FCGX_OpenSocket
<1>3. CASE FCGX_Init_Fail
      BY <1>3, StdFacts DEF FCGX_Init_Fail
<1>4. CASE FCGI_Accept_CGI
      BY <1>4, StdFacts DEF FCGI_Accept_CGI, TypeOK
<1>5. CASE FCGI_Accept
      BY <1>5, StdFacts DEF FCGI_Accept
<1>6. CASE FCGI_Finish
      BY <1>6, StdFacts DEF FCGI_Finish
<1>7. CASE Exit
      BY <1>7, StdFacts DEF Exit
<1>8. CASE Finish_Close("stderr", "closeErr", "closeOut")
      BY <1>8 DEF Finish_Close
<1>9. CASE Finish_Close("stdout", "closeOut", "free")
      BY <1>9 DEF Finish_Close
<1>10. CASE Finish_Free
      BY <1>10, FreeReturns DEF Finish_Free, FreeStreams
<1>11. CASE Finish_Done
      BY <1>11, StdFacts DEF Finish_Done, TypeOK
<1>12. CASE Accept_Connect
      BY <1>12, StdFacts DEF Accept_Connect
<1>13. CASE Accept_TryAgain
      BY <1>13, StdFacts DEF Accept_TryAgain
<1>14. CASE Accept_Fail
      BY <1>14, StdFacts DEF Accept_Fail
<1>15. CASE Accept_Request
      BY <1>15, StdFacts DEF Accept_Request
<1>16. ASSUME NEW s \in Writers, FCGI_fputs(s) PROVE Pointers'
      BY <1>16, StdFacts DEF FCGI_fputs, OnStream, Usable
<1>17. ASSUME NEW s \in Writers, FCGI_fflush(s) PROVE Pointers'
      BY <1>17, StdFacts DEF FCGI_fflush, OnStream, Usable
<1>18. CASE FCGI_fgetc
      BY <1>18, StdFacts DEF FCGI_fgetc, OnStream, Usable
<1>19. CASE FCGI_StartFilterData
      BY <1>19, StdFacts DEF FCGI_StartFilterData, OnStream, Usable
<1>20. ASSUME NEW s \in Std, FCGI_clearerr(s) PROVE Pointers'
      BY <1>20, StdFacts DEF FCGI_clearerr, OnStream, Usable
<1>21. ASSUME NEW status \in Statuses, FCGI_SetExitStatus(status) PROVE Pointers'
      BY <1>21, StdFacts DEF FCGI_SetExitStatus
<1>22. ASSUME NEW fp \in FILEs, FCGI_fopen(fp) PROVE Pointers'
      BY <1>22, StdFacts DEF FCGI_fopen
<1>23. ASSUME NEW h \in Heap, FCGI_OpenFromFILE(h) PROVE Pointers'
      BY <1>23, StdFacts DEF FCGI_OpenFromFILE, TypeOK
<1>24. CASE OpenFromFILE_Fail
      BY <1>24, StdFacts DEF OpenFromFILE_Fail
<1>25. ASSUME NEW h \in Handles, FCGI_fclose_FILE(h) PROVE Pointers'
      BY <1>25, StdFacts DEF FCGI_fclose_FILE, Usable, Freed, TypeOK
<1>26. ASSUME NEW h \in Heap \cup Reopened, FCGI_freopen_FILE(h) PROVE Pointers'
      BY <1>26, StdFacts DEF FCGI_freopen_FILE, Usable
<1>27. ASSUME NEW s \in Std, FCGI_fclose_stream(s) PROVE Pointers'
      BY <1>27, FCloseTypes, StdFacts DEF FCGI_fclose_stream, OnStream, Usable, TypeOK
<1>28. ASSUME NEW s \in Reopened, FCGI_freopen_Fail(s) PROVE Pointers'
      BY <1>28, FCloseTypes, StdFacts DEF FCGI_freopen_Fail, OnStream, Usable, TypeOK
<1>29. ASSUME NEW s \in Reopened, NEW fp \in FILEs, FCGI_freopen_stream(s, fp) PROVE Pointers'
      BY <1>29, FCloseTypes, StdFacts DEF FCGI_freopen_stream, OnStream, Usable, TypeOK
<1>30. CASE UNCHANGED vars
      BY <1>30, StdFacts DEF vars
<1>31. ASSUME NEW s \in Writers, FCGI_fwrite_Assert(s, 1) PROVE Pointers'
      BY <1>31, StdFacts DEF FCGI_fwrite_Assert
<1>32. CASE StartFilterData_NULL
      BY <1>32, StdFacts DEF StartFilterData_NULL
<1> QED BY <1>1, <1>2, <1>3, <1>4, <1>5, <1>6, <1>7, <1>8, <1>9, <1>10, <1>11, <1>12, <1>13, <1>14,
           <1>15, <1>16, <1>17, <1>18, <1>19, <1>20, <1>21, <1>22, <1>23, <1>24, <1>25, <1>26,
           <1>27, <1>28, <1>29, <1>30, <1>31, <1>32, StdFacts
        DEF Next, Mode, FCGX_Finish_r, FCGX_Accept_r, Standard, Files, FCGI_fwrite,
            FCGI_perror, FCGI_fread, FCGI_pclose

\* Status: the status is what was set last.
LEMMA StatusNext == IInv /\ [Next]_vars => Status'
<1> SUFFICES ASSUME IInv, [Next]_vars PROVE Status'
    OBVIOUS
<1> USE DEF files, mode, request, streams, server, history, IInv, Status
<1>1. CASE FCGX_IsCGI
      BY <1>1 DEF FCGX_IsCGI
<1>2. CASE FCGX_OpenSocket
      BY <1>2 DEF FCGX_OpenSocket
<1>3. CASE FCGX_Init_Fail
      BY <1>3 DEF FCGX_Init_Fail
<1>4. CASE FCGI_Accept_CGI
      BY <1>4 DEF FCGI_Accept_CGI
<1>5. CASE FCGI_Accept
      BY <1>5 DEF FCGI_Accept
<1>6. CASE FCGI_Finish
      BY <1>6 DEF FCGI_Finish
<1>7. CASE Exit
      BY <1>7 DEF Exit
<1>8. CASE Finish_Close("stderr", "closeErr", "closeOut")
      BY <1>8, FCloseStatus, StdFacts DEF Finish_Close
<1>9. CASE Finish_Close("stdout", "closeOut", "free")
      BY <1>9, FCloseStatus, StdFacts DEF Finish_Close
<1>10. CASE Finish_Free
      BY <1>10 DEF Finish_Free, FreeStreams
<1>11. CASE Finish_Done
      BY <1>11 DEF Finish_Done
<1>12. CASE Accept_Connect
      BY <1>12 DEF Accept_Connect, Control
<1>13. CASE Accept_TryAgain
      BY <1>13 DEF Accept_TryAgain
<1>14. CASE Accept_Fail
      BY <1>14 DEF Accept_Fail
<1>15. CASE Accept_Request
      BY <1>15 DEF Accept_Request
<1>16. ASSUME NEW s \in Writers, FCGI_fputs(s) PROVE Status'
      BY <1>16 DEF FCGI_fputs, StreamFails
<1>17. ASSUME NEW s \in Writers, FCGI_fflush(s) PROVE Status'
      BY <1>17 DEF FCGI_fflush, StreamFails
<1>18. CASE FCGI_fgetc
      BY <1>18 DEF FCGI_fgetc, StreamFails
<1>19. CASE FCGI_StartFilterData
      BY <1>19 DEF FCGI_StartFilterData, StreamFails
<1>20. ASSUME NEW s \in Std, FCGI_clearerr(s) PROVE Status'
      BY <1>20 DEF FCGI_clearerr
<1>21. ASSUME NEW status \in Statuses, FCGI_SetExitStatus(status) PROVE Status'
  <2> SUFFICES ASSUME req' # 0, ~ignored'
               PROVE  (IF answered' THEN sentStatus' ELSE appStatus')
                          = (IF lastSet' = None THEN inherited' ELSE lastSet')
      OBVIOUS
  <2>1. req # 0
        BY <1>21 DEF FCGI_SetExitStatus
  <2>2. fcgx_stream["stdin"] # 0 /\ nWriters # 0
        BY <1>21, <2>1, Zenon DEF FCGI_SetExitStatus, Called
  <2>3. ~answered /\ ~answered'
        BY <1>21, <2>1, <2>2 DEF FCGI_SetExitStatus, Ends, Answering
  <2>4. appStatus' = status /\ lastSet' = status
        BY <1>21, <2>1, <2>2 DEF FCGI_SetExitStatus, Called
  <2>5. status # None
        BY StdFacts DEF None
  <2> QED BY <2>3, <2>4, <2>5
<1>22. ASSUME NEW fp \in FILEs, FCGI_fopen(fp) PROVE Status'
      BY <1>22 DEF FCGI_fopen
<1>23. ASSUME NEW h \in Heap, FCGI_OpenFromFILE(h) PROVE Status'
      BY <1>23 DEF FCGI_OpenFromFILE
<1>24. CASE OpenFromFILE_Fail
      BY <1>24 DEF OpenFromFILE_Fail
<1>25. ASSUME NEW h \in Handles, FCGI_fclose_FILE(h) PROVE Status'
      BY <1>25 DEF FCGI_fclose_FILE
<1>26. ASSUME NEW h \in Heap \cup Reopened, FCGI_freopen_FILE(h) PROVE Status'
      BY <1>26 DEF FCGI_freopen_FILE
<1>27. ASSUME NEW s \in Std, FCGI_fclose_stream(s) PROVE Status'
      BY <1>27, FCloseStatus, StdFacts DEF FCGI_fclose_stream
<1>28. ASSUME NEW s \in Reopened, FCGI_freopen_Fail(s) PROVE Status'
      BY <1>28, FCloseStatus, StdFacts DEF FCGI_freopen_Fail
<1>29. ASSUME NEW s \in Reopened, NEW fp \in FILEs, FCGI_freopen_stream(s, fp) PROVE Status'
      BY <1>29, FCloseStatus, StdFacts DEF FCGI_freopen_stream
<1>30. CASE UNCHANGED vars
      BY <1>30 DEF vars
<1>31. ASSUME NEW s \in Writers, FCGI_fwrite_Assert(s, 1) PROVE Status'
      BY <1>31 DEF FCGI_fwrite_Assert
<1>32. CASE StartFilterData_NULL
      BY <1>32 DEF StartFilterData_NULL
<1> QED BY <1>1, <1>2, <1>3, <1>4, <1>5, <1>6, <1>7, <1>8, <1>9, <1>10, <1>11, <1>12, <1>13, <1>14,
           <1>15, <1>16, <1>17, <1>18, <1>19, <1>20, <1>21, <1>22, <1>23, <1>24, <1>25, <1>26,
           <1>27, <1>28, <1>29, <1>30, <1>31, <1>32, StdFacts
        DEF Next, Mode, FCGX_Finish_r, FCGX_Accept_r, Standard, Files, FCGI_fwrite,
            FCGI_perror, FCGI_fread, FCGI_pclose

\* Ends: the streams of the request, from FCGX_Accept_r to FCGX_Finish_r.
LEMMA EndsNext == IInv /\ [Next]_vars => Ends'
<1> SUFFICES ASSUME IInv, [Next]_vars PROVE Ends'
    OBVIOUS
<1> USE DEF files, mode, request, streams, server, history, IInv, Ends
<1>1. CASE FCGX_IsCGI
      BY <1>1 DEF FCGX_IsCGI, Fresh, Counted, Closing, Answering, Flushed, Seen, Unclosed
<1>2. CASE FCGX_OpenSocket
      BY <1>2 DEF FCGX_OpenSocket, Fresh, Counted, Closing, Answering, Flushed, Seen, Unclosed
<1>3. CASE FCGX_Init_Fail
      BY <1>3 DEF FCGX_Init_Fail, Fresh, Counted, Closing, Answering, Flushed, Seen, Unclosed
<1>4. CASE FCGI_Accept_CGI
      BY <1>4 DEF FCGI_Accept_CGI, Fresh, Counted, Closing, Answering, Flushed, Seen, Unclosed
<1>5. CASE FCGI_Accept
      BY <1>5 DEF FCGI_Accept, Fresh, Counted, Closing, Answering, Flushed, Seen, Unclosed
<1>6. CASE FCGI_Finish
      BY <1>6 DEF FCGI_Finish, Fresh, Counted, Closing, Answering, Flushed, Seen, Unclosed
<1>7. CASE Exit
      BY <1>7 DEF Exit, Fresh, Counted, Closing, Answering, Flushed, Seen, Unclosed
<1>8. CASE Finish_Close("stderr", "closeErr", "closeOut")
  <2>1. CASE req = 0
        BY <1>8, <2>1 DEF Finish_Close, Fresh, Counted, Closing, Answering, Flushed, Seen
  <2>2. CASE req # 0
    <3>1. Fresh' /\ Counted' /\ Answering' /\ Flushed' /\ Seen'
          BY <1>8, <2>2, FCloseEnds, StdFacts DEF Finish_Close
    <3> QED BY <1>8, <2>2, <3>1, FCloseTypes, StdFacts DEF Finish_Close, Closing, TypeOK
  <2> QED BY <2>1, <2>2
<1>9. CASE Finish_Close("stdout", "closeOut", "free")
  <2>1. CASE req = 0
        BY <1>9, <2>1 DEF Finish_Close, Fresh, Counted, Closing, Answering, Flushed, Seen
  <2>2. CASE req # 0
    <3>1. Fresh' /\ Counted' /\ Answering' /\ Flushed' /\ Seen'
          BY <1>9, <2>2, FCloseEnds, StdFacts DEF Finish_Close
    <3> QED BY <1>9, <2>2, <3>1, FCloseTypes, StdFacts DEF Finish_Close, Closing, TypeOK
  <2> QED BY <2>1, <2>2
<1>10. CASE Finish_Free
  <2>1. Fresh' /\ Counted' /\ Flushed'
        BY <1>10 DEF Finish_Free, FreeStreams, Fresh, Counted, Flushed
  <2>2. Closing'
        BY <1>10, FreeReturns DEF Closing
  <2>3. Answering'
        BY <1>10 DEF Finish_Free, Answering, Closing, Counted, Unclosed
  <2>4. Seen'
        BY <1>10 DEF Finish_Free, Fresh, Seen
  <2> QED BY <2>1, <2>2, <2>3, <2>4
<1>11. CASE Finish_Done
      BY <1>11 DEF Finish_Done, Fresh, Counted, Closing, Answering, Flushed, Seen, Unclosed
<1>12. CASE Accept_Connect
      BY <1>12 DEF Accept_Connect, Control, Fresh, Counted, Closing, Answering, Flushed, Seen
<1>13. CASE Accept_TryAgain
      BY <1>13 DEF Accept_TryAgain, Fresh, Counted, Closing, Answering, Flushed, Seen, Unclosed
<1>14. CASE Accept_Fail
      BY <1>14 DEF Accept_Fail, Fresh, Counted, Closing, Answering, Flushed, Seen, Unclosed
<1>15. CASE Accept_Request
      BY <1>15, StdFacts DEF Accept_Request, Control, TypeOK, Unclosed, Fresh, Counted, Closing,
                             Answering, Flushed, Seen
<1>16. ASSUME NEW s \in Writers, FCGI_fputs(s) PROVE Ends'
  <2>1. req # 0 /\ pc = "run"
        BY <1>16, OnStreamRequest, StdFacts DEF FCGI_fputs
  <2>2. Fresh' /\ Counted' /\ Closing'
        BY <1>16, <2>1 DEF FCGI_fputs, Fresh, Counted, Closing, Unclosed
  <2>3. Answering'
    <3>1. lost => lost'
          BY <1>16, Zenon DEF FCGI_fputs, StreamFails
    <3> QED BY <1>16, <2>1, <3>1 DEF FCGI_fputs, Answering
  <2>4. Flushed'
        BY <1>16, StdFacts DEF FCGI_fputs, StreamFails, Flushed, TypeOK
  <2>5. Seen'
        BY <1>16, StdFacts DEF FCGI_fputs, StreamFails, Seen, TypeOK
  <2> QED BY <2>2, <2>3, <2>4, <2>5
<1>17. ASSUME NEW s \in Writers, FCGI_fflush(s) PROVE Ends'
  <2>1. req # 0 /\ pc = "run"
        BY <1>17, OnStreamRequest, StdFacts DEF FCGI_fflush
  <2>2. Fresh' /\ Counted' /\ Closing'
        BY <1>17, <2>1 DEF FCGI_fflush, Fresh, Counted, Closing, Unclosed
  <2>3. Answering'
    <3>1. lost => lost'
          BY <1>17, Zenon DEF FCGI_fflush, StreamFails
    <3> QED BY <1>17, <2>1, <3>1 DEF FCGI_fflush, Answering
  <2>4. Flushed'
        BY <1>17, StdFacts DEF FCGI_fflush, StreamFails, Flushed, TypeOK
  <2>5. Seen'
        BY <1>17, StdFacts DEF FCGI_fflush, StreamFails, Seen, TypeOK
  <2> QED BY <2>2, <2>3, <2>4, <2>5
<1>18. CASE FCGI_fgetc
  <2>1. req # 0 /\ pc = "run"
        BY <1>18, OnStreamRequest, StdFacts DEF FCGI_fgetc
  <2>2. Fresh' /\ Counted' /\ Closing'
        BY <1>18, <2>1 DEF FCGI_fgetc, Fresh, Counted, Closing, Unclosed
  <2>3. Answering'
    <3>1. lost => lost'
          BY <1>18, Zenon DEF FCGI_fgetc, StreamFails
    <3> QED BY <1>18, <2>1, <3>1 DEF FCGI_fgetc, Answering
  <2>4. Flushed'
        BY <1>18, StdFacts DEF FCGI_fgetc, StreamFails, Flushed, TypeOK
  <2>5. Seen'
        BY <1>18, StdFacts, ZenonT(30) DEF FCGI_fgetc, StreamFails, Seen, TypeOK
  <2> QED BY <2>2, <2>3, <2>4, <2>5
<1>19. CASE FCGI_StartFilterData
  <2>1. req # 0 /\ pc = "run"
        BY <1>19, OnStreamRequest, StdFacts DEF FCGI_StartFilterData
  <2>2. Fresh' /\ Counted' /\ Closing'
        BY <1>19, <2>1 DEF FCGI_StartFilterData, Fresh, Counted, Closing, Unclosed
  <2>3. Answering'
    <3>1. lost => lost'
          BY <1>19, Zenon DEF FCGI_StartFilterData, StreamFails
    <3> QED BY <1>19, <2>1, <3>1 DEF FCGI_StartFilterData, Answering
  <2>4. Flushed'
        BY <1>19, StdFacts DEF FCGI_StartFilterData, StreamFails, Flushed, TypeOK
  <2>5. Seen'
        BY <1>19, StdFacts DEF FCGI_StartFilterData, StreamFails, Seen, TypeOK
  <2> QED BY <2>2, <2>3, <2>4, <2>5
<1>20. ASSUME NEW s \in Std, FCGI_clearerr(s) PROVE Ends'
  <2>1. req # 0 /\ pc = "run"
        BY <1>20, OnStreamRequest, StdFacts DEF FCGI_clearerr
  <2>2. Fresh' /\ Counted' /\ Closing'
        BY <1>20, <2>1 DEF FCGI_clearerr, Fresh, Counted, Closing, Unclosed
  <2>3. Answering'
    <3>1. lost => lost'
          BY <1>20, Zenon DEF FCGI_clearerr, StreamFails
    <3> QED BY <1>20, <2>1, <3>1 DEF FCGI_clearerr, Answering
  <2>4. Flushed'
        BY <1>20, StdFacts DEF FCGI_clearerr, StreamFails, Flushed, TypeOK
  <2>5. Seen'
        BY <1>20, StdFacts DEF FCGI_clearerr, StreamFails, Seen, TypeOK
  <2> QED BY <2>2, <2>3, <2>4, <2>5
<1>21. ASSUME NEW status \in Statuses, FCGI_SetExitStatus(status) PROVE Ends'
      BY <1>21 DEF FCGI_SetExitStatus, Fresh, Counted, Closing, Answering, Flushed, Seen, Unclosed
<1>22. ASSUME NEW fp \in FILEs, FCGI_fopen(fp) PROVE Ends'
      BY <1>22 DEF FCGI_fopen, Fresh, Counted, Closing, Answering, Flushed, Seen, Unclosed
<1>23. ASSUME NEW h \in Heap, FCGI_OpenFromFILE(h) PROVE Ends'
      BY <1>23 DEF FCGI_OpenFromFILE, Fresh, Counted, Closing, Answering, Flushed, Seen, Unclosed
<1>24. CASE OpenFromFILE_Fail
      BY <1>24 DEF OpenFromFILE_Fail, Fresh, Counted, Closing, Answering, Flushed, Seen, Unclosed
<1>25. ASSUME NEW h \in Handles, FCGI_fclose_FILE(h) PROVE Ends'
      BY <1>25 DEF FCGI_fclose_FILE, Fresh, Counted, Closing, Answering, Flushed, Seen, Unclosed
<1>26. ASSUME NEW h \in Heap \cup Reopened, FCGI_freopen_FILE(h) PROVE Ends'
      BY <1>26 DEF FCGI_freopen_FILE, Fresh, Counted, Closing, Answering, Flushed, Seen, Unclosed
<1>27. ASSUME NEW s \in Std, FCGI_fclose_stream(s) PROVE Ends'
  <2>1. req # 0 /\ pc = "run"
        BY <1>27, OnStreamRequest, StdFacts DEF FCGI_fclose_stream
  <2>2. Fresh' /\ Counted' /\ Answering' /\ Flushed' /\ Seen'
        BY <1>27, <2>1, FCloseEnds, StdFacts DEF FCGI_fclose_stream
  <2> QED BY <1>27, <2>1, <2>2 DEF FCGI_fclose_stream, Closing
<1>28. ASSUME NEW s \in Reopened, FCGI_freopen_Fail(s) PROVE Ends'
  <2>1. req # 0 /\ pc = "run"
        BY <1>28, OnStreamRequest, StdFacts DEF FCGI_freopen_Fail
  <2>2. Fresh' /\ Counted' /\ Answering' /\ Flushed' /\ Seen'
        BY <1>28, <2>1, FCloseEnds, StdFacts DEF FCGI_freopen_Fail
  <2> QED BY <1>28, <2>1, <2>2 DEF FCGI_freopen_Fail, Closing
<1>29. ASSUME NEW s \in Reopened, NEW fp \in FILEs, FCGI_freopen_stream(s, fp) PROVE Ends'
  <2>1. req # 0 /\ pc = "run"
        BY <1>29, OnStreamRequest, StdFacts DEF FCGI_freopen_stream
  <2>2. Fresh' /\ Counted' /\ Answering' /\ Flushed' /\ Seen'
        BY <1>29, <2>1, FCloseEnds, StdFacts DEF FCGI_freopen_stream
  <2> QED BY <1>29, <2>1, <2>2 DEF FCGI_freopen_stream, Closing
<1>30. CASE UNCHANGED vars
      BY <1>30 DEF vars, Fresh, Counted, Closing, Answering, Flushed, Seen, Unclosed
<1>31. ASSUME NEW s \in Writers, FCGI_fwrite_Assert(s, 1) PROVE Ends'
  <2>1. req # 0 /\ pc = "run"
        BY <1>31, OnStreamRequest, StdFacts DEF FCGI_fwrite_Assert
  <2>2. Fresh' /\ Counted' /\ Closing'
        BY <1>31, <2>1 DEF FCGI_fwrite_Assert, Fresh, Counted, Closing, Unclosed
  <2>3. Answering'
    <3>1. lost => lost'
          BY <1>31, Zenon DEF FCGI_fwrite_Assert, StreamFails
    <3> QED BY <1>31, <2>1, <3>1 DEF FCGI_fwrite_Assert, Answering
  <2>4. Flushed'
        BY <1>31, StdFacts DEF FCGI_fwrite_Assert, StreamFails, Flushed, TypeOK
  <2>5. Seen'
        BY <1>31, StdFacts DEF FCGI_fwrite_Assert, StreamFails, Seen, TypeOK
  <2> QED BY <2>2, <2>3, <2>4, <2>5
<1>32. CASE StartFilterData_NULL
      BY <1>32 DEF StartFilterData_NULL, Fresh, Counted, Closing, Answering, Flushed, Seen, Unclosed
<1> QED BY <1>1, <1>2, <1>3, <1>4, <1>5, <1>6, <1>7, <1>8, <1>9, <1>10, <1>11, <1>12, <1>13, <1>14,
           <1>15, <1>16, <1>17, <1>18, <1>19, <1>20, <1>21, <1>22, <1>23, <1>24, <1>25, <1>26,
           <1>27, <1>28, <1>29, <1>30, <1>31, <1>32, StdFacts
        DEF Next, Mode, FCGX_Finish_r, FCGX_Accept_r, Standard, Files, FCGI_fwrite,
            FCGI_perror, FCGI_fread, FCGI_pclose

\* Held: who holds which FILE.
LEMMA HeldNext == IInv /\ [Next]_vars => Held'
<1> SUFFICES ASSUME IInv, [Next]_vars PROVE Held'
    OBVIOUS
<1> USE DEF files, mode, request, streams, server, history, IInv, Held
<1>1. CASE FCGX_IsCGI
      BY <1>1 DEF FCGX_IsCGI, Live, InHand, HasHolder, OneHolder, HeldOpen, OwnFiles
<1>2. CASE FCGX_OpenSocket
      BY <1>2 DEF FCGX_OpenSocket, Live, InHand, HasHolder, OneHolder, HeldOpen, OwnFiles
<1>3. CASE FCGX_Init_Fail
      BY <1>3 DEF FCGX_Init_Fail, Live, InHand, HasHolder, OneHolder, HeldOpen, OwnFiles
<1>4. CASE FCGI_Accept_CGI
  <2>1. InHand'
        BY <1>4, StdFacts DEF FCGI_Accept_CGI, TypeOK, Live, InHand, HeldOpen
  <2>2. HasHolder'
        BY <1>4, StdFacts DEF FCGI_Accept_CGI, TypeOK, Live, HasHolder, InHand, OwnFiles
  <2>3. OneHolder'
        BY <1>4, StdFacts DEF FCGI_Accept_CGI, TypeOK, Live, OneHolder, HeldOpen, InHand, OwnFiles
  <2>4. HeldOpen'
        BY <1>4, StdFacts DEF FCGI_Accept_CGI, TypeOK, Live, HeldOpen, OneHolder, InHand, OwnFiles
  <2>5. OwnFiles'
        BY <1>4, StdFacts DEF FCGI_Accept_CGI, TypeOK, Live, OwnFiles
  <2> QED BY <2>1, <2>2, <2>3, <2>4, <2>5
<1>5. CASE FCGI_Accept
      BY <1>5 DEF FCGI_Accept, Live, InHand, HasHolder, OneHolder, HeldOpen, OwnFiles
<1>6. CASE FCGI_Finish
      BY <1>6 DEF FCGI_Finish, Live, InHand, HasHolder, OneHolder, HeldOpen, OwnFiles
<1>7. CASE Exit
      BY <1>7 DEF Exit, Live, InHand, HasHolder, OneHolder, HeldOpen, OwnFiles
<1>8. CASE Finish_Close("stderr", "closeErr", "closeOut")
      BY <1>8 DEF Finish_Close, Live, InHand, HasHolder, OneHolder, HeldOpen, OwnFiles
<1>9. CASE Finish_Close("stdout", "closeOut", "free")
      BY <1>9 DEF Finish_Close, Live, InHand, HasHolder, OneHolder, HeldOpen, OwnFiles
<1>10. CASE Finish_Free
      BY <1>10 DEF Finish_Free, Live, InHand, HasHolder, OneHolder, HeldOpen, OwnFiles
<1>11. CASE Finish_Done
      BY <1>11 DEF Finish_Done, Live, InHand, HasHolder, OneHolder, HeldOpen, OwnFiles
<1>12. CASE Accept_Connect
      BY <1>12 DEF Accept_Connect, Live, InHand, HasHolder, OneHolder, HeldOpen, OwnFiles
<1>13. CASE Accept_TryAgain
      BY <1>13 DEF Accept_TryAgain, Live, InHand, HasHolder, OneHolder, HeldOpen, OwnFiles
<1>14. CASE Accept_Fail
      BY <1>14 DEF Accept_Fail, Live, InHand, HasHolder, OneHolder, HeldOpen, OwnFiles
<1>15. CASE Accept_Request
  <2>1. InHand'
        BY <1>15, StdFacts DEF Accept_Request, Control, TypeOK, Live, InHand, HeldOpen
  <2>2. HasHolder'
        BY <1>15, StdFacts DEF Accept_Request, Control, TypeOK, Live, HasHolder, InHand, OwnFiles
  <2>3. OneHolder'
        BY <1>15, StdFacts DEF Accept_Request, Control, TypeOK, Live, OneHolder, HeldOpen, InHand,
                               OwnFiles
  <2>4. HeldOpen'
        BY <1>15, StdFacts DEF Accept_Request, Control, TypeOK, Live, HeldOpen, OneHolder, InHand,
                               OwnFiles
  <2>5. OwnFiles'
        BY <1>15, StdFacts DEF Accept_Request, Control, TypeOK, Live, OwnFiles
  <2> QED BY <2>1, <2>2, <2>3, <2>4, <2>5
<1>16. ASSUME NEW s \in Writers, FCGI_fputs(s) PROVE Held'
      BY <1>16 DEF FCGI_fputs, Live, InHand, HasHolder, OneHolder, HeldOpen, OwnFiles
<1>17. ASSUME NEW s \in Writers, FCGI_fflush(s) PROVE Held'
      BY <1>17 DEF FCGI_fflush, Live, InHand, HasHolder, OneHolder, HeldOpen, OwnFiles
<1>18. CASE FCGI_fgetc
      BY <1>18 DEF FCGI_fgetc, Live, InHand, HasHolder, OneHolder, HeldOpen, OwnFiles
<1>19. CASE FCGI_StartFilterData
      BY <1>19 DEF FCGI_StartFilterData, Live, InHand, HasHolder, OneHolder, HeldOpen, OwnFiles
<1>20. ASSUME NEW s \in Std, FCGI_clearerr(s) PROVE Held'
      BY <1>20 DEF FCGI_clearerr, Live, InHand, HasHolder, OneHolder, HeldOpen, OwnFiles
<1>21. ASSUME NEW status \in Statuses, FCGI_SetExitStatus(status) PROVE Held'
      BY <1>21 DEF FCGI_SetExitStatus, Live, InHand, HasHolder, OneHolder, HeldOpen, OwnFiles
<1>22. ASSUME NEW fp \in FILEs, FCGI_fopen(fp) PROVE Held'
  <2>1. InHand'
        BY <1>22, StdFacts DEF FCGI_fopen, TypeOK, Live, InHand, HeldOpen
  <2>2. HasHolder'
        BY <1>22, StdFacts DEF FCGI_fopen, TypeOK, Live, HasHolder, InHand, OwnFiles
  <2>3. OneHolder'
        BY <1>22, StdFacts DEF FCGI_fopen, TypeOK, Live, OneHolder, HeldOpen, InHand, OwnFiles
  <2>4. HeldOpen'
        BY <1>22, StdFacts DEF FCGI_fopen, TypeOK, Live, HeldOpen, OneHolder, InHand, OwnFiles
  <2>5. OwnFiles'
        BY <1>22, StdFacts DEF FCGI_fopen, TypeOK, Live, OwnFiles
  <2> QED BY <2>1, <2>2, <2>3, <2>4, <2>5
<1>23. ASSUME NEW h \in Heap, FCGI_OpenFromFILE(h) PROVE Held'
  <2>1. InHand'
        BY <1>23, StdFacts DEF FCGI_OpenFromFILE, TypeOK, Live, InHand, HeldOpen
  <2>2. HasHolder'
        BY <1>23, StdFacts DEF FCGI_OpenFromFILE, TypeOK, Live, HasHolder, InHand, OwnFiles
  <2>3. OneHolder'
        BY <1>23, StdFacts DEF FCGI_OpenFromFILE, TypeOK, Live, OneHolder, HeldOpen, InHand,
                               OwnFiles
  <2>4. HeldOpen'
        BY <1>23, StdFacts DEF FCGI_OpenFromFILE, TypeOK, Live, HeldOpen, OneHolder, InHand,
                               OwnFiles
  <2>5. OwnFiles'
        BY <1>23, StdFacts DEF FCGI_OpenFromFILE, TypeOK, Live, OwnFiles
  <2> QED BY <2>1, <2>2, <2>3, <2>4, <2>5
<1>24. CASE OpenFromFILE_Fail
  <2>1. InHand'
        BY <1>24, StdFacts DEF OpenFromFILE_Fail, TypeOK, Live, InHand, HeldOpen
  <2>2. HasHolder'
        BY <1>24, StdFacts DEF OpenFromFILE_Fail, TypeOK, Live, HasHolder, InHand, OwnFiles
  <2>3. OneHolder'
        BY <1>24, StdFacts DEF OpenFromFILE_Fail, TypeOK, Live, OneHolder, HeldOpen, InHand,
                               OwnFiles
  <2>4. HeldOpen'
        BY <1>24, StdFacts DEF OpenFromFILE_Fail, TypeOK, Live, HeldOpen, OneHolder, InHand,
                               OwnFiles
  <2>5. OwnFiles'
        BY <1>24, StdFacts DEF OpenFromFILE_Fail, TypeOK, Live, OwnFiles
  <2> QED BY <2>1, <2>2, <2>3, <2>4, <2>5
<1>25. ASSUME NEW h \in Handles, FCGI_fclose_FILE(h) PROVE Held'
  <2>1. h \in Live /\ file = NULL
        BY <1>25, StdFacts DEF FCGI_fclose_FILE, Usable, Live, InHand
  <2>2. InHand'
        BY <1>25, <2>1, StdFacts DEF FCGI_fclose_FILE, Freed, TypeOK, Live, InHand, HeldOpen
  <2>3. HasHolder'
        BY <1>25, <2>1, StdFacts DEF FCGI_fclose_FILE, Freed, TypeOK, Live, HasHolder, InHand,
                                     OwnFiles
  <2>4. OneHolder'
        BY <1>25, <2>1, StdFacts DEF FCGI_fclose_FILE, Freed, TypeOK, Live, OneHolder, HeldOpen,
                                     InHand, OwnFiles
  <2>5. HeldOpen'
        BY <1>25, <2>1, StdFacts DEF FCGI_fclose_FILE, Freed, TypeOK, Live, HeldOpen, OneHolder,
                                     InHand, OwnFiles
  <2>6. OwnFiles'
        BY <1>25, <2>1, StdFacts DEF FCGI_fclose_FILE, Freed, TypeOK, Live, OwnFiles
  <2> QED BY <2>2, <2>3, <2>4, <2>5, <2>6
<1>26. ASSUME NEW h \in Heap \cup Reopened, FCGI_freopen_FILE(h) PROVE Held'
  <2>1. h \in Live /\ file = NULL
        BY <1>26, StdFacts DEF FCGI_freopen_FILE, Usable, Live, InHand
  <2>2. InHand'
        BY <1>26, <2>1, StdFacts DEF FCGI_freopen_FILE, TypeOK, Live, InHand, HeldOpen
  <2>3. HasHolder'
        BY <1>26, <2>1, StdFacts DEF FCGI_freopen_FILE, TypeOK, Live, HasHolder, InHand, OwnFiles
  <2>4. OneHolder'
        BY <1>26, <2>1, StdFacts DEF FCGI_freopen_FILE, TypeOK, Live, OneHolder, HeldOpen, InHand,
                                     OwnFiles
  <2>5. HeldOpen'
        BY <1>26, <2>1, StdFacts DEF FCGI_freopen_FILE, TypeOK, Live, HeldOpen, OneHolder, InHand,
                                     OwnFiles
  <2>6. OwnFiles'
        BY <1>26, <2>1, StdFacts DEF FCGI_freopen_FILE, TypeOK, Live, OwnFiles
  <2> QED BY <2>2, <2>3, <2>4, <2>5, <2>6
<1>27. ASSUME NEW s \in Std, FCGI_fclose_stream(s) PROVE Held'
      BY <1>27 DEF FCGI_fclose_stream, Live, InHand, HasHolder, OneHolder, HeldOpen, OwnFiles
<1>28. ASSUME NEW s \in Reopened, FCGI_freopen_Fail(s) PROVE Held'
      BY <1>28 DEF FCGI_freopen_Fail, Live, InHand, HasHolder, OneHolder, HeldOpen, OwnFiles
<1>29. ASSUME NEW s \in Reopened, NEW fp \in FILEs, FCGI_freopen_stream(s, fp) PROVE Held'
  <2>1. req # 0 /\ pc = "run" /\ acceptCalled /\ s \in Live /\ file = NULL /\ stdio_stream[s] = NULL
        BY <1>29, OnStreamRequest, StdFacts DEF FCGI_freopen_stream, OnStream, Usable, Live,
                                                InHand
  <2>2. InHand'
        BY <1>29, <2>1, StdFacts DEF FCGI_freopen_stream, TypeOK, Live, InHand, HeldOpen
  <2>3. HasHolder'
        BY <1>29, <2>1, StdFacts DEF FCGI_freopen_stream, TypeOK, Live, HasHolder, InHand,
                                     OwnFiles
  <2>4. OneHolder'
        BY <1>29, <2>1, StdFacts DEF FCGI_freopen_stream, TypeOK, Live, OneHolder, HeldOpen,
                                     InHand, OwnFiles
  <2>5. HeldOpen'
        BY <1>29, <2>1, StdFacts DEF FCGI_freopen_stream, TypeOK, Live, HeldOpen, OneHolder,
                                     InHand, OwnFiles
  <2>6. OwnFiles'
        BY <1>29, <2>1, StdFacts DEF FCGI_freopen_stream, TypeOK, Live, OwnFiles
  <2> QED BY <2>2, <2>3, <2>4, <2>5, <2>6
<1>30. CASE UNCHANGED vars
      BY <1>30 DEF vars, Live, InHand, HasHolder, OneHolder, HeldOpen, OwnFiles
<1>31. ASSUME NEW s \in Writers, FCGI_fwrite_Assert(s, 1) PROVE Held'
      BY <1>31 DEF FCGI_fwrite_Assert, OnStream, Usable, Live, InHand, HasHolder, OneHolder,
                   HeldOpen, OwnFiles
<1>32. CASE StartFilterData_NULL
      BY <1>32 DEF StartFilterData_NULL, Usable, Live, InHand, HasHolder, OneHolder, HeldOpen,
                   OwnFiles
<1> QED BY <1>1, <1>2, <1>3, <1>4, <1>5, <1>6, <1>7, <1>8, <1>9, <1>10, <1>11, <1>12, <1>13, <1>14,
           <1>15, <1>16, <1>17, <1>18, <1>19, <1>20, <1>21, <1>22, <1>23, <1>24, <1>25, <1>26,
           <1>27, <1>28, <1>29, <1>30, <1>31, <1>32, StdFacts
        DEF Next, Mode, FCGX_Finish_r, FCGX_Accept_r, Standard, Files, FCGI_fwrite,
            FCGI_perror, FCGI_fread, FCGI_pclose

\* IInv is an invariant.
LEMMA StdioInvariant == Spec => []IInv
<1>1. IInv /\ [Next]_vars => IInv'
      BY TypeNext, ControlNext, PointersNext, EndsNext, StatusNext, HeldNext DEF IInv
<1> QED BY StdioInit, <1>1, PTL DEF Spec

\* The variables keep their types.
THEOREM StdioTypeOK == Spec => []TypeOK
BY StdioInvariant, PTL DEF IInv

\* No standard file points at a stream that FCGX_Finish_r has freed.
THEOREM StdioNoDangling == Spec => []NoDangling
<1>1. IInv => NoDangling
      BY DEF IInv, Pointers, NoDangling
<1> QED BY <1>1, StdioInvariant, PTL

\* Every FILE that FCGI_fopen and its like have opened can be closed, once.
THEOREM StdioFilesHeld == Spec => []FilesHeld
<1>1. IInv => FilesHeld
  <2> SUFFICES ASSUME IInv PROVE FilesHeld
      OBVIOUS
  <2> USE StdFacts DEF IInv, Held, Live
  <2>1. ASSUME NEW fp \in (open \cap FILEs) \ orphans, fp # file
        PROVE  \E h \in Holders(fp) : Holders(fp) = {h}
    <3>1. PICK h \in Live : stdio_stream[h] = fp
          BY <2>1 DEF HasHolder
    <3>2. \A k \in Live : stdio_stream[k] = fp => k = h
          BY <3>1 DEF OneHolder
    <3> QED BY <3>1, <3>2 DEF Holders
  <2> QED BY <2>1 DEF FilesHeld, HeldOpen
<1> QED BY <1>1, StdioInvariant, PTL

\* A request that is finished is answered, unless a write has failed.
THEOREM StdioRequestsAnswered == Spec => []RequestsAnswered
<1>1. IInv => RequestsAnswered
  <2> SUFFICES ASSUME IInv PROVE RequestsAnswered
      OBVIOUS
  <2> USE DEF IInv, Ends
  <2>1. (req = 0 \/ pc = "exited") /\ ~lost => answered
        BY DEF Control, Answering
  <2>2. req # 0 /\ answered => \A s \in Writers : wasFCloseCalled[s]
        BY StdFacts DEF TypeOK, Answering, Counted, Unclosed
  <2>3. answered /\ ~lost => \A s \in Writers : ~buffered[s]
        BY <2>2 DEF Fresh, Flushed
  <2> QED BY <2>1, <2>3 DEF RequestsAnswered
<1> QED BY <1>1, StdioInvariant, PTL

\* FCGI_END_REQUEST carries the status in the last call of FCGI_SetExitStatus, unless
\* that call came after stdin or both writers were closed; a request without a call
\* reports 0, unless an earlier one has left another status in appStatus.
THEOREM StdioStatusHonoured == Spec => []StatusHonoured
<1>1. IInv => StatusHonoured
      BY DEF IInv, Status, StatusHonoured, Promised
<1> QED BY <1>1, StdioInvariant, PTL

-------------------------------------------------------------------------------
(* FcgiStdio implements FcgiRequest.                                         *)

\* A step that leaves alone what the mapping reads is a stutter of FcgiRequest.
LEMMA MapStutter ==
    ASSUME UNCHANGED <<ipcOpen, req, answered, error, cleared>>
    PROVE  UNCHANGED Request!vars
BY DEF Request!vars

\* Without a connection there is nothing to tell.
LEMMA MapClosed ==
    ASSUME ~ipcOpen, ~ipcOpen'
    PROVE  UNCHANGED Request!vars
BY DEF Request!vars

\* An error on a stream of the connection is Fail.
LEMMA MapFail ==
    ASSUME TypeOK, NEW s \in Std, error' = [error EXCEPT ![s] = TRUE],
           UNCHANGED <<ipcOpen, req, answered>>
    PROVE  Request!Next \/ UNCHANGED Request!vars
<1>1. CASE ~ipcOpen
      BY <1>1, MapClosed
<1>2. CASE ipcOpen
  <2>1. \E t \in Std : error'[t]
        BY DEF TypeOK
  <2>2. Request!Fail
        BY <1>2, <2>1 DEF Request!Fail
  <2> QED BY <2>2 DEF Request!Next
<1> QED BY <1>1, <1>2

\* Closing a stream is Answer, Fail or nothing.
LEMMA MapFClose ==
    ASSUME IInv, NEW s \in Std, req # 0, FCGX_FClose(s), UNCHANGED <<req, ipcOpen>>
    PROVE  Request!Next \/ UNCHANGED Request!vars
<1>1. CASE wasFCloseCalled[s] \/ s \notin Writers
      BY <1>1, MapStutter DEF FCGX_FClose, streams, server
<1>2. CASE ~wasFCloseCalled[s] /\ s \in Writers
  <2>1. CloseWriter(s)
        BY <1>2 DEF FCGX_FClose
  <2>2. CASE error' = [error EXCEPT ![s] = TRUE] /\ UNCHANGED answered
        BY <2>2, MapFail DEF IInv
  <2>3. CASE UNCHANGED <<error, cleared>> /\ (answered' = answered)
        BY <2>3, MapStutter
  <2>4. CASE UNCHANGED <<error, cleared>> /\ answered'
    <3>1. CASE ~ipcOpen
          BY <3>1, MapClosed
    <3>2. CASE ipcOpen
          BY <2>4, <3>2 DEF Request!Answer, Request!Next
    <3> QED BY <3>1, <3>2
  <2>5. answered \in BOOLEAN /\ answered' \in BOOLEAN
        BY FCloseTypes DEF IInv, TypeOK
  <2>6. answered => answered'
        BY <2>1, Zenon DEF CloseWriter
  <2> QED BY <2>1, <2>2, <2>3, <2>4, <2>5, <2>6 DEF CloseWriter
<1> QED BY <1>1, <1>2

\* Every step is a step of FcgiRequest or a stutter.
LEMMA MapNext == IInv /\ [Next]_vars => (Request!Next \/ UNCHANGED Request!vars)
<1> SUFFICES ASSUME IInv, [Next]_vars PROVE (Request!Next \/ UNCHANGED Request!vars)
    OBVIOUS
<1> USE DEF files, mode, request, streams, server, history, IInv
<1>1. CASE FCGX_IsCGI
      BY <1>1, MapStutter DEF FCGX_IsCGI
<1>2. CASE FCGX_OpenSocket
      BY <1>2, MapStutter DEF FCGX_OpenSocket
<1>3. CASE FCGX_Init_Fail
      BY <1>3, MapStutter DEF FCGX_Init_Fail
<1>4. CASE FCGI_Accept_CGI
      BY <1>4, MapStutter DEF FCGI_Accept_CGI
<1>5. CASE FCGI_Accept
      BY <1>5, MapStutter DEF FCGI_Accept
<1>6. CASE FCGI_Finish
      BY <1>6, MapStutter DEF FCGI_Finish
<1>7. CASE Exit
      BY <1>7, MapStutter DEF Exit
<1>8. CASE Finish_Close("stderr", "closeErr", "closeOut")
  <2>1. CASE req = 0
        BY <1>8, <2>1, MapStutter DEF Finish_Close
  <2>2. CASE req # 0
        BY <1>8, <2>2, MapFClose, StdFacts DEF Finish_Close
  <2> QED BY <2>1, <2>2
<1>9. CASE Finish_Close("stdout", "closeOut", "free")
  <2>1. CASE req = 0
        BY <1>9, <2>1, MapStutter DEF Finish_Close
  <2>2. CASE req # 0
        BY <1>9, <2>2, MapFClose, StdFacts DEF Finish_Close
  <2> QED BY <2>1, <2>2
<1>10. CASE Finish_Free
  <2>1. /\ req' = 0
        /\ ipcOpen' => ipcOpen /\ (req # 0 => \A s \in Std : ~error[s])
        /\ answered' = answered /\ cleared' = cleared
        BY <1>10 DEF Finish_Free
  <2>2. ~ \E s \in Std : error'[s]
        BY <1>10 DEF Finish_Free, FreeStreams
  <2>3. CASE ~ipcOpen
        BY <2>1, <2>3, MapClosed
  <2>4. CASE ipcOpen /\ ~ipcOpen'
        BY <2>4 DEF Request!Close, Request!Next
  <2>5. CASE ipcOpen /\ ipcOpen'
    <3>1. ~ \E s \in Std : error[s]
          BY <2>1, <2>5 DEF Ends, Fresh
    <3>2. CASE req = 0
          BY <2>1, <2>2, <2>5, <3>1, <3>2 DEF Request!vars
    <3>3. CASE req # 0
      <4>1. cleared \/ answered
            BY <1>10, <2>5, <3>1, <3>3 DEF Finish_Free, Ends, Seen, Answering, Closing, Counted,
                                           Unclosed
      <4>2. Request!Keep
            BY <2>1, <2>2, <2>5, <3>1, <3>3, <4>1 DEF Request!Keep
      <4> QED BY <4>2 DEF Request!Next
    <3> QED BY <3>2, <3>3
  <2> QED BY <2>3, <2>4, <2>5
<1>11. CASE Finish_Done
      BY <1>11, MapStutter DEF Finish_Done
<1>12. CASE Accept_Connect
  <2>1. req = 0 /\ req' = 0 /\ ~ipcOpen /\ ipcOpen' /\ answered' /\ ~cleared'
        BY <1>12 DEF Accept_Connect, Control
  <2>2. ~ \E s \in Std : error'[s]
        BY <1>12, <2>1 DEF Accept_Connect, Ends, Fresh
  <2>3. Request!Connect
        BY <2>1, <2>2 DEF Request!Connect
  <2> QED BY <2>3 DEF Request!Next
<1>13. CASE Accept_TryAgain
  <2>1. ipcOpen /\ ~ipcOpen'
        BY <1>13 DEF Accept_TryAgain
  <2>2. Request!Close
        BY <2>1 DEF Request!Close
  <2> QED BY <2>2 DEF Request!Next
<1>14. CASE Accept_Fail
      BY <1>14, MapStutter DEF Accept_Fail
<1>15. CASE Accept_Request
  <2>1. req = 0 /\ req' # 0 /\ ipcOpen /\ ipcOpen' /\ ~answered' /\ cleared' = cleared
        BY <1>15 DEF Accept_Request, Control, TypeOK
  <2>2. ~ \E s \in Std : error[s]
        BY <2>1 DEF Ends, Fresh
  <2>3. ~ \E s \in Std : error'[s]
        BY <1>15 DEF Accept_Request
  <2>4. Request!Begin
        BY <2>1, <2>2, <2>3 DEF Request!Begin
  <2> QED BY <2>4 DEF Request!Next
<1>16. ASSUME NEW s \in Writers, FCGI_fputs(s) PROVE (Request!Next \/ UNCHANGED Request!vars)
  <2>1. CASE UNCHANGED error
        BY <1>16, <2>1, MapStutter DEF FCGI_fputs
  <2>2. CASE StreamFails(s)
        BY <1>16, <2>2, MapFail, StdFacts DEF FCGI_fputs, StreamFails
  <2> QED BY <1>16, <2>1, <2>2 DEF FCGI_fputs
<1>17. ASSUME NEW s \in Writers, FCGI_fflush(s) PROVE (Request!Next \/ UNCHANGED Request!vars)
  <2>1. CASE UNCHANGED error
        BY <1>17, <2>1, MapStutter DEF FCGI_fflush
  <2>2. CASE StreamFails(s)
        BY <1>17, <2>2, MapFail, StdFacts DEF FCGI_fflush, StreamFails
  <2> QED BY <1>17, <2>1, <2>2 DEF FCGI_fflush
<1>18. CASE FCGI_fgetc
  <2>1. CASE UNCHANGED error
        BY <1>18, <2>1, MapStutter DEF FCGI_fgetc
  <2>2. CASE StreamFails("stdin")
        BY <1>18, <2>2, MapFail, StdFacts DEF FCGI_fgetc, StreamFails
  <2> QED BY <1>18, <2>1, <2>2 DEF FCGI_fgetc
<1>19. CASE FCGI_StartFilterData
  <2>1. CASE UNCHANGED error
        BY <1>19, <2>1, MapStutter DEF FCGI_StartFilterData
  <2>2. CASE StreamFails("stdin")
        BY <1>19, <2>2, MapFail, StdFacts DEF FCGI_StartFilterData, StreamFails
  <2> QED BY <1>19, <2>1, <2>2 DEF FCGI_StartFilterData
<1>20. ASSUME NEW s \in Std, FCGI_clearerr(s) PROVE (Request!Next \/ UNCHANGED Request!vars)
  <2>1. req # 0 /\ cleared' /\ \E t \in Std : error[t]
        BY <1>20, OnStreamRequest DEF FCGI_clearerr
  <2>2. UNCHANGED <<req, ipcOpen, answered>>
        BY <1>20 DEF FCGI_clearerr
  <2>3. CASE ~ipcOpen
        BY <2>2, <2>3, MapClosed
  <2>4. CASE ipcOpen /\ \E t \in Std : error'[t]
        BY <2>1, <2>2, <2>4 DEF Request!vars
  <2>5. CASE ipcOpen /\ ~ \E t \in Std : error'[t]
        BY <2>1, <2>2, <2>5 DEF Request!Waive, Request!Next
  <2> QED BY <2>3, <2>4, <2>5
<1>21. ASSUME NEW status \in Statuses, FCGI_SetExitStatus(status)
       PROVE  Request!Next \/ UNCHANGED Request!vars
      BY <1>21, MapStutter DEF FCGI_SetExitStatus
<1>22. ASSUME NEW fp \in FILEs, FCGI_fopen(fp) PROVE (Request!Next \/ UNCHANGED Request!vars)
      BY <1>22, MapStutter DEF FCGI_fopen
<1>23. ASSUME NEW h \in Heap, FCGI_OpenFromFILE(h)
       PROVE  Request!Next \/ UNCHANGED Request!vars
      BY <1>23, MapStutter DEF FCGI_OpenFromFILE
<1>24. CASE OpenFromFILE_Fail
      BY <1>24, MapStutter DEF OpenFromFILE_Fail
<1>25. ASSUME NEW h \in Handles, FCGI_fclose_FILE(h)
       PROVE  Request!Next \/ UNCHANGED Request!vars
      BY <1>25, MapStutter DEF FCGI_fclose_FILE
<1>26. ASSUME NEW h \in Heap \cup Reopened, FCGI_freopen_FILE(h)
       PROVE  Request!Next \/ UNCHANGED Request!vars
      BY <1>26, MapStutter DEF FCGI_freopen_FILE
<1>27. ASSUME NEW s \in Std, FCGI_fclose_stream(s)
       PROVE  Request!Next \/ UNCHANGED Request!vars
  <2>1. req # 0
        BY <1>27, OnStreamRequest, StdFacts DEF FCGI_fclose_stream
  <2> QED BY <1>27, <2>1, MapFClose, StdFacts DEF FCGI_fclose_stream
<1>28. ASSUME NEW s \in Reopened, FCGI_freopen_Fail(s)
       PROVE  Request!Next \/ UNCHANGED Request!vars
  <2>1. req # 0
        BY <1>28, OnStreamRequest, StdFacts DEF FCGI_freopen_Fail
  <2> QED BY <1>28, <2>1, MapFClose, StdFacts DEF FCGI_freopen_Fail
<1>29. ASSUME NEW s \in Reopened, NEW fp \in FILEs, FCGI_freopen_stream(s, fp)
       PROVE  Request!Next \/ UNCHANGED Request!vars
  <2>1. req # 0
        BY <1>29, OnStreamRequest, StdFacts DEF FCGI_freopen_stream
  <2> QED BY <1>29, <2>1, MapFClose, StdFacts DEF FCGI_freopen_stream
<1>30. CASE UNCHANGED vars
      BY <1>30, MapStutter DEF vars
<1>31. ASSUME NEW s \in Writers, FCGI_fwrite_Assert(s, 1) PROVE (Request!Next \/ UNCHANGED Request!vars)
  <2>1. CASE UNCHANGED error
        BY <1>31, <2>1, MapStutter DEF FCGI_fwrite_Assert
  <2>2. CASE StreamFails(s)
        BY <1>31, <2>2, MapFail, StdFacts DEF FCGI_fwrite_Assert, StreamFails
  <2> QED BY <1>31, <2>1, <2>2 DEF FCGI_fwrite_Assert
<1>32. CASE StartFilterData_NULL
      BY <1>32, MapStutter DEF StartFilterData_NULL
<1> QED BY <1>1, <1>2, <1>3, <1>4, <1>5, <1>6, <1>7, <1>8, <1>9, <1>10, <1>11, <1>12, <1>13, <1>14,
           <1>15, <1>16, <1>17, <1>18, <1>19, <1>20, <1>21, <1>22, <1>23, <1>24, <1>25, <1>26,
           <1>27, <1>28, <1>29, <1>30, <1>31, <1>32, StdFacts
        DEF Next, Mode, FCGX_Finish_r, FCGX_Accept_r, Standard, Files, FCGI_fwrite,
            FCGI_perror, FCGI_fread, FCGI_pclose

\* The package keeps a connection only after a complete answer.
THEOREM StdioImplementsRequest == Spec => ImplementsRequest
<1>1. Init => Request!Init
      BY DEF Init, Request!Init
<1>2. IInv /\ [Next]_vars => [Request!Next]_(Request!vars)
      BY MapNext
<1> QED BY <1>1, <1>2, StdioInvariant, PTL DEF Spec, ImplementsRequest, Request!Spec

\* A connection that is kept for another request owes the web server nothing, unless
\* the application has cleared an error on it (FCGI_Finish and FCGI_Accept): FcgiRequest
\* keeps NothingOwed, and the package implements FcgiRequest.
THEOREM StdioNothingOwed == Spec => []Request!NothingOwed
<1>1. Request!Init => Request!NothingOwed
      BY DEF Request!Init, Request!NothingOwed
<1>2. Request!NothingOwed /\ [Request!Next]_(Request!vars) => Request!NothingOwed'
      BY DEF Request!NothingOwed, Request!vars, Request!Next, Request!Connect, Request!Begin,
             Request!Answer, Request!Fail, Request!Waive, Request!Keep, Request!Close
<1> QED BY <1>1, <1>2, StdioImplementsRequest, PTL DEF ImplementsRequest, Request!Spec

-----------------------------------------------------------------------------
(* FCGX_VFPrintF, which FCGI_printf and its relatives call: the inductive  *)
(* invariant.                                                              *)

\* Where the scan of the format is.
InFormat ==
    /\ f \in 1..(Len(format) + 1)
    /\ at \in {"slow", "bound", "convert", "put"} => f <= Len(format) /\ Cur.op # "text"
    /\ at \in {"slow", "bound"} => ~fastPath
    /\ at = "convert" /\ ~fastPath => Cur.op \notin {"n", "%", "bad", "end"}

\* The arguments for * in a specifier.
Stars == (IF Cur.width.by = "star" THEN 1 ELSE 0) + (IF Cur.prec.by = "star" THEN 1 ELSE 0)

\* The arguments that have been taken, wherever the directive is on its way.
ArgsTaken ==
    /\ at \in {"loop", "slow"} => arg = ArgsBefore(f)
    /\ at = "bound" => arg = ArgsBefore(f) + Stars
    /\ at = "convert" =>
           arg = IF fastPath THEN ArgsBefore(f)
                 ELSE ArgsBefore(f) + Stars + (IF Cur.op \in {"s", "f"} THEN 1 ELSE 0)
    /\ at = "put" => arg = ArgsBefore(f) + ArgsOf(Cur)

\* The width and the precision are those of the specifier.
Scanned ==
    /\ at = "convert" /\ fastPath => minWidth = 0 /\ precision = -1
    /\ at = "bound" \/ (at = "convert" /\ ~fastPath) => minWidth = Cur.width.v
    /\ at = "bound" => precision = GivenPrecision
    /\ at = "convert" /\ ~fastPath =>
           precision = IF Cur.op \in {"f", "e"} /\ GivenPrecision = -1 THEN 6 ELSE GivenPrecision

\* What has been written is what has been counted and what C prints.
CountKept ==
    /\ at \notin {"return", "abort"} =>
           streamCount = sent /\ (AllAsInC => streamCount = LengthBefore(f))
    /\ at = "put" /\ AllAsInC => buffCount = LengthOf(Cur)
    /\ CountHonest

\* The buffers are large enough when sprintf is called.
Room ==
    /\ at = "convert" /\ fastPath => buffLen = PRINTF_BUFFLEN
    /\ at = "convert" /\ ~fastPath =>
           /\ buffLen >= PRINTF_BUFFLEN /\ buffLen >= ConversionBound(precision) + 10
           /\ buffLen >= minWidth
    /\ FormatFits

PrintfInv == PrintfTypeOK /\ InFormat /\ ArgsTaken /\ Scanned /\ CountKept /\ Room

-----------------------------------------------------------------------------
(* Sums.                                                                   *)

\* Every set of natural numbers that is not empty has a least element.
LEMMA LeastElement ==
    ASSUME NEW S \in SUBSET Nat, NEW m \in S
    PROVE  \E n \in S : \A j \in Nat : j < n => j \notin S
<1> DEFINE R == OpToRel(<, Nat)
<1>1. IsWellFoundedOn(R, Nat)
      BY NatLessThanWellFounded
<1>2. PICK n \in S : \A y \in S : ~(<<y, n>> \in R)
  <2> HIDE DEF R
  <2> QED BY <1>1, WFMin
<1>3. \A a, b \in Nat : a < b => <<a, b>> \in R
      BY DEF OpToRel
<1> HIDE DEF R
<1> QED BY <1>2, <1>3

\* The recursive function of SumBefore exists.
LEMMA SumsDefined ==
    ASSUME NEW s, NEW n \in Nat
    PROVE  \E g : g = [k \in 0..n |-> IF k = 0 THEN 0 ELSE g[k - 1] + s[k]]
<1> DEFINE IsSum(g, m) == g = [k \in 0..m |-> IF k = 0 THEN 0 ELSE g[k - 1] + s[k]]
           Missing == {m \in Nat : ~\E g : IsSum(g, m)}
<1>1. ASSUME NEW x \in Missing PROVE FALSE
  <2>1. PICK m \in Missing : \A j \in Nat : j < m => j \notin Missing
        BY <1>1, LeastElement
  <2>2. CASE m = 0
    <3> DEFINE g == [k \in 0..0 |-> 0]
    <3>1. \A k \in 0..0 : k = 0
          OBVIOUS
    <3>2. g = [k \in 0..0 |-> IF k = 0 THEN 0 ELSE g[k - 1] + s[k]]
          BY <3>1
    <3> QED BY <2>1, <2>2, <3>2
  <2>3. CASE m # 0
    <3>1. m - 1 \in Nat /\ m - 1 < m /\ m \in Nat
          BY <2>1, <2>3
    <3>2. PICK h : IsSum(h, m - 1)
          BY <2>1, <3>1
    <3> DEFINE g == [k \in 0..m |-> IF k < m THEN h[k] ELSE h[m - 1] + s[m]]
    <3>3. ASSUME NEW k \in 0..m PROVE g[k] = IF k = 0 THEN 0 ELSE g[k - 1] + s[k]
      <4>1. CASE k = 0
        <5>1. g[0] = h[0] /\ 0 \in 0..(m - 1)
              BY <2>3, <3>1
        <5>2. h[0] = 0
              BY <3>2, <5>1
        <5> QED BY <4>1, <5>1, <5>2
      <4>2. CASE k # 0 /\ k < m
        <5>1. k \in 0..(m - 1) /\ k - 1 \in 0..(m - 1) /\ k - 1 \in 0..m /\ k - 1 < m
              BY <3>1, <4>2
        <5>2. g[k] = h[k] /\ g[k - 1] = h[k - 1]
              BY <4>2, <5>1
        <5>3. h[k] = h[k - 1] + s[k]
              BY <3>2, <4>2, <5>1
        <5> QED BY <4>2, <5>2, <5>3
      <4>3. CASE k = m
        <5>1. m - 1 \in 0..m /\ m - 1 < m
              BY <3>1
        <5>2. g[m - 1] = h[m - 1] /\ g[m] = h[m - 1] + s[m]
              BY <3>1, <5>1
        <5> QED BY <2>3, <4>3, <5>2
      <4> QED BY <3>1, <4>1, <4>2, <4>3
    <3>4. g = [k \in 0..m |-> IF k = 0 THEN 0 ELSE g[k - 1] + s[k]]
      <4> HIDE DEF g
      <4>1. g = [k \in 0..m |-> g[k]]
            BY DEF g
      <4> QED BY <3>3, <4>1
    <3> QED BY <2>1, <3>4
  <2> QED BY <2>2, <2>3
<1>2. n \notin Missing
      BY <1>1
<1> QED BY <1>2

\* SumBefore adds up.
LEMMA SumStep ==
    ASSUME NEW s, Len(s) \in Nat
    PROVE  /\ SumBefore(s, 1) = 0
           /\ \A k \in 1..Len(s) : SumBefore(s, k + 1) = SumBefore(s, k) + s[k]
<1> DEFINE Sum == CHOOSE g : g = [k \in 0..Len(s) |-> IF k = 0 THEN 0 ELSE g[k - 1] + s[k]]
<1>1. Sum = [k \in 0..Len(s) |-> IF k = 0 THEN 0 ELSE Sum[k - 1] + s[k]]
      BY SumsDefined
<1>2. \A k : SumBefore(s, k) = Sum[k - 1]
      BY DEF SumBefore
<1> HIDE DEF Sum
<1>3. Sum[0] = 0
      BY <1>1
<1>4. ASSUME NEW k \in 1..Len(s) PROVE Sum[k] = Sum[k - 1] + s[k]
      BY <1>1
<1>5. ASSUME NEW k \in 1..Len(s) PROVE (k + 1) - 1 = k
      OBVIOUS
<1>6. 1 - 1 = 0
      OBVIOUS
<1> QED BY <1>2, <1>3, <1>4, <1>5, <1>6

\* The arguments and the characters of the directives add up.
LEMMA BeforeStep ==
    ASSUME format \in Formats
    PROVE  /\ ArgsBefore(1) = 0 /\ LengthBefore(1) = 0
           /\ \A k \in 1..Len(format) : /\ ArgsBefore(k + 1) = ArgsBefore(k) + ArgsOf(format[k])
                                        /\ LengthBefore(k + 1) = LengthBefore(k) + LengthOf(format[k])
<1>1. Len(format) \in Nat
      BY FormatsAssumption
<1> DEFINE A == [j \in 1..Len(format) |-> ArgsOf(format[j])]
           L == [j \in 1..Len(format) |-> LengthOf(format[j])]
<1>2. Len(A) = Len(format) /\ Len(L) = Len(format)
      BY <1>1
<1>3. \A k : ArgsBefore(k) = SumBefore(A, k) /\ LengthBefore(k) = SumBefore(L, k)
      BY DEF ArgsBefore, LengthBefore
<1>4. \A k \in 1..Len(format) : A[k] = ArgsOf(format[k]) /\ L[k] = LengthOf(format[k])
      OBVIOUS
<1> HIDE DEF A, L
<1> QED BY <1>1, <1>2, <1>3, <1>4, SumStep

\* The arguments before a place are a number.
LEMMA ArgsBeforeNat ==
    ASSUME format \in Formats, NEW k \in 1..(Len(format) + 1)
    PROVE  ArgsBefore(k) \in Nat
<1> DEFINE Missing == {m \in Nat : m \in 1..(Len(format) + 1) /\ ArgsBefore(m) \notin Nat}
<1>1. Len(format) \in Nat
      BY FormatsAssumption
<1>2. ASSUME NEW x \in Missing PROVE FALSE
  <2>1. PICK m \in Missing : \A j \in Nat : j < m => j \notin Missing
        BY <1>2, LeastElement
  <2>2. m # 1
        BY <2>1, BeforeStep
  <2>3. PICK j \in Nat : m = j + 1 /\ j \in 1..Len(format) /\ j < m
        BY <1>1, <2>1, <2>2
  <2>4. ArgsBefore(j) \in Nat
        BY <1>1, <2>1, <2>3
  <2>5. ArgsBefore(m) = ArgsBefore(j) + ArgsOf(format[j])
        BY <2>3, BeforeStep
  <2>6. ArgsOf(format[j]) \in Nat
        BY DEF ArgsOf
  <2> QED BY <2>1, <2>4, <2>5, <2>6
<1>3. k \in Nat /\ k \notin Missing
      BY <1>1, <1>2
<1> QED BY <1>3

-----------------------------------------------------------------------------
(* Directives.                                                             *)

\* What is known of the directive that is next.
LEMMA Directive ==
    ASSUME format \in Formats, f \in 1..Len(format)
    PROVE  /\ Cur.op \in Ops \cup {"text"} /\ Cur.size \in Sizes
           /\ Cur.flags \in Nat /\ Cur.len \in Nat
           /\ Cur.width.by \in {"none", "digits", "star"} /\ Cur.width.v \in Int
           /\ Cur.prec.by \in {"none", "digits", "star"} /\ Cur.prec.v \in Int
           /\ Cur.width.by = "none" => Cur.width.v = 0
           /\ Cur.width.by = "digits" => Cur.width.v >= 0
           /\ Cur.prec.by = "digits" => Cur.prec.v >= 0
           /\ Cur.op = "text" => Cur.len > 0
           /\ Cur.op \in {"d", "u", "c", "p"} => Cur.len <= LongestInteger
<1>1. format \in Seq(Directives) /\ Cur = format[f]
      BY FormatsAssumption DEF Cur
<1>2. Cur \in Directives
      BY <1>1
<1>3. PICK w \in Numbers : w = Cur.width
      BY <1>2 DEF Directives
<1>4. PICK p \in Numbers : p = Cur.prec
      BY <1>2 DEF Directives
<1>5. \A x \in Numbers : /\ x.by \in {"none", "digits", "star"} /\ x.v \in Int
                         /\ x.by = "none" => x.v = 0
                         /\ x.by = "digits" => x.v >= 0
      BY DEF Numbers
<1>6. Cur.op \in Ops \cup {"text"} /\ Cur.size \in Sizes /\ Cur.flags \in Nat /\ Cur.len \in Nat
      BY <1>2 DEF Directives
<1>7. /\ Cur.op = "text" => Cur.len > 0
      /\ Cur.op \in {"d", "u", "c", "p"} => Cur.len <= LongestInteger
      BY <1>1, FormatsAssumption
<1> QED BY <1>3, <1>4, <1>5, <1>6, <1>7

\* A number that is not too large takes six characters, and one for the sign.
LEMMA DigitsBound ==
    ASSUME NEW n \in Int, ABS(n) <= MaxNumber
    PROVE  Digits(n) \in Nat /\ Digits(n) <= 7 /\ (n >= 0 => Digits(n) <= 6)
<1> DEFINE Reached == {k \in 1..9 : ABS(n) >= PowersOfTen[k]}
<1>1. Reached \subseteq 1..5
  <2>1. PICK a \in Int : a = ABS(n) /\ a <= 999999
        BY DEF ABS, MaxNumber
  <2>2. \A k \in 6..9 : PowersOfTen[k] \in Int /\ PowersOfTen[k] > 999999
        BY DEF PowersOfTen
  <2>3. \A k \in 6..9 : ~(a >= PowersOfTen[k])
        BY <2>1, <2>2
  <2>4. \A k \in 1..9 : k \in 1..5 \/ k \in 6..9
        OBVIOUS
  <2> QED BY <2>1, <2>3, <2>4
<1>2. IsFiniteSet(1..5) /\ Cardinality(1..5) = 5
  <2>1. PICK a \in Int, b \in Int : a = 1 /\ b = 5
        OBVIOUS
  <2>2. IsFiniteSet(a..b) /\ Cardinality(a..b) = IF a > b THEN 0 ELSE b - a + 1
        BY FS_Interval
  <2> QED BY <2>1, <2>2
<1>3. Cardinality(Reached) \in Nat /\ Cardinality(Reached) <= 5
  <2> HIDE DEF Reached
  <2>1. IsFiniteSet(Reached) /\ Cardinality(Reached) <= Cardinality(1..5)
        BY <1>1, <1>2, FS_Subset
  <2>2. Cardinality(Reached) \in Nat
        BY <2>1, FS_CardinalityType
  <2> QED BY <1>2, <2>1, <2>2
<1>4. Digits(n) = (IF n < 0 THEN 1 ELSE 0) + 1 + Cardinality(Reached)
      BY DEF Digits
<1> HIDE DEF Reached
<1> QED BY <1>3, <1>4

\* A binary exponent gives no more digits than a third of it, and one.
LEMMA Exponents ==
    ASSUME NEW e \in Nat
    PROVE  /\ IntegralDigits(e) \in Nat /\ e \div 3 \in Nat
           /\ IntegralDigits(e) <= e \div 3 + 1
<1>1. PICK q \in Int : q = e \div 3 /\ 3 * q <= e /\ e < 3 * q + 3
      OBVIOUS
<1>2. PICK x \in Nat : x = e * 30103
      OBVIOUS
<1>3. PICK k \in Int : k = x \div 100000 /\ 100000 * k <= x /\ x < 100000 * k + 100000
      OBVIOUS
<1>4. q >= 0 /\ k >= 0 /\ k <= q
      BY <1>1, <1>2, <1>3
<1>5. IntegralDigits(e) = k + 1
      BY <1>2, <1>3 DEF IntegralDigits
<1> QED BY <1>1, <1>4, <1>5

-----------------------------------------------------------------------------
(* The steps.                                                              *)

\* A directive makes no negative number of characters, and takes no negative
\* number of arguments.
LEMMA DirectiveSizes ==
    ASSUME format \in Formats, f \in 1..Len(format)
    PROVE  LengthOf(Cur) \in Nat /\ ArgsOf(Cur) \in Nat /\ Stars \in Nat
<1> DEFINE p == IF Cur.prec.by = "none" \/ Cur.prec.v < 0 THEN -1 ELSE Cur.prec.v
           w == IF Cur.width.by = "none" THEN 0 ELSE Cur.width.v
<1>1. /\ Cur.op \in Ops \cup {"text"} /\ Cur.len \in Nat
      /\ p \in Int /\ p >= -1 /\ ABS(w) \in Nat
      BY Directive DEF Max2, ABS
<1>2. IntegralDigits(Cur.len) \in Nat
      BY <1>1, Exponents
<1>3. ArgsOf(Cur) \in Nat /\ Stars \in Nat
      BY DEF ArgsOf, Stars
<1>4. LengthOf(Cur) =
        IF Cur.op = "text" THEN Cur.len
        ELSE IF Cur.op = "n" THEN 0
        ELSE IF Cur.op = "%" THEN 1
        ELSE Max2(ABS(w), CASE Cur.op \in {"d", "u"} -> Max2(Cur.len, p + 2)
                            [] Cur.op = "c" -> 1
                            [] Cur.op = "p" -> Cur.len
                            [] Cur.op = "s" -> IF p = -1 THEN Cur.len ELSE Min2(p, Cur.len)
                            [] Cur.op = "f" -> 2 + IntegralDigits(Cur.len) + (IF p = -1 THEN 6 ELSE p)
                            [] Cur.op = "e" -> 8 + (IF p = -1 THEN 6 ELSE p)
                            [] OTHER -> 0)
      BY DEF LengthOf
<1> HIDE DEF p, w
<1>5. \A a, b \in Int : Max2(a, b) \in Int /\ Max2(a, b) >= a /\ Max2(a, b) >= b
      BY DEF Max2
<1>6. \A a, b \in Int : Min2(a, b) \in Int
      BY DEF Min2
<1>7. LengthOf(Cur) \in Nat
  <2>1. CASE Cur.op \in {"text", "n", "%"}
        BY <1>1, <1>4, <2>1
  <2>2. CASE Cur.op \notin {"text", "n", "%"}
    <3>1. PICK x \in Int : LengthOf(Cur) = Max2(ABS(w), x)
      <4>0. Cur.op \in {"d", "u", "c", "s", "p", "f", "e", "bad", "end"}
            BY <1>1, <2>2 DEF Ops
      <4>1. CASE Cur.op \in {"d", "u"}
        <5>1. LengthOf(Cur) = Max2(ABS(w), Max2(Cur.len, p + 2))
              BY <1>4, <4>1
        <5>2. PICK q \in Int : q = p + 2
              BY <1>1
        <5>3. PICK l \in Int : l = Cur.len
              BY <1>1
        <5>4. Max2(l, q) \in Int
              BY <1>5
        <5> QED BY <5>1, <5>2, <5>3, <5>4
      <4>2. CASE Cur.op \in {"c", "p"}
            BY <1>1, <1>4, <4>2
      <4>3. CASE Cur.op = "s"
            BY <1>1, <1>4, <1>6, <4>3
      <4>4. CASE Cur.op = "f"
            BY <1>1, <1>2, <1>4, <4>4
      <4>5. CASE Cur.op = "e"
            BY <1>1, <1>4, <4>5
      <4>6. CASE Cur.op \in {"bad", "end"}
            BY <1>1, <1>4, <4>6
      <4> QED BY <4>0, <4>1, <4>2, <4>3, <4>4, <4>5, <4>6
    <3>2. PICK a \in Int : a = ABS(w) /\ a >= 0
          BY <1>1
    <3>3. Max2(a, x) \in Int /\ Max2(a, x) >= a
          BY <1>5
    <3> QED BY <3>1, <3>2, <3>3
  <2> QED BY <2>1, <2>2
<1> QED BY <1>3, <1>7

\* What depends on the place in the format stays when the place does.
LEMMA PlaceKept ==
    ASSUME format' = format, f' = f
    PROVE  /\ Cur' = Cur /\ Stars' = Stars /\ GivenPrecision' = GivenPrecision
           /\ ArgsBefore(f)' = ArgsBefore(f) /\ LengthBefore(f)' = LengthBefore(f)
           /\ LengthOf(Cur)' = LengthOf(Cur) /\ ArgsOf(Cur)' = ArgsOf(Cur)
           /\ AllAsInC' <=> AllAsInC
<1>1. Cur' = Cur
      BY DEF Cur
<1>2. Stars' = Stars /\ GivenPrecision' = GivenPrecision
      BY <1>1 DEF Stars, GivenPrecision
<1>3. ArgsBefore(f)' = ArgsBefore(f) /\ LengthBefore(f)' = LengthBefore(f)
      BY DEF ArgsBefore, LengthBefore
<1>4. LengthOf(Cur)' = LengthOf(Cur) /\ ArgsOf(Cur)' = ArgsOf(Cur)
      BY <1>1
<1>5. AllAsInC' <=> AllAsInC
      BY DEF AllAsInC
<1> QED BY <1>1, <1>2, <1>3, <1>4, <1>5

\* Behind a directive, its arguments and characters have been added.
LEMMA PlaceMoved ==
    ASSUME format \in Formats, f \in 1..Len(format), format' = format, f' = f + 1
    PROVE  /\ ArgsBefore(f)' = ArgsBefore(f) + ArgsOf(Cur)
           /\ LengthBefore(f)' = LengthBefore(f) + LengthOf(Cur)
           /\ AllAsInC' <=> AllAsInC
<1>0. AllAsInC' <=> AllAsInC
      BY DEF AllAsInC
<1>1. ArgsBefore(f)' = ArgsBefore(f + 1) /\ LengthBefore(f)' = LengthBefore(f + 1)
      BY DEF ArgsBefore, LengthBefore
<1> QED BY <1>0, <1>1, BeforeStep DEF Cur

\* What %n has stored is the count up to its place.
StoredHonest ==
    stored # Unset /\ AllAsInC =>
        \E k \in 1..Len(format) : format[k].op = "n" /\ stored = LengthBefore(k)

\* It stays so.
LEMMA StoredKept ==
    ASSUME StoredHonest, format' = format, stored' = stored
    PROVE  StoredHonest'
BY DEF StoredHonest, LengthBefore, AllAsInC

\* CountHonest, by parts.
LEMMA CountHonestParts ==
    CountHonest <=> /\ at = "return" =>
                           /\ auxBuffLen = 0
                           /\ streamCount # -1 =>
                                  /\ streamCount = sent
                                  /\ AllAsInC => streamCount = LengthBefore(Len(format) + 1)
                    /\ StoredHonest
BY DEF CountHonest, StoredHonest

\* The invariant before a call.
LEMMA PrintfInit_Inv == PrintfInit => PrintfInv
<1> SUFFICES ASSUME PrintfInit PROVE PrintfInv
    OBVIOUS
<1>1. Len(format) \in Nat
      BY FormatsAssumption DEF PrintfInit
<1>2. ArgsBefore(1) = 0 /\ LengthBefore(1) = 0
      BY BeforeStep DEF PrintfInit
<1>3. PrintfTypeOK
      BY DEF PrintfInit, PrintfTypeOK, PRINTF_BUFFLEN, Unset
<1>4. InFormat /\ ArgsTaken /\ Scanned
      BY <1>1, <1>2 DEF PrintfInit, InFormat, ArgsTaken, Scanned
<1>5. CountKept /\ Room
      BY <1>2 DEF PrintfInit, CountKept, CountHonest, Room, FormatFits, FMT_BUFFLEN, PRINTF_BUFFLEN
<1> QED BY <1>3, <1>4, <1>5 DEF PrintfInv

\* An error return, wherever it comes from.
LEMMA ErrorReturn_Inv ==
    ASSUME PrintfInv, ErrorReturn, sent' \in Nat, arg' \in Nat, precision' \in Int,
           UNCHANGED <<format, f, fastPath, minWidth, fmtLen, buffLen, buffCount, stored>>
    PROVE  PrintfInv'
<1>1. PrintfTypeOK'
      BY DEF PrintfInv, PrintfTypeOK, ErrorReturn
<1>2. (InFormat /\ ArgsTaken /\ Scanned)'
      BY DEF PrintfInv, InFormat, ArgsTaken, Scanned, ErrorReturn
<1>3. CountKept'
  <2>1. StoredHonest'
        BY CountHonestParts, StoredKept DEF PrintfInv, CountKept
  <2>2. CountHonest'
        BY <2>1, CountHonestParts DEF CountHonest, StoredHonest, ErrorReturn
  <2> QED BY <2>2 DEF CountKept, ErrorReturn
<1>4. Room'
      BY DEF PrintfInv, Room, FormatFits, ErrorReturn
<1> QED BY <1>1, <1>2, <1>3, <1>4 DEF PrintfInv

\* The process is aborted.
LEMMA Abort_Inv ==
    ASSUME PrintfInv, at' = "abort", arg' \in Nat, precision' \in Int, auxBuffLen' \in Nat,
           UNCHANGED <<format, f, fastPath, minWidth, fmtLen, buffLen, buffCount, streamCount, stored, sent>>
    PROVE  PrintfInv'
<1>1. PrintfTypeOK'
      BY DEF PrintfInv, PrintfTypeOK
<1>2. (InFormat /\ ArgsTaken /\ Scanned)'
      BY DEF PrintfInv, InFormat, ArgsTaken, Scanned
<1>3. CountKept'
  <2>1. StoredHonest'
        BY CountHonestParts, StoredKept DEF PrintfInv, CountKept
  <2>2. CountHonest'
        BY <2>1 DEF CountHonest, StoredHonest
  <2> QED BY <2>2 DEF CountKept
<1>4. Room'
      BY DEF PrintfInv, Room, FormatFits
<1> QED BY <1>1, <1>2, <1>3, <1>4 DEF PrintfInv

\* Text that is written.
LEMMA Text_Inv == ASSUME PrintfInv, Text PROVE PrintfInv'
<1>1. /\ format \in Formats /\ f \in 1..Len(format) /\ Len(format) \in Nat
      /\ format' = format /\ f' = f + 1 /\ at = "loop" /\ at' = "loop"
      BY FormatsAssumption DEF PrintfInv, PrintfTypeOK, InFormat, Text
<1>2. Cur.len \in Nat /\ LengthOf(Cur) = Cur.len /\ ArgsOf(Cur) = 0
      BY <1>1, Directive DEF Text, LengthOf, ArgsOf
<1>3. PrintfTypeOK'
      BY <1>1, <1>2 DEF PrintfInv, PrintfTypeOK, Text, scan
<1>4. InFormat'
      BY <1>1 DEF InFormat
<1>5. ArgsTaken'
  <2>1. arg' = arg /\ arg \in Nat /\ arg = ArgsBefore(f)
        BY <1>1 DEF PrintfInv, PrintfTypeOK, ArgsTaken, Text
  <2>2. ArgsBefore(f)' = ArgsBefore(f) + 0
        BY <1>1, <1>2, PlaceMoved
  <2>3. ArgsBefore(f)' = arg'
        BY <2>1, <2>2
  <2> QED BY <1>1, <2>3 DEF ArgsTaken
<1>6. Scanned'
      BY <1>1 DEF Scanned
<1>7. CountKept'
  <2>1. streamCount = sent /\ (AllAsInC => streamCount = LengthBefore(f))
        BY <1>1 DEF PrintfInv, CountKept
  <2>2. streamCount' = sent' /\ (AllAsInC' => streamCount' = LengthBefore(f)')
        BY <1>1, <1>2, <2>1, PlaceMoved DEF Text
  <2>3. StoredHonest'
        BY <1>1, CountHonestParts, StoredKept DEF PrintfInv, CountKept, Text
  <2>4. CountHonest'
        BY <1>1, <2>3 DEF CountHonest, StoredHonest
  <2> QED BY <1>1, <2>2, <2>4 DEF CountKept
<1>8. Room'
      BY <1>1 DEF PrintfInv, Room, FormatFits, Text, scan
<1> QED BY <1>3, <1>4, <1>5, <1>6, <1>7, <1>8 DEF PrintfInv

\* Text that is not written.
LEMMA Text_Fail_Inv == ASSUME PrintfInv, Text_Fail PROVE PrintfInv'
<1>1. format \in Formats /\ f \in 1..Len(format) /\ sent \in Nat
      BY FormatsAssumption DEF PrintfInv, PrintfTypeOK, InFormat, Text_Fail
<1>2. Cur.len \in Nat /\ Cur.len > 0
      BY <1>1, Directive DEF Text_Fail
<1>3. sent' \in Nat
      BY <1>1, <1>2 DEF Text_Fail
<1>4. arg' \in Nat /\ precision' \in Int
      BY DEF PrintfInv, PrintfTypeOK, Text_Fail, scan
<1> QED BY <1>3, <1>4, ErrorReturn_Inv DEF Text_Fail, scan

\* The beginning of a specifier.
LEMMA Percent_Inv == ASSUME PrintfInv, Percent PROVE PrintfInv'
<1>1. /\ format' = format /\ f' = f /\ at = "loop" /\ at' = "convert" /\ fastPath' = TRUE
      /\ f <= Len(format) /\ Cur.op # "text" /\ arg' = arg /\ streamCount' = streamCount /\ sent' = sent
      BY DEF Percent
<1>2. /\ Cur' = Cur /\ ArgsBefore(f)' = ArgsBefore(f) /\ LengthBefore(f)' = LengthBefore(f)
      /\ AllAsInC' <=> AllAsInC
      BY <1>1, PlaceKept
<1>3. PrintfTypeOK'
  <2>1. fmtLen' \in Nat /\ fmtLen' < 4
    <3>1. fmtLen' = IF Cur.size = "none" THEN 2 ELSE 3
          BY DEF Percent
    <3> QED BY <3>1
  <2>2. minWidth' = 0 /\ precision' = -1 /\ buffLen' = 100
        BY DEF Percent, PRINTF_BUFFLEN
  <2>3. /\ auxBuffLen' = auxBuffLen /\ buffCount' = buffCount /\ stored' = stored
        BY DEF Percent
  <2> QED BY <1>1, <2>1, <2>2, <2>3 DEF PrintfInv, PrintfTypeOK
<1>4. InFormat'
      BY <1>1, <1>2 DEF PrintfInv, InFormat
<1>5. ArgsTaken'
      BY <1>1, <1>2 DEF PrintfInv, ArgsTaken
<1>6. Scanned'
      BY <1>1 DEF Scanned, Percent
<1>7. CountKept'
  <2>1. StoredHonest'
        BY CountHonestParts, StoredKept DEF PrintfInv, CountKept, Percent
  <2>2. CountHonest'
        BY <1>1, <2>1 DEF CountHonest, StoredHonest
  <2> QED BY <1>1, <1>2, <2>2 DEF PrintfInv, CountKept
<1>8. Room'
  <2>1. fmtLen' \in Nat /\ fmtLen' < 4
    <3>1. fmtLen' = IF Cur.size = "none" THEN 2 ELSE 3
          BY DEF Percent
    <3> QED BY <3>1
  <2>2. buffLen' = PRINTF_BUFFLEN
        BY DEF Percent
  <2> QED BY <1>1, <2>1, <2>2 DEF Room, FormatFits, FMT_BUFFLEN
<1> QED BY <1>3, <1>4, <1>5, <1>6, <1>7, <1>8 DEF PrintfInv

\* The end of the format.
LEMMA NormalReturn_Inv == ASSUME PrintfInv, NormalReturn PROVE PrintfInv'
<1>1. /\ format' = format /\ f' = f /\ at = "loop" /\ at' = "return" /\ auxBuffLen' = 0
      /\ streamCount' = streamCount /\ sent' = sent /\ stored' = stored
      BY DEF NormalReturn
<1>2. f = Len(format) + 1
      BY FormatsAssumption DEF PrintfInv, PrintfTypeOK, InFormat, NormalReturn
<1>3. PrintfTypeOK'
      BY DEF PrintfInv, PrintfTypeOK, NormalReturn, scan
<1>4. InFormat' /\ ArgsTaken' /\ Scanned'
      BY <1>1 DEF PrintfInv, InFormat, ArgsTaken, Scanned
<1>5. CountKept'
  <2>1. StoredHonest'
        BY <1>1, CountHonestParts, StoredKept DEF PrintfInv, CountKept
  <2>2. streamCount' = sent' /\ (AllAsInC' => streamCount' = LengthBefore(Len(format) + 1))
        BY <1>1, <1>2, PlaceKept DEF PrintfInv, CountKept
  <2>3. LengthBefore(Len(format) + 1)' = LengthBefore(Len(format) + 1)
        BY <1>1 DEF LengthBefore
  <2>4. CountHonest'
        BY <1>1, <2>1, <2>2, <2>3 DEF CountHonest, StoredHonest
  <2> QED BY <1>1, <2>4 DEF CountKept
<1>6. Room'
      BY <1>1 DEF PrintfInv, Room, FormatFits, NormalReturn, scan
<1> QED BY <1>3, <1>4, <1>5, <1>6 DEF PrintfInv

\* The refusals.
LEMMA Refuse_Inv ==
    ASSUME PrintfInv, Slow_Refuse \/ Bound_Refuse \/ Convert_Refuse \/ Put_Fail \/ Put_Assert
    PROVE  PrintfInv'
<1>1. sent \in Nat /\ buffCount \in Nat /\ arg \in Nat /\ precision \in Int /\ auxBuffLen \in Nat
      BY DEF PrintfInv, PrintfTypeOK
<1>2. CASE Slow_Refuse
      BY <1>1, <1>2, ErrorReturn_Inv DEF Slow_Refuse, scan
<1>3. CASE Bound_Refuse
      BY <1>1, <1>3, ErrorReturn_Inv DEF Bound_Refuse, scan
<1>4. CASE Convert_Refuse
      BY <1>1, <1>4, ErrorReturn_Inv DEF Convert_Refuse, scan
<1>5. CASE Put_Fail
      BY <1>1, <1>5, ErrorReturn_Inv DEF Put_Fail, scan
<1>6. CASE Put_Assert
      BY <1>1, <1>6, Abort_Inv DEF Put_Assert, scan
<1> QED BY <1>2, <1>3, <1>4, <1>5, <1>6

\* The scan of a specifier on the slow path.
LEMMA Slow_Scan_Inv == ASSUME PrintfInv, Slow_Scan PROVE PrintfInv'
<1>1. /\ format \in Formats /\ f \in 1..Len(format) /\ Cur.op # "text" /\ ~fastPath
      /\ format' = format /\ f' = f /\ at = "slow" /\ at' = "bound"
      /\ fastPath' = fastPath /\ streamCount' = streamCount /\ sent' = sent /\ stored' = stored
  <2>1. /\ format' = format /\ f' = f /\ at = "slow" /\ at' = "bound"
        /\ fastPath' = fastPath /\ streamCount' = streamCount /\ sent' = sent /\ stored' = stored
        BY DEF Slow_Scan
  <2>2. format \in Formats /\ Len(format) \in Nat
        BY FormatsAssumption DEF PrintfInv, PrintfTypeOK
  <2>3. f \in 1..Len(format) /\ Cur.op # "text" /\ ~fastPath
        BY <2>1, <2>2 DEF PrintfInv, InFormat
  <2> QED BY <2>1, <2>2, <2>3
<1>2. /\ Cur' = Cur /\ ArgsBefore(f)' = ArgsBefore(f) /\ LengthBefore(f)' = LengthBefore(f)
      /\ Stars' = Stars /\ GivenPrecision' = GivenPrecision /\ (AllAsInC' <=> AllAsInC)
      BY <1>1, PlaceKept
<1>3. /\ Cur.flags \in Nat /\ Cur.width.v \in Int /\ Cur.prec.v \in Int
      /\ Cur.width.by \in {"none", "digits", "star"} /\ Cur.prec.by \in {"none", "digits", "star"}
      /\ Cur.width.by = "none" => Cur.width.v = 0
      /\ Cur.width.by = "digits" => Cur.width.v >= 0
      BY <1>1, Directive
<1>4. minWidth' = Cur.width.v /\ precision' = GivenPrecision /\ GivenPrecision \in Int
  <2>1. minWidth' = (IF Cur.width.by = "none" THEN 0 ELSE Cur.width.v) /\ precision' = GivenPrecision
        BY DEF Slow_Scan
  <2>2. GivenPrecision \in Int
        BY <1>3 DEF GivenPrecision, Max2
  <2> QED BY <1>3, <2>1, <2>2
<1>5. fmtLen' \in Nat /\ fmtLen' < FMT_BUFFLEN
  <2>1. PICK w \in Nat : w <= 7 /\ w = IF Cur.width.by = "none" THEN 0 ELSE Digits(Cur.width.v)
    <3>1. CASE Cur.width.by = "none"
          BY <3>1
    <3>2. CASE Cur.width.by # "none"
      <4>1. ABS(Cur.width.v) <= MaxNumber
        <5>1. ~TooLarge(Cur.width)
              BY DEF Slow_Scan
        <5> QED BY <1>3, <3>2, <5>1 DEF TooLarge, ABS, MaxNumber
      <4> QED BY <1>3, <3>2, <4>1, DigitsBound
    <3> QED BY <3>1, <3>2
  <2>2. PICK p \in Nat : p <= 7 /\ p = IF Cur.prec.by = "none" THEN 0 ELSE 1 + Digits(GivenPrecision)
    <3>1. CASE Cur.prec.by = "none"
          BY <3>1
    <3>2. CASE Cur.prec.by # "none"
      <4>1. GivenPrecision >= 0 /\ ABS(GivenPrecision) <= MaxNumber
        <5>1. ~(Cur.prec.v > 0 /\ TooLarge(Cur.prec))
              BY DEF Slow_Scan
        <5>2. GivenPrecision = Max2(Cur.prec.v, 0)
              BY <3>2 DEF GivenPrecision
        <5>3. CASE Cur.prec.v > 0
          <6>1. (IF Cur.prec.by = "star" THEN ABS(Cur.prec.v) ELSE Cur.prec.v) <= MaxNumber
                BY <1>3, <3>2, <5>1, <5>3 DEF TooLarge, ABS, MaxNumber
          <6>2. GivenPrecision = Cur.prec.v
                BY <1>3, <5>2, <5>3 DEF Max2
          <6> QED BY <1>3, <5>3, <6>1, <6>2 DEF ABS
        <5>4. CASE ~(Cur.prec.v > 0)
          <6>1. GivenPrecision = 0
                BY <1>3, <5>2, <5>4 DEF Max2
          <6> QED BY <6>1 DEF ABS, MaxNumber
        <5> QED BY <5>3, <5>4
      <4>2. Digits(GivenPrecision) \in Nat /\ Digits(GivenPrecision) <= 6
            BY <1>4, <4>1, DigitsBound
      <4> QED BY <3>2, <4>2
    <3> QED BY <3>1, <3>2
  <2>3. PICK z \in Nat : z <= 1 /\ z = IF Cur.size = "none" THEN 0 ELSE 1
        OBVIOUS
  <2>4. fmtLen' = 1 + Cur.flags + w + p + z + 1 /\ Cur.flags <= 5
    <3>1. /\ fmtLen' = 1 + Cur.flags + (IF Cur.width.by = "none" THEN 0 ELSE Digits(Cur.width.v))
                         + (IF Cur.prec.by = "none" THEN 0 ELSE 1 + Digits(GivenPrecision))
                         + (IF Cur.size = "none" THEN 0 ELSE 1) + 1
          /\ Cur.flags <= 5
          BY DEF Slow_Scan
    <3>2. fmtLen' = 1 + Cur.flags + w + p + z + 1
          BY <2>1, <2>2, <2>3, <3>1, Zenon
    <3> QED BY <3>1, <3>2
  <2> QED BY <1>3, <2>1, <2>2, <2>3, <2>4 DEF FMT_BUFFLEN
<1>6. arg' = ArgsBefore(f) + Stars /\ arg' \in Nat
  <2>1. arg = ArgsBefore(f) /\ arg \in Nat
        BY <1>1 DEF PrintfInv, PrintfTypeOK, ArgsTaken
  <2> QED BY <2>1 DEF Slow_Scan, Stars
<1>7. PrintfTypeOK'
      BY <1>3, <1>4, <1>5, <1>6 DEF PrintfInv, PrintfTypeOK, Slow_Scan
<1>8. InFormat' /\ ArgsTaken' /\ Scanned'
      BY <1>1, <1>2, <1>4, <1>6 DEF PrintfInv, InFormat, ArgsTaken, Scanned
<1>9. CountKept'
  <2>1. StoredHonest'
        BY <1>1, CountHonestParts, StoredKept DEF PrintfInv, CountKept
  <2>2. CountHonest'
        BY <1>1, <2>1 DEF CountHonest, StoredHonest
  <2> QED BY <1>1, <1>2, <2>2 DEF PrintfInv, CountKept
<1>10. Room'
      BY <1>1, <1>5 DEF Room, FormatFits
<1> QED BY <1>7, <1>8, <1>9, <1>10 DEF PrintfInv

\* The bound is a number.
LEMMA BoundNat ==
    ASSUME format \in Formats, f \in 1..Len(format), NEW p \in Int, p >= -1,
           Cur.op \in {"d", "u", "c", "p", "s", "f", "e"}
    PROVE  ConversionBound(p) \in Int
<1>1. Cur.len \in Nat /\ DoubleExponent \in Nat
      BY Directive DEF DoubleExponent
<1>2. PICK t \in Int : t = DoubleExponent \div 3
      BY <1>1, Exponents
<1>3. ConversionBound(p) = IF Cur.op \in {"d", "u", "c", "p"} THEN Max2(p, LongestInteger)
                           ELSE IF Cur.op = "s" THEN IF p = -1 THEN Cur.len ELSE Min2(p, Cur.len)
                           ELSE IF Cur.op = "f" THEN p + 3 + t ELSE p + 8
      BY <1>2 DEF ConversionBound
<1> QED BY <1>1, <1>3 DEF Max2, Min2, LongestInteger

\* The operations the slow path goes on with.
LEMMA SlowOps ==
    ASSUME format \in Formats, f \in 1..Len(format), Cur.op # "text", Cur.op \notin {"n", "%", "bad", "end"}
    PROVE  Cur.op \in {"d", "u", "c", "p", "s", "f", "e"}
BY Directive DEF Ops

\* The precision of a specifier.
LEMMA GivenPrecisionInt ==
    ASSUME format \in Formats, f \in 1..Len(format)
    PROVE  GivenPrecision \in Int /\ GivenPrecision >= -1
BY Directive DEF GivenPrecision, Max2

\* The buffer is chosen.
LEMMA Bound_Inv == ASSUME PrintfInv, Bound PROVE PrintfInv'
<1>1. /\ format' = format /\ f' = f /\ at = "bound" /\ at' = "convert" /\ minWidth' = minWidth
      /\ fastPath' = fastPath /\ streamCount' = streamCount /\ sent' = sent /\ stored' = stored
      /\ fmtLen' = fmtLen /\ buffCount' = buffCount /\ Cur.op \notin {"n", "%", "bad", "end"}
      /\ arg' = (IF Cur.op \in {"s", "f"} THEN arg + 1 ELSE arg) /\ precision' = DefaultPrecision
      BY DEF Bound, Bounded
<1>2. /\ format \in Formats /\ f \in 1..Len(format) /\ Cur.op # "text" /\ ~fastPath
  <2>1. format \in Formats /\ Len(format) \in Nat
        BY FormatsAssumption DEF PrintfInv, PrintfTypeOK
  <2> QED BY <1>1, <2>1 DEF PrintfInv, InFormat
<1>3. /\ Cur' = Cur /\ ArgsBefore(f)' = ArgsBefore(f) /\ LengthBefore(f)' = LengthBefore(f)
      /\ Stars' = Stars /\ GivenPrecision' = GivenPrecision /\ (AllAsInC' <=> AllAsInC)
      BY <1>1, PlaceKept
<1>4. Cur.op \in {"d", "u", "c", "p", "s", "f", "e"}
      BY <1>1, <1>2, SlowOps
<1>5. /\ arg = ArgsBefore(f) + Stars /\ arg \in Nat /\ minWidth = Cur.width.v /\ minWidth \in Int
      /\ precision = GivenPrecision
      BY <1>1 DEF PrintfInv, PrintfTypeOK, ArgsTaken, Scanned
<1>6. /\ DefaultPrecision = IF Cur.op \in {"f", "e"} /\ GivenPrecision = -1 THEN 6 ELSE GivenPrecision
      /\ DefaultPrecision \in Int /\ DefaultPrecision >= -1
      BY <1>2, <1>5, GivenPrecisionInt DEF DefaultPrecision
<1>7. arg' = ArgsBefore(f) + Stars + (IF Cur.op \in {"s", "f"} THEN 1 ELSE 0) /\ arg' \in Nat
      BY <1>1, <1>5
<1>8. PICK b \in Int : b = ConversionBound(DefaultPrecision)
      BY <1>2, <1>4, <1>6, BoundNat
<1>9. /\ auxBuffLen' \in Nat /\ buffLen' \in Nat
      /\ buffLen' >= PRINTF_BUFFLEN /\ buffLen' >= b + 10 /\ buffLen' >= minWidth
  <2>1. PICK r \in Int : r = buffReqd /\ r >= b + 10 /\ r >= minWidth
        BY <1>5, <1>8 DEF Max2, buffReqd
  <2>2. /\ auxBuffLen' = IF r <= PRINTF_BUFFLEN THEN auxBuffLen ELSE Max2(auxBuffLen, r)
        /\ buffLen' = IF r <= PRINTF_BUFFLEN THEN PRINTF_BUFFLEN ELSE auxBuffLen'
        BY <2>1 DEF Bound
  <2>3. auxBuffLen \in Nat
        BY DEF PrintfInv, PrintfTypeOK
  <2> QED BY <1>5, <2>1, <2>2, <2>3 DEF Max2, PRINTF_BUFFLEN
<1>10. ConversionBound(precision)' = ConversionBound(DefaultPrecision)
      BY <1>1, <1>3 DEF ConversionBound, DoubleExponent, BeyondDouble
<1>11. PrintfTypeOK'
      BY <1>1, <1>6, <1>7, <1>9 DEF PrintfInv, PrintfTypeOK
<1>12. InFormat' /\ ArgsTaken' /\ Scanned'
      BY <1>1, <1>2, <1>3, <1>5, <1>6, <1>7 DEF PrintfInv, InFormat, ArgsTaken, Scanned
<1>13. CountKept'
  <2>1. StoredHonest'
        BY <1>1, CountHonestParts, StoredKept DEF PrintfInv, CountKept
  <2>2. CountHonest'
        BY <1>1, <2>1 DEF CountHonest, StoredHonest
  <2> QED BY <1>1, <1>3, <2>2 DEF PrintfInv, CountKept
<1>14. Room'
      BY <1>1, <1>2, <1>8, <1>9, <1>10 DEF PrintfInv, Room, FormatFits
<1> QED BY <1>11, <1>12, <1>13, <1>14 DEF PrintfInv

\* There is no memory for it.
LEMMA Bound_NoMemory_Inv == ASSUME PrintfInv, Bound_NoMemory PROVE PrintfInv'
<1>1. /\ at = "bound" /\ sent' = sent /\ arg' = (IF Cur.op \in {"s", "f"} THEN arg + 1 ELSE arg)
      /\ precision' = DefaultPrecision
      /\ UNCHANGED <<format, f, fastPath, minWidth, fmtLen, buffLen, buffCount, stored>>
      /\ ErrorReturn \/ (at' = "abort" /\ auxBuffLen' = 0 /\ streamCount' = streamCount)
      BY DEF Bound_NoMemory, Bounded
<1>2. arg \in Nat /\ precision \in Int /\ sent \in Nat
      BY DEF PrintfInv, PrintfTypeOK
<1>3. arg' \in Nat /\ precision' \in Int /\ sent' \in Nat
      BY <1>1, <1>2 DEF DefaultPrecision
<1> QED BY <1>1, <1>3, ErrorReturn_Inv, Abort_Inv

\* The fast path gives up.
LEMMA Convert_Again_Inv == ASSUME PrintfInv, Convert_Again PROVE PrintfInv'
<1>1. /\ format' = format /\ f' = f /\ at = "convert" /\ at' = "slow" /\ fastPath = TRUE /\ fastPath' = FALSE
      /\ streamCount' = streamCount /\ sent' = sent /\ stored' = stored /\ arg' = arg
      /\ UNCHANGED <<scan, buffLen, auxBuffLen, buffCount>>
  <2>1. fastPath \in BOOLEAN
        BY DEF PrintfInv, PrintfTypeOK
  <2> QED BY <2>1 DEF Convert_Again
<1>2. /\ Cur' = Cur /\ ArgsBefore(f)' = ArgsBefore(f) /\ LengthBefore(f)' = LengthBefore(f)
      /\ AllAsInC' <=> AllAsInC
      BY <1>1, PlaceKept
<1>3. PrintfTypeOK'
      BY <1>1 DEF PrintfInv, PrintfTypeOK, scan
<1>4. InFormat' /\ ArgsTaken' /\ Scanned'
      BY <1>1, <1>2 DEF PrintfInv, InFormat, ArgsTaken, Scanned
<1>5. CountKept'
  <2>1. StoredHonest'
        BY <1>1, CountHonestParts, StoredKept DEF PrintfInv, CountKept
  <2>2. CountHonest'
        BY <1>1, <2>1 DEF CountHonest, StoredHonest
  <2> QED BY <1>1, <1>2, <2>2 DEF PrintfInv, CountKept
<1>6. Room'
      BY <1>1 DEF PrintfInv, Room, FormatFits, scan
<1> QED BY <1>3, <1>4, <1>5, <1>6 DEF PrintfInv

\* %n.
LEMMA Convert_Count_Inv == ASSUME PrintfInv, Convert_Count PROVE PrintfInv'
<1>1. /\ format' = format /\ f' = f /\ at = "convert" /\ at' = "put" /\ fastPath' = fastPath
      /\ streamCount' = streamCount /\ sent' = sent /\ stored' = streamCount /\ arg' = arg + 1
      /\ buffCount' = 0 /\ Cur.op = "n" /\ UNCHANGED <<scan, buffLen, auxBuffLen>>
      BY DEF Convert_Count
<1>2. /\ Cur' = Cur /\ ArgsBefore(f)' = ArgsBefore(f) /\ LengthBefore(f)' = LengthBefore(f)
      /\ LengthOf(Cur)' = LengthOf(Cur) /\ ArgsOf(Cur)' = ArgsOf(Cur)
      /\ AllAsInC' <=> AllAsInC
      BY <1>1, PlaceKept
<1>3. /\ format \in Formats /\ f \in 1..Len(format) /\ fastPath
  <2>1. format \in Formats /\ Len(format) \in Nat /\ fastPath \in BOOLEAN
        BY FormatsAssumption DEF PrintfInv, PrintfTypeOK
  <2> QED BY <1>1, <2>1 DEF PrintfInv, InFormat
<1>4. Simple
      BY <1>3 DEF Convert_Count, Performs
<1>5. ArgsOf(Cur) = 1 /\ LengthOf(Cur) = 0
      BY <1>1, <1>4 DEF Simple, ArgsOf, LengthOf
<1>6. arg = ArgsBefore(f) /\ arg \in Nat /\ buffLen = PRINTF_BUFFLEN
      /\ (AllAsInC => streamCount = LengthBefore(f)) /\ minWidth = 0
      BY <1>1, <1>3 DEF PrintfInv, PrintfTypeOK, ArgsTaken, CountKept, Room, Scanned
<1>7. PrintfTypeOK'
      BY <1>1, <1>6 DEF PrintfInv, PrintfTypeOK, scan
<1>8. InFormat' /\ ArgsTaken' /\ Scanned'
      BY <1>1, <1>2, <1>3, <1>5, <1>6 DEF PrintfInv, InFormat, ArgsTaken, Scanned
<1>9. CountKept'
  <2>2. StoredHonest'
    <3> SUFFICES ASSUME AllAsInC
                 PROVE  \E k \in 1..Len(format)' : format'[k].op = "n" /\ stored' = LengthBefore(k)'
        BY <1>2 DEF StoredHonest
    <3>1. format[f].op = "n" /\ stored' = LengthBefore(f)
          BY <1>1, <1>6 DEF Cur
    <3>2. \E k \in 1..Len(format) : format[k].op = "n" /\ stored' = LengthBefore(k)
          BY <1>3, <3>1
    <3> QED BY <1>1, <3>2 DEF LengthBefore
  <2>3. CountHonest'
        BY <1>1, <2>2 DEF CountHonest, StoredHonest
  <2> QED BY <1>1, <1>2, <1>5, <2>3 DEF PrintfInv, CountKept
<1>10. Room'
  <2>1. Wrote' = 0 /\ minWidth' = 0 /\ buffLen' = 100 /\ fmtLen' = fmtLen
        BY <1>1, <1>2, <1>6 DEF Wrote, scan, PRINTF_BUFFLEN
  <2>2. FormatFits'
        BY <1>1, <2>1 DEF PrintfInv, Room, FormatFits
  <2> QED BY <1>1, <2>2 DEF Room
<1> QED BY <1>7, <1>8, <1>9, <1>10 DEF PrintfInv

\* The characters have been written.
LEMMA Put_Inv == ASSUME PrintfInv, Put PROVE PrintfInv'
<1>1. /\ format' = format /\ f' = f + 1 /\ at = "put" /\ at' = "loop"
      /\ streamCount' = streamCount + buffCount /\ sent' = sent + buffCount /\ stored' = stored
      /\ arg' = arg /\ UNCHANGED <<fastPath, scan, buffLen, auxBuffLen, buffCount>>
      BY DEF Put
<1>2. format \in Formats /\ f \in 1..Len(format) /\ Len(format) \in Nat
  <2>1. format \in Formats /\ Len(format) \in Nat
        BY FormatsAssumption DEF PrintfInv, PrintfTypeOK
  <2> QED BY <1>1, <2>1 DEF PrintfInv, InFormat
<1>3. /\ arg = ArgsBefore(f) + ArgsOf(Cur) /\ streamCount = sent
      /\ AllAsInC => buffCount = LengthOf(Cur) /\ streamCount = LengthBefore(f)
      BY <1>1 DEF PrintfInv, ArgsTaken, CountKept
<1>4. /\ arg' = ArgsBefore(f)' /\ streamCount' = sent'
      /\ AllAsInC' => streamCount' = LengthBefore(f)'
      BY <1>1, <1>2, <1>3, PlaceMoved
<1>5. PrintfTypeOK'
      BY <1>1, <1>2 DEF PrintfInv, PrintfTypeOK, scan
<1>6. InFormat' /\ ArgsTaken' /\ Scanned'
      BY <1>1, <1>2, <1>4 DEF InFormat, ArgsTaken, Scanned
<1>7. CountKept'
  <2>1. StoredHonest'
        BY <1>1, CountHonestParts, StoredKept DEF PrintfInv, CountKept
  <2>2. CountHonest'
        BY <1>1, <2>1 DEF CountHonest, StoredHonest
  <2> QED BY <1>1, <1>4, <2>2 DEF CountKept
<1>8. Room'
      BY <1>1 DEF PrintfInv, Room, FormatFits, scan
<1> QED BY <1>5, <1>6, <1>7, <1>8 DEF PrintfInv

\* What sprintf writes on the fast path: what the directive calls for, and no more than
\* there is room for.
LEMMA FastConversion ==
    ASSUME format \in Formats, f \in 1..Len(format), Simple,
           Cur.op \in {"d", "u", "c", "s", "p", "e"}
    PROVE  /\ Natural(-1) \in Nat /\ LengthOf(Cur) = Natural(-1)
           /\ Cur.op = "s" => Natural(-1) = Cur.len
           /\ Cur.op # "s" => Natural(-1) < PRINTF_BUFFLEN
           /\ Cur.op = "c" => Natural(-1) = 1
<1>1. /\ Cur.len \in Nat
      /\ Cur.op \in {"d", "u", "c", "p"} => Cur.len <= LongestInteger
      BY Directive
<1>2. Natural(-1) = IF Cur.op \in {"d", "u"} THEN Max2(Cur.len, (-1) + 2)
                    ELSE IF Cur.op = "c" THEN 1
                    ELSE IF Cur.op = "e" THEN 6 + 8
                    ELSE Cur.len
      BY DEF Natural
<1>3. Natural(-1) \in Nat
      BY <1>1, <1>2 DEF Max2
<1>4. /\ Cur.op = "s" => Natural(-1) = Cur.len
      /\ Cur.op # "s" => Natural(-1) < PRINTF_BUFFLEN
      BY <1>1, <1>2 DEF Max2, LongestInteger, PRINTF_BUFFLEN
<1>5. LengthOf(Cur) = Max2(ABS(0), Natural(-1))
  <2>1. Cur.width.by = "none" /\ Cur.prec.by = "none"
        BY DEF Simple
  <2>2. LengthOf(Cur) = Max2(ABS(0), IF Cur.op \in {"d", "u"} THEN Max2(Cur.len, (-1) + 2)
                                     ELSE IF Cur.op = "c" THEN 1
                                     ELSE IF Cur.op = "e" THEN 8 + 6
                                     ELSE Cur.len)
        BY <2>1 DEF LengthOf
  <2> QED BY <1>2, <2>2
<1>6. LengthOf(Cur) = Natural(-1)
  <2>1. PICK n \in Nat : n = Natural(-1)
        BY <1>3
  <2>2. Max2(ABS(0), n) = n
        BY DEF Max2, ABS
  <2> QED BY <1>5, <2>1, <2>2
<1>7. Cur.op = "c" => Natural(-1) = 1
      BY <1>2
<1> QED BY <1>3, <1>4, <1>6, <1>7

\* What sprintf writes on the slow path: what the directive calls for, and no more than
\* has been estimated.
LEMMA SlowConversion ==
    ASSUME format \in Formats, f \in 1..Len(format), NEW p,
           p = IF Cur.op \in {"f", "e"} /\ GivenPrecision = -1 THEN 6 ELSE GivenPrecision,
           Cur.op \in {"d", "u", "c", "p", "s", "f", "e"}
    PROVE  /\ Natural(p) \in Int /\ ConversionBound(p) \in Int
           /\ AsInC(Cur) => LengthOf(Cur) = Max2(ABS(Cur.width.v), Natural(p))
           /\ ~BeyondDouble => Natural(p) < ConversionBound(p) + 10
           /\ Cur.op = "c" => Natural(p) = 1
<1>1. /\ Cur.len \in Nat /\ Cur.width.v \in Int /\ (Cur.width.by = "none" => Cur.width.v = 0)
      /\ Cur.op \in {"d", "u", "c", "p"} => Cur.len <= LongestInteger
      /\ Cur.prec.v \in Int /\ Cur.prec.by \in {"none", "digits", "star"}
      /\ Cur.prec.by = "digits" => Cur.prec.v >= 0
      BY Directive
<1>2. GivenPrecision \in Int /\ GivenPrecision >= -1
      BY GivenPrecisionInt
<1>3. p \in Int /\ p >= -1 /\ (Cur.op \in {"f", "e"} => p >= 0)
      BY <1>2
<1>4. PICK i \in Nat, t \in Nat : /\ i = IntegralDigits(Cur.len) /\ t = DoubleExponent \div 3
                                  /\ ~BeyondDouble => i <= t + 1
  <2>1. DoubleExponent \in Nat /\ (~BeyondDouble => DoubleExponent = Cur.len)
        BY <1>1 DEF DoubleExponent
  <2> QED BY <1>1, <2>1, Exponents
<1>5. Natural(p) = IF Cur.op \in {"d", "u"} THEN Max2(Cur.len, p + 2)
                   ELSE IF Cur.op = "c" THEN 1
                   ELSE IF Cur.op = "p" THEN Cur.len
                   ELSE IF Cur.op = "s" THEN IF p = -1 THEN Cur.len ELSE Min2(p, Cur.len)
                   ELSE IF Cur.op = "f" THEN 1 + i + 1 + p
                   ELSE p + 8
      BY <1>3, <1>4 DEF Natural
<1>6. ConversionBound(p) = IF Cur.op \in {"d", "u", "c", "p"} THEN Max2(p, LongestInteger)
                           ELSE IF Cur.op = "s" THEN IF p = -1 THEN Cur.len ELSE Min2(p, Cur.len)
                           ELSE IF Cur.op = "f" THEN p + 3 + t ELSE p + 8
      BY <1>4 DEF ConversionBound
<1>7. /\ Natural(p) \in Int /\ ConversionBound(p) \in Int
      /\ ~BeyondDouble => Natural(p) < ConversionBound(p) + 10
  <2>1. CASE Cur.op \in {"d", "u", "c", "p"}
    <3>1. PICK b \in Int : b = Max2(p, LongestInteger) /\ b >= p /\ b >= LongestInteger
          BY <1>3 DEF Max2, LongestInteger
    <3>2. ConversionBound(p) = b
          BY <1>6, <2>1, <3>1
    <3>3. Natural(p) \in Int /\ (Natural(p) <= LongestInteger \/ Natural(p) = p + 2)
          BY <1>1, <1>3, <1>5, <2>1 DEF Max2, LongestInteger
    <3> QED BY <1>3, <3>1, <3>2, <3>3 DEF LongestInteger
  <2>2. CASE Cur.op = "s"
    <3>1. PICK b \in Int : b = IF p = -1 THEN Cur.len ELSE Min2(p, Cur.len)
          BY <1>1, <1>3 DEF Min2
    <3>2. ConversionBound(p) = b /\ Natural(p) = b
          BY <1>5, <1>6, <2>2, <3>1
    <3> QED BY <3>1, <3>2
  <2>3. CASE Cur.op = "f"
    <3>1. ConversionBound(p) = p + 3 + t
          BY <1>6, <2>3
    <3>2. Natural(p) = 1 + i + 1 + p
          BY <1>5, <2>3
    <3>3. ~BeyondDouble => i <= t + 1
          BY <1>4
    <3>4. p \in Int
          BY <1>3
    <3>5. /\ 1 + i + 1 + p \in Int /\ p + 3 + t \in Int
          /\ i <= t + 1 => 1 + i + 1 + p < p + 3 + t + 10
          BY <3>4
    <3> QED BY <3>1, <3>2, <3>3, <3>5
  <2>4. CASE Cur.op = "e"
    <3>1. ConversionBound(p) = p + 8 /\ Natural(p) = p + 8
          BY <1>5, <1>6, <2>4
    <3> QED BY <1>3, <3>1
  <2> QED BY <2>1, <2>2, <2>3, <2>4
<1>8. ASSUME AsInC(Cur) PROVE LengthOf(Cur) = Max2(ABS(Cur.width.v), Natural(p))
  <2> DEFINE w == IF Cur.width.by = "none" THEN 0 ELSE Cur.width.v
             g == IF Cur.prec.by = "none" \/ Cur.prec.v < 0 THEN -1 ELSE Cur.prec.v
  <2>1. g = GivenPrecision
    <3>1. Cur.prec.by = "none" \/ Cur.prec.v >= 0
          BY <1>1, <1>8 DEF AsInC
    <3> QED BY <1>1, <3>1 DEF GivenPrecision, Max2
  <2>2. w = Cur.width.v
        BY <1>1
  <2>3. LengthOf(Cur) = Max2(ABS(w), IF Cur.op \in {"d", "u"} THEN Max2(Cur.len, g + 2)
                                     ELSE IF Cur.op = "c" THEN 1
                                     ELSE IF Cur.op = "p" THEN Cur.len
                                     ELSE IF Cur.op = "s" THEN IF g = -1 THEN Cur.len ELSE Min2(g, Cur.len)
                                     ELSE IF Cur.op = "f"
                                          THEN 2 + IntegralDigits(Cur.len) + (IF g = -1 THEN 6 ELSE g)
                                     ELSE 8 + (IF g = -1 THEN 6 ELSE g))
        BY DEF LengthOf
  <2> HIDE DEF w, g
  <2>4. (IF Cur.op \in {"d", "u"} THEN Max2(Cur.len, g + 2)
         ELSE IF Cur.op = "c" THEN 1
         ELSE IF Cur.op = "p" THEN Cur.len
         ELSE IF Cur.op = "s" THEN IF g = -1 THEN Cur.len ELSE Min2(g, Cur.len)
         ELSE IF Cur.op = "f" THEN 2 + IntegralDigits(Cur.len) + (IF g = -1 THEN 6 ELSE g)
         ELSE 8 + (IF g = -1 THEN 6 ELSE g)) = Natural(p)
        BY <1>1, <1>2, <1>4, <1>5, <2>1
  <2> QED BY <2>2, <2>3, <2>4
<1>9. Cur.op = "c" => Natural(p) = 1
      BY DEF Natural
<1> QED BY <1>7, <1>8, <1>9

\* The operations that are performed.
LEMMA PerformedOps ==
    ASSUME format \in Formats, f \in 1..Len(format), Cur.op # "text", Cur.op # "n",
           Cur.size \in SizesOf(Cur.op)
    PROVE  Cur.op \in {"d", "u", "c", "s", "p", "f", "e", "%"}
BY Directive DEF Ops, SizesOf

\* A conversion.
LEMMA Convert_Inv == ASSUME PrintfInv, Convert PROVE PrintfInv'
<1>1. /\ format' = format /\ f' = f /\ at = "convert" /\ at' = "put" /\ fastPath' = fastPath
      /\ streamCount' = streamCount /\ sent' = sent /\ stored' = stored /\ Cur.op # "n"
      /\ minWidth' = minWidth /\ precision' = precision /\ fmtLen' = fmtLen /\ auxBuffLen' = auxBuffLen
      /\ Performs /\ Cur.size \in SizesOf(Cur.op)
      BY DEF Convert, scan
<1>2. /\ arg' = IF Cur.op = "%" \/ (Cur.op \in {"s", "f"} /\ ~fastPath) THEN arg ELSE arg + 1
      /\ buffCount' \in Strlen(Wrote)
      /\ buffLen' = IF Cur.op = "s" /\ fastPath THEN Cur.len + 1 ELSE buffLen
      BY DEF Convert
<1>3. /\ format \in Formats /\ f \in 1..Len(format) /\ fastPath \in BOOLEAN /\ Cur.op # "text"
      /\ ~fastPath => Cur.op \notin {"n", "%", "bad", "end"}
      /\ arg \in Nat /\ minWidth \in Int /\ precision \in Int /\ buffLen \in Nat
  <2>1. /\ format \in Formats /\ Len(format) \in Nat /\ fastPath \in BOOLEAN
        /\ arg \in Nat /\ minWidth \in Int /\ precision \in Int /\ buffLen \in Nat
        BY FormatsAssumption DEF PrintfInv, PrintfTypeOK
  <2> QED BY <1>1, <2>1 DEF PrintfInv, InFormat
<1>4. /\ Cur' = Cur /\ ArgsBefore(f)' = ArgsBefore(f) /\ LengthBefore(f)' = LengthBefore(f)
      /\ LengthOf(Cur)' = LengthOf(Cur) /\ ArgsOf(Cur)' = ArgsOf(Cur)
      /\ AllAsInC' <=> AllAsInC
      BY <1>1, PlaceKept
<1>5. Cur.op \in {"d", "u", "c", "s", "p", "f", "e", "%"} /\ Cur.len \in Nat
      BY <1>1, <1>3, PerformedOps, Directive
<1> DEFINE Fits(n) == ~BeyondDouble => /\ ABS(minWidth) < PRINTF_BUFFLEN => n < buffLen'
                                       /\ minWidth >= 0 => n <= buffLen'
                                       /\ n >= buffLen' => n = ABS(minWidth)
<1>6. /\ arg' = ArgsBefore(f) + ArgsOf(Cur) /\ buffLen' \in Nat
      /\ \E n \in Nat : /\ n = Wrote /\ Fits(n)
                        /\ AsInC(Cur) => n = LengthOf(Cur)
                        /\ Cur.op = "c" => n >= 1
  <2>1. CASE fastPath
    <3>1. /\ arg = ArgsBefore(f) /\ minWidth = 0 /\ precision = -1 /\ buffLen = PRINTF_BUFFLEN
          BY <1>1, <2>1 DEF PrintfInv, ArgsTaken, Scanned, Room
    <3>2. Simple /\ Cur.op # "f"
          BY <1>1, <2>1 DEF Performs
    <3>3. ArgsOf(Cur) = IF Cur.op = "%" THEN 0 ELSE 1
          BY <1>5, <3>2 DEF Simple, ArgsOf
    <3>4. arg' = ArgsBefore(f) + ArgsOf(Cur)
          BY <1>2, <1>3, <2>1, <3>1, <3>2, <3>3
    <3>5. CASE Cur.op = "%"
      <4>1. LengthOf(Cur) = 1
            BY <3>5 DEF LengthOf
      <4>2. Wrote = 1 /\ buffLen' = 100
            BY <1>2, <3>1, <3>5 DEF PRINTF_BUFFLEN, Wrote
      <4>3. Fits(1)
            BY <4>2
      <4> QED BY <3>4, <3>5, <4>1, <4>2, <4>3
    <3>6. CASE Cur.op # "%"
      <4>1. PICK n \in Nat : /\ n = Natural(-1) /\ LengthOf(Cur) = n
                             /\ (Cur.op = "s" => n = Cur.len) /\ (Cur.op # "s" => n < 100)
                             /\ (Cur.op = "c" => n = 1)
            BY <1>3, <1>5, <3>2, <3>6, FastConversion DEF PRINTF_BUFFLEN
      <4>2. Wrote = Max2(ABS(0), n)
            BY <1>1, <3>1, <3>6, <4>1 DEF Wrote
      <4>3. Wrote = n
            BY <4>2 DEF Max2, ABS
      <4>4. buffLen' = IF Cur.op = "s" THEN Cur.len + 1 ELSE 100
            BY <1>2, <2>1, <3>1 DEF PRINTF_BUFFLEN
      <4>5. buffLen' \in Nat /\ n < buffLen'
            BY <1>5, <4>1, <4>4
      <4>6. Fits(n)
            BY <4>5
      <4> HIDE DEF Fits
      <4> QED BY <3>4, <4>1, <4>3, <4>5, <4>6
    <3> QED BY <3>5, <3>6
  <2>2. CASE ~fastPath
    <3>1. /\ Cur.op \in {"d", "u", "c", "p", "s", "f", "e"}
          BY <1>3, <2>2, SlowOps
    <3>2. /\ arg = ArgsBefore(f) + Stars + (IF Cur.op \in {"s", "f"} THEN 1 ELSE 0)
          /\ minWidth = Cur.width.v
          /\ precision = (IF Cur.op \in {"f", "e"} /\ GivenPrecision = -1 THEN 6 ELSE GivenPrecision)
          /\ buffLen >= PRINTF_BUFFLEN /\ buffLen >= ConversionBound(precision) + 10
          /\ buffLen >= minWidth
          BY <1>1, <2>2 DEF PrintfInv, ArgsTaken, Scanned, Room
    <3>3. ArgsOf(Cur) = Stars + 1
          BY <3>1 DEF ArgsOf, Stars
    <3>4. arg' = ArgsBefore(f) + ArgsOf(Cur)
      <4>0. PICK a \in Nat, b \in Nat : a = ArgsBefore(f) /\ b = Stars
        <5>1. f \in 1..(Len(format) + 1)
              BY DEF PrintfInv, InFormat
        <5> QED BY <1>3, <5>1, ArgsBeforeNat, DirectiveSizes
      <4>1. CASE Cur.op \in {"s", "f"}
        <5>1. arg' = arg /\ arg = ArgsBefore(f) + Stars + 1
              BY <1>2, <2>2, <3>2, <4>1
        <5> QED BY <3>3, <4>0, <5>1
      <4>2. CASE Cur.op \notin {"s", "f"}
        <5>1. arg' = arg + 1 /\ arg = ArgsBefore(f) + Stars + 0
              BY <1>2, <3>1, <3>2, <4>2
        <5> QED BY <3>3, <4>0, <5>1
      <4> QED BY <4>1, <4>2
    <3>5. /\ Natural(precision) \in Int /\ ConversionBound(precision) \in Int
          /\ AsInC(Cur) => LengthOf(Cur) = Max2(ABS(Cur.width.v), Natural(precision))
          /\ ~BeyondDouble => Natural(precision) < ConversionBound(precision) + 10
          /\ Cur.op = "c" => Natural(precision) = 1
          BY <1>3, <3>1, <3>2, SlowConversion
    <3>6. buffLen' = buffLen
          BY <1>2, <2>2
    <3>7. PICK n \in Int : n = Natural(precision)
          BY <3>5
    <3>8. PICK a \in Nat : a = ABS(minWidth) /\ (minWidth >= 0 => a = minWidth)
          BY <1>3 DEF ABS
    <3>9. PICK m \in Nat : m = Max2(a, n) /\ m >= n /\ m >= a /\ (m = n \/ m = a)
          BY DEF Max2
    <3>10. Wrote = m
          BY <1>1, <3>1, <3>7, <3>8, <3>9 DEF Wrote
    <3>11. AsInC(Cur) => m = LengthOf(Cur)
          BY <3>2, <3>5, <3>7, <3>8, <3>9
    <3>12. Cur.op = "c" => m >= 1
          BY <3>5, <3>7, <3>9
    <3>13. Fits(m)
      <4> SUFFICES ASSUME ~BeyondDouble
                   PROVE  /\ a < PRINTF_BUFFLEN => m < buffLen
                          /\ minWidth >= 0 => m <= buffLen
                          /\ m >= buffLen => m = a
          BY <3>6, <3>8
      <4>1. n < buffLen
        <5>1. PICK c \in Int : c = ConversionBound(precision)
              BY <3>5
        <5>2. n < c + 10 /\ buffLen >= c + 10
              BY <3>2, <3>5, <3>7, <5>1
        <5> QED BY <1>3, <5>2
      <4>2. buffLen >= 100 /\ buffLen >= minWidth /\ PRINTF_BUFFLEN = 100
            BY <3>2 DEF PRINTF_BUFFLEN
      <4> QED BY <1>3, <3>8, <3>9, <4>1, <4>2
    <3> HIDE DEF Fits
    <3> QED BY <1>3, <3>4, <3>6, <3>10, <3>11, <3>12, <3>13
  <2> HIDE DEF Fits
  <2> QED BY <1>3, <2>1, <2>2
<1>7. buffCount' \in Nat /\ (AllAsInC => buffCount' = LengthOf(Cur))
  <2> HIDE DEF Fits
  <2>1. PICK n \in Nat : /\ n = Wrote /\ (AsInC(Cur) => n = LengthOf(Cur))
                         /\ (Cur.op = "c" => n >= 1)
        BY <1>6
  <2>2. AllAsInC => AsInC(Cur)
        BY <1>3 DEF AllAsInC, Cur
  <2>3. CASE Cur.op = "c" /\ Cur.len = 0
    <3>1. buffCount' = 0 \/ buffCount' = n - 1
          BY <1>2, <2>1, <2>3 DEF Strlen
    <3>2. ~AsInC(Cur)
          BY <2>3 DEF AsInC
    <3> QED BY <2>1, <2>2, <2>3, <3>1, <3>2
  <2>4. CASE ~(Cur.op = "c" /\ Cur.len = 0)
    <3>1. buffCount' = n
          BY <1>2, <2>1, <2>4 DEF Strlen
    <3> QED BY <2>1, <2>2, <3>1
  <2> QED BY <2>3, <2>4
<1>8. PrintfTypeOK'
  <2>1. arg' \in Nat
        BY <1>2, <1>3
  <2> QED BY <1>1, <1>6, <1>7, <2>1 DEF PrintfInv, PrintfTypeOK
<1>9. InFormat' /\ ArgsTaken' /\ Scanned'
      BY <1>1, <1>3, <1>4, <1>6 DEF PrintfInv, InFormat, ArgsTaken, Scanned
<1>10. CountKept'
  <2>1. StoredHonest'
        BY <1>1, CountHonestParts, StoredKept DEF PrintfInv, CountKept
  <2>2. CountHonest'
        BY <1>1, <2>1 DEF CountHonest, StoredHonest
  <2> QED BY <1>1, <1>4, <1>7, <2>2 DEF PrintfInv, CountKept
<1>11. Room'
  <2>1. Wrote' = Wrote /\ (BeyondDouble' <=> BeyondDouble)
        BY <1>1, <1>4 DEF Wrote, Natural, BeyondDouble
  <2>2. Fits(Wrote)
    <3> HIDE DEF Fits
    <3> QED BY <1>6
  <2>3. FormatFits'
        BY <1>1, <2>1, <2>2 DEF PrintfInv, Room, FormatFits
  <2> QED BY <1>1, <2>3 DEF Room
<1> QED BY <1>8, <1>9, <1>10, <1>11 DEF PrintfInv

\* Every step preserves the invariant.
LEMMA PrintfNext_Inv == PrintfInv /\ [PrintfNext]_printfVars => PrintfInv'
<1> SUFFICES ASSUME PrintfInv, [PrintfNext]_printfVars PROVE PrintfInv'
    OBVIOUS
<1>1. CASE UNCHANGED printfVars
  <2>1. /\ format' = format /\ f' = f /\ at' = at /\ fastPath' = fastPath /\ arg' = arg
        /\ minWidth' = minWidth /\ precision' = precision /\ fmtLen' = fmtLen
        /\ buffLen' = buffLen /\ auxBuffLen' = auxBuffLen /\ buffCount' = buffCount
        /\ streamCount' = streamCount /\ stored' = stored /\ sent' = sent
        BY <1>1 DEF printfVars, scan
  <2>2. /\ Cur' = Cur /\ Stars' = Stars /\ GivenPrecision' = GivenPrecision
        /\ ArgsBefore(f)' = ArgsBefore(f) /\ LengthBefore(f)' = LengthBefore(f)
        /\ LengthOf(Cur)' = LengthOf(Cur) /\ ArgsOf(Cur)' = ArgsOf(Cur)
        /\ (AllAsInC' <=> AllAsInC) /\ LengthBefore(Len(format) + 1)' = LengthBefore(Len(format) + 1)
        BY <2>1, PlaceKept DEF LengthBefore
  <2>3. /\ Wrote' = Wrote /\ (BeyondDouble' <=> BeyondDouble)
        /\ ConversionBound(precision)' = ConversionBound(precision)
        BY <2>1, <2>2 DEF Wrote, Natural, BeyondDouble, ConversionBound, DoubleExponent
  <2>4. StoredHonest'
        BY <2>1, CountHonestParts, StoredKept DEF PrintfInv, CountKept
  <2>5. CountHonest'
        BY <2>1, <2>2, <2>4 DEF PrintfInv, CountKept, CountHonest, StoredHonest
  <2>6. PrintfTypeOK' /\ InFormat' /\ ArgsTaken' /\ Scanned'
        BY <2>1, <2>2 DEF PrintfInv, PrintfTypeOK, InFormat, ArgsTaken, Scanned
  <2>7. CountKept'
        BY <2>1, <2>2, <2>5 DEF PrintfInv, CountKept
  <2>8. Room'
        BY <2>1, <2>2, <2>3 DEF PrintfInv, Room, FormatFits
  <2> QED BY <2>6, <2>7, <2>8 DEF PrintfInv
<1> QED BY <1>1, Text_Inv, Text_Fail_Inv, Percent_Inv, NormalReturn_Inv, Refuse_Inv, Slow_Scan_Inv,
           Bound_Inv, Bound_NoMemory_Inv, Convert_Again_Inv, Convert_Count_Inv, Convert_Inv, Put_Inv DEF PrintfNext

\* The invariant of FCGX_VFPrintF.
THEOREM PrintfInvariant == PrintfSpec => []PrintfInv
<1>1. PrintfInit => PrintfInv
      BY PrintfInit_Inv
<1>2. PrintfInv /\ [PrintfNext]_printfVars => PrintfInv'
      BY PrintfNext_Inv
<1> QED BY <1>1, <1>2, PTL DEF PrintfSpec

\* Whatever the formats, each conversion finds its own argument: the fast path, which
\* may give up, and the slow path, which may read the argument to size the buffer, take
\* each argument once (FCGX_VFPrintF).
THEOREM PrintfArgumentsInStep == PrintfSpec => []ArgumentsInStep
<1>1. PrintfInv => ArgumentsInStep
      BY DEF PrintfInv, ArgsTaken, ArgumentsInStep
<1> QED BY <1>1, PrintfInvariant, PTL

\* Whatever the formats and wherever the stream fails, a result that is not EOF is the
\* number of bytes written and, for formats whose directives are printed as in C, what C
\* prints, and %n stores the count up to its place (FCGX_VFPrintF).
THEOREM PrintfCountHonest == PrintfSpec => []CountHonest
<1>1. PrintfInv => CountHonest
      BY DEF PrintfInv, CountKept
<1> QED BY <1>1, PrintfInvariant, PTL

\* Whatever the formats, the rebuilt specifier fits in fmtBuff, and what sprintf writes
\* fits in the buffer chosen for it when the width is below PRINTF_BUFFLEN in size; a
\* larger one that is not negative overruns it by the NUL at most; no argument and no
\* precision does, but for a long double beyond the range of a double (the two ASSERTs
\* of FCGX_VFPrintF, and the estimate before them).
THEOREM PrintfFormatFits == PrintfSpec => []FormatFits
<1>1. PrintfInv => FormatFits
      BY DEF PrintfInv, Room
<1> QED BY <1>1, PrintfInvariant, PTL

-----------------------------------------------------------------------------
(* Termination.                                                            *)

\* How far a call is from its return: the directives that are left and, for the one in
\* hand, the stages it may still go through.
Stage == CASE at = "loop" -> 6
           [] at = "convert" -> IF fastPath THEN 5 ELSE 2
           [] at = "slow" -> 4
           [] at = "bound" -> 3
           [] at = "put" -> 1
           [] at \in {"return", "abort"} -> 0
Left == 8 * (Len(format) + 1 - f) + Stage

\* A step within a directive, or out of the function.
LEMMA StageDown ==
    ASSUME PrintfInv, format' = format, f' = f, Stage' < Stage, Stage \in 0..6, Stage' \in 0..6
    PROVE  Left' \in Nat /\ Left' < Left
<1>1. PICK n \in Nat : n = Len(format)
      BY FormatsAssumption DEF PrintfInv, PrintfTypeOK
<1>2. PICK i \in Int : i = f /\ i <= n + 1
      BY <1>1 DEF PrintfInv, InFormat
<1>3. PICK a \in 0..6, b \in 0..6 : a = Stage /\ b = Stage' /\ b < a
      OBVIOUS
<1>4. Left = 8 * (n + 1 - i) + a /\ Left' = 8 * (n + 1 - i) + b
  <2>1. Left = 8 * (n + 1 - i) + a
        BY <1>1, <1>2, <1>3 DEF Left
  <2>2. Left' = 8 * (Len(format) + 1 - f) + Stage'
        BY DEF Left
  <2> QED BY <1>1, <1>2, <1>3, <2>1, <2>2
<1>5. PICK m \in Nat : m = n + 1 - i
      BY <1>2
<1>6. b < a
      BY <1>3
<1>7. 8 * m + b \in Nat /\ 8 * m + b < 8 * m + a
      BY <1>6
<1> QED BY <1>4, <1>5, <1>7

\* A step to the next directive.
LEMMA NextDirective ==
    ASSUME PrintfInv, f <= Len(format), format' = format, f' = f + 1, Stage \in 0..6, at' = "loop"
    PROVE  Left' \in Nat /\ Left' < Left
<1>1. PICK n \in Nat : n = Len(format)
      BY FormatsAssumption DEF PrintfInv, PrintfTypeOK
<1>2. PICK i \in Int : i = f /\ i <= n
      BY <1>1 DEF PrintfInv, InFormat
<1>3. PICK a \in 0..6 : a = Stage
      OBVIOUS
<1>4. Stage' = 6
      BY DEF Stage
<1>5. Left = 8 * (n + 1 - i) + a /\ Left' = 8 * (n + 1 - (i + 1)) + 6
      BY <1>1, <1>2, <1>3, <1>4 DEF Left
<1> QED BY <1>2, <1>3, <1>5

\* "The following loop always executes either once or twice": each step of FCGX_VFPrintF
\* brings it nearer to its return, so that it returns after no more than eight steps for
\* a directive, whatever the stream does and however often the fast path gives up.
THEOREM PrintfTerminates == PrintfSpec => [][Left' \in Nat /\ Left' < Left]_printfVars
<1>1. ASSUME PrintfInv, PrintfNext PROVE Left' \in Nat /\ Left' < Left
  <2>0. fastPath \in BOOLEAN /\ Len(format) \in Nat
        BY FormatsAssumption, <1>1 DEF PrintfInv, PrintfTypeOK
  <2>1. CASE Text
    <3>1. f <= Len(format) /\ format' = format /\ f' = f + 1 /\ at = "loop" /\ at' = "loop"
          BY <2>1 DEF Text
    <3>2. Stage = 6
          BY <3>1 DEF Stage
    <3> QED BY <1>1, <3>1, <3>2, NextDirective
  <2>2. CASE Put
    <3>1. format' = format /\ f' = f + 1 /\ at = "put" /\ at' = "loop"
          BY <2>2 DEF Put
    <3>2. Stage = 1 /\ f <= Len(format)
          BY <1>1, <3>1 DEF Stage, PrintfInv, InFormat
    <3> QED BY <1>1, <3>1, <3>2, NextDirective
  <2>3. CASE \/ Text_Fail \/ NormalReturn \/ Slow_Refuse \/ Bound_Refuse \/ Convert_Refuse \/ Put_Fail
             \/ Bound_NoMemory \/ Put_Assert
    <3>1. /\ format' = format /\ f' = f /\ at \in {"loop", "slow", "bound", "convert", "put"}
          /\ at' \in {"return", "abort"}
          BY <2>3 DEF Text_Fail, NormalReturn, Slow_Refuse, Bound_Refuse, Convert_Refuse, Put_Fail, ErrorReturn,
                      Bound_NoMemory, Bounded, Put_Assert
    <3>2. Stage' = 0
          BY <3>1 DEF Stage
    <3>3. Stage \in 1..6
          BY <2>0, <3>1 DEF Stage
    <3> QED BY <1>1, <3>1, <3>2, <3>3, StageDown
  <2>4. CASE Percent
    <3>1. format' = format /\ f' = f /\ at = "loop" /\ at' = "convert" /\ fastPath' = TRUE
          BY <2>4 DEF Percent
    <3>2. Stage = 6 /\ Stage' = 5
          BY <3>1 DEF Stage
    <3> QED BY <1>1, <3>1, <3>2, StageDown
  <2>5. CASE Convert_Again
    <3>1. format' = format /\ f' = f /\ at = "convert" /\ fastPath /\ at' = "slow"
          BY <2>5 DEF Convert_Again
    <3>2. Stage = 5 /\ Stage' = 4
          BY <3>1 DEF Stage
    <3> QED BY <1>1, <3>1, <3>2, StageDown
  <2>6. CASE Slow_Scan
    <3>1. format' = format /\ f' = f /\ at = "slow" /\ at' = "bound"
          BY <2>6 DEF Slow_Scan
    <3>2. Stage = 4 /\ Stage' = 3
          BY <3>1 DEF Stage
    <3> QED BY <1>1, <3>1, <3>2, StageDown
  <2>7. CASE Bound
    <3>1. format' = format /\ f' = f /\ at = "bound" /\ at' = "convert" /\ fastPath' = fastPath
          BY <2>7 DEF Bound, Bounded
    <3>2. ~fastPath
          BY <1>1, <3>1 DEF PrintfInv, InFormat
    <3>3. Stage = 3 /\ Stage' = 2
          BY <3>1, <3>2 DEF Stage
    <3> QED BY <1>1, <3>1, <3>3, StageDown
  <2>8. CASE Convert_Count \/ Convert
    <3>1. format' = format /\ f' = f /\ at = "convert" /\ at' = "put"
          BY <2>8 DEF Convert_Count, Convert
    <3>2. Stage \in {2, 5} /\ Stage' = 1
          BY <2>0, <3>1 DEF Stage
    <3> QED BY <1>1, <3>1, <3>2, StageDown
  <2> QED BY <1>1, <2>1, <2>2, <2>3, <2>4, <2>5, <2>6, <2>7, <2>8 DEF PrintfNext
<1>2. PrintfInv /\ [PrintfNext]_printfVars => [Left' \in Nat /\ Left' < Left]_printfVars
      BY <1>1
<1> QED BY <1>2, PrintfInvariant, PTL DEF PrintfSpec

===============================================================================
