------------------------------ MODULE FcgiStdio ------------------------------
(***************************************************************************)
(* The stdio package of the FastCGI library (fcgi_stdio.c): an FCGI_FILE   *)
(* stands for a FILE of the C library or for a stream of the current       *)
(* request, and FCGI_Accept points the three standard files at the one or  *)
(* the other, so that a CGI program runs under FastCGI unchanged.          *)
(*                                                                         *)
(* A stream is known by the number of its request and the standard file it *)
(* was made for; requests are numbered from 1 and 0 is NULL.  Of what goes *)
(* through a stream the model keeps whether something is buffered, whether *)
(* the stream has failed and whether FCGI_END_REQUEST has reached the web  *)
(* server (FcgiReader and FcgiWriter have the bytes).  Calls that change   *)
(* nothing here (positioning, reading of a FILE, queries) are left out.    *)
(*                                                                         *)
(* The application uses no standard file after FCGI_Accept has failed      *)
(* ("application should exit"), and no file that FCGI_freopen has failed   *)
(* to reopen.  It may use them between FCGI_Finish and FCGI_Accept.        *)
(***************************************************************************)
EXTENDS Integers

CONSTANTS
    Heap,        \* the FCGI_FILE structures malloc may return
    FILEs,       \* the FILE structures the C library may return
    NULL,
    Statuses,    \* exit statuses the application reports
    Reopened,    \* bound: the standard files the application may reopen
    MaxReqs      \* bound: requests in a behaviour

Std == {"stdin", "stdout", "stderr"}
Writers == {"stdout", "stderr"}
Handles == Std \cup Heap

\* `process' is the environment of a process that has accepted no request, None
\* a status that was not set.
process == -1
None == -1

ASSUME HeapAssumption == Heap \cap Std = {}
ASSUME FILEsAssumption == FILEs \cap Std = {} /\ NULL \notin FILEs /\ NULL \notin Std
ASSUME ReopenedAssumption == Reopened \subseteq Std
ASSUME NumbersAssumption == MaxReqs \in Nat /\ Statuses \subseteq Nat

VARIABLES
    \* fcgi_stdio.c
    acceptCalled, isCGI,
    allocated,         \* the FCGI_FILEs that malloc has returned
    stdio_stream,      \* [Handles -> FILEs, the C library's own Std, or NULL]
    fcgx_stream,       \* [Std -> number of a request]; the other files have none
    environ,
    \* fcgiapp.c
    isFastCGI,         \* "unknown" (-1), "no" (0) or "yes" (1)
    req,               \* the_request: its number, 0 when its streams are NULL
    keepConnection, ipcOpen, appStatus, nWriters,
    isClosed, wasFCloseCalled,
    error,             \* [Std -> FCGI_errno # 0]
    buffered,          \* [Writers -> the stream holds bytes]
    \* the C library
    open,              \* the FILEs that are open
    \* control
    pc, ret,
    file,              \* the FILE that FCGI_OpenFromFILE is to wrap, or NULL
    \* history
    served,            \* requests handed out so far
    answered,          \* FCGI_END_REQUEST of the last request has arrived
    sentStatus,        \* the exit status in it
    lost,              \* a write on the connection has failed
    cleared,           \* the application has cleared an error on it
    lastSet,           \* the status in the last FCGI_SetExitStatus of the request
    ignored,           \* that call came when stdin or both writers were closed
    inherited,         \* what appStatus was when the request began
    refused,           \* the last FCGI_Accept has failed
    spoiled,           \* the files FCGI_freopen has failed to reopen
    orphans            \* FILEs that FCGI_Accept has taken from a standard file

files   == <<allocated, stdio_stream, open, file, spoiled, orphans>>
mode    == <<acceptCalled, isCGI, isFastCGI>>
request == <<req, keepConnection, ipcOpen, appStatus>>
streams == <<nWriters, isClosed, wasFCloseCalled, error, buffered>>
server  == <<answered, sentStatus, lost, cleared>>
history == <<served, lastSet, ignored, inherited, refused>>
vars == <<files, mode, fcgx_stream, environ, request, streams, pc, ret, server, history>>

Init ==
    /\ acceptCalled = FALSE /\ isCGI = FALSE /\ isFastCGI = "unknown"
    /\ allocated = {}
    /\ stdio_stream = [h \in Handles |-> NULL]
    /\ fcgx_stream = [s \in Std |-> 0]
    /\ environ = process
    /\ req = 0 /\ keepConnection = FALSE /\ ipcOpen = FALSE /\ appStatus = 0 /\ nWriters = 0
    /\ isClosed = [s \in Std |-> FALSE]
    /\ wasFCloseCalled = [s \in Std |-> FALSE]
    /\ error = [s \in Std |-> FALSE]
    /\ buffered = [s \in Writers |-> FALSE]
    /\ open = Std
    /\ pc = "run" /\ ret = "run" /\ file = NULL
    /\ served = 0 /\ answered = TRUE /\ sentStatus = 0 /\ lost = FALSE /\ cleared = FALSE
    /\ lastSet = None /\ ignored = FALSE /\ inherited = 0 /\ refused = FALSE
    /\ spoiled = {} /\ orphans = {}

-----------------------------------------------------------------------------
(* CGI or FastCGI.                                                         *)

\* FCGX_IsCGI, called by the application: what OS_IsFcgi says is remembered.
FCGX_IsCGI ==
    /\ pc = "run"
    /\ isFastCGI = "unknown"
    /\ isFastCGI' \in {"yes", "no"}
    /\ UNCHANGED <<files, acceptCalled, isCGI, fcgx_stream, environ, request, streams, pc, ret, server,
                   history>>

\* The new socket is descriptor 0: from now on the process is a FastCGI process.
FCGX_OpenSocket ==
    /\ pc = "run"
    /\ isFastCGI = "no"
    /\ isFastCGI' = "yes"
    /\ UNCHANGED <<files, acceptCalled, isCGI, fcgx_stream, environ, request, streams, pc, ret, server,
                   history>>

\* FCGX_Init fails in the first FCGI_Accept: the process exits, before FCGI_Finish
\* was registered to be called.
FCGX_Init_Fail ==
    /\ pc = "run"
    /\ ~acceptCalled /\ isFastCGI = "unknown"
    /\ pc' = "exited"
    /\ UNCHANGED <<files, mode, fcgx_stream, environ, request, streams, ret, server, history>>

-----------------------------------------------------------------------------
(* FCGI_Accept, FCGI_Finish and exit.                                      *)

\* The first call, as a CGI program: the standard files are those of the C library.
FCGI_Accept_CGI ==
    /\ pc = "run"
    /\ ~acceptCalled
    /\ isFastCGI # "yes"
    /\ isFastCGI' = "no" /\ isCGI' = TRUE /\ acceptCalled' = TRUE
    /\ stdio_stream' = [h \in Handles |-> IF h \in Std THEN h ELSE stdio_stream[h]]
    /\ fcgx_stream' = [s \in Std |-> 0]
    /\ UNCHANGED <<allocated, open, file, spoiled, orphans, environ, request, streams, pc, ret, server,
                   history>>

\* The first call of a FastCGI process, and every later one: FCGX_Accept.
FCGI_Accept ==
    /\ pc = "run"
    /\ IF acceptCalled THEN ~isCGI ELSE isFastCGI # "no"
    /\ acceptCalled' = TRUE
    /\ isFastCGI' = IF acceptCalled THEN isFastCGI ELSE "yes"
    /\ pc' = "closeErr" /\ ret' = "accept"
    /\ UNCHANGED <<files, isCGI, fcgx_stream, environ, request, streams, server, history>>

\* Called by the application.
FCGI_Finish ==
    /\ pc = "run"
    /\ acceptCalled /\ ~isCGI
    /\ pc' = "closeErr" /\ ret' = "finished"
    /\ UNCHANGED <<files, mode, fcgx_stream, environ, request, streams, server, history>>

\* Mutant: exit does not finish the request.
Exit_only ==
    /\ pc = "run"
    /\ pc' = "exited"
    /\ UNCHANGED <<files, mode, fcgx_stream, environ, request, streams, ret, server, history>>

\* The application exits; FCGI_Finish was registered by the first FCGI_Accept.
Exit ==
    /\ pc = "run"
    /\ pc' = IF acceptCalled /\ ~isCGI THEN "closeErr" ELSE "exited"
    /\ ret' = "exited"
    /\ UNCHANGED <<files, mode, fcgx_stream, environ, request, streams, server, history>>

-----------------------------------------------------------------------------
(* FCGX_FClose of a stream, and FCGX_Finish_r.                             *)

\* FCGX_FClose of a writer that was not closed: what it holds is written, and the
\* last writer adds FCGI_END_REQUEST.  The write may fail (the model lets it fail
\* also when there is nothing to write).
CloseWriter(s) ==
    /\ wasFCloseCalled' = [wasFCloseCalled EXCEPT ![s] = TRUE]
    /\ isClosed' = [isClosed EXCEPT ![s] = TRUE]
    /\ nWriters' = nWriters - 1
    /\ \/ /\ buffered' = [buffered EXCEPT ![s] = FALSE]
          /\ answered' = (answered \/ (nWriters = 1 /\ ~lost))
          /\ sentStatus' = IF nWriters = 1 THEN appStatus ELSE sentStatus
          /\ UNCHANGED <<error, lost>>
       \/ /\ error' = [error EXCEPT ![s] = TRUE]
          /\ lost' = TRUE
          /\ UNCHANGED <<buffered, answered, sentStatus>>
    /\ UNCHANGED cleared

\* FCGX_FClose: nothing happens the second time.
FCGX_FClose(s) ==
    IF wasFCloseCalled[s] THEN UNCHANGED <<streams, server>>
    ELSE IF s \in Writers THEN CloseWriter(s)
    ELSE /\ wasFCloseCalled' = [wasFCloseCalled EXCEPT ![s] = TRUE]
         /\ isClosed' = [isClosed EXCEPT ![s] = TRUE]
         /\ UNCHANGED <<nWriters, error, buffered, server>>

\* FCGX_Finish_r closes err and out, if there is a request, ...
Finish_Close(s, at, next) ==
    /\ pc = at
    /\ pc' = next
    /\ IF req # 0 THEN FCGX_FClose(s) ELSE UNCHANGED <<streams, server>>
    /\ UNCHANGED <<files, mode, fcgx_stream, environ, request, ret, history>>

\* FCGX_FreeStream of the three streams; nothing is left of them.
FreeStreams ==
    /\ nWriters' = 0
    /\ isClosed' = [s \in Std |-> FALSE]
    /\ wasFCloseCalled' = [s \in Std |-> FALSE]
    /\ error' = [s \in Std |-> FALSE]
    /\ buffered' = [s \in Writers |-> FALSE]
    /\ lastSet' = None /\ ignored' = FALSE /\ inherited' = 0

\* Mutant: the streams that were closed before are not asked for their errors.
Finish_Free_newErrors ==
    /\ pc = "free"
    /\ pc' = ret /\ ret' = "run"
    /\ req' = 0
    /\ ipcOpen' = (ipcOpen /\ keepConnection /\ ~error["stdin"])
    /\ FreeStreams
    /\ UNCHANGED <<files, mode, fcgx_stream, environ, keepConnection, appStatus, server, served, refused>>

\* ... and frees them; the connection is closed unless the web server wants it kept
\* and no stream has an error.
Finish_Free ==
    /\ pc = "free"
    /\ pc' = ret /\ ret' = "run"
    /\ req' = 0
    /\ ipcOpen' = (ipcOpen /\ keepConnection /\ (req # 0 => \A s \in Std : ~error[s]))
    /\ FreeStreams
    /\ UNCHANGED <<files, mode, fcgx_stream, environ, keepConnection, appStatus, server, served, refused>>

\* Mutant: the files keep pointing at the streams.
Finish_Done_keepsPointers ==
    /\ pc = "finished"
    /\ environ' = 0
    /\ pc' = "run"
    /\ UNCHANGED <<files, mode, fcgx_stream, request, streams, ret, server, history>>

\* FCGI_Finish forgets the streams and the environment; a FILE that FCGI_freopen has
\* put in a standard file stays there.
Finish_Done ==
    /\ pc = "finished"
    /\ fcgx_stream' = [s \in Std |-> 0]
    /\ environ' = 0
    /\ pc' = "run"
    /\ UNCHANGED <<files, mode, request, streams, ret, server, history>>

-----------------------------------------------------------------------------
(* FCGX_Accept_r, after it has finished the last request.                  *)

Accept_Connect ==
    /\ pc = "accept"
    /\ ~ipcOpen
    /\ ipcOpen' = TRUE
    /\ answered' = TRUE /\ lost' = FALSE /\ cleared' = FALSE
    /\ UNCHANGED <<files, mode, fcgx_stream, environ, req, keepConnection, appStatus, streams, pc, ret,
                   sentStatus, history>>

\* Reading from the connection fails: it is closed, and the loop goes on.
Accept_TryAgain ==
    /\ pc = "accept"
    /\ ipcOpen
    /\ ipcOpen' = FALSE
    /\ keepConnection' \in BOOLEAN
    /\ UNCHANGED <<files, mode, fcgx_stream, environ, req, appStatus, streams, pc, ret, server, history>>

\* OS_Accept fails: FCGI_Accept returns with the files as they were.
Accept_Fail ==
    /\ pc = "accept"
    /\ ~ipcOpen
    /\ refused' = TRUE
    /\ pc' = "run"
    /\ UNCHANGED <<files, mode, fcgx_stream, environ, request, streams, ret, server, served, lastSet,
                   ignored, inherited>>

\* A request: new streams, and the standard files stand for them.  appStatus stays.
Accept_Request ==
    /\ pc = "accept"
    /\ ipcOpen
    /\ served < MaxReqs
    /\ served' = served + 1
    /\ req' = served + 1
    /\ keepConnection' \in BOOLEAN
    /\ nWriters' = 2
    /\ isClosed' = [s \in Std |-> FALSE]
    /\ wasFCloseCalled' = [s \in Std |-> FALSE]
    /\ error' = [s \in Std |-> FALSE]
    /\ buffered' = [s \in Writers |-> FALSE]
    /\ orphans' = orphans \cup {f \in open : \E s \in Std \ spoiled : stdio_stream[s] = f}
    /\ stdio_stream' = [h \in Handles |-> IF h \in Std THEN NULL ELSE stdio_stream[h]]
    /\ spoiled' = spoiled \ Std
    /\ fcgx_stream' = [s \in Std |-> served + 1]
    /\ environ' = served + 1
    /\ answered' = FALSE /\ sentStatus' = 0
    /\ lastSet' = None /\ ignored' = FALSE /\ inherited' = appStatus
    /\ refused' = FALSE
    /\ pc' = "run"
    /\ UNCHANGED <<allocated, open, file, mode, ipcOpen, appStatus, ret, lost, cleared>>

-----------------------------------------------------------------------------
(* The standard files.                                                     *)

\* The application may use file h, ...
Usable(h) ==
    /\ pc = "run"
    /\ h \in Std => ~refused
    /\ h \in Heap => h \in allocated
    /\ h \notin spoiled

\* ... and the wrapper passes the call on to a stream: a FILE comes first.
OnStream(s) == Usable(s) /\ stdio_stream[s] = NULL /\ fcgx_stream[s] # 0

\* SetError.
StreamFails(s) ==
    /\ error' = [error EXCEPT ![s] = TRUE]
    /\ isClosed' = [isClosed EXCEPT ![s] = TRUE]
    /\ lost' = (lost \/ s \in Writers)

\* FCGI_fputc, fputs, puts, fprintf and so on: the bytes are buffered, or the buffer
\* is full and writing it fails.
FCGI_fputs(s) ==
    /\ OnStream(s) /\ s \in Writers
    /\ ~wasFCloseCalled[s]
    /\ \/ buffered' = [buffered EXCEPT ![s] = TRUE] /\ UNCHANGED <<error, isClosed, lost>>
       \/ ~isClosed[s] /\ StreamFails(s) /\ UNCHANGED buffered
    /\ UNCHANGED <<files, mode, fcgx_stream, environ, request, nWriters, wasFCloseCalled, pc, ret,
                   answered, sentStatus, cleared, history>>

\* An empty FCGI_fwrite does nothing, any other is FCGX_PutStr.
FCGI_fwrite(s, size) == size # 0 /\ FCGI_fputs(s)

\* Where assertions are compiled in (all builds but those of build_win*.bat), the
\* process aborts when FCGX_PutStr fails, or had failed before and the buffer is full.
FCGI_fwrite_Assert(s, size) ==
    /\ size # 0
    /\ OnStream(s) /\ s \in Writers
    /\ ~wasFCloseCalled[s]
    /\ IF isClosed[s] THEN UNCHANGED <<error, isClosed, lost>> ELSE StreamFails(s)
    /\ pc' = "aborted"
    /\ UNCHANGED <<files, mode, fcgx_stream, environ, request, nWriters, wasFCloseCalled, buffered, ret,
                   answered, sentStatus, cleared, history>>

FCGI_perror == FCGI_fputs("stderr")

FCGI_fflush(s) ==
    /\ OnStream(s) /\ s \in Writers
    /\ ~isClosed[s]
    /\ \/ buffered' = [buffered EXCEPT ![s] = FALSE] /\ UNCHANGED <<error, isClosed, lost>>
       \/ buffered[s] /\ StreamFails(s) /\ UNCHANGED buffered
    /\ UNCHANGED <<files, mode, fcgx_stream, environ, request, nWriters, wasFCloseCalled, pc, ret,
                   answered, sentStatus, cleared, history>>

\* FCGI_fgetc, fgets, gets: reading reaches the end of the stream, or fails.
FCGI_fgetc ==
    /\ OnStream("stdin")
    /\ ~isClosed["stdin"]
    /\ \/ isClosed' = [isClosed EXCEPT !["stdin"] = TRUE] /\ UNCHANGED <<error, lost>>
       \/ StreamFails("stdin")
    /\ UNCHANGED <<files, mode, fcgx_stream, environ, request, nWriters, wasFCloseCalled, buffered, pc,
                   ret, answered, sentStatus, cleared, history>>

\* An empty FCGI_fread does nothing, any other is FCGX_GetStr.
FCGI_fread(size) == size # 0 /\ FCGI_fgetc

\* FCGX_StartFilterData opens the stream again at its end, or fails.
FCGI_StartFilterData ==
    /\ OnStream("stdin")
    /\ \/ /\ isClosed["stdin"]
          /\ isClosed' = [isClosed EXCEPT !["stdin"] = FALSE]
          /\ UNCHANGED <<error, lost>>
       \/ StreamFails("stdin")
    /\ UNCHANGED <<files, mode, fcgx_stream, environ, request, nWriters, wasFCloseCalled, buffered, pc,
                   ret, answered, sentStatus, cleared, history>>

\* FCGX_StartFilterData is called with NULL when stdin has neither a FILE nor a
\* stream: the process crashes.
StartFilterData_NULL ==
    /\ Usable("stdin")
    /\ stdio_stream["stdin"] = NULL /\ fcgx_stream["stdin"] = 0
    /\ pc' = "aborted"
    /\ UNCHANGED <<files, mode, fcgx_stream, environ, request, streams, ret, server, history>>

FCGI_clearerr(s) ==
    /\ OnStream(s)
    /\ error[s]
    /\ error' = [error EXCEPT ![s] = FALSE]
    /\ cleared' = TRUE
    /\ UNCHANGED <<files, mode, fcgx_stream, environ, request, nWriters, isClosed, wasFCloseCalled,
                   buffered, pc, ret, answered, sentStatus, lost, history>>

\* The application has called FCGI_SetExitStatus during the request.
Called(status) ==
    /\ lastSet' = IF req = 0 THEN None ELSE status
    /\ ignored' = (req # 0 /\ (fcgx_stream["stdin"] = 0 \/ nWriters = 0))

\* Mutant: only the first call of a request counts.
FCGI_SetExitStatus_first(status) ==
    /\ pc = "run" /\ ~refused
    /\ appStatus' = IF fcgx_stream["stdin"] # 0 /\ lastSet = None THEN status ELSE appStatus
    /\ Called(status)
    /\ UNCHANGED <<files, mode, fcgx_stream, environ, req, keepConnection, ipcOpen, streams, pc, ret,
                   server, served, inherited, refused>>

\* The status of the request, if stdin has a stream; nothing happens otherwise, and a
\* status that is set after FCGI_END_REQUEST was written stays for the next one.
FCGI_SetExitStatus(status) ==
    /\ pc = "run" /\ ~refused
    /\ appStatus' = IF fcgx_stream["stdin"] # 0 THEN status ELSE appStatus
    /\ Called(status)
    /\ UNCHANGED <<files, mode, fcgx_stream, environ, req, keepConnection, ipcOpen, streams, pc, ret,
                   server, served, inherited, refused>>

-----------------------------------------------------------------------------
(* FILEs.                                                                  *)

\* The first half of FCGI_fopen, FCGI_fdopen, FCGI_popen and FCGI_tmpfile.
FCGI_fopen(f) ==
    /\ pc = "run"
    /\ f \notin open
    /\ open' = open \cup {f}
    /\ file' = f
    /\ pc' = "wrap"
    /\ UNCHANGED <<allocated, stdio_stream, spoiled, orphans, mode, fcgx_stream, environ, request,
                   streams, ret, server, history>>

\* FCGI_OpenFromFILE makes an FCGI_FILE for it.
FCGI_OpenFromFILE(h) ==
    /\ pc = "wrap"
    /\ h \in Heap \ allocated
    /\ allocated' = allocated \cup {h}
    /\ stdio_stream' = [stdio_stream EXCEPT ![h] = file]
    /\ file' = NULL
    /\ pc' = "run"
    /\ UNCHANGED <<open, spoiled, orphans, mode, fcgx_stream, environ, request, streams, ret, server,
                   history>>

\* Mutant: the FILE stays open.
OpenFromFILE_Fail_leak ==
    /\ pc = "wrap"
    /\ file' = NULL
    /\ pc' = "run"
    /\ UNCHANGED <<allocated, stdio_stream, open, spoiled, orphans, mode, fcgx_stream, environ, request,
                   streams, ret, server, history>>

\* malloc fails: the FILE is closed again.
OpenFromFILE_Fail ==
    /\ pc = "wrap"
    /\ open' = open \ {file}
    /\ file' = NULL
    /\ pc' = "run"
    /\ UNCHANGED <<allocated, stdio_stream, spoiled, orphans, mode, fcgx_stream, environ, request,
                   streams, ret, server, history>>

\* free(fp), unless fp is one of the standard files.
Freed(h) == allocated \ {h}

\* FCGI_fclose of a FILE, ...
FCGI_fclose_FILE(h) ==
    /\ Usable(h)
    /\ stdio_stream[h] # NULL
    /\ open' = open \ {stdio_stream[h]}
    /\ stdio_stream' = [stdio_stream EXCEPT ![h] = NULL]
    /\ allocated' = Freed(h)
    /\ UNCHANGED <<file, spoiled, orphans, mode, fcgx_stream, environ, request, streams, pc, ret, server,
                   history>>

\* ... and of a stream.
FCGI_fclose_stream(s) ==
    /\ OnStream(s)
    /\ FCGX_FClose(s)
    /\ fcgx_stream' = [fcgx_stream EXCEPT ![s] = 0]
    /\ UNCHANGED <<files, mode, environ, request, pc, ret, history>>

\* FCGI_pclose does the same to a FILE, and nothing to a stream.
FCGI_pclose(h) == FCGI_fclose_FILE(h)

\* FCGI_freopen of a FILE: freopen closes it, and may fail to open the new one.
FCGI_freopen_FILE(h) ==
    /\ Usable(h)
    /\ stdio_stream[h] # NULL
    /\ open' = open \ {stdio_stream[h]}
    /\ spoiled' = spoiled \cup {h}
    /\ UNCHANGED <<allocated, stdio_stream, file, orphans, mode, fcgx_stream, environ, request, streams,
                   pc, ret, server, history>>

\* FCGI_freopen of a stream closes it and puts a FILE in its place, ...
FCGI_freopen_stream(s, f) ==
    /\ OnStream(s)
    /\ f \notin open
    /\ FCGX_FClose(s)
    /\ open' = open \cup {f}
    /\ stdio_stream' = [stdio_stream EXCEPT ![s] = f]
    /\ fcgx_stream' = [fcgx_stream EXCEPT ![s] = 0]
    /\ UNCHANGED <<allocated, file, spoiled, orphans, mode, environ, request, pc, ret, history>>

\* ... or leaves the closed stream when fopen fails.
FCGI_freopen_Fail(s) ==
    /\ OnStream(s)
    /\ ~wasFCloseCalled[s]
    /\ FCGX_FClose(s)
    /\ UNCHANGED <<files, mode, fcgx_stream, environ, request, pc, ret, history>>

-----------------------------------------------------------------------------
Mode == FCGX_IsCGI \/ FCGX_OpenSocket \/ FCGX_Init_Fail

FCGX_Finish_r == \/ Finish_Close("stderr", "closeErr", "closeOut")
                 \/ Finish_Close("stdout", "closeOut", "free")
                 \/ Finish_Free

FCGX_Accept_r == Accept_Connect \/ Accept_TryAgain \/ Accept_Fail \/ Accept_Request

Standard == \/ \E s \in Writers : FCGI_fputs(s) \/ FCGI_fflush(s)
            \/ \E s \in Writers : FCGI_fwrite(s, 1) \/ FCGI_fwrite_Assert(s, 1)
            \/ FCGI_perror \/ FCGI_fgetc \/ FCGI_fread(1)
            \/ FCGI_StartFilterData \/ StartFilterData_NULL
            \/ \E s \in Std : FCGI_clearerr(s)
            \/ \E status \in Statuses : FCGI_SetExitStatus(status)

Files == \/ \E f \in FILEs : FCGI_fopen(f)
         \/ \E h \in Heap : FCGI_OpenFromFILE(h)
         \/ OpenFromFILE_Fail
         \/ \E h \in Handles : FCGI_fclose_FILE(h) \/ FCGI_pclose(h)
         \/ \E h \in Heap \cup Reopened : FCGI_freopen_FILE(h)
         \/ \E s \in Std : FCGI_fclose_stream(s)
         \/ \E s \in Reopened : FCGI_freopen_Fail(s) \/ \E f \in FILEs : FCGI_freopen_stream(s, f)

Next == \/ Mode
        \/ FCGI_Accept_CGI \/ FCGI_Accept \/ FCGI_Finish \/ Exit
        \/ FCGX_Finish_r \/ Finish_Done \/ FCGX_Accept_r
        \/ Standard \/ Files

Spec == Init /\ [][Next]_vars

-----------------------------------------------------------------------------
\* The types of the module's variables.
TypeOK ==
    /\ acceptCalled \in BOOLEAN /\ isCGI \in BOOLEAN /\ isFastCGI \in {"unknown", "no", "yes"}
    /\ allocated \subseteq Heap
    /\ stdio_stream \in [Handles -> FILEs \cup Std \cup {NULL}]
    /\ fcgx_stream \in [Std -> Nat]
    /\ environ \in Nat \cup {process}
    /\ req \in Nat /\ keepConnection \in BOOLEAN /\ ipcOpen \in BOOLEAN
    /\ appStatus \in Nat /\ nWriters \in Int
    /\ isClosed \in [Std -> BOOLEAN] /\ wasFCloseCalled \in [Std -> BOOLEAN]
    /\ error \in [Std -> BOOLEAN] /\ buffered \in [Writers -> BOOLEAN]
    /\ open \subseteq FILEs \cup Std
    /\ pc \in {"run", "wrap", "closeErr", "closeOut", "free", "finished", "accept", "exited",
              "aborted"}
    /\ ret \in {"run", "accept", "finished", "exited"}
    /\ file \in FILEs \cup {NULL}
    /\ served \in Nat /\ answered \in BOOLEAN /\ sentStatus \in Nat /\ lost \in BOOLEAN
    /\ cleared \in BOOLEAN /\ lastSet \in Nat \cup {None} /\ ignored \in BOOLEAN
    /\ inherited \in Nat /\ refused \in BOOLEAN
    /\ spoiled \subseteq Handles /\ orphans \subseteq FILEs \cup Std

\* While the application runs, no standard file and no environ points at a stream or
\* at an environment that has been freed, through any sequence of FCGI_Accept,
\* FCGI_Finish, FCGI_fclose and FCGI_freopen; a stream that is not closed can be
\* reached through its own standard file, and no file stands for a FILE and a
\* stream at the same time.
NoDangling ==
    /\ pc = "run" /\ ~refused =>
           /\ \A s \in Std : fcgx_stream[s] \in {0, req}
           /\ environ \in {process, 0, req}
           /\ req # 0 => \A s \in Std : wasFCloseCalled[s] \/ fcgx_stream[s] = req
    /\ \A s \in Std : fcgx_stream[s] = 0 \/ stdio_stream[s] = NULL

Holders(f) == {h \in (Std \cup allocated) \ spoiled : stdio_stream[h] = f}

\* Every FILE that is open can still be closed, through one file and no other (but for
\* those FCGI_Accept takes from standard files), also when malloc fails; and no
\* file the application may use holds a FILE that has been closed.
FilesHeld ==
    /\ \A f \in (open \cap FILEs) \ orphans :
           \/ f = file
           \/ \E h \in Holders(f) : Holders(f) = {h}
    /\ \A h \in (Std \cup allocated) \ spoiled : stdio_stream[h] # NULL => stdio_stream[h] \in open

\* Every request that was handed out is answered once it is finished, by FCGI_Accept,
\* by FCGI_Finish or by exit, and nothing the application has written is left in
\* a buffer, unless a write has failed.  (A process that is aborted finishes nothing:
\* its connection is closed with it.)
RequestsAnswered ==
    /\ (req = 0 \/ pc = "exited") /\ ~lost => answered
    /\ answered /\ ~lost => \A s \in Writers : ~buffered[s]

\* What the comment of FCGI_SetExitStatus promises: the status of the request is the
\* one in the last of all its calls of FCGI_SetExitStatus, and 0, as of a program that
\* returns from main, when there was none.
Promised == IF lastSet = None THEN 0 ELSE lastSet

\* FCGI_END_REQUEST carries the promised status, whatever else the request and those
\* before it have set, closed and reopened.  The code breaks the promise in two
\* cases, which the property excepts by name: the last call is `ignored', because
\* stdin was closed before it or both writers were; or there is no call, and
\* appStatus, which is never reset, holds the status of an earlier request.
StatusHonoured ==
    answered /\ req # 0 =>
        \/ sentStatus = Promised
        \/ ignored
        \/ lastSet = None /\ inherited # 0

Request == INSTANCE FcgiRequest WITH
    phase <- IF ~ipcOpen THEN "closed" ELSE IF req # 0 THEN "busy" ELSE "idle",
    owed  <- ipcOpen /\ ~answered,
    trust <- IF ~ipcOpen THEN "sound"
             ELSE IF \E s \in Std : error[s] THEN "broken"
             ELSE IF cleared THEN "waived" ELSE "sound"

\* However the application closes, reopens and abandons its standard files, the
\* connection is kept only after a complete answer: the package implements
\* FcgiRequest.
ImplementsRequest == Request!Spec
=============================================================================
