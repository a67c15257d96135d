------------------------------- MODULE OsWin32 -------------------------------
(***************************************************************************)
(* The Windows layer of libfcgi (os_win32.c): the table that maps small    *)
(* integers to handles, asynchronous operations through an I/O completion  *)
(* port, the thread that reads standard input, and OS_Accept with the      *)
(* mutex it shares with other processes and the thread that waits for the  *)
(* shutdown event.                                                         *)
(*                                                                         *)
(* A process is either a server (pc "idle", "wait", "accepting",           *)
(* "serving"), which accepts connections as fcgiapp.c does, or a bridge    *)
(* between standard I/O and a FastCGI server, which uses the asynchronous  *)
(* operations that the library exports.                                    *)
(***************************************************************************)
EXTENDS Integers, Sequences, FiniteSets

CONSTANTS
    OpenMax,    \* WIN32_OPEN_MAX
    Handles,    \* the handles the system gives out
    MaxOps,     \* bound: asynchronous operations started in a behaviour
    MaxOpens    \* bound: descriptors opened in a behaviour, standard I/O apart

ASSUME OpenMaxAssumption == OpenMax \in Nat /\ OpenMax > 3
ASSUME HandlesAssumption == Handles \subseteq Nat \ {0}
ASSUME MaxOpsAssumption  == MaxOps \in Nat
ASSUME MaxOpensAssumption == MaxOpens \in Nat

Fds     == 0 .. OpenMax - 1
None    == -1                     \* no descriptor, INVALID_HANDLE_VALUE
Sockets == {"FD_SOCKET_SYNC", "FD_SOCKET_ASYNC"}

VARIABLES
    type, fid, instance,          \* fdTable
    opens,                        \* descriptors opened so far (bound)
    handle,                       \* what a handle is: "free", "socket", "pipe" or "listen"
    key,                          \* its key at hIoCompPort, when it is associated
    ops,                          \* every OVERLAPPED_REQUEST so far
    port, stdinPort,              \* hIoCompPort, hStdinCompPort: queues of requests
    stdinThread,                  \* "none", "waiting" or "exited"
    pc, ipcFd, listenType, hListen,
    mutex,                        \* acceptMutex: "none", "free", "self" or "other"
    shutdownPending,
    waiting                       \* a client waits at the listening socket

table  == <<type, fid, instance, opens>>
system == <<handle, key>>
io     == <<ops, port, stdinPort, stdinThread>>
server == <<pc, ipcFd, listenType, hListen, mutex, shutdownPending, waiting>>
vars   == <<table, system, io, server>>

Init ==
    /\ type = [d \in Fds |-> "FD_UNUSED"]
    /\ fid = [d \in Fds |-> 0]
    /\ instance = [d \in Fds |-> 0]
    /\ opens = 0
    /\ handle = [h \in Handles |-> "free"]
    /\ key = [h \in Handles |-> None]
    /\ ops = <<>> /\ port = <<>> /\ stdinPort = <<>>
    /\ stdinThread = "none"
    /\ pc = "start" /\ ipcFd = None
    /\ listenType = "FD_UNUSED" /\ hListen = None
    /\ mutex = "none" /\ shutdownPending = FALSE /\ waiting = FALSE

-----------------------------------------------------------------------------
(* The table.                                                              *)

Free == {d \in Fds : type[d] = "FD_UNUSED"}

\* Mutant: the entry with the number of the handle is taken, used or not.
NewIndex_used(h) ==
    IF h \in Fds THEN h
    ELSE IF Free \ {0} = {} THEN None
    ELSE CHOOSE d \in Free \ {0} : \A e \in Free \ {0} : d <= e

\* The entry for handle h: the one with its number, or the first from 1 that is
\* free, or -1.
NewIndex(h) ==
    IF h \in Free THEN h
    ELSE IF Free \ {0} = {} THEN None
    ELSE CHOOSE d \in Free \ {0} : \A e \in Free \ {0} : d <= e

Win32NewDescriptor(t, h) ==
    LET d == NewIndex(h)
    IN  /\ d # None
        /\ opens < MaxOpens
        /\ type' = [type EXCEPT ![d] = t]
        /\ fid' = [fid EXCEPT ![d] = h]
        /\ opens' = opens + 1
        /\ UNCHANGED instance

\* The instance of the entry stays what it is.
Win32FreeDescriptor(d) ==
    /\ type' = [type EXCEPT ![d] = "FD_UNUSED"]
    /\ UNCHANGED <<fid, instance, opens>>

\* What OS_Close does to the object behind descriptor d: sockets are closed, pipes
\* are left alone.
CloseTarget(d) ==
    IF type[d] \in Sockets
    THEN /\ handle' = [handle EXCEPT ![fid[d]] = "free"]
         /\ key' = [key EXCEPT ![fid[d]] = None]
    ELSE UNCHANGED system

OS_Close(d) ==
    /\ type[d] # "FD_UNUSED"
    /\ CloseTarget(d)
    /\ Win32FreeDescriptor(d)

-----------------------------------------------------------------------------
(* OS_LibInit.                                                             *)

\* A FastCGI server started with a listening pipe or socket as standard input.
OS_LibInit_Listener(t, h, inherited) ==
    /\ pc = "start"
    /\ pc' = "idle"
    /\ listenType' = t /\ hListen' = h
    /\ handle' = [handle EXCEPT ![h] = "listen"]
    /\ mutex' = IF inherited THEN "free" ELSE "none"
    /\ UNCHANGED <<table, key, io, ipcFd, shutdownPending, waiting>>

\* A server that will open its listening socket itself.
OS_LibInit_Plain(inherited) ==
    /\ pc = "start"
    /\ pc' = "idle"
    /\ mutex' = IF inherited THEN "free" ELSE "none"
    /\ UNCHANGED <<table, system, io, ipcFd, listenType, hListen, shutdownPending, waiting>>

\* A bridge: the standard handles get descriptors 0, 1 and 2, and a thread reads
\* standard input if there is CONTENT_LENGTH.
OS_LibInit_Stdio(content) ==
    /\ pc = "start"
    /\ pc' = "bridge"
    /\ type' = [d \in Fds |-> IF d \in 0 .. 2 THEN "FD_PIPE_SYNC" ELSE type[d]]
    /\ stdinThread' = IF content THEN "waiting" ELSE "none"
    /\ UNCHANGED <<fid, instance, opens, system, ops, port, stdinPort>>
    /\ UNCHANGED <<ipcFd, listenType, hListen, mutex, shutdownPending, waiting>>

-----------------------------------------------------------------------------
(* A bridge: connections and asynchronous operations.                      *)

\* connect fails: the test of its result is the wrong way round, so this socket gets
\* a descriptor, and one that connect has connected is closed again.
OS_FcgiConnect_Socket(h) ==
    /\ pc = "bridge" /\ handle[h] = "free"
    /\ Win32NewDescriptor("FD_SOCKET_SYNC", h)
    /\ handle' = [handle EXCEPT ![h] = "socket"]
    /\ UNCHANGED <<key, io, server>>

OS_FcgiConnect_Pipe(h) ==
    /\ pc = "bridge" /\ handle[h] = "free"
    /\ Win32NewDescriptor("FD_PIPE_ASYNC", h)
    /\ handle' = [handle EXCEPT ![h] = "pipe"]
    /\ key' = [key EXCEPT ![h] = NewIndex(h)]
    /\ UNCHANGED <<io, server>>

\* O_NONBLOCK.
OS_SetFlags(d) ==
    /\ pc = "bridge" /\ type[d] = "FD_SOCKET_SYNC"
    /\ type' = [type EXCEPT ![d] = "FD_SOCKET_ASYNC"]
    /\ key' = [key EXCEPT ![fid[d]] = d]
    /\ UNCHANGED <<fid, instance, opens, handle, io, server>>

Close(d) ==
    /\ pc = "bridge"
    /\ OS_Close(d)
    /\ UNCHANGED <<io, server>>

\* A request: who started it, the key of its completion, the instance it keeps, and
\* where it is.
Request(d, k, at) ==
    [fd |-> d, key |-> k, instance |-> instance[d], at |-> at]

\* ReadFile or WriteFile takes the operation; its completion will come.
OS_AsyncReadWrite(d) ==
    /\ pc = "bridge" /\ type[d] \in {"FD_SOCKET_ASYNC", "FD_PIPE_ASYNC"}
    /\ Len(ops) < MaxOps
    /\ ops' = Append(ops, Request(d, key[fid[d]], "system"))
    /\ UNCHANGED <<table, system, port, stdinPort, stdinThread, server>>

\* Mutant: a failing operation is also taken for one that is pending.
OS_AsyncReadWrite_Fails_pending(d) ==
    /\ pc = "bridge" /\ type[d] \in {"FD_SOCKET_ASYNC", "FD_PIPE_ASYNC"}
    /\ Len(ops) < MaxOps
    /\ ops' = Append(ops, Request(d, d, "system"))
    /\ port' = Append(port, Len(ops) + 1)
    /\ UNCHANGED <<table, system, stdinPort, stdinThread, server>>

\* It fails: the library posts the completion, whether it then returns 0 or -1.
OS_AsyncReadWrite_Fails(d) ==
    /\ pc = "bridge" /\ type[d] \in {"FD_SOCKET_ASYNC", "FD_PIPE_ASYNC"}
    /\ Len(ops) < MaxOps
    /\ ops' = Append(ops, Request(d, d, "port"))
    /\ port' = Append(port, Len(ops) + 1)
    /\ UNCHANGED <<table, system, stdinPort, stdinThread, server>>

\* The system completes an operation, or cancels it when its socket is closed.
Complete(i) ==
    /\ i \in DOMAIN ops /\ ops[i].at = "system"
    /\ ops' = [ops EXCEPT ![i].at = "port"]
    /\ port' = Append(port, i)
    /\ UNCHANGED <<table, system, stdinPort, stdinThread, server>>

OS_AsyncReadStdin ==
    /\ pc = "bridge" /\ type[0] # "FD_UNUSED"
    /\ Len(ops) < MaxOps
    /\ ops' = Append(ops, Request(0, 0, "stdin"))
    /\ stdinPort' = Append(stdinPort, Len(ops) + 1)
    /\ UNCHANGED <<table, system, port, stdinThread, server>>

\* The thread reads and posts a completion.
StdinThread ==
    /\ stdinThread = "waiting" /\ stdinPort # <<>>
    /\ ops' = [ops EXCEPT ![Head(stdinPort)].at = "port"]
    /\ port' = Append(port, Head(stdinPort))
    /\ stdinPort' = Tail(stdinPort)
    /\ UNCHANGED <<table, system, stdinThread, server>>

\* ReadFile fails, as it does at the end of a pipe: no completion, and no thread.
StdinThread_Fails ==
    /\ stdinThread = "waiting" /\ stdinPort # <<>>
    /\ stdinThread' = "exited"
    /\ ops' = [ops EXCEPT ![Head(stdinPort)].at = "lost"]
    /\ stdinPort' = Tail(stdinPort)
    /\ UNCHANGED <<table, system, port, server>>

\* Mutant: a request whose instance does not match goes back to the port.
OS_DoIo_repost ==
    /\ pc = "bridge" /\ port # <<>>
    /\ LET r == ops[Head(port)]
       IN  IF r.instance = instance[r.key] /\ type[r.key] # "FD_UNUSED"
           THEN /\ ops' = [ops EXCEPT ![Head(port)] = [r EXCEPT !.at = "called"]]
                /\ port' = Tail(port)
           ELSE /\ port' = Append(Tail(port), Head(port))
                /\ UNCHANGED ops
    /\ UNCHANGED <<table, system, stdinPort, stdinThread, server>>

\* One round of the loop of OS_DoIo: the completion's callback is called if the
\* instance of the request is still the one in the table.
OS_DoIo ==
    /\ pc = "bridge" /\ port # <<>>
    /\ ops' = [ops EXCEPT ![Head(port)].at =
                   IF ops[Head(port)].instance = instance[ops[Head(port)].key] THEN "called" ELSE "dropped"]
    /\ port' = Tail(port)
    /\ UNCHANGED <<table, system, stdinPort, stdinThread, server>>

-----------------------------------------------------------------------------
(* A server: OS_CreateLocalIpcFd, OS_Accept and OS_IpcClose.               *)

\* Called once, by a server that was not started with a listener.
OS_CreateLocalIpcFd(h, tcp) ==
    /\ pc = "idle" /\ listenType = "FD_UNUSED" /\ handle[h] = "free"
    /\ listenType' = IF tcp THEN "FD_SOCKET_SYNC" ELSE "FD_PIPE_ASYNC"
    /\ Win32NewDescriptor(listenType', h)
    /\ handle' = [handle EXCEPT ![h] = "listen"]
    /\ hListen' = h
    /\ mutex' = IF mutex = "none" THEN "free" ELSE mutex
    /\ UNCHANGED <<key, io, pc, ipcFd, shutdownPending, waiting>>

\* socket, bind, listen or CreateNamedPipe fails; after bind and listen the socket
\* stays open.
OS_CreateLocalIpcFd_Fails(h, tcp, open) ==
    /\ pc = "idle" /\ listenType = "FD_UNUSED" /\ handle[h] = "free"
    /\ listenType' = IF tcp THEN "FD_SOCKET_SYNC" ELSE "FD_PIPE_ASYNC"
    /\ handle' = IF open THEN [handle EXCEPT ![h] = "listen"] ELSE handle
    /\ mutex' = IF mutex = "none" THEN "free" ELSE mutex
    /\ UNCHANGED <<table, key, io, pc, ipcFd, hListen, shutdownPending, waiting>>

\* ReleaseMutex has no effect for a process that does not own the mutex.
ReleaseMutex == mutex' = IF mutex = "self" THEN "free" ELSE mutex

\* Mutant: -1 is returned from inside the accept cycle and the mutex is kept.
Fail_locked == pc' = "stopped" /\ UNCHANGED mutex

\* -1 is returned and the caller exits.  OS_LibShutdown, where it is called, also
\* releases the mutex and closes the ports.
Fail == pc' = "stopped" /\ ReleaseMutex

OS_Accept_Enter ==
    /\ pc = "idle"
    /\ IF shutdownPending THEN Fail ELSE pc' = "wait" /\ UNCHANGED mutex
    /\ UNCHANGED <<table, system, io, ipcFd, listenType, hListen, shutdownPending, waiting>>

\* WaitForSingleObject gets the mutex, also one that its owner abandoned.
OS_Accept_Lock ==
    /\ pc = "wait" /\ mutex \in {"none", "free"}
    /\ IF ~shutdownPending /\ listenType \in {"FD_PIPE_SYNC", "FD_SOCKET_SYNC"}
       THEN /\ pc' = "accepting"
            /\ mutex' = IF mutex = "none" THEN mutex ELSE "self"
       ELSE pc' = "stopped" /\ UNCHANGED mutex
    /\ UNCHANGED <<table, system, io, ipcFd, listenType, hListen, shutdownPending, waiting>>

\* WAIT_FAILED.
OS_Accept_LockFails ==
    /\ pc = "wait" /\ mutex # "none"
    /\ Fail
    /\ UNCHANGED <<table, system, io, ipcFd, listenType, hListen, shutdownPending, waiting>>

Serve ==
    /\ pc' = "serving"
    /\ ReleaseMutex
    /\ UNCHANGED <<listenType, hListen, shutdownPending>>

\* A client comes to the listening socket (the bound on descriptors is one on clients).
Connect ==
    /\ pc \in {"idle", "wait", "accepting", "serving"}
    /\ listenType = "FD_SOCKET_SYNC" /\ hListen # None
    /\ ~waiting /\ opens < MaxOpens
    /\ waiting' = TRUE
    /\ UNCHANGED <<table, system, io, pc, ipcFd, listenType, hListen, mutex, shutdownPending>>

acceptSocket(h) ==
    /\ pc = "accepting" /\ listenType = "FD_SOCKET_SYNC" /\ hListen # None
    /\ waiting /\ waiting' = FALSE
    /\ handle[h] = "free"
    /\ Win32NewDescriptor("FD_SOCKET_SYNC", h)
    /\ handle' = [handle EXCEPT ![h] = "socket"]
    /\ ipcFd' = NewIndex(h)
    /\ Serve
    /\ UNCHANGED <<key, io>>

\* isAddrOK does not approve of the client: it is refused, and select starts anew
\* without a look at the flag.
acceptSocket_Refuse ==
    /\ pc = "accepting" /\ listenType = "FD_SOCKET_SYNC" /\ hListen # None
    /\ waiting /\ waiting' = FALSE
    /\ UNCHANGED <<table, system, io, pc, ipcFd, listenType, hListen, mutex, shutdownPending>>

\* Mutant: the flag is only looked at before the accept cycle.
acceptSocket_Timeout_never == FALSE /\ UNCHANGED vars

\* select has waited a second and no client has come.
acceptSocket_Timeout ==
    /\ pc = "accepting" /\ listenType = "FD_SOCKET_SYNC" /\ hListen # None
    /\ ~waiting /\ shutdownPending
    /\ Fail
    /\ UNCHANGED <<table, system, io, ipcFd, listenType, hListen, shutdownPending, waiting>>

\* Whatever ConnectNamedPipe returns, the listening pipe becomes the connection.
acceptNamedPipe ==
    /\ pc = "accepting" /\ listenType = "FD_PIPE_SYNC"
    /\ Win32NewDescriptor("FD_PIPE_SYNC", hListen)
    /\ ipcFd' = NewIndex(hListen)
    /\ Serve
    /\ UNCHANGED <<system, io, waiting>>

\* accept fails, or the table is full and the connection is closed again.
OS_Accept_Fails ==
    /\ pc = "accepting"
    /\ listenType = "FD_PIPE_SYNC" => NewIndex(hListen) = None
    /\ Fail
    /\ UNCHANGED <<table, system, io, ipcFd, listenType, hListen, shutdownPending, waiting>>

\* The caller forgets the descriptor.
OS_IpcClose ==
    /\ pc = "serving"
    /\ OS_Close(ipcFd)
    /\ pc' = "idle" /\ ipcFd' = None
    /\ UNCHANGED <<io, listenType, hListen, mutex, shutdownPending, waiting>>

\* FlushFileBuffers or DisconnectNamedPipe fails, as when the client has gone.
OS_IpcClose_Fails ==
    /\ pc = "serving" /\ listenType = "FD_PIPE_SYNC"
    /\ pc' = "idle" /\ ipcFd' = None
    /\ UNCHANGED <<table, system, io, listenType, hListen, mutex, shutdownPending, waiting>>

\* Called by the application, from a thread or a handler of its own: only the flag is set.
OS_ShutdownPending ==
    /\ pc \in {"idle", "wait", "accepting", "serving"}
    /\ shutdownPending' = TRUE
    /\ UNCHANGED <<table, system, io, pc, ipcFd, listenType, hListen, mutex, waiting>>

\* The shutdown event; with a pipe the thread ends the process, and the system
\* abandons its mutex.
ShutdownRequestThread ==
    /\ pc \in {"idle", "wait", "accepting", "serving"}
    /\ shutdownPending' = TRUE
    /\ IF listenType = "FD_PIPE_SYNC" THEN Fail ELSE UNCHANGED <<pc, mutex>>
    /\ UNCHANGED <<table, system, io, ipcFd, listenType, hListen, waiting>>

\* Other processes with the same mutex.
OtherLocks ==
    /\ mutex = "free" /\ mutex' = "other"
    /\ UNCHANGED <<table, system, io, pc, ipcFd, listenType, hListen, shutdownPending, waiting>>

OtherUnlocks ==
    /\ mutex = "other" /\ mutex' = "free"
    /\ UNCHANGED <<table, system, io, pc, ipcFd, listenType, hListen, shutdownPending, waiting>>

-----------------------------------------------------------------------------
OS_LibInit ==
    \/ \E t \in {"FD_PIPE_SYNC", "FD_SOCKET_SYNC"}, h \in Handles, inherited \in BOOLEAN :
           OS_LibInit_Listener(t, h, inherited)
    \/ \E b \in BOOLEAN : OS_LibInit_Plain(b) \/ OS_LibInit_Stdio(b)

Bridge ==
    \/ \E h \in Handles : OS_FcgiConnect_Socket(h) \/ OS_FcgiConnect_Pipe(h)
    \/ \E d \in Fds : \/ OS_SetFlags(d) \/ Close(d)
                      \/ OS_AsyncReadWrite(d) \/ OS_AsyncReadWrite_Fails(d)
    \/ OS_AsyncReadStdin \/ OS_DoIo \/ StdinThread \/ StdinThread_Fails
    \/ \E i \in 1 .. MaxOps : Complete(i)

Server ==
    \/ \E h \in Handles, tcp \in BOOLEAN :
           \/ OS_CreateLocalIpcFd(h, tcp)
           \/ \E open \in BOOLEAN : OS_CreateLocalIpcFd_Fails(h, tcp, open)
    \/ OS_Accept_Enter \/ OS_Accept_Lock \/ OS_Accept_LockFails \/ OS_Accept_Fails
    \/ Connect \/ (\E h \in Handles : acceptSocket(h)) \/ acceptSocket_Refuse \/ acceptSocket_Timeout
    \/ acceptNamedPipe
    \/ OS_IpcClose \/ OS_IpcClose_Fails
    \/ OS_ShutdownPending \/ ShutdownRequestThread \/ OtherLocks \/ OtherUnlocks

Next == OS_LibInit \/ Bridge \/ Server

Spec == Init /\ [][Next]_vars

-----------------------------------------------------------------------------
\* The types of the module's variables.
TypeOK ==
    /\ type \in [Fds -> {"FD_UNUSED", "FD_PIPE_SYNC", "FD_PIPE_ASYNC"} \cup Sockets]
    /\ fid \in [Fds -> Handles \cup {0}]
    /\ instance \in [Fds -> Nat]
    /\ opens \in Nat
    /\ handle \in [Handles -> {"free", "socket", "pipe", "listen"}]
    /\ key \in [Handles -> Fds \cup {None}]
    /\ ops \in Seq([fd : Fds, key : Fds \cup {None}, instance : Nat,
                    at : {"system", "stdin", "port", "called", "dropped", "lost"}])
    /\ port \in Seq(DOMAIN ops) /\ stdinPort \in Seq(DOMAIN ops)
    /\ stdinThread \in {"none", "waiting", "exited"}
    /\ pc \in {"start", "bridge", "idle", "wait", "accepting", "serving", "stopped"}
    /\ ipcFd \in Fds \cup {None}
    /\ listenType \in {"FD_UNUSED", "FD_PIPE_SYNC", "FD_PIPE_ASYNC", "FD_SOCKET_SYNC"}
    /\ hListen \in Handles \cup {None}
    /\ mutex \in {"none", "free", "self", "other"}
    /\ shutdownPending \in BOOLEAN /\ waiting \in BOOLEAN

\* fdTable and the system agree on the connections, through every success and
\* failure of connect, accept and close: each open socket is behind exactly one
\* descriptor, and the socket behind a descriptor is open, although the system
\* gives its handles out again.  "IPC connection is closed" (OS_IpcClose): a server
\* with a socket has no entry left but its listener's when it comes back to
\* OS_Accept, so it never runs out of them.
SocketsAccounted ==
    /\ \A h \in Handles : handle[h] = "socket" =>
           \E d \in Fds : /\ type[d] \in Sockets /\ fid[d] = h
                          /\ \A e \in Fds \ {d} : type[e] \in Sockets => fid[e] # h
    /\ \A d \in Fds : type[d] \in Sockets /\ fid[d] # hListen =>
           fid[d] \in Handles /\ handle[fid[d]] = "socket"
    /\ listenType = "FD_SOCKET_SYNC" /\ pc \in {"idle", "wait", "accepting"} =>
           \A d \in Fds : type[d] # "FD_UNUSED" => fid[d] = hListen

\* A completion names the descriptor on which its operation was started, whichever
\* of the library, the system or StdinThread posts it, and whatever other
\* descriptors the handle or the number has had before.  A request is waited for in
\* one place only: OS_DoIo frees it once, and no queue holds one that has been freed.
\* The callbacks of reads from standard input are called in the order in which the
\* reads were started, so the data arrive in order.
OneCompletion ==
    /\ \A i \in DOMAIN ops : ops[i].key = ops[i].fd
    /\ \A k \in DOMAIN port : ops[port[k]].at = "port"
    /\ \A k \in DOMAIN stdinPort : ops[stdinPort[k]].at = "stdin"
    /\ \A j, k \in DOMAIN port : port[j] = port[k] => j = k
    /\ \A i, j \in DOMAIN ops :
           i < j /\ ops[i].fd = 0 /\ ops[j].fd = 0 /\ ops[j].at = "called"
               => ops[i].at \in {"called", "dropped"}

\* OS_Accept leaves the mutex to the other processes on every way out, and nobody
\* is in the accept cycle without it.
MutexDiscipline ==
    /\ mutex = "self" => pc = "accepting"
    /\ pc = "accepting" => mutex \in {"self", "none"}

-----------------------------------------------------------------------------
\* The program calls OS_DoIo in a loop, serves its requests and calls OS_Accept
\* again; standard input delivers data or ends; select returns when a client is
\* there, and after a second without one; the other processes release the mutex and the
\* system lets everybody have it.
FairSpec ==
    /\ Spec
    /\ WF_vars(OS_DoIo) /\ WF_vars(StdinThread \/ StdinThread_Fails)
    /\ WF_vars(OS_Accept_Enter) /\ SF_vars(OS_Accept_Lock) /\ WF_vars(OtherUnlocks)
    /\ WF_vars(acceptSocket_Timeout) /\ WF_vars(hListen = None /\ OS_Accept_Fails)
    /\ WF_vars((\E h \in Handles : acceptSocket(h)) \/ acceptSocket_Refuse \/ (waiting /\ OS_Accept_Fails))
    /\ WF_vars(OS_IpcClose)

At(i, places) == i \in DOMAIN ops /\ ops[i].at \in places

\* The callback of an operation is called once its completion is posted, and a read
\* from standard input completes unless the thread has gone.
OperationCompletes ==
    \A i \in 1 .. MaxOps :
        /\ At(i, {"port"}) ~> At(i, {"called", "dropped"})
        /\ (At(i, {"stdin"}) /\ stdinThread = "waiting") ~>
               (At(i, {"called", "dropped"}) \/ stdinThread = "exited")

\* ConnectNamedPipe waits for a client and nothing wakes it.
Blocked == pc = "accepting" /\ listenType = "FD_PIPE_SYNC"

\* "select() is used to poll the shutdownPending flag": once shutdown is requested the
\* process stops, wherever it is in OS_Accept, whatever the other processes do with
\* the mutex, and also when clients come that it accepts.  The code does not stop in
\* two cases, which the property excepts: clients it refuses come again and again, so
\* that select never times out; and OS_ShutdownPending was called while the process
\* waits at a pipe.
ShutdownStops ==
    \/ []<><<acceptSocket_Refuse>>_vars
    \/ shutdownPending ~> (pc = "stopped" \/ Blocked)
=============================================================================
