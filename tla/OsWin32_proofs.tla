--------------------------- MODULE OsWin32_proofs ---------------------------
(***************************************************************************)
(* Proofs about the Windows layer of libfcgi, for a table of any size, any *)
(* handles and any number of operations.                                   *)
(***************************************************************************)
EXTENDS OsWin32, SequenceTheorems, WellFoundedInduction, TLAPS

-----------------------------------------------------------------------------
(* The inductive invariant: the table and the system.                      *)

Async == {"FD_SOCKET_ASYNC", "FD_PIPE_ASYNC"}

\* The types of the table, of the system's objects and of the server's variables.
TableOK ==
    /\ type \in [Fds -> {"FD_UNUSED", "FD_PIPE_SYNC", "FD_PIPE_ASYNC"} \cup Sockets]
    /\ fid \in [Fds -> Handles \cup {0}] /\ instance \in [Fds -> Nat]
    /\ handle \in [Handles -> {"free", "socket", "pipe", "listen"}]
    /\ key \in [Handles -> Fds \cup {None}]
    /\ pc \in {"start", "bridge", "idle", "wait", "accepting", "serving", "stopped"}
    /\ ipcFd \in Fds \cup {None} /\ hListen \in Handles \cup {None}
    /\ listenType \in {"FD_UNUSED", "FD_PIPE_SYNC", "FD_PIPE_ASYNC", "FD_SOCKET_SYNC"}

\* Behind a descriptor for a socket is the listener or an open connection; ...
Behind ==
    \A d \in Fds : type[d] \in Sockets =>
        /\ fid[d] \in Handles
        /\ handle[fid[d]] = IF fid[d] = hListen THEN "listen" ELSE "socket"

\* ... no two descriptors have the same one; ...
OneEach ==
    \A d, e \in Fds : type[d] \in Sockets /\ type[e] \in Sockets /\ fid[d] = fid[e] => d = e

\* ... and no open connection is without one.
Reached ==
    \A h \in Handles : handle[h] = "socket" => \E d \in Fds : type[d] \in Sockets /\ fid[d] = h

\* What a server has in its table: its listener, and the connection that it serves.
Listener ==
    /\ hListen # None => handle[hListen] = "listen"
    /\ pc \in {"start", "bridge"} => listenType = "FD_UNUSED"
    /\ listenType = "FD_UNUSED" => hListen = None
    /\ listenType = "FD_UNUSED" /\ pc # "bridge" => \A d \in Fds : type[d] = "FD_UNUSED"
    /\ listenType = "FD_PIPE_SYNC" =>
           hListen \in Handles /\ \A d \in Fds : type[d] \in {"FD_UNUSED", "FD_PIPE_SYNC"}
    /\ listenType = "FD_SOCKET_SYNC" =>
           \A d \in Fds : type[d] # "FD_UNUSED" => fid[d] = hListen \/ (pc = "serving" /\ d = ipcFd)
    /\ pc \in {"accepting", "serving"} => listenType \in {"FD_PIPE_SYNC", "FD_SOCKET_SYNC"}
    /\ pc = "serving" => /\ ipcFd \in Fds /\ type[ipcFd] = listenType
                         /\ listenType = "FD_SOCKET_SYNC" => fid[ipcFd] # hListen

\* A bridge: completions of a descriptor's handle come with the descriptor's number,
\* and number 0 stays with standard input.
Keys ==
    pc = "bridge" =>
        /\ type[0] \in {"FD_UNUSED", "FD_PIPE_SYNC"}
        /\ \A d \in Fds : type[d] = "FD_PIPE_ASYNC" => fid[d] \in Handles /\ handle[fid[d]] = "pipe"
        /\ \A d \in Fds : type[d] \in Async => key[fid[d]] = d

TInv == TableOK /\ Behind /\ OneEach /\ Reached /\ Listener /\ Keys

-----------------------------------------------------------------------------
(* The inductive invariant: the operations.                                *)

Places == {"system", "stdin", "port", "called", "dropped", "lost"}
Requests == [fd : Fds, key : Fds \cup {None}, instance : Nat, at : Places]

\* The types of the operations and of the queues, which hold requests.
QueuesOK ==
    /\ ops \in Seq(Requests) /\ port \in Seq(Nat) /\ stdinPort \in Seq(Nat)
    /\ \A k \in 1..Len(port) : port[k] \in 1..Len(ops) /\ ops[port[k]].at = "port"
    /\ \A k \in 1..Len(stdinPort) : stdinPort[k] \in 1..Len(ops) /\ ops[stdinPort[k]].at = "stdin"

\* An operation and its completion.
Named ==
    \A i \in 1..Len(ops) : /\ ops[i].key = ops[i].fd
                           /\ ops[i].at = "stdin" => ops[i].fd = 0
                           /\ ops[i].fd = 0 => ops[i].at # "system"

\* No number is twice in queue q; number n is in it; and those of its numbers that are
\* in Z are in ascending order.
Distinct(q) == \A j, k \in 1..Len(q) : q[j] = q[k] => j = k
Holds(q, n) == \E k \in 1..Len(q) : q[k] = n
Sorted(q, Z) == \A j, k \in 1..Len(q) : j < k /\ q[j] \in Z /\ q[k] \in Z => q[j] < q[k]

\* A request is in one place of the port.
Once == Distinct(port)

\* The reads from standard input.
Reads == {i \in 1..Len(ops) : ops[i].fd = 0}

\* Reads from standard input are in their queues, in the order in which they started.
Queued ==
    /\ \A i \in 1..Len(ops) : ops[i].at = "stdin" => Holds(stdinPort, i)
    /\ \A i \in Reads : ops[i].at = "port" => Holds(port, i)
    /\ Sorted(stdinPort, Nat) /\ Sorted(port, Reads)

\* The thread takes them in order, and nothing comes after a read that failed.
Ordered ==
    \A i, j \in 1..Len(ops) : i < j /\ ops[i].fd = 0 /\ ops[j].fd = 0 =>
        /\ ops[i].at \in {"stdin", "lost"} => ops[j].at = "stdin"
        /\ ops[j].at = "called" => ops[i].at \in {"called", "dropped"}

\* A read is lost only when the thread ends, and there is none before OS_LibInit.
Lost ==
    /\ \A i \in 1..Len(ops) : ops[i].at = "lost" => stdinThread = "exited"
    /\ pc = "start" => ops = <<>>

OInv == QueuesOK /\ Named /\ Once /\ Queued /\ Ordered /\ Lost

IInv == TInv /\ OInv /\ MutexDiscipline

-----------------------------------------------------------------------------
(* The table.                                                              *)

\* A set of numbers that is not empty has a least element.
LEMMA LeastElement ==
    ASSUME NEW T, T \subseteq Nat, T # {}
    PROVE  \E x \in T : \A y \in T : x <= y
<1> DEFINE R == OpToRel(<, Nat)
<1>1. IsWellFoundedOn(R, Nat)
      BY NatLessThanWellFounded
<1>2. PICK x \in T : \A y \in T : ~ (<<y, x>> \in R)
  <2> HIDE DEF R
  <2> QED BY <1>1, WFMin
<1>3. \A a, b \in Nat : a < b => <<a, b>> \in R
      BY DEF OpToRel
<1> HIDE DEF R
<1>4. \A y \in T : y \in Nat /\ ~(y < x)
      BY <1>2, <1>3
<1>5. \A y \in T : x <= y
      BY <1>4
<1> QED BY <1>5

\* Win32NewDescriptor gives out an entry that is free, and never number 0.
LEMMA NewIndexFree ==
    ASSUME NEW h \in Handles, NewIndex(h) # None
    PROVE  NewIndex(h) \in Fds /\ NewIndex(h) # 0 /\ type[NewIndex(h)] = "FD_UNUSED"
<1>1. h # 0 /\ Free \subseteq Fds /\ Fds \subseteq Nat
      BY HandlesAssumption, OpenMaxAssumption DEF Free, Fds
<1>2. CASE h \in Free
      BY <1>1, <1>2 DEF NewIndex, Free
<1>3. CASE h \notin Free
  <2>1. Free \ {0} # {}
        BY <1>3 DEF NewIndex
  <2>2. \E d \in Free \ {0} : \A e \in Free \ {0} : d <= e
        BY <1>1, <2>1, LeastElement
  <2>3. NewIndex(h) = CHOOSE d \in Free \ {0} : \A e \in Free \ {0} : d <= e
        BY <1>3, <2>1 DEF NewIndex
  <2>4. NewIndex(h) \in Free \ {0}
        BY <2>2, <2>3
  <2> QED BY <1>1, <2>4 DEF Free
<1> QED BY <1>2, <1>3

\* What opening a descriptor does to the table.
LEMMA NewDescriptor ==
    ASSUME NEW t, NEW h \in Handles, Win32NewDescriptor(t, h)
    PROVE  /\ NewIndex(h) \in Fds /\ NewIndex(h) # 0 /\ type[NewIndex(h)] = "FD_UNUSED"
           /\ type' = [type EXCEPT ![NewIndex(h)] = t]
           /\ fid' = [fid EXCEPT ![NewIndex(h)] = h]
           /\ instance' = instance
BY NewIndexFree DEF Win32NewDescriptor

\* The table before OS_LibInit.
LEMMA TableInit == Init => TInv
<1> SUFFICES ASSUME Init PROVE TInv
    OBVIOUS
<1>1. TableOK
      BY DEF Init, TableOK, Sockets
<1>2. Behind /\ OneEach /\ Reached /\ Listener /\ Keys
      BY DEF Init, Behind, OneEach, Reached, Listener, Keys, Sockets
<1> QED BY <1>1, <1>2 DEF TInv

\* OS_LibInit.
LEMMA TableLibInit == TInv /\ OS_LibInit => TInv'
<1> SUFFICES ASSUME TInv, OS_LibInit PROVE TInv'
    OBVIOUS
<1> USE DEF TInv
<1>1. 0 \in Fds
      BY OpenMaxAssumption DEF Fds
<1>2. pc = "start" => \A d \in Fds : type[d] = "FD_UNUSED"
      BY DEF Listener
<1>3. ASSUME NEW t \in {"FD_PIPE_SYNC", "FD_SOCKET_SYNC"}, NEW h \in Handles, NEW inherited \in BOOLEAN,
             OS_LibInit_Listener(t, h, inherited)
      PROVE  TInv'
  <2> USE <1>3 DEF OS_LibInit_Listener, table
  <2>1. TableOK'
        BY DEF TableOK
  <2>2. Behind' /\ OneEach'
        BY <1>2 DEF Behind, OneEach, Sockets
  <2>3. Reached'
        BY DEF Reached, TableOK
  <2>4. Listener'
        BY <1>2 DEF Listener, TableOK
  <2>5. Keys'
        BY DEF Keys
  <2> QED BY <2>1, <2>2, <2>3, <2>4, <2>5
<1>4. ASSUME NEW inherited \in BOOLEAN, OS_LibInit_Plain(inherited) PROVE TInv'
  <2> USE <1>4 DEF OS_LibInit_Plain, table, system
  <2>1. TableOK'
        BY DEF TableOK
  <2>2. Behind' /\ OneEach' /\ Reached'
        BY DEF Behind, OneEach, Reached
  <2>3. Listener' /\ Keys'
        BY DEF Listener, Keys
  <2> QED BY <2>1, <2>2, <2>3
<1>5. ASSUME NEW content \in BOOLEAN, OS_LibInit_Stdio(content) PROVE TInv'
  <2> USE <1>5 DEF OS_LibInit_Stdio, system
  <2>1. \A d \in Fds : type'[d] \in {"FD_UNUSED", "FD_PIPE_SYNC"}
        BY <1>2
  <2>2. TableOK'
        BY DEF TableOK
  <2>3. Behind' /\ OneEach'
        BY <2>1 DEF Behind, OneEach, Sockets
  <2>4. Reached'
        BY <1>2 DEF Reached, Sockets
  <2>5. Listener'
        BY DEF Listener
  <2>6. Keys'
        BY <1>1, <2>1 DEF Keys, Async
  <2> QED BY <2>2, <2>3, <2>4, <2>5, <2>6
<1> QED BY <1>3, <1>4, <1>5 DEF OS_LibInit

\* A bridge connects.
LEMMA TableConnectSocket ==
    ASSUME NEW h \in Handles, TInv, OS_FcgiConnect_Socket(h) PROVE TInv'
<1> DEFINE c == NewIndex(h)
<1>1. pc = "bridge" /\ handle[h] = "free" /\ hListen = None
      BY DEF OS_FcgiConnect_Socket, TInv, Listener
<1>2. /\ c \in Fds /\ c # 0 /\ type[c] = "FD_UNUSED"
      /\ type' = [type EXCEPT ![c] = "FD_SOCKET_SYNC"] /\ fid' = [fid EXCEPT ![c] = h]
      /\ instance' = instance
      BY NewDescriptor DEF OS_FcgiConnect_Socket
<1>3. /\ handle' = [handle EXCEPT ![h] = "socket"]
      /\ UNCHANGED <<key, pc, ipcFd, listenType, hListen>>
      BY DEF OS_FcgiConnect_Socket, server
<1> HIDE DEF c
<1>4. TableOK
      BY DEF TInv
<1>5. TableOK'
      BY <1>2, <1>3, <1>4 DEF TableOK, Sockets
<1>6. \A d \in Fds : type[d] \in Sockets => fid[d] # h
      BY <1>1 DEF TInv, Behind
<1>7. h # None
      BY HandlesAssumption DEF None
<1>8. Behind'
      BY <1>1, <1>2, <1>3, <1>4, <1>6, <1>7 DEF TInv, Behind, TableOK
<1>9. OneEach'
      BY <1>2, <1>4, <1>6 DEF TInv, OneEach, TableOK
<1>10. Reached'
  <2> SUFFICES ASSUME NEW g \in Handles, handle'[g] = "socket"
               PROVE  \E d \in Fds : type'[d] \in Sockets /\ fid'[d] = g
      BY DEF Reached
  <2>1. CASE g = h
        BY <1>2, <1>4, <2>1 DEF TableOK, Sockets
  <2>2. CASE g # h
    <3>1. PICK d \in Fds : type[d] \in Sockets /\ fid[d] = g
          BY <1>3, <1>4, <2>2 DEF TInv, Reached, TableOK
    <3>2. d # c
          BY <1>2, <3>1 DEF Sockets
    <3> QED BY <1>2, <1>4, <3>1, <3>2 DEF TableOK
  <2> QED BY <2>1, <2>2
<1>11. Listener'
      BY <1>1, <1>3 DEF TInv, Listener
<1>12. Keys'
      BY <1>1, <1>2, <1>3, <1>4 DEF TInv, Keys, TableOK, Async
<1> QED BY <1>5, <1>8, <1>9, <1>10, <1>11, <1>12 DEF TInv

\* A bridge connects to a pipe.
LEMMA TableConnectPipe ==
    ASSUME NEW h \in Handles, TInv, OS_FcgiConnect_Pipe(h) PROVE TInv'
<1> DEFINE c == NewIndex(h)
<1>1. pc = "bridge" /\ handle[h] = "free" /\ hListen = None
      BY DEF OS_FcgiConnect_Pipe, TInv, Listener
<1>2. /\ c \in Fds /\ c # 0 /\ type[c] = "FD_UNUSED"
      /\ type' = [type EXCEPT ![c] = "FD_PIPE_ASYNC"] /\ fid' = [fid EXCEPT ![c] = h]
      /\ instance' = instance
      BY NewDescriptor DEF OS_FcgiConnect_Pipe
<1>3. /\ handle' = [handle EXCEPT ![h] = "pipe"] /\ key' = [key EXCEPT ![h] = c]
      /\ UNCHANGED <<pc, ipcFd, listenType, hListen>>
      BY DEF OS_FcgiConnect_Pipe, server
<1> HIDE DEF c
<1>4. TableOK
      BY DEF TInv
<1>5. TableOK'
      BY <1>2, <1>3, <1>4 DEF TableOK
<1>6. \A d \in Fds : type[d] \in Sockets => fid[d] # h
      BY <1>1 DEF TInv, Behind
<1>7. h # None
      BY HandlesAssumption DEF None
<1>8. \A d \in Fds : type'[d] \in Sockets => type[d] \in Sockets /\ fid'[d] = fid[d]
      BY <1>2, <1>4 DEF TableOK, Sockets
<1>9. Behind'
      BY <1>1, <1>3, <1>4, <1>6, <1>8 DEF TInv, Behind, TableOK
<1>10. OneEach'
      BY <1>8 DEF TInv, OneEach
<1>11. Reached'
  <2> SUFFICES ASSUME NEW g \in Handles, handle'[g] = "socket"
               PROVE  \E d \in Fds : type'[d] \in Sockets /\ fid'[d] = g
      BY DEF Reached
  <2>1. g # h
        BY <1>3, <1>4 DEF TableOK
  <2>2. PICK d \in Fds : type[d] \in Sockets /\ fid[d] = g
        BY <1>3, <1>4, <2>1 DEF TInv, Reached, TableOK
  <2>3. d # c
        BY <1>2, <2>2 DEF Sockets
  <2> QED BY <1>2, <1>4, <2>2, <2>3 DEF TableOK
<1>12. Listener'
      BY <1>1, <1>3 DEF TInv, Listener
<1>13. Keys'
  <2>1. \A d \in Fds : type[d] = "FD_PIPE_ASYNC" => fid[d] # h
        BY <1>1 DEF TInv, Keys
  <2>2. \A d \in Fds : type[d] \in Async => fid[d] # h /\ fid[d] \in Handles
        BY <1>1, <1>6, <2>1 DEF Async, Sockets, TInv, Keys, Behind
  <2> QED BY <1>1, <1>2, <1>3, <1>4, <2>2 DEF TInv, Keys, TableOK, Async
<1> QED BY <1>5, <1>9, <1>10, <1>11, <1>12, <1>13 DEF TInv

\* A socket becomes asynchronous.
LEMMA TableSetFlags ==
    ASSUME NEW c \in Fds, TInv, OS_SetFlags(c) PROVE TInv'
<1>1. /\ pc = "bridge" /\ type[c] = "FD_SOCKET_SYNC"
      /\ type' = [type EXCEPT ![c] = "FD_SOCKET_ASYNC"] /\ key' = [key EXCEPT ![fid[c]] = c]
      /\ UNCHANGED <<fid, instance, handle, pc, ipcFd, listenType, hListen>>
      BY DEF OS_SetFlags, server
<1>2. TableOK
      BY DEF TInv
<1>3. fid[c] \in Handles /\ handle[fid[c]] = "socket"
  <2>1. hListen = None /\ None \notin Handles
        BY <1>1, HandlesAssumption DEF TInv, Listener, None
  <2>2. type[c] \in Sockets
        BY <1>1 DEF Sockets
  <2> QED BY <2>1, <2>2 DEF TInv, Behind
<1>4. TableOK'
      BY <1>1, <1>2 DEF TableOK, Sockets
<1>5. \A d \in Fds : type'[d] \in Sockets <=> type[d] \in Sockets
      BY <1>1, <1>2 DEF TableOK, Sockets
<1>6. Behind' /\ OneEach' /\ Reached'
      BY <1>1, <1>5 DEF TInv, Behind, OneEach, Reached
<1>7. Listener'
      BY <1>1 DEF TInv, Listener
<1>8. Keys'
  <2>1. c # 0
        BY <1>1 DEF TInv, Keys
  <2>2. type'[0] \in {"FD_UNUSED", "FD_PIPE_SYNC"}
        BY <1>1, <1>2, <2>1 DEF TInv, Keys, TableOK
  <2>3. \A d \in Fds : type'[d] = "FD_PIPE_ASYNC" => fid'[d] \in Handles /\ handle'[fid'[d]] = "pipe"
        BY <1>1, <1>2 DEF TInv, Keys, TableOK
  <2>4. ASSUME NEW d \in Fds, type'[d] \in Async PROVE key'[fid'[d]] = d
    <3>1. CASE d = c
          BY <1>1, <1>2, <1>3, <3>1 DEF TableOK
    <3>2. CASE d # c
      <4>1. type[d] \in Async
            BY <1>1, <1>2, <2>4, <3>2 DEF TableOK
      <4>2. fid[d] # fid[c]
        <5>1. CASE type[d] = "FD_PIPE_ASYNC"
              BY <1>1, <1>3, <5>1 DEF TInv, Keys
        <5>2. CASE type[d] = "FD_SOCKET_ASYNC"
              BY <1>1, <3>2, <5>2 DEF TInv, OneEach, Sockets
        <5> QED BY <4>1, <5>1, <5>2 DEF Async
      <4> QED BY <1>1, <1>2, <4>1, <4>2 DEF TInv, Keys, TableOK
    <3> QED BY <3>1, <3>2
  <2> QED BY <1>1, <2>2, <2>3, <2>4 DEF Keys
<1> QED BY <1>4, <1>6, <1>7, <1>8 DEF TInv

\* OS_Close takes the descriptor out of the table, and its socket, unless that is the
\* listener, out of the system.
LEMMA CloseParts ==
    ASSUME NEW c \in Fds, TInv, OS_Close(c), UNCHANGED hListen,
           type[c] \in Sockets => fid[c] # hListen
    PROVE  /\ TableOK => /\ type' \in [Fds -> {"FD_UNUSED", "FD_PIPE_SYNC", "FD_PIPE_ASYNC"} \cup Sockets]
                         /\ fid' \in [Fds -> Handles \cup {0}] /\ instance' \in [Fds -> Nat]
                         /\ handle' \in [Handles -> {"free", "socket", "pipe", "listen"}]
                         /\ key' \in [Handles -> Fds \cup {None}]
           /\ Behind' /\ OneEach' /\ Reached'
           /\ type' = [type EXCEPT ![c] = "FD_UNUSED"] /\ fid' = fid
           /\ \A h \in Handles : handle[h] \in {"pipe", "listen"} => handle'[h] = handle[h]
           /\ \A d \in Fds \ {c} : fid[d] \in Handles /\ type[d] \in Async /\ pc = "bridge"
                                   => key'[fid[d]] = key[fid[d]]
<1>1. type' = [type EXCEPT ![c] = "FD_UNUSED"] /\ fid' = fid /\ instance' = instance
      BY DEF OS_Close, Win32FreeDescriptor
<1>2. TableOK
      BY DEF TInv
<1>3. \A d \in Fds : type'[d] \in Sockets <=> d # c /\ type[d] \in Sockets
      BY <1>1, <1>2 DEF TableOK, Sockets
<1>4. OneEach'
      BY <1>1, <1>3 DEF TInv, OneEach
<1>5. CASE type[c] \in Sockets
  <2>1. fid[c] \in Handles /\ handle[fid[c]] = "socket"
        BY <1>5 DEF TInv, Behind
  <2>2. handle' = [handle EXCEPT ![fid[c]] = "free"] /\ key' = [key EXCEPT ![fid[c]] = None]
        BY <1>5 DEF OS_Close, CloseTarget
  <2>3. \A d \in Fds \ {c} : type[d] \in Sockets => fid[d] # fid[c]
        BY <1>5 DEF TInv, OneEach
  <2>4. Behind'
        BY <1>1, <1>2, <1>3, <2>2, <2>3 DEF TInv, Behind, TableOK
  <2>5. Reached'
    <3> SUFFICES ASSUME NEW h \in Handles, handle'[h] = "socket"
                 PROVE  \E d \in Fds : type'[d] \in Sockets /\ fid'[d] = h
        BY DEF Reached
    <3>1. h # fid[c] /\ handle[h] = "socket"
          BY <1>2, <2>1, <2>2 DEF TableOK
    <3>2. PICK d \in Fds : type[d] \in Sockets /\ fid[d] = h
          BY <3>1 DEF TInv, Reached
    <3>3. d # c
          BY <3>1, <3>2
    <3> QED BY <1>1, <1>3, <3>2, <3>3
  <2>6. \A d \in Fds \ {c} : fid[d] \in Handles /\ type[d] \in Async /\ pc = "bridge"
                             => key'[fid[d]] = key[fid[d]]
    <3> SUFFICES ASSUME NEW d \in Fds \ {c}, fid[d] \in Handles, type[d] \in Async, pc = "bridge"
                 PROVE  key'[fid[d]] = key[fid[d]]
        OBVIOUS
    <3>1. CASE type[d] = "FD_PIPE_ASYNC"
      <4>1. fid[d] # fid[c]
            BY <2>1, <3>1 DEF TInv, Keys
      <4> QED BY <1>2, <2>2, <4>1 DEF TableOK
    <3>2. CASE type[d] = "FD_SOCKET_ASYNC"
      <4>1. fid[d] # fid[c]
            BY <2>3, <3>2 DEF Sockets
      <4> QED BY <1>2, <2>2, <4>1 DEF TableOK
    <3> QED BY <3>1, <3>2 DEF Async
  <2> QED BY <1>1, <1>2, <1>4, <2>1, <2>2, <2>4, <2>5, <2>6 DEF TableOK
<1>6. CASE type[c] \notin Sockets
  <2>1. UNCHANGED <<handle, key>>
        BY <1>6 DEF OS_Close, CloseTarget, system
  <2>2. \A d \in Fds : type'[d] \in Sockets <=> type[d] \in Sockets
        BY <1>3, <1>6
  <2>3. Behind' /\ Reached'
        BY <1>1, <2>1, <2>2 DEF TInv, Behind, Reached
  <2> QED BY <1>1, <1>2, <1>4, <2>1, <2>3 DEF TableOK
<1> QED BY <1>5, <1>6

\* A bridge closes a descriptor.
LEMMA TableClose == ASSUME NEW c \in Fds, TInv, Close(c) PROVE TInv'
<1>1. pc = "bridge" /\ OS_Close(c) /\ UNCHANGED <<pc, ipcFd, listenType, hListen>>
      BY DEF Close, server
<1>2. hListen = None /\ listenType = "FD_UNUSED" /\ None \notin Handles
      BY <1>1, HandlesAssumption DEF TInv, Listener, None
<1>3. type[c] \in Sockets => fid[c] # hListen
      BY <1>2 DEF TInv, Behind
<1>4. TableOK
      BY DEF TInv
<1>5. TableOK'
      BY <1>1, <1>3, <1>4, CloseParts DEF TableOK
<1>6. Behind' /\ OneEach' /\ Reached'
      BY <1>1, <1>3, CloseParts
<1>7. Listener'
      BY <1>1, <1>2 DEF Listener
<1>8. Keys'
  <2>1. /\ type' = [type EXCEPT ![c] = "FD_UNUSED"] /\ fid' = fid
        /\ \A h \in Handles : handle[h] \in {"pipe", "listen"} => handle'[h] = handle[h]
        /\ \A d \in Fds \ {c} : fid[d] \in Handles /\ type[d] \in Async => key'[fid[d]] = key[fid[d]]
        BY <1>1, <1>3, CloseParts
  <2>2. \A d \in Fds : type'[d] = IF d = c THEN "FD_UNUSED" ELSE type[d]
        BY <1>4, <2>1 DEF TableOK
  <2>3. 0 \in Fds
        BY OpenMaxAssumption DEF Fds
  <2>4. \A d \in Fds : type[d] \in Async => fid[d] \in Handles
        BY <1>1 DEF TInv, Keys, Behind, Async, Sockets
  <2>5. type'[0] \in {"FD_UNUSED", "FD_PIPE_SYNC"}
        BY <1>1, <2>2, <2>3 DEF TInv, Keys
  <2>6. \A d \in Fds : type'[d] = "FD_PIPE_ASYNC" => fid'[d] \in Handles /\ handle'[fid'[d]] = "pipe"
        BY <1>1, <2>1, <2>2 DEF TInv, Keys
  <2>7. \A d \in Fds : type'[d] \in Async => key'[fid'[d]] = d
        BY <1>1, <2>1, <2>2, <2>4 DEF TInv, Keys, Async
  <2> QED BY <2>5, <2>6, <2>7 DEF Keys
<1> QED BY <1>5, <1>6, <1>7, <1>8 DEF TInv

\* A server creates its listener.
LEMMA TableCreateLocalIpcFd ==
    ASSUME NEW h \in Handles, NEW tcp \in BOOLEAN, TInv, OS_CreateLocalIpcFd(h, tcp) PROVE TInv'
<1> DEFINE c == NewIndex(h)
<1>1. pc = "idle" /\ listenType = "FD_UNUSED" /\ handle[h] = "free"
      BY DEF OS_CreateLocalIpcFd
<1>2. /\ c \in Fds /\ type' = [type EXCEPT ![c] = listenType'] /\ fid' = [fid EXCEPT ![c] = h]
      /\ instance' = instance
      BY NewDescriptor DEF OS_CreateLocalIpcFd
<1>3. /\ handle' = [handle EXCEPT ![h] = "listen"] /\ hListen' = h
      /\ listenType' \in {"FD_SOCKET_SYNC", "FD_PIPE_ASYNC"}
      /\ UNCHANGED <<key, pc, ipcFd>>
      BY DEF OS_CreateLocalIpcFd
<1> HIDE DEF c
<1>4. TableOK /\ \A d \in Fds : type[d] = "FD_UNUSED"
      BY <1>1 DEF TInv, Listener
<1>5. TableOK'
      BY <1>2, <1>3, <1>4 DEF TableOK, Sockets
<1>6. \A d \in Fds : type'[d] # "FD_UNUSED" => d = c /\ fid'[d] = h
      BY <1>2, <1>4 DEF TableOK
<1>7. handle'[h] = "listen"
      BY <1>3, <1>4 DEF TableOK
<1>8. Behind' /\ OneEach'
      BY <1>3, <1>6, <1>7 DEF Behind, OneEach, Sockets
<1>9. \A g \in Handles : handle[g] # "socket"
      BY <1>4 DEF TInv, Reached, Sockets
<1>10. Reached'
      BY <1>3, <1>4, <1>9 DEF Reached, TableOK
<1>11. Listener'
      BY <1>1, <1>3, <1>6, <1>7 DEF Listener
<1>12. Keys'
      BY <1>1, <1>3 DEF Keys
<1> QED BY <1>5, <1>8, <1>10, <1>11, <1>12 DEF TInv

\* The listener cannot be created.
LEMMA TableCreateFails ==
    ASSUME NEW h \in Handles, NEW tcp \in BOOLEAN, NEW open \in BOOLEAN,
           TInv, OS_CreateLocalIpcFd_Fails(h, tcp, open)
    PROVE  TInv'
<1>1. pc = "idle" /\ listenType = "FD_UNUSED" /\ handle[h] = "free"
      BY DEF OS_CreateLocalIpcFd_Fails
<1>2. /\ handle' = [handle EXCEPT ![h] = "listen"] \/ handle' = handle
      /\ listenType' \in {"FD_SOCKET_SYNC", "FD_PIPE_ASYNC"}
      /\ UNCHANGED <<type, fid, instance, key, pc, ipcFd, hListen>>
      BY DEF OS_CreateLocalIpcFd_Fails, table
<1>3. /\ TableOK /\ hListen = None
      /\ \A d \in Fds : type[d] = "FD_UNUSED"
      BY <1>1 DEF TInv, Listener
<1>4. TableOK'
      BY <1>2, <1>3 DEF TableOK
<1>5. Behind' /\ OneEach'
      BY <1>2, <1>3 DEF Behind, OneEach, Sockets
<1>6. \A g \in Handles : handle[g] # "socket"
      BY <1>3 DEF TInv, Reached, Sockets
<1>7. Reached'
      BY <1>2, <1>3, <1>6 DEF Reached, TableOK
<1>8. Listener' /\ Keys'
      BY <1>1, <1>2, <1>3 DEF Listener, Keys
<1> QED BY <1>4, <1>5, <1>7, <1>8 DEF TInv

\* A connection is accepted on a socket.
LEMMA TableAcceptSocket ==
    ASSUME NEW h \in Handles, TInv, acceptSocket(h) PROVE TInv'
<1> DEFINE c == NewIndex(h)
<1>1. pc = "accepting" /\ listenType = "FD_SOCKET_SYNC" /\ hListen # None /\ handle[h] = "free"
      BY DEF acceptSocket
<1>2. /\ c \in Fds /\ type[c] = "FD_UNUSED"
      /\ type' = [type EXCEPT ![c] = "FD_SOCKET_SYNC"] /\ fid' = [fid EXCEPT ![c] = h]
      /\ instance' = instance
      BY NewDescriptor DEF acceptSocket
<1>3. /\ handle' = [handle EXCEPT ![h] = "socket"]
      /\ ipcFd' = c /\ pc' = "serving"
      /\ UNCHANGED <<key, listenType, hListen>>
      BY DEF acceptSocket, Serve
<1> HIDE DEF c
<1>4. TableOK
      BY DEF TInv
<1>5. hListen \in Handles /\ handle[hListen] = "listen" /\ h # hListen
      BY <1>1, <1>4 DEF TInv, Listener, TableOK
<1>6. TableOK'
      BY <1>2, <1>3, <1>4 DEF TableOK, Sockets
<1>7. \A d \in Fds : type[d] \in Sockets => fid[d] # h
      BY <1>1 DEF TInv, Behind
<1>8. Behind'
      BY <1>1, <1>2, <1>3, <1>4, <1>5, <1>7 DEF TInv, Behind, TableOK
<1>9. OneEach'
      BY <1>2, <1>4, <1>7 DEF TInv, OneEach, TableOK
<1>10. Reached'
  <2> SUFFICES ASSUME NEW g \in Handles, handle'[g] = "socket"
               PROVE  \E d \in Fds : type'[d] \in Sockets /\ fid'[d] = g
      BY DEF Reached
  <2>1. CASE g = h
        BY <1>2, <1>4, <2>1 DEF TableOK, Sockets
  <2>2. CASE g # h
    <3>1. PICK d \in Fds : type[d] \in Sockets /\ fid[d] = g
          BY <1>3, <1>4, <2>2 DEF TInv, Reached, TableOK
    <3>2. d # c
          BY <1>2, <3>1 DEF Sockets
    <3> QED BY <1>2, <1>4, <3>1, <3>2 DEF TableOK
  <2> QED BY <2>1, <2>2
<1>11. Listener'
  <2>1. \A d \in Fds : type[d] # "FD_UNUSED" => fid[d] = hListen
        BY <1>1 DEF TInv, Listener
  <2>2. \A d \in Fds \ {c} : type'[d] = type[d] /\ fid'[d] = fid[d]
        BY <1>2, <1>4 DEF TableOK
  <2>3. type'[c] = "FD_SOCKET_SYNC" /\ fid'[c] = h
        BY <1>2, <1>4 DEF TableOK
  <2>4. handle'[hListen] = "listen"
        BY <1>3, <1>4, <1>5 DEF TableOK
  <2> QED BY <1>1, <1>2, <1>3, <1>5, <2>1, <2>2, <2>3, <2>4 DEF Listener
<1>12. Keys'
      BY <1>3 DEF Keys
<1> QED BY <1>6, <1>8, <1>9, <1>10, <1>11, <1>12 DEF TInv

\* The listening pipe becomes the connection.
LEMMA TableAcceptNamedPipe == ASSUME TInv, acceptNamedPipe PROVE TInv'
<1> DEFINE c == NewIndex(hListen)
<1>1. pc = "accepting" /\ listenType = "FD_PIPE_SYNC"
      BY DEF acceptNamedPipe
<1>2. TableOK /\ hListen \in Handles
      BY <1>1 DEF TInv, Listener
<1>3. /\ c \in Fds
      /\ type' = [type EXCEPT ![c] = "FD_PIPE_SYNC"] /\ fid' = [fid EXCEPT ![c] = hListen]
      /\ instance' = instance
      BY <1>2, NewDescriptor DEF acceptNamedPipe
<1>4. /\ ipcFd' = c /\ pc' = "serving"
      /\ UNCHANGED <<handle, key, listenType, hListen>>
      BY DEF acceptNamedPipe, Serve, system
<1> HIDE DEF c
<1>5. TableOK'
      BY <1>2, <1>3, <1>4 DEF TableOK
<1>6. \A d \in Fds : type[d] \in {"FD_UNUSED", "FD_PIPE_SYNC"}
      BY <1>1 DEF TInv, Listener
<1>7. \A d \in Fds : type'[d] \in {"FD_UNUSED", "FD_PIPE_SYNC"}
      BY <1>2, <1>3, <1>6 DEF TableOK
<1>8. Behind' /\ OneEach'
      BY <1>7 DEF Behind, OneEach, Sockets
<1>9. \A g \in Handles : handle[g] # "socket"
      BY <1>6 DEF TInv, Reached, Sockets
<1>10. Reached'
      BY <1>4, <1>9 DEF Reached
<1>11. type'[c] = "FD_PIPE_SYNC" /\ handle[hListen] = "listen"
  <2>1. hListen # None
        BY <1>2, HandlesAssumption DEF None
  <2> QED BY <1>2, <1>3, <2>1 DEF TInv, Listener, TableOK
<1>12. Listener' /\ Keys'
      BY <1>1, <1>2, <1>3, <1>4, <1>7, <1>11 DEF Listener, Keys
<1> QED BY <1>5, <1>8, <1>10, <1>12 DEF TInv

\* The connection is closed.
LEMMA TableIpcClose == ASSUME TInv, OS_IpcClose PROVE TInv'
<1>1. /\ pc = "serving" /\ OS_Close(ipcFd) /\ pc' = "idle" /\ ipcFd' = None
      /\ UNCHANGED <<listenType, hListen>>
      BY DEF OS_IpcClose
<1>2. TableOK /\ ipcFd \in Fds /\ type[ipcFd] = listenType
      BY <1>1 DEF TInv, Listener
<1>3. listenType \in {"FD_PIPE_SYNC", "FD_SOCKET_SYNC"}
      BY <1>1 DEF TInv, Listener
<1>4. type[ipcFd] \in Sockets => fid[ipcFd] # hListen
      BY <1>1, <1>2, <1>3 DEF TInv, Listener, Sockets
<1>5. /\ TableOK => /\ type' \in [Fds -> {"FD_UNUSED", "FD_PIPE_SYNC", "FD_PIPE_ASYNC"} \cup Sockets]
                    /\ fid' \in [Fds -> Handles \cup {0}] /\ instance' \in [Fds -> Nat]
                    /\ handle' \in [Handles -> {"free", "socket", "pipe", "listen"}]
                    /\ key' \in [Handles -> Fds \cup {None}]
      /\ Behind' /\ OneEach' /\ Reached'
      /\ type' = [type EXCEPT ![ipcFd] = "FD_UNUSED"] /\ fid' = fid
      /\ \A h \in Handles : handle[h] \in {"pipe", "listen"} => handle'[h] = handle[h]
      BY <1>1, <1>2, <1>4, CloseParts
<1>6. TableOK'
      BY <1>1, <1>2, <1>5 DEF TableOK
<1>7. \A d \in Fds : type'[d] = IF d = ipcFd THEN "FD_UNUSED" ELSE type[d]
      BY <1>2, <1>5 DEF TableOK
<1>8. hListen # None => handle'[hListen] = "listen"
      BY <1>2, <1>5 DEF TInv, Listener, TableOK
<1>9. listenType = "FD_PIPE_SYNC" =>
          hListen \in Handles /\ \A d \in Fds : type'[d] \in {"FD_UNUSED", "FD_PIPE_SYNC"}
      BY <1>7 DEF TInv, Listener
<1>10. listenType = "FD_SOCKET_SYNC" => \A d \in Fds : type'[d] # "FD_UNUSED" => fid'[d] = hListen
      BY <1>5, <1>7 DEF TInv, Listener
<1>11. Listener' /\ Keys'
      BY <1>1, <1>3, <1>8, <1>9, <1>10 DEF Listener, Keys
<1> QED BY <1>5, <1>6, <1>11 DEF TInv

\* A step of a server that leaves the table and the system alone, and after which it
\* serves no connection.
LEMMA TableStep ==
    ASSUME TInv, UNCHANGED <<type, fid, instance, handle, key, listenType, hListen>>,
           ipcFd' \in {ipcFd, None},
           pc \notin {"start", "bridge"}, pc' \in {"idle", "wait", "accepting", "stopped"},
           pc = "serving" => listenType = "FD_PIPE_SYNC",
           pc' = "accepting" => listenType \in {"FD_PIPE_SYNC", "FD_SOCKET_SYNC"}
    PROVE  TInv'
<1>1. TableOK'
      BY DEF TInv, TableOK
<1>2. Behind' /\ OneEach' /\ Reached'
      BY DEF TInv, Behind, OneEach, Reached
<1>3. Listener'
      BY DEF TInv, Listener
<1>4. Keys'
      BY DEF Keys
<1> QED BY <1>1, <1>2, <1>3, <1>4 DEF TInv

\* A step that leaves all of them alone.
LEMMA TableFrame ==
    ASSUME TInv, UNCHANGED <<type, fid, instance, handle, key, pc, ipcFd, listenType, hListen>>
    PROVE  TInv'
BY DEF TInv, TableOK, Behind, OneEach, Reached, Listener, Keys

\* Every step keeps the table in order.
LEMMA TableNext == TInv /\ [Next]_vars => TInv'
<1> SUFFICES ASSUME TInv, [Next]_vars PROVE TInv'
    OBVIOUS
<1>1. CASE OS_LibInit
      BY <1>1, TableLibInit
<1>2. CASE Bridge
  <2>1. ASSUME NEW h \in Handles, OS_FcgiConnect_Socket(h) \/ OS_FcgiConnect_Pipe(h) PROVE TInv'
        BY <2>1, TableConnectSocket, TableConnectPipe
  <2>2. ASSUME NEW d \in Fds, OS_SetFlags(d) \/ Close(d) PROVE TInv'
        BY <2>2, TableSetFlags, TableClose
  <2>3. ASSUME NEW d \in Fds, OS_AsyncReadWrite(d) \/ OS_AsyncReadWrite_Fails(d) PROVE TInv'
        BY <2>3, TableFrame DEF OS_AsyncReadWrite, OS_AsyncReadWrite_Fails, table, system, server
  <2>4. CASE OS_AsyncReadStdin \/ OS_DoIo \/ StdinThread \/ StdinThread_Fails
        BY <2>4, TableFrame DEF OS_AsyncReadStdin, OS_DoIo, StdinThread, StdinThread_Fails, table, system, server
  <2>5. ASSUME NEW i \in 1 .. MaxOps, Complete(i) PROVE TInv'
        BY <2>5, TableFrame DEF Complete, table, system, server
  <2> QED BY <1>2, <2>1, <2>2, <2>3, <2>4, <2>5 DEF Bridge
<1>3. CASE Server
  <2>1. ASSUME NEW h \in Handles, NEW tcp \in BOOLEAN, OS_CreateLocalIpcFd(h, tcp) PROVE TInv'
        BY <2>1, TableCreateLocalIpcFd
  <2>2. ASSUME NEW h \in Handles, NEW tcp \in BOOLEAN, NEW open \in BOOLEAN,
               OS_CreateLocalIpcFd_Fails(h, tcp, open)
        PROVE  TInv'
        BY <2>2, TableCreateFails
  <2>3. CASE OS_Accept_Enter
        BY <2>3, TableStep DEF OS_Accept_Enter, Fail, table, system
  <2>4. CASE OS_Accept_Lock
        BY <2>4, TableStep DEF OS_Accept_Lock, table, system
  <2>5. CASE OS_Accept_LockFails
        BY <2>5, TableStep DEF OS_Accept_LockFails, Fail, table, system
  <2>6. CASE OS_Accept_Fails
        BY <2>6, TableStep DEF OS_Accept_Fails, Fail, table, system
  <2>7. ASSUME NEW h \in Handles, acceptSocket(h) PROVE TInv'
        BY <2>7, TableAcceptSocket
  <2>8. CASE acceptSocket_Timeout
        BY <2>8, TableStep DEF acceptSocket_Timeout, Fail, table, system
  <2>9. CASE acceptNamedPipe
        BY <2>9, TableAcceptNamedPipe
  <2>10. CASE OS_IpcClose
        BY <2>10, TableIpcClose
  <2>11. CASE OS_IpcClose_Fails
        BY <2>11, TableStep DEF OS_IpcClose_Fails, table, system
  <2>12. CASE ShutdownRequestThread
    <3>1. CASE listenType = "FD_PIPE_SYNC"
          BY <2>12, <3>1, TableStep DEF ShutdownRequestThread, Fail, table, system
    <3>2. CASE listenType # "FD_PIPE_SYNC"
          BY <2>12, <3>2, TableFrame DEF ShutdownRequestThread, table, system
    <3> QED BY <3>1, <3>2
  <2>13. CASE OtherLocks \/ OtherUnlocks
        BY <2>13, TableFrame DEF OtherLocks, OtherUnlocks, table, system
  <2>14. CASE Connect \/ acceptSocket_Refuse \/ OS_ShutdownPending
        BY <2>14, TableFrame DEF Connect, acceptSocket_Refuse, OS_ShutdownPending, table, system
  <2> QED BY <1>3, <2>1, <2>2, <2>3, <2>4, <2>5, <2>6, <2>7, <2>8, <2>9, <2>10, <2>11, <2>12, <2>13, <2>14
          DEF Server
<1>4. CASE UNCHANGED vars
      BY <1>4, TableFrame DEF vars, table, system, server
<1> QED BY <1>1, <1>2, <1>3, <1>4 DEF Next

-----------------------------------------------------------------------------
(* The operations.                                                         *)

\* A request moves to another place.
LEMMA Moved ==
    ASSUME NEW n \in 1..Len(ops), NEW a \in Places, ops \in Seq(Requests),
           ops' = [ops EXCEPT ![n].at = a]
    PROVE  /\ ops' \in Seq(Requests) /\ Len(ops') = Len(ops)
           /\ \A i \in 1..Len(ops) :
                  /\ ops'[i].fd = ops[i].fd /\ ops'[i].key = ops[i].key
                  /\ ops'[i].at = IF i = n THEN a ELSE ops[i].at
<1>1. ops[n] \in Requests /\ [ops[n] EXCEPT !.at = a] \in Requests
  <2>1. \A r \in Requests : [r EXCEPT !.at = a] \in Requests
        BY DEF Requests
  <2>2. ops[n] \in Requests
        OBVIOUS
  <2> QED BY <2>1, <2>2
<1>2. ops' \in Seq(Requests) /\ Len(ops') = Len(ops)
      BY <1>1
<1>3. \A i \in 1..Len(ops) : ops'[i] = IF i = n THEN [ops[n] EXCEPT !.at = a] ELSE ops[i]
      BY <1>1
<1>4. /\ [ops[n] EXCEPT !.at = a].fd = ops[n].fd
      /\ [ops[n] EXCEPT !.at = a].key = ops[n].key
      /\ [ops[n] EXCEPT !.at = a].at = a
      BY <1>1 DEF Requests
<1> QED BY <1>2, <1>3, <1>4

\* A request starts.
LEMMA Started ==
    ASSUME NEW d \in Fds, NEW k \in Fds \cup {None}, NEW a \in Places,
           ops \in Seq(Requests), instance \in [Fds -> Nat],
           ops' = Append(ops, Request(d, k, a))
    PROVE  /\ ops' \in Seq(Requests) /\ Len(ops') = Len(ops) + 1 /\ Len(ops) \in Nat
           /\ \A i \in 1..Len(ops) : ops'[i] = ops[i]
           /\ ops'[Len(ops) + 1].fd = d /\ ops'[Len(ops) + 1].key = k
           /\ ops'[Len(ops) + 1].at = a
<1> DEFINE r == Request(d, k, a)
<1>1. r \in Requests /\ r.fd = d /\ r.key = k /\ r.at = a
      BY DEF Request, Requests
<1> HIDE DEF r
<1>2. ops' = Append(ops, r)
      BY DEF r
<1>3. /\ ops' \in Seq(Requests) /\ Len(ops') = Len(ops) + 1 /\ Len(ops) \in Nat
      /\ \A i \in 1..Len(ops) : ops'[i] = ops[i]
      /\ ops'[Len(ops) + 1] = r
      BY <1>1, <1>2
<1> QED BY <1>1, <1>3

\* A number joins a queue.
LEMMA Joined ==
    ASSUME NEW q \in Seq(Nat), NEW n \in Nat, NEW r, r = Append(q, n)
    PROVE  /\ r \in Seq(Nat)
           /\ \A k \in 1..Len(r) : r[k] = n \/ \E j \in 1..Len(q) : r[k] = q[j]
           /\ \A i : Holds(q, i) => Holds(r, i)
           /\ Holds(r, n)
           /\ Distinct(q) /\ ~ Holds(q, n) => Distinct(r)
           /\ \A Z : Sorted(q, Z) /\ (n \in Z => \A k \in 1..Len(q) : q[k] \in Z => q[k] < n)
                     => Sorted(r, Z)
<1>1. /\ r \in Seq(Nat) /\ Len(r) = Len(q) + 1 /\ Len(q) \in Nat
      /\ \A k \in 1..Len(q) : r[k] = q[k]
      /\ r[Len(q) + 1] = n
      OBVIOUS
<1>2. /\ 1..Len(r) = (1..Len(q)) \cup {Len(r)} /\ r[Len(r)] = n
      /\ \A k \in 1..Len(q) : ~ (Len(r) < k)
      /\ ~ (Len(r) < Len(r))
      BY <1>1
<1>3. \A k \in 1..Len(r) : r[k] = n \/ \E j \in 1..Len(q) : r[k] = q[j]
      BY <1>1, <1>2
<1>4. (\A i : Holds(q, i) => Holds(r, i)) /\ Holds(r, n)
      BY <1>1, <1>2 DEF Holds
<1>5. ASSUME Distinct(q), ~ Holds(q, n) PROVE Distinct(r)
      BY <1>1, <1>2, <1>5 DEF Distinct, Holds
<1>6. ASSUME NEW Z, Sorted(q, Z), n \in Z => \A k \in 1..Len(q) : q[k] \in Z => q[k] < n
      PROVE  Sorted(r, Z)
  <2> SUFFICES ASSUME NEW j \in 1..Len(r), NEW k \in 1..Len(r), j < k, r[j] \in Z, r[k] \in Z
               PROVE  r[j] < r[k]
      BY DEF Sorted
  <2>1. j \in 1..Len(q)
        BY <1>2
  <2>2. CASE k \in 1..Len(q)
        BY <1>1, <1>6, <2>1, <2>2 DEF Sorted
  <2>3. CASE k = Len(r)
        BY <1>1, <1>2, <1>6, <2>1, <2>3
  <2> QED BY <1>2, <2>2, <2>3
<1> QED BY <1>1, <1>3, <1>4, <1>5, <1>6

\* The first number leaves a queue.
LEMMA Left ==
    ASSUME NEW q \in Seq(Nat), q # <<>>, NEW r, r = Tail(q)
    PROVE  /\ r \in Seq(Nat) /\ 1 \in 1..Len(q) /\ Head(q) = q[1]
           /\ \A k \in 1..Len(r) : \E j \in 1..Len(q) : r[k] = q[j] /\ 1 < j
           /\ \A i : Holds(q, i) /\ i # q[1] => Holds(r, i)
           /\ Distinct(q) => Distinct(r)
           /\ \A Z : Sorted(q, Z) => Sorted(r, Z)
<1>1. /\ r \in Seq(Nat) /\ Len(q) \in Nat \ {0} /\ Len(r) = Len(q) - 1
      /\ \A k \in 1..Len(r) : r[k] = q[k + 1]
      /\ Head(q) = q[1]
      BY EmptySeq
<1>2. /\ \A k \in 1..Len(r) : k + 1 \in 1..Len(q) /\ 1 < k + 1
      /\ \A k \in 1..Len(q) : k # 1 => k - 1 \in 1..Len(r) /\ (k - 1) + 1 = k
      /\ \A j, k \in 1..Len(r) : (j < k => j + 1 < k + 1) /\ (j + 1 = k + 1 => j = k)
      /\ 1 \in 1..Len(q)
      BY <1>1
<1>3. \A k \in 1..Len(r) : \E j \in 1..Len(q) : r[k] = q[j] /\ 1 < j
      BY <1>1, <1>2
<1>4. ASSUME NEW i, Holds(q, i), i # q[1] PROVE Holds(r, i)
  <2>1. PICK k \in 1..Len(q) : q[k] = i
        BY <1>4 DEF Holds
  <2>2. k - 1 \in 1..Len(r) /\ (k - 1) + 1 = k
        BY <1>2, <1>4, <2>1
  <2>3. r[k - 1] = i
        BY <1>1, <2>1, <2>2
  <2> QED BY <2>2, <2>3 DEF Holds
<1>5. ASSUME Distinct(q) PROVE Distinct(r)
  <2> SUFFICES ASSUME NEW j \in 1..Len(r), NEW k \in 1..Len(r), r[j] = r[k] PROVE j = k
      BY DEF Distinct
  <2>1. j + 1 \in 1..Len(q) /\ k + 1 \in 1..Len(q) /\ q[j + 1] = q[k + 1]
        BY <1>1, <1>2
  <2>2. j + 1 = k + 1
        BY <1>5, <2>1 DEF Distinct
  <2> QED BY <1>2, <2>2
<1>6. ASSUME NEW Z, Sorted(q, Z) PROVE Sorted(r, Z)
  <2> SUFFICES ASSUME NEW j \in 1..Len(r), NEW k \in 1..Len(r), j < k, r[j] \in Z, r[k] \in Z
               PROVE  r[j] < r[k]
      BY DEF Sorted
  <2>1. j + 1 \in 1..Len(q) /\ k + 1 \in 1..Len(q) /\ j + 1 < k + 1
        BY <1>2
  <2>2. r[j] = q[j + 1] /\ r[k] = q[k + 1]
        BY <1>1
  <2> QED BY <1>6, <2>1, <2>2 DEF Sorted
<1> QED BY <1>1, <1>2, <1>3, <1>4, <1>5, <1>6

\* A request is posted to hIoCompPort.
LEMMA PortJoined ==
    ASSUME NEW n \in Nat, port \in Seq(Nat), port' = Append(port, n)
    PROVE  /\ port' \in Seq(Nat)
           /\ \A k \in 1..Len(port') : port'[k] = n \/ \E j \in 1..Len(port) : port'[k] = port[j]
           /\ \A i : Holds(port, i) => Holds(port', i)
           /\ Holds(port', n)
           /\ Distinct(port) /\ ~ Holds(port, n) => Distinct(port')
           /\ \A Z : Sorted(port, Z) /\ (n \in Z => \A k \in 1..Len(port) : port[k] \in Z => port[k] < n)
                     => Sorted(port', Z)
<1>1. port' \in Seq(Nat) /\ \A k \in 1..Len(port') : port'[k] = n \/ \E j \in 1..Len(port) : port'[k] = port[j]
      BY Joined
<1>2. (\A i : Holds(port, i) => Holds(port', i)) /\ Holds(port', n)
      BY Joined
<1>3. Distinct(port) /\ ~ Holds(port, n) => Distinct(port')
      BY Joined
<1>4. \A Z : Sorted(port, Z) /\ (n \in Z => \A k \in 1..Len(port) : port[k] \in Z => port[k] < n)
            => Sorted(port', Z)
      BY Joined
<1> QED BY <1>1, <1>2, <1>3, <1>4

\* A request is posted to hStdinCompPort.
LEMMA StdinPortJoined ==
    ASSUME NEW n \in Nat, stdinPort \in Seq(Nat), stdinPort' = Append(stdinPort, n)
    PROVE  /\ stdinPort' \in Seq(Nat)
           /\ \A k \in 1..Len(stdinPort') : stdinPort'[k] = n \/ \E j \in 1..Len(stdinPort) : stdinPort'[k] = stdinPort[j]
           /\ \A i : Holds(stdinPort, i) => Holds(stdinPort', i)
           /\ Holds(stdinPort', n)
           /\ Distinct(stdinPort) /\ ~ Holds(stdinPort, n) => Distinct(stdinPort')
           /\ \A Z : Sorted(stdinPort, Z) /\ (n \in Z => \A k \in 1..Len(stdinPort) : stdinPort[k] \in Z => stdinPort[k] < n)
                     => Sorted(stdinPort', Z)
<1>1. stdinPort' \in Seq(Nat) /\ \A k \in 1..Len(stdinPort') : stdinPort'[k] = n \/ \E j \in 1..Len(stdinPort) : stdinPort'[k] = stdinPort[j]
      BY Joined
<1>2. (\A i : Holds(stdinPort, i) => Holds(stdinPort', i)) /\ Holds(stdinPort', n)
      BY Joined
<1>3. Distinct(stdinPort) /\ ~ Holds(stdinPort, n) => Distinct(stdinPort')
      BY Joined
<1>4. \A Z : Sorted(stdinPort, Z) /\ (n \in Z => \A k \in 1..Len(stdinPort) : stdinPort[k] \in Z => stdinPort[k] < n)
            => Sorted(stdinPort', Z)
      BY Joined
<1> QED BY <1>1, <1>2, <1>3, <1>4

\* A request is taken out of hIoCompPort.
LEMMA PortLeft ==
    ASSUME port \in Seq(Nat), port # <<>>, port' = Tail(port)
    PROVE  /\ port' \in Seq(Nat) /\ 1 \in 1..Len(port) /\ Head(port) = port[1]
           /\ \A k \in 1..Len(port') : \E j \in 1..Len(port) : port'[k] = port[j] /\ 1 < j
           /\ \A i : Holds(port, i) /\ i # port[1] => Holds(port', i)
           /\ Distinct(port) => Distinct(port')
           /\ \A Z : Sorted(port, Z) => Sorted(port', Z)
<1>1. port' \in Seq(Nat) /\ 1 \in 1..Len(port) /\ Head(port) = port[1]
      BY Left
<1>2. \A k \in 1..Len(port') : \E j \in 1..Len(port) : port'[k] = port[j] /\ 1 < j
      BY Left
<1>3. \A i : Holds(port, i) /\ i # port[1] => Holds(port', i)
      BY Left
<1>4. Distinct(port) => Distinct(port')
      BY Left
<1>5. \A Z : Sorted(port, Z) => Sorted(port', Z)
      BY Left
<1> QED BY <1>1, <1>2, <1>3, <1>4, <1>5

\* A request is taken out of hStdinCompPort.
LEMMA StdinPortLeft ==
    ASSUME stdinPort \in Seq(Nat), stdinPort # <<>>, stdinPort' = Tail(stdinPort)
    PROVE  /\ stdinPort' \in Seq(Nat) /\ 1 \in 1..Len(stdinPort) /\ Head(stdinPort) = stdinPort[1]
           /\ \A k \in 1..Len(stdinPort') : \E j \in 1..Len(stdinPort) : stdinPort'[k] = stdinPort[j] /\ 1 < j
           /\ \A i : Holds(stdinPort, i) /\ i # stdinPort[1] => Holds(stdinPort', i)
           /\ Distinct(stdinPort) => Distinct(stdinPort')
           /\ \A Z : Sorted(stdinPort, Z) => Sorted(stdinPort', Z)
<1>1. stdinPort' \in Seq(Nat) /\ 1 \in 1..Len(stdinPort) /\ Head(stdinPort) = stdinPort[1]
      BY Left
<1>2. \A k \in 1..Len(stdinPort') : \E j \in 1..Len(stdinPort) : stdinPort'[k] = stdinPort[j] /\ 1 < j
      BY Left
<1>3. \A i : Holds(stdinPort, i) /\ i # stdinPort[1] => Holds(stdinPort', i)
      BY Left
<1>4. Distinct(stdinPort) => Distinct(stdinPort')
      BY Left
<1>5. \A Z : Sorted(stdinPort, Z) => Sorted(stdinPort', Z)
      BY Left
<1> QED BY <1>1, <1>2, <1>3, <1>4, <1>5

\* The operations before the first one.
LEMMA OpsInit == Init => OInv
<1> SUFFICES ASSUME Init PROVE OInv
    OBVIOUS
<1>1. QueuesOK /\ Named /\ Once
      BY DEF Init, QueuesOK, Named, Once, Distinct
<1>2. Queued /\ Ordered /\ Lost
      BY DEF Init, Queued, Holds, Sorted, Reads, Ordered, Lost
<1> QED BY <1>1, <1>2 DEF OInv

\* A step that leaves the operations alone.
LEMMA OpsFrame ==
    ASSUME OInv, UNCHANGED <<ops, port, stdinPort, stdinThread>>, pc' = "start" => pc = "start"
    PROVE  OInv'
<1>1. QueuesOK' /\ Named' /\ Once'
      BY DEF OInv, QueuesOK, Named, Once, Distinct
<1>2. Queued'
      BY DEF OInv, Queued, Holds, Sorted, Reads
<1>3. Ordered' /\ Lost'
      BY DEF OInv, Ordered, Lost
<1> QED BY <1>1, <1>2, <1>3 DEF OInv

\* OS_LibInit starts the thread before there is anything to read.
LEMMA OpsLibInit ==
    ASSUME OInv, UNCHANGED <<ops, port, stdinPort>>, pc = "start", pc' # "start"
    PROVE  OInv'
<1>1. Len(ops) = 0
      BY DEF OInv, Lost
<1>2. \A i \in 1..Len(ops) : FALSE
      BY <1>1
<1>3. Lost'
      BY <1>2 DEF Lost
<1>4. QueuesOK' /\ Named' /\ Once'
      BY DEF OInv, QueuesOK, Named, Once, Distinct
<1>5. Queued' /\ Ordered'
      BY DEF OInv, Queued, Holds, Sorted, Reads, Ordered
<1> QED BY <1>3, <1>4, <1>5 DEF OInv

\* An operation on a socket or a pipe starts, and is the system's.
LEMMA OpsAsyncReadWrite ==
    ASSUME NEW d \in Fds, TInv, OInv, OS_AsyncReadWrite(d) PROVE OInv'
<1>1. /\ pc = "bridge" /\ type[d] \in Async
      /\ ops' = Append(ops, Request(d, key[fid[d]], "system"))
      /\ UNCHANGED <<port, stdinPort, stdinThread, pc>>
      BY DEF OS_AsyncReadWrite, Async, server
<1>2. d # 0 /\ key[fid[d]] = d
      BY <1>1 DEF TInv, Keys, Async
<1>3. ops' = Append(ops, Request(d, d, "system"))
      BY <1>1, <1>2
<1> DEFINE n == Len(ops) + 1
<1>4. /\ ops' \in Seq(Requests) /\ Len(ops') = n /\ Len(ops) \in Nat
      /\ \A i \in 1..Len(ops) : ops'[i] = ops[i]
      /\ ops'[n].fd = d /\ ops'[n].key = d /\ ops'[n].at = "system"
      BY <1>3, Started DEF TInv, TableOK, OInv, QueuesOK, Places
<1>5. /\ n \in Nat /\ 1..n = (1..Len(ops)) \cup {n}
      /\ \A i \in 1..Len(ops) : i < n
      BY <1>4
<1> HIDE DEF n
<1>6. QueuesOK'
      BY <1>1, <1>4, <1>5 DEF OInv, QueuesOK
<1>7. Named'
      BY <1>2, <1>4, <1>5 DEF OInv, Named
<1>8. Once'
      BY <1>1 DEF OInv, Once, Distinct
<1>9. Queued'
  <2>1. Reads' = Reads /\ \A i \in Reads : ops'[i].at = ops[i].at
        BY <1>2, <1>4, <1>5 DEF Reads
  <2>2. \A i \in 1..Len(ops') : ops'[i].at = "stdin" => Holds(stdinPort', i)
        BY <1>1, <1>4, <1>5 DEF OInv, Queued, Holds
  <2>3. \A i \in Reads' : ops'[i].at = "port" => Holds(port', i)
        BY <1>1, <2>1 DEF OInv, Queued, Holds
  <2>4. Sorted(stdinPort, Nat)' /\ Sorted(port, Reads)'
        BY <1>1, <2>1 DEF OInv, Queued, Sorted
  <2> QED BY <2>2, <2>3, <2>4 DEF Queued
<1>10. Ordered'
      BY <1>2, <1>4, <1>5 DEF OInv, Ordered
<1>11. Lost'
      BY <1>1, <1>4, <1>5 DEF OInv, Lost
<1> QED BY <1>6, <1>7, <1>8, <1>9, <1>10, <1>11 DEF OInv

\* It fails, and its completion is posted at once.
LEMMA OpsAsyncReadWriteFails ==
    ASSUME NEW d \in Fds, TInv, OInv, OS_AsyncReadWrite_Fails(d) PROVE OInv'
<1> DEFINE n == Len(ops) + 1
<1>1. /\ pc = "bridge" /\ type[d] \in Async
      /\ ops' = Append(ops, Request(d, d, "port")) /\ port' = Append(port, n)
      /\ UNCHANGED <<stdinPort, stdinThread, pc>>
      BY DEF OS_AsyncReadWrite_Fails, Async, server
<1>2. d # 0
      BY <1>1 DEF TInv, Keys, Async
<1>3. /\ ops' \in Seq(Requests) /\ Len(ops') = n /\ Len(ops) \in Nat
      /\ \A i \in 1..Len(ops) : ops'[i] = ops[i]
      /\ ops'[n].fd = d /\ ops'[n].key = d /\ ops'[n].at = "port"
      BY <1>1, Started DEF TInv, TableOK, OInv, QueuesOK, Places
<1>4. /\ n \in Nat /\ 1..n = (1..Len(ops)) \cup {n} /\ n \notin 1..Len(ops)
      /\ \A i \in 1..Len(ops) : i < n
      BY <1>3
<1> HIDE DEF n
<1>5. /\ port' \in Seq(Nat)
      /\ \A k \in 1..Len(port') : port'[k] = n \/ \E j \in 1..Len(port) : port'[k] = port[j]
      /\ \A i : Holds(port, i) => Holds(port', i)
      /\ Holds(port', n)
      /\ Distinct(port) /\ ~ Holds(port, n) => Distinct(port')
      /\ \A Z : Sorted(port, Z) /\ (n \in Z => \A k \in 1..Len(port) : port[k] \in Z => port[k] < n)
                => Sorted(port', Z)
  <2>1. port \in Seq(Nat) /\ port' = Append(port, n) /\ n \in Nat
        BY <1>1, <1>4 DEF OInv, QueuesOK
  <2> QED BY <2>1, PortJoined
<1>6. ~ Holds(port, n)
      BY <1>4 DEF OInv, QueuesOK, Holds
<1>7. QueuesOK'
      BY <1>1, <1>3, <1>4, <1>5 DEF OInv, QueuesOK
<1>8. Named'
      BY <1>2, <1>3, <1>4 DEF OInv, Named
<1>9. Once'
      BY <1>5, <1>6 DEF OInv, Once
<1>10. Queued'
  <2>1. Reads' = Reads /\ n \notin Reads /\ \A i \in Reads : ops'[i].at = ops[i].at
        BY <1>2, <1>3, <1>4 DEF Reads
  <2>2. \A i \in 1..Len(ops') : ops'[i].at = "stdin" => Holds(stdinPort', i)
        BY <1>1, <1>3, <1>4 DEF OInv, Queued, Holds
  <2>3. \A i \in Reads' : ops'[i].at = "port" => Holds(port', i)
        BY <1>5, <2>1 DEF OInv, Queued
  <2>4. Sorted(stdinPort, Nat)'
        BY <1>1 DEF OInv, Queued, Sorted
  <2>5. Sorted(port, Reads)'
        BY <1>5, <2>1 DEF OInv, Queued
  <2> QED BY <2>2, <2>3, <2>4, <2>5 DEF Queued
<1>11. Ordered'
      BY <1>2, <1>3, <1>4 DEF OInv, Ordered
<1>12. Lost'
      BY <1>1, <1>3, <1>4 DEF OInv, Lost
<1> QED BY <1>7, <1>8, <1>9, <1>10, <1>11, <1>12 DEF OInv

\* The system completes an operation, which is none on standard input.
LEMMA OpsComplete == ASSUME NEW n \in 1 .. MaxOps, OInv, Complete(n) PROVE OInv'
<1>1. /\ n \in DOMAIN ops /\ ops[n].at = "system"
      /\ ops' = [ops EXCEPT ![n].at = "port"] /\ port' = Append(port, n)
      /\ UNCHANGED <<stdinPort, stdinThread, pc>>
      BY DEF Complete, server
<1>2. n \in 1..Len(ops) /\ n \in Nat /\ Len(ops) \in Nat
      BY <1>1 DEF OInv, QueuesOK
<1>3. ops[n].fd # 0
      BY <1>1, <1>2 DEF OInv, Named
<1>4. /\ ops' \in Seq(Requests) /\ Len(ops') = Len(ops)
      /\ \A i \in 1..Len(ops) :
             /\ ops'[i].fd = ops[i].fd /\ ops'[i].key = ops[i].key
             /\ ops'[i].at = IF i = n THEN "port" ELSE ops[i].at
      BY <1>1, <1>2, Moved DEF OInv, QueuesOK, Places
<1>5. /\ port' \in Seq(Nat)
      /\ \A k \in 1..Len(port') : port'[k] = n \/ \E j \in 1..Len(port) : port'[k] = port[j]
      /\ \A i : Holds(port, i) => Holds(port', i)
      /\ Holds(port', n)
      /\ Distinct(port) /\ ~ Holds(port, n) => Distinct(port')
      /\ \A Z : Sorted(port, Z) /\ (n \in Z => \A k \in 1..Len(port) : port[k] \in Z => port[k] < n)
                => Sorted(port', Z)
  <2>1. port \in Seq(Nat) /\ port' = Append(port, n) /\ n \in Nat
        BY <1>1, <1>2 DEF OInv, QueuesOK
  <2> QED BY <2>1, PortJoined
<1>6. ~ Holds(port, n)
      BY <1>1 DEF OInv, QueuesOK, Holds
<1>7. QueuesOK'
      BY <1>1, <1>2, <1>4, <1>5 DEF OInv, QueuesOK
<1>8. Named'
      BY <1>3, <1>4 DEF OInv, Named
<1>9. Once'
      BY <1>5, <1>6 DEF OInv, Once
<1>10. Queued'
  <2>1. Reads' = Reads /\ n \notin Reads /\ \A i \in Reads : ops'[i].at = ops[i].at
        BY <1>3, <1>4 DEF Reads
  <2>2. \A i \in 1..Len(ops') : ops'[i].at = "stdin" => Holds(stdinPort', i)
        BY <1>1, <1>4 DEF OInv, Queued, Holds
  <2>3. \A i \in Reads' : ops'[i].at = "port" => Holds(port', i)
        BY <1>5, <2>1 DEF OInv, Queued
  <2>4. Sorted(stdinPort, Nat)'
        BY <1>1 DEF OInv, Queued, Sorted
  <2>5. Sorted(port, Reads)'
        BY <1>5, <2>1 DEF OInv, Queued
  <2> QED BY <2>2, <2>3, <2>4, <2>5 DEF Queued
<1>11. Ordered'
      BY <1>3, <1>4 DEF OInv, Ordered
<1>12. Lost'
  <2>1. ops # <<>> /\ pc # "start"
        BY <1>2 DEF OInv, Lost
  <2> QED BY <1>1, <1>4, <2>1 DEF OInv, Lost
<1> QED BY <1>7, <1>8, <1>9, <1>10, <1>11, <1>12 DEF OInv

\* A read from standard input is given to the thread.
LEMMA OpsAsyncReadStdin == ASSUME TInv, OInv, OS_AsyncReadStdin PROVE OInv'
<1> DEFINE n == Len(ops) + 1
<1>1. /\ pc = "bridge"
      /\ ops' = Append(ops, Request(0, 0, "stdin")) /\ stdinPort' = Append(stdinPort, n)
      /\ UNCHANGED <<port, stdinThread, pc>>
      BY DEF OS_AsyncReadStdin, server
<1>2. 0 \in Fds
      BY OpenMaxAssumption DEF Fds
<1>3. /\ ops' \in Seq(Requests) /\ Len(ops') = n /\ Len(ops) \in Nat
      /\ \A i \in 1..Len(ops) : ops'[i] = ops[i]
      /\ ops'[n].fd = 0 /\ ops'[n].key = 0 /\ ops'[n].at = "stdin"
      BY <1>1, <1>2, Started DEF TInv, TableOK, OInv, QueuesOK, Places
<1>4. /\ n \in Nat /\ 1..n = (1..Len(ops)) \cup {n} /\ n \notin 1..Len(ops)
      /\ \A i \in 1..Len(ops) : i < n /\ ~ (n < i)
      /\ ~ (n < n)
      BY <1>3
<1> HIDE DEF n
<1>5. /\ stdinPort' \in Seq(Nat)
      /\ \A k \in 1..Len(stdinPort') :
             stdinPort'[k] = n \/ \E j \in 1..Len(stdinPort) : stdinPort'[k] = stdinPort[j]
      /\ \A i : Holds(stdinPort, i) => Holds(stdinPort', i)
      /\ Holds(stdinPort', n)
      /\ \A Z : Sorted(stdinPort, Z)
                /\ (n \in Z => \A k \in 1..Len(stdinPort) : stdinPort[k] \in Z => stdinPort[k] < n)
                => Sorted(stdinPort', Z)
  <2>1. stdinPort \in Seq(Nat) /\ stdinPort' = Append(stdinPort, n) /\ n \in Nat
        BY <1>1, <1>4 DEF OInv, QueuesOK
  <2> QED BY <2>1, StdinPortJoined
<1>7. QueuesOK'
      BY <1>1, <1>3, <1>4, <1>5 DEF OInv, QueuesOK
<1>8. Named'
      BY <1>3, <1>4 DEF OInv, Named
<1>9. Once'
      BY <1>1 DEF OInv, Once, Distinct
<1>10. Queued'
  <2>1. Reads' = Reads \cup {n} /\ \A i \in Reads : ops'[i].at = ops[i].at
        BY <1>3, <1>4 DEF Reads
  <2>2. \A i \in 1..Len(ops') : ops'[i].at = "stdin" => Holds(stdinPort', i)
        BY <1>3, <1>4, <1>5 DEF OInv, Queued
  <2>3. \A i \in Reads' : ops'[i].at = "port" => Holds(port', i)
        BY <1>1, <1>3, <2>1, ZenonT(30) DEF OInv, Queued, Holds
  <2>4. \A k \in 1..Len(stdinPort) : stdinPort[k] < n
        BY <1>4 DEF OInv, QueuesOK
  <2>5. Sorted(stdinPort, Nat)'
        BY <1>5, <2>4 DEF OInv, Queued
  <2>6. \A k \in 1..Len(port) : port[k] # n
        BY <1>4 DEF OInv, QueuesOK
  <2>7. Sorted(port, Reads)'
        BY <1>1, <2>1, <2>6 DEF OInv, Queued, Sorted
  <2> QED BY <2>2, <2>3, <2>5, <2>7 DEF Queued
<1>11. Ordered'
      BY <1>3, <1>4 DEF OInv, Ordered
<1>12. Lost'
      BY <1>1, <1>3, <1>4 DEF OInv, Lost
<1> QED BY <1>7, <1>8, <1>9, <1>10, <1>11, <1>12 DEF OInv

\* The request that the thread takes is the first of the reads that wait, and those
\* before it have been posted.
LEMMA FirstRead ==
    ASSUME OInv, stdinThread = "waiting", stdinPort # <<>>, NEW n, n = Head(stdinPort)
    PROVE  /\ n \in 1..Len(ops) /\ n = stdinPort[1]
           /\ ops[n].at = "stdin" /\ ops[n].fd = 0 /\ ops # <<>>
           /\ \A k \in 1..Len(stdinPort) : 1 < k => n < stdinPort[k]
           /\ \A i \in 1..Len(ops) : i < n /\ ops[i].fd = 0 => ops[i].at \notin {"stdin", "lost"}
           /\ \A i \in 1..Len(ops) : n < i /\ ops[i].fd = 0 => ops[i].at = "stdin"
<1>1. n = stdinPort[1] /\ 1 \in 1..Len(stdinPort)
      BY EmptySeq DEF OInv, QueuesOK
<1>2. n \in 1..Len(ops) /\ ops[n].at = "stdin" /\ n \in Nat
      BY <1>1 DEF OInv, QueuesOK
<1>3. ops[n].fd = 0
      BY <1>2 DEF OInv, Named
<1>4. ops # <<>>
      BY <1>2
<1>5. \A k \in 1..Len(stdinPort) : 1 < k => n < stdinPort[k]
      BY <1>1, SMTT(30) DEF OInv, QueuesOK, Queued, Sorted
<1>6. ASSUME NEW i \in 1..Len(ops), i < n, ops[i].fd = 0 PROVE ops[i].at \notin {"stdin", "lost"}
  <2>1. ops[i].at # "lost"
        BY DEF OInv, Lost
  <2>2. ASSUME ops[i].at = "stdin" PROVE FALSE
    <3>1. PICK k \in 1..Len(stdinPort) : stdinPort[k] = i
          BY <2>2 DEF OInv, Queued, Holds
    <3>2. i # n /\ ~ (n < i)
          BY <1>2, <1>6
    <3>3. k = 1 \/ 1 < k
          OBVIOUS
    <3> QED BY <1>1, <1>5, <3>1, <3>2, <3>3
  <2> QED BY <2>1, <2>2
<1>7. \A i \in 1..Len(ops) : n < i /\ ops[i].fd = 0 => ops[i].at = "stdin"
      BY <1>2, <1>3 DEF OInv, Ordered
<1> QED BY <1>1, <1>2, <1>3, <1>4, <1>5, <1>6, <1>7

\* The thread posts a completion.
LEMMA OpsStdinThread == ASSUME OInv, StdinThread PROVE OInv'
<1> DEFINE n == Head(stdinPort)
<1>1. /\ stdinThread = "waiting" /\ stdinPort # <<>>
      /\ ops' = [ops EXCEPT ![n].at = "port"] /\ port' = Append(port, n)
      /\ stdinPort' = Tail(stdinPort)
      /\ UNCHANGED <<stdinThread, pc>>
      BY DEF StdinThread, server
<1>2. /\ n \in 1..Len(ops) /\ n = stdinPort[1]
      /\ ops[n].at = "stdin" /\ ops[n].fd = 0 /\ ops # <<>>
      /\ \A k \in 1..Len(stdinPort) : 1 < k => n < stdinPort[k]
      /\ \A i \in 1..Len(ops) : i < n /\ ops[i].fd = 0 => ops[i].at \notin {"stdin", "lost"}
      /\ \A i \in 1..Len(ops) : n < i /\ ops[i].fd = 0 => ops[i].at = "stdin"
      BY <1>1, FirstRead
<1>3. /\ stdinPort' \in Seq(Nat)
      /\ \A k \in 1..Len(stdinPort') : \E j \in 1..Len(stdinPort) : stdinPort'[k] = stdinPort[j] /\ 1 < j
      /\ \A i : Holds(stdinPort, i) /\ i # stdinPort[1] => Holds(stdinPort', i)
      /\ \A Z : Sorted(stdinPort, Z) => Sorted(stdinPort', Z)
  <2>1. stdinPort \in Seq(Nat) /\ stdinPort' = Tail(stdinPort) /\ stdinPort # <<>>
        BY <1>1 DEF OInv, QueuesOK
  <2> QED BY <2>1, StdinPortLeft
<1> HIDE DEF n
<1>4. /\ ops' \in Seq(Requests) /\ Len(ops') = Len(ops)
      /\ \A i \in 1..Len(ops) :
             /\ ops'[i].fd = ops[i].fd /\ ops'[i].key = ops[i].key
             /\ ops'[i].at = IF i = n THEN "port" ELSE ops[i].at
      BY <1>1, <1>2, Moved DEF OInv, QueuesOK, Places
<1>7. n \in Nat /\ Len(ops) \in Nat
      BY <1>2 DEF OInv, QueuesOK
<1>8. \A k \in 1..Len(stdinPort') : stdinPort'[k] # n
  <2>1. \A k \in 1..Len(stdinPort) : stdinPort[k] \in Nat
        BY DEF OInv, QueuesOK
  <2> QED BY <1>2, <1>3, <1>7, <2>1
<1>5. /\ port' \in Seq(Nat)
      /\ \A k \in 1..Len(port') : port'[k] = n \/ \E j \in 1..Len(port) : port'[k] = port[j]
      /\ \A i : Holds(port, i) => Holds(port', i)
      /\ Holds(port', n)
      /\ Distinct(port) /\ ~ Holds(port, n) => Distinct(port')
      /\ \A Z : Sorted(port, Z) /\ (n \in Z => \A k \in 1..Len(port) : port[k] \in Z => port[k] < n)
                => Sorted(port', Z)
  <2>1. port \in Seq(Nat) /\ port' = Append(port, n) /\ n \in Nat
        BY <1>1, <1>7 DEF OInv, QueuesOK
  <2> QED BY <2>1, PortJoined
<1>6. ~ Holds(port, n)
      BY <1>2 DEF OInv, QueuesOK, Holds
<1>9. QueuesOK'
  <2>1. ASSUME NEW k \in 1..Len(port') PROVE port'[k] \in 1..Len(ops') /\ ops'[port'[k]].at = "port"
    <3>1. CASE port'[k] = n
          BY <1>2, <1>4, <3>1
    <3>2. ASSUME NEW j \in 1..Len(port), port'[k] = port[j]
          PROVE  port'[k] \in 1..Len(ops') /\ ops'[port'[k]].at = "port"
      <4>1. port[j] \in 1..Len(ops) /\ ops[port[j]].at = "port"
            BY DEF OInv, QueuesOK
      <4> QED BY <1>4, <3>2, <4>1
    <3> QED BY <1>5, <3>1, <3>2
  <2>2. ASSUME NEW k \in 1..Len(stdinPort')
        PROVE  stdinPort'[k] \in 1..Len(ops') /\ ops'[stdinPort'[k]].at = "stdin"
    <3>1. PICK j \in 1..Len(stdinPort) : stdinPort'[k] = stdinPort[j]
          BY <1>3
    <3>2. stdinPort[j] \in 1..Len(ops) /\ ops[stdinPort[j]].at = "stdin"
          BY DEF OInv, QueuesOK
    <3> QED BY <1>4, <1>8, <3>1, <3>2
  <2> QED BY <1>3, <1>4, <1>5, <2>1, <2>2 DEF QueuesOK
<1>10. Named'
      BY <1>2, <1>4 DEF OInv, Named
<1>11. Once'
      BY <1>5, <1>6 DEF OInv, Once
<1>12. Queued'
  <2>1. Reads' = Reads
        BY <1>4 DEF Reads
  <2>2. \A i \in 1..Len(ops') : ops'[i].at = "stdin" => Holds(stdinPort', i)
        BY <1>2, <1>3, <1>4 DEF OInv, Queued
  <2>3. \A i \in Reads' : ops'[i].at = "port" => Holds(port', i)
        BY <1>4, <1>5, <2>1 DEF OInv, Queued, Reads
  <2>4. Sorted(stdinPort, Nat)'
        BY <1>3 DEF OInv, Queued
  <2>5. ASSUME NEW j \in 1..Len(port), port[j] \in Reads PROVE port[j] < n
    <3>1. port[j] \in 1..Len(ops) /\ ops[port[j]].at = "port" /\ ops[port[j]].fd = 0
          BY <2>5 DEF OInv, QueuesOK, Reads
    <3>2. port[j] # n /\ ~ (n < port[j])
          BY <1>2, <3>1
    <3> QED BY <1>7, <3>1, <3>2
  <2>6. Sorted(port, Reads)'
        BY <1>5, <2>1, <2>5 DEF OInv, Queued
  <2> QED BY <2>2, <2>3, <2>4, <2>6 DEF Queued
<1>13. Ordered'
      BY <1>2, <1>4, <1>7 DEF OInv, Ordered
<1>14. Lost'
      BY <1>1, <1>2, <1>4 DEF OInv, Lost
<1> QED BY <1>9, <1>10, <1>11, <1>12, <1>13, <1>14 DEF OInv

\* The thread ends.
LEMMA OpsStdinThreadFails == ASSUME OInv, StdinThread_Fails PROVE OInv'
<1> DEFINE n == Head(stdinPort)
<1>1. /\ stdinThread = "waiting" /\ stdinPort # <<>> /\ stdinThread' = "exited"
      /\ ops' = [ops EXCEPT ![n].at = "lost"]
      /\ stdinPort' = Tail(stdinPort)
      /\ UNCHANGED <<port, pc>>
      BY DEF StdinThread_Fails, server
<1>2. /\ n \in 1..Len(ops) /\ n = stdinPort[1]
      /\ ops[n].at = "stdin" /\ ops[n].fd = 0 /\ ops # <<>>
      /\ \A k \in 1..Len(stdinPort) : 1 < k => n < stdinPort[k]
      /\ \A i \in 1..Len(ops) : i < n /\ ops[i].fd = 0 => ops[i].at \notin {"stdin", "lost"}
      /\ \A i \in 1..Len(ops) : n < i /\ ops[i].fd = 0 => ops[i].at = "stdin"
      BY <1>1, FirstRead
<1>3. /\ stdinPort' \in Seq(Nat)
      /\ \A k \in 1..Len(stdinPort') : \E j \in 1..Len(stdinPort) : stdinPort'[k] = stdinPort[j] /\ 1 < j
      /\ \A i : Holds(stdinPort, i) /\ i # stdinPort[1] => Holds(stdinPort', i)
      /\ \A Z : Sorted(stdinPort, Z) => Sorted(stdinPort', Z)
  <2>1. stdinPort \in Seq(Nat) /\ stdinPort' = Tail(stdinPort) /\ stdinPort # <<>>
        BY <1>1 DEF OInv, QueuesOK
  <2> QED BY <2>1, StdinPortLeft
<1> HIDE DEF n
<1>4. /\ ops' \in Seq(Requests) /\ Len(ops') = Len(ops)
      /\ \A i \in 1..Len(ops) :
             /\ ops'[i].fd = ops[i].fd /\ ops'[i].key = ops[i].key
             /\ ops'[i].at = IF i = n THEN "lost" ELSE ops[i].at
      BY <1>1, <1>2, Moved DEF OInv, QueuesOK, Places
<1>7. n \in Nat /\ Len(ops) \in Nat
      BY <1>2 DEF OInv, QueuesOK
<1>8. \A k \in 1..Len(stdinPort') : stdinPort'[k] # n
  <2>1. \A k \in 1..Len(stdinPort) : stdinPort[k] \in Nat
        BY DEF OInv, QueuesOK
  <2> QED BY <1>2, <1>3, <1>7, <2>1
<1>9. QueuesOK'
  <2>1. \A k \in 1..Len(port') : port'[k] \in 1..Len(ops') /\ ops'[port'[k]].at = "port"
        BY <1>1, <1>2, <1>4 DEF OInv, QueuesOK
  <2>2. ASSUME NEW k \in 1..Len(stdinPort')
        PROVE  stdinPort'[k] \in 1..Len(ops') /\ ops'[stdinPort'[k]].at = "stdin"
    <3>1. PICK j \in 1..Len(stdinPort) : stdinPort'[k] = stdinPort[j]
          BY <1>3
    <3>2. stdinPort[j] \in 1..Len(ops) /\ ops[stdinPort[j]].at = "stdin"
          BY DEF OInv, QueuesOK
    <3> QED BY <1>4, <1>8, <3>1, <3>2
  <2>3. port' \in Seq(Nat)
        BY <1>1 DEF OInv, QueuesOK
  <2> QED BY <1>3, <1>4, <2>1, <2>2, <2>3 DEF QueuesOK
<1>10. Named'
      BY <1>2, <1>4 DEF OInv, Named
<1>11. Once'
      BY <1>1 DEF OInv, Once, Distinct
<1>12. Queued'
  <2>1. Reads' = Reads
        BY <1>4 DEF Reads
  <2>2. \A i \in 1..Len(ops') : ops'[i].at = "stdin" => Holds(stdinPort', i)
        BY <1>2, <1>3, <1>4 DEF OInv, Queued
  <2>3. \A i \in Reads' : ops'[i].at = "port" => Holds(port', i)
        BY <1>1, <1>4, <2>1 DEF OInv, Queued, Reads, Holds
  <2>4. Sorted(stdinPort, Nat)'
        BY <1>3 DEF OInv, Queued
  <2>5. Sorted(port, Reads)'
        BY <1>1, <2>1 DEF OInv, Queued, Sorted
  <2> QED BY <2>2, <2>3, <2>4, <2>5 DEF Queued
<1>13. Ordered'
      BY <1>2, <1>4, <1>7 DEF OInv, Ordered
<1>14. Lost'
      BY <1>1, <1>2, <1>4 DEF OInv, Lost
<1> QED BY <1>9, <1>10, <1>11, <1>12, <1>13, <1>14 DEF OInv

\* A completion leaves the port.  If it is one of standard input, all that started
\* before it have left the port before.
LEMMA OpsDoIo == ASSUME OInv, OS_DoIo PROVE OInv'
<1> DEFINE n == Head(port)
           a == IF ops[n].instance = instance[ops[n].key] THEN "called" ELSE "dropped"
<1>1. /\ port # <<>> /\ ops' = [ops EXCEPT ![n].at = a] /\ port' = Tail(port) /\ pc = "bridge"
      /\ UNCHANGED <<stdinPort, stdinThread, pc>>
      BY DEF OS_DoIo, server
<1>2. a \in {"called", "dropped"}
      OBVIOUS
<1>3. /\ port' \in Seq(Nat) /\ 1 \in 1..Len(port) /\ n = port[1]
      /\ \A k \in 1..Len(port') : \E j \in 1..Len(port) : port'[k] = port[j] /\ 1 < j
      /\ \A i : Holds(port, i) /\ i # port[1] => Holds(port', i)
      /\ Distinct(port) => Distinct(port')
      /\ \A Z : Sorted(port, Z) => Sorted(port', Z)
  <2>1. port \in Seq(Nat) /\ port' = Tail(port) /\ port # <<>>
        BY <1>1 DEF OInv, QueuesOK
  <2> QED BY <2>1, PortLeft
<1> HIDE DEF n, a
<1>5. n \in 1..Len(ops) /\ ops[n].at = "port" /\ n \in Nat /\ Len(ops) \in Nat
      BY <1>3 DEF OInv, QueuesOK
<1>6. /\ ops' \in Seq(Requests) /\ Len(ops') = Len(ops)
      /\ \A i \in 1..Len(ops) :
             /\ ops'[i].fd = ops[i].fd /\ ops'[i].key = ops[i].key
             /\ ops'[i].at = IF i = n THEN a ELSE ops[i].at
  <2>1. ops \in Seq(Requests) /\ a \in Places
        BY <1>2 DEF OInv, QueuesOK, Places
  <2>2. ops' = [ops EXCEPT ![n].at = a]
        BY <1>1
  <2> QED BY <1>5, <2>1, <2>2, Moved
<1>8. \A k \in 1..Len(port') : port'[k] # n
      BY <1>3 DEF OInv, Once, Distinct
<1>9. QueuesOK'
  <2>1. ASSUME NEW k \in 1..Len(port') PROVE port'[k] \in 1..Len(ops') /\ ops'[port'[k]].at = "port"
    <3>1. PICK j \in 1..Len(port) : port'[k] = port[j]
          BY <1>3
    <3>2. port[j] \in 1..Len(ops) /\ ops[port[j]].at = "port"
          BY DEF OInv, QueuesOK
    <3> QED BY <1>6, <1>8, <3>1, <3>2
  <2>2. \A k \in 1..Len(stdinPort') :
            stdinPort'[k] \in 1..Len(ops') /\ ops'[stdinPort'[k]].at = "stdin"
        BY <1>1, <1>5, <1>6 DEF OInv, QueuesOK
  <2>3. stdinPort' \in Seq(Nat)
        BY <1>1 DEF OInv, QueuesOK
  <2> QED BY <1>3, <1>6, <2>1, <2>2, <2>3 DEF QueuesOK
<1>10. Named'
      BY <1>2, <1>6 DEF OInv, Named
<1>11. Once'
      BY <1>3 DEF OInv, Once
<1>12. Queued'
  <2>1. Reads' = Reads
        BY <1>6 DEF Reads
  <2>2. \A i \in 1..Len(ops') : ops'[i].at = "stdin" => Holds(stdinPort', i)
        BY <1>1, <1>2, <1>6 DEF OInv, Queued, Holds
  <2>3. \A i \in Reads' : ops'[i].at = "port" => Holds(port', i)
        BY <1>2, <1>3, <1>6, <2>1 DEF OInv, Queued, Reads
  <2>4. Sorted(stdinPort, Nat)'
        BY <1>1 DEF OInv, Queued, Sorted
  <2>5. Sorted(port, Reads)'
        BY <1>3, <2>1 DEF OInv, Queued
  <2> QED BY <2>2, <2>3, <2>4, <2>5 DEF Queued
<1>13. ASSUME NEW i \in 1..Len(ops), i < n, ops[i].fd = 0, ops[n].fd = 0
       PROVE  ops[i].at \in {"called", "dropped"}
  <2>1. ops[i].at \in Places
    <3>1. ops[i] \in Requests
          BY DEF OInv, QueuesOK
    <3> QED BY <3>1 DEF Requests
  <2>2. ops[i].at \notin {"system", "stdin", "lost"}
        BY <1>5, <1>13 DEF OInv, Named, Ordered
  <2>3. ASSUME ops[i].at = "port" PROVE FALSE
    <3>1. PICK k \in 1..Len(port) : port[k] = i
          BY <1>13, <2>3 DEF OInv, Queued, Reads, Holds
    <3>2. i # n /\ ~ (n < i)
          BY <1>5, <1>13
    <3>3. k # 1
          BY <1>3, <3>1, <3>2
    <3>4. 1 < k
          BY <3>3
    <3>5. i \in Reads /\ n \in Reads
          BY <1>5, <1>13 DEF Reads
    <3> QED BY <1>3, <3>1, <3>2, <3>4, <3>5 DEF OInv, Queued, Sorted
  <2> QED BY <2>1, <2>2, <2>3 DEF Places
<1>14. Ordered'
      BY <1>2, <1>5, <1>6, <1>13 DEF OInv, Ordered
<1>15. Lost'
      BY <1>1, <1>2, <1>6 DEF OInv, Lost
<1> QED BY <1>9, <1>10, <1>11, <1>12, <1>14, <1>15 DEF OInv

\* Every step keeps the operations and the queues in order.
LEMMA OpsNext == TInv /\ OInv /\ [Next]_vars => OInv'
<1> SUFFICES ASSUME TInv, OInv, [Next]_vars PROVE OInv'
    OBVIOUS
<1>1. CASE OS_LibInit
      BY <1>1, OpsLibInit DEF OS_LibInit, OS_LibInit_Listener, OS_LibInit_Plain, OS_LibInit_Stdio, io
<1>2. CASE Bridge
  <2>1. ASSUME NEW h \in Handles, OS_FcgiConnect_Socket(h) \/ OS_FcgiConnect_Pipe(h) PROVE OInv'
        BY <2>1, OpsFrame DEF OS_FcgiConnect_Socket, OS_FcgiConnect_Pipe, io, server
  <2>2. ASSUME NEW d \in Fds, OS_SetFlags(d) \/ Close(d) PROVE OInv'
        BY <2>2, OpsFrame DEF OS_SetFlags, Close, io, server
  <2>3. ASSUME NEW d \in Fds, OS_AsyncReadWrite(d) \/ OS_AsyncReadWrite_Fails(d) PROVE OInv'
        BY <2>3, OpsAsyncReadWrite, OpsAsyncReadWriteFails
  <2>4. CASE OS_AsyncReadStdin \/ OS_DoIo \/ StdinThread \/ StdinThread_Fails
        BY <2>4, OpsAsyncReadStdin, OpsDoIo, OpsStdinThread, OpsStdinThreadFails
  <2>5. ASSUME NEW i \in 1 .. MaxOps, Complete(i) PROVE OInv'
        BY <2>5, OpsComplete
  <2> QED BY <1>2, <2>1, <2>2, <2>3, <2>4, <2>5 DEF Bridge
<1>3. CASE Server
  <2>1. UNCHANGED <<ops, port, stdinPort, stdinThread>>
        BY <1>3 DEF Server, OS_CreateLocalIpcFd, OS_CreateLocalIpcFd_Fails, OS_Accept_Enter,
                    OS_Accept_Lock, OS_Accept_LockFails, OS_Accept_Fails, acceptSocket,
                    acceptSocket_Timeout, acceptNamedPipe, OS_IpcClose, OS_IpcClose_Fails,
                    ShutdownRequestThread, OtherLocks, OtherUnlocks, Connect, acceptSocket_Refuse,
                    OS_ShutdownPending, io
  <2>2. pc' = "start" => pc = "start"
        BY <1>3 DEF Server, OS_CreateLocalIpcFd, OS_CreateLocalIpcFd_Fails, OS_Accept_Enter,
                    OS_Accept_Lock, OS_Accept_LockFails, OS_Accept_Fails, acceptSocket,
                    acceptSocket_Timeout, acceptNamedPipe, OS_IpcClose, OS_IpcClose_Fails,
                    ShutdownRequestThread, OtherLocks, OtherUnlocks, Connect, acceptSocket_Refuse,
                    OS_ShutdownPending, Fail, Serve
  <2> QED BY <2>1, <2>2, OpsFrame
<1>4. CASE UNCHANGED vars
      BY <1>4, OpsFrame DEF vars, io, server
<1> QED BY <1>1, <1>2, <1>3, <1>4 DEF Next

-----------------------------------------------------------------------------
(* The mutex, and the theorems.                                            *)

\* Nobody is in the accept cycle without the mutex, and nobody leaves it with it.
LEMMA MutexNext == MutexDiscipline /\ [Next]_vars => MutexDiscipline'
<1> SUFFICES ASSUME MutexDiscipline, [Next]_vars PROVE MutexDiscipline'
    OBVIOUS
<1> USE DEF MutexDiscipline
<1>1. CASE OS_LibInit
      BY <1>1 DEF OS_LibInit, OS_LibInit_Listener, OS_LibInit_Plain, OS_LibInit_Stdio
<1>2. CASE Bridge
  <2>1. UNCHANGED <<pc, mutex>>
        BY <1>2 DEF Bridge, OS_FcgiConnect_Socket, OS_FcgiConnect_Pipe, OS_SetFlags, Close,
                    OS_AsyncReadWrite, OS_AsyncReadWrite_Fails, OS_AsyncReadStdin, OS_DoIo,
                    StdinThread, StdinThread_Fails, Complete, server
  <2> QED BY <2>1
<1>3. CASE Server
      BY <1>3 DEF Server, OS_CreateLocalIpcFd, OS_CreateLocalIpcFd_Fails, OS_Accept_Enter,
                  OS_Accept_Lock, OS_Accept_LockFails, OS_Accept_Fails, acceptSocket,
                  acceptSocket_Timeout, acceptNamedPipe, OS_IpcClose, OS_IpcClose_Fails,
                  ShutdownRequestThread, OtherLocks, OtherUnlocks, Connect, acceptSocket_Refuse,
                  OS_ShutdownPending, Fail, Serve, ReleaseMutex
<1>4. CASE UNCHANGED vars
      BY <1>4 DEF vars, server
<1> QED BY <1>1, <1>2, <1>3, <1>4 DEF Next

\* The three parts together are an invariant of the Windows layer.
THEOREM Win32Invariant == Spec => []IInv
<1>1. Init => IInv
  <2>1. Init => MutexDiscipline
        BY DEF Init, MutexDiscipline
  <2> QED BY <2>1, TableInit, OpsInit DEF IInv
<1>2. IInv /\ [Next]_vars => IInv'
      BY TableNext, OpsNext, MutexNext DEF IInv
<1> QED BY <1>1, <1>2, PTL DEF Spec

\* fdTable and the system agree on the connections: Win32NewDescriptor, OS_Close and
\* OS_IpcClose lose none and close none twice.
THEOREM Win32SocketsAccounted == Spec => []SocketsAccounted
<1>1. IInv => SocketsAccounted
  <2> SUFFICES ASSUME TInv PROVE SocketsAccounted
      BY DEF IInv
  <2>1. ASSUME NEW h \in Handles, handle[h] = "socket"
        PROVE  \E d \in Fds : /\ type[d] \in Sockets /\ fid[d] = h
                              /\ \A e \in Fds \ {d} : type[e] \in Sockets => fid[e] # h
    <3>1. PICK d \in Fds : type[d] \in Sockets /\ fid[d] = h
          BY <2>1 DEF TInv, Reached
    <3>2. \A e \in Fds \ {d} : type[e] \in Sockets => fid[e] # h
          BY <3>1 DEF TInv, OneEach
    <3> QED BY <3>1, <3>2
  <2>2. \A d \in Fds : type[d] \in Sockets /\ fid[d] # hListen =>
            fid[d] \in Handles /\ handle[fid[d]] = "socket"
        BY DEF TInv, Behind
  <2>3. listenType = "FD_SOCKET_SYNC" /\ pc \in {"idle", "wait", "accepting"} =>
            \A d \in Fds : type[d] # "FD_UNUSED" => fid[d] = hListen
        BY DEF TInv, Listener
  <2> QED BY <2>1, <2>2, <2>3 DEF SocketsAccounted
<1> QED BY <1>1, Win32Invariant, PTL

\* Each completion of an asynchronous operation names its descriptor and is taken out
\* of the port once, and reads from standard input complete in order.
THEOREM Win32OneCompletion == Spec => []OneCompletion
<1>1. IInv => OneCompletion
  <2> SUFFICES ASSUME OInv PROVE OneCompletion
      BY DEF IInv
  <2>1. DOMAIN ops = 1..Len(ops) /\ DOMAIN port = 1..Len(port) /\ DOMAIN stdinPort = 1..Len(stdinPort)
        BY DEF OInv, QueuesOK
  <2>2. \A i \in DOMAIN ops : ops[i].key = ops[i].fd
        BY <2>1 DEF OInv, Named
  <2>3. /\ \A k \in DOMAIN port : ops[port[k]].at = "port"
        /\ \A k \in DOMAIN stdinPort : ops[stdinPort[k]].at = "stdin"
        BY <2>1 DEF OInv, QueuesOK
  <2>4. \A j, k \in DOMAIN port : port[j] = port[k] => j = k
        BY <2>1 DEF OInv, Once, Distinct
  <2>5. \A i, j \in DOMAIN ops :
            i < j /\ ops[i].fd = 0 /\ ops[j].fd = 0 /\ ops[j].at = "called"
                => ops[i].at \in {"called", "dropped"}
        BY <2>1 DEF OInv, Ordered
  <2> QED BY <2>2, <2>3, <2>4, <2>5 DEF OneCompletion
<1> QED BY <1>1, Win32Invariant, PTL

\* OS_Accept leaves the mutex on every way out, and holds it in the accept cycle.
THEOREM Win32MutexDiscipline == Spec => []MutexDiscipline
<1>1. IInv => MutexDiscipline
      BY DEF IInv
<1> QED BY <1>1, Win32Invariant, PTL
=============================================================================
