------------------------------ MODULE OsAccept ------------------------------
(***************************************************************************)
(* OS_Accept (os_unix.c) in several FastCGI processes that share one       *)
(* listening socket: the lock around accept, the shutdown request that     *)
(* SIGUSR1 brings, interrupted and failing system calls, the check of the  *)
(* client's address and the test of UNIX domain connections.               *)
(*                                                                         *)
(* A connection is where its client is: not yet connected, in the queue of *)
(* the listening socket, held by a process or closed.  The variable        *)
(* `socket' of OS_Accept keeps its value when what it names is closed.     *)
(***************************************************************************)
EXTENDS Naturals, FiniteSets

CONSTANTS
    Procs,        \* the processes
    Clients,      \* bound: the connections made in a behaviour
    None,         \* no process, and socket = -1
    UseLocking    \* USE_LOCKING

ASSUME NoneAssumption == None \notin Procs /\ None \notin Clients
ASSUME ProcsAssumption == Procs \cap {"new", "queued", "closed"} = {}
ASSUME UseLockingAssumption == UseLocking \in BOOLEAN

VARIABLES
    lock,              \* the process that holds the lock on the listening socket
    family,            \* sin_family of its connections: "inet" or "unix"
    good,              \* clients whose address is approved (inet) or that send
                       \* a request at all (unix)
    where,             \* [Clients -> {"new", "queued", "closed"} \cup Procs]
    pc, socket,
    retry,             \* is_reasonable_accept_errno(errno)
    shutdownPending, fail_on_intr,
    late               \* connections accepted after the shutdown request (history)

procs == <<pc, socket, retry, shutdownPending, fail_on_intr, late>>
vars  == <<lock, family, good, where, procs>>

Init ==
    /\ lock = None
    /\ family \in {"inet", "unix"}
    /\ good \in SUBSET Clients
    /\ where = [c \in Clients |-> "new"]
    /\ pc = [p \in Procs |-> "out"]
    /\ socket = [p \in Procs |-> None]
    /\ retry = [p \in Procs |-> FALSE]
    /\ shutdownPending = [p \in Procs |-> FALSE]
    /\ fail_on_intr \in [Procs -> BOOLEAN]
    /\ late = [p \in Procs |-> 0]

GoTo(p, l) == pc' = [pc EXCEPT ![p] = l]

-----------------------------------------------------------------------------
(* Clients and signals.                                                    *)

Connect(c) ==
    /\ where[c] = "new"
    /\ where' = [where EXCEPT ![c] = "queued"]
    /\ UNCHANGED <<lock, family, good, procs>>

\* A client that has not been accepted yet goes away.
GiveUp(c) ==
    /\ where[c] = "queued"
    /\ where' = [where EXCEPT ![c] = "closed"]
    /\ UNCHANGED <<lock, family, good, procs>>

\* A system call of process p that waits for the lock or for a connection returns
\* EINTR.  AcquireLock and the accept loop retry unless they are told to fail or
\* a shutdown is pending.
Interrupted(p, pending) ==
    /\ pc[p] \in {"lock", "accept"}
    /\ socket' = IF pc[p] = "accept" THEN [socket EXCEPT ![p] = None] ELSE socket
    /\ retry' = [retry EXCEPT ![p] = FALSE]
    /\ GoTo(p, IF pc[p] = "lock" THEN IF fail_on_intr[p] \/ pending THEN "failed" ELSE "lock"
               ELSE IF fail_on_intr[p] \/ pending THEN "accepted" ELSE "test")

Signal(p) ==
    /\ Interrupted(p, shutdownPending[p])
    /\ UNCHANGED <<lock, family, good, where, shutdownPending, fail_on_intr, late>>

\* SIGUSR1 calls OS_ShutdownPending.  It interrupts a call that is blocked; in the
\* window before the call blocks it does not.
OS_Sigusr1Handler(p) ==
    /\ ~shutdownPending[p] /\ pc[p] # "stopped"
    /\ shutdownPending' = [shutdownPending EXCEPT ![p] = TRUE]
    /\ Interrupted(p, TRUE) \/ UNCHANGED <<pc, socket, retry>>
    /\ UNCHANGED <<lock, family, good, where, fail_on_intr, late>>

-----------------------------------------------------------------------------
(* OS_Accept.                                                              *)

\* FCGX_Accept_r calls it when the process has no connection.
Enter(p) ==
    /\ pc[p] = "out"
    /\ GoTo(p, "lock")
    /\ socket' = [socket EXCEPT ![p] = None]
    /\ UNCHANGED <<lock, family, good, where, retry, shutdownPending, fail_on_intr, late>>

AcquireLock(p) ==
    /\ pc[p] = "lock"
    /\ UseLocking => lock \in {None, p}
    /\ lock' = IF UseLocking THEN p ELSE lock
    /\ GoTo(p, "test")
    /\ UNCHANGED <<family, good, where, socket, retry, shutdownPending, fail_on_intr, late>>

\* Mutant: the flag is not looked at.
Test_never(p) ==
    /\ pc[p] = "test"
    /\ GoTo(p, "accept")
    /\ UNCHANGED <<lock, family, good, where, socket, retry, shutdownPending, fail_on_intr, late>>

\* `if (shutdownPending) break': socket stays as it is.
Test(p) ==
    /\ pc[p] = "test"
    /\ GoTo(p, IF shutdownPending[p] THEN "accepted" ELSE "accept")
    /\ UNCHANGED <<lock, family, good, where, socket, retry, shutdownPending, fail_on_intr, late>>

Accept(p, c) ==
    /\ pc[p] = "accept"
    /\ where[c] = "queued"
    /\ where' = [where EXCEPT ![c] = p]
    /\ socket' = [socket EXCEPT ![p] = c]
    /\ late' = [late EXCEPT ![p] = IF shutdownPending[p] THEN @ + 1 ELSE @]
    /\ GoTo(p, "accepted")
    /\ UNCHANGED <<lock, family, good, retry, shutdownPending, fail_on_intr>>

\* accept fails with an error after which it is worth trying again, or not.
AcceptFails(p, reasonable) ==
    /\ pc[p] = "accept"
    /\ socket' = [socket EXCEPT ![p] = None]
    /\ retry' = [retry EXCEPT ![p] = reasonable]
    /\ GoTo(p, "accepted")
    /\ UNCHANGED <<lock, family, good, where, shutdownPending, fail_on_intr, late>>

\* Mutant: the lock is not released when accept has failed.
Accepted_Error_locked(p) ==
    /\ pc[p] = "accepted" /\ socket[p] = None
    /\ GoTo(p, IF shutdownPending[p] \/ ~retry[p] THEN "failed" ELSE "test")
    /\ UNCHANGED <<lock, family, good, where, socket, retry, shutdownPending, fail_on_intr, late>>

\* Mutant: the loop looks at the old error again instead of accepting again.
Accepted_Error_again(p) ==
    /\ pc[p] = "accepted" /\ socket[p] = None
    /\ IF shutdownPending[p] \/ ~retry[p]
       THEN /\ GoTo(p, "failed")
            /\ lock' = IF UseLocking THEN None ELSE lock
       ELSE UNCHANGED <<pc, lock>>
    /\ UNCHANGED <<family, good, where, socket, retry, shutdownPending, fail_on_intr, late>>

\* There is no connection: -1 is returned, or the loop goes on.
Accepted_Error(p) ==
    /\ pc[p] = "accepted" /\ socket[p] = None
    /\ IF shutdownPending[p] \/ ~retry[p]
       THEN /\ GoTo(p, "failed")
            /\ lock' = IF UseLocking THEN None ELSE lock
       ELSE /\ GoTo(p, "test")
            /\ UNCHANGED lock
    /\ UNCHANGED <<family, good, where, socket, retry, shutdownPending, fail_on_intr, late>>

\* close(socket); a descriptor that is closed already stays so.
CloseSocket(p) ==
    where' = IF where[socket[p]] = p THEN [where EXCEPT ![socket[p]] = "closed"] ELSE where

\* Mutant: the connection that is refused is not closed.
Accepted_Refuse_open(p) ==
    /\ pc[p] = "accepted" /\ socket[p] # None
    /\ family = "inet" /\ socket[p] \notin good
    /\ GoTo(p, "test")
    /\ UNCHANGED <<lock, family, good, where, socket, retry, shutdownPending, fail_on_intr, late>>

\* The address of a TCP client is not approved (ClientAddrOK).
Accepted_Refuse(p) ==
    /\ pc[p] = "accepted" /\ socket[p] # None
    /\ family = "inet" /\ socket[p] \notin good
    /\ CloseSocket(p)
    /\ GoTo(p, "test")
    /\ UNCHANGED <<lock, family, good, socket, retry, shutdownPending, fail_on_intr, late>>

Accepted_OK(p) ==
    /\ pc[p] = "accepted" /\ socket[p] # None
    /\ family = "inet" => socket[p] \in good
    /\ GoTo(p, "unlock")
    /\ UNCHANGED <<lock, family, good, where, socket, retry, shutdownPending, fail_on_intr, late>>

ReleaseLock(p) ==
    /\ pc[p] = "unlock"
    /\ lock' = IF UseLocking THEN None ELSE lock
    /\ GoTo(p, IF family = "unix" THEN "keeper" ELSE "serving")
    /\ UNCHANGED <<family, good, where, socket, retry, shutdownPending, fail_on_intr, late>>

\* Unlocking fails: -1 is returned and the connection stays open.
ReleaseLock_Fails(p) ==
    /\ pc[p] = "unlock"
    /\ UseLocking
    /\ GoTo(p, "failed")
    /\ UNCHANGED <<lock, family, good, where, socket, retry, shutdownPending, fail_on_intr, late>>

\* Mutant: a descriptor that select cannot test is taken for readable.
Readable_error(p) == socket[p] \in good

\* select finds the descriptor readable; it fails on one that is closed.
Readable(p) == where[socket[p]] = p /\ socket[p] \in good

is_af_unix_keeper(p) ==
    /\ pc[p] = "keeper"
    /\ Readable(p)
    /\ GoTo(p, "serving")
    /\ UNCHANGED <<lock, family, good, where, socket, retry, shutdownPending, fail_on_intr, late>>

\* Two seconds have passed without data, or the descriptor is closed.
DropDead(p) ==
    /\ pc[p] = "keeper"
    /\ CloseSocket(p)
    /\ GoTo(p, "lock")
    /\ UNCHANGED <<lock, family, good, socket, retry, shutdownPending, fail_on_intr, late>>

-----------------------------------------------------------------------------
\* The request has been served and OS_IpcClose called.
OS_IpcClose(p) ==
    /\ pc[p] = "serving"
    /\ CloseSocket(p)
    /\ GoTo(p, "out")
    /\ UNCHANGED <<lock, family, good, socket, retry, shutdownPending, fail_on_intr, late>>

\* "Return -1 to the caller, who should exit": the system closes what the process
\* holds and drops its lock.
Exit(p) ==
    /\ pc[p] = "failed"
    /\ GoTo(p, "stopped")
    /\ where' = [c \in Clients |-> IF where[c] = p THEN "closed" ELSE where[c]]
    /\ lock' = IF lock = p THEN None ELSE lock
    /\ UNCHANGED <<family, good, socket, retry, shutdownPending, fail_on_intr, late>>

\* The steps process p takes by itself.
OS_Accept(p) ==
    \/ Enter(p) \/ AcquireLock(p) \/ Test(p) \/ (\E c \in Clients : Accept(p, c))
    \/ Accepted_Error(p) \/ Accepted_Refuse(p) \/ Accepted_OK(p)
    \/ ReleaseLock(p) \/ is_af_unix_keeper(p) \/ DropDead(p) \/ OS_IpcClose(p) \/ Exit(p)

Environment ==
    \/ \E c \in Clients : Connect(c) \/ GiveUp(c)
    \/ \E p \in Procs : \/ Signal(p) \/ OS_Sigusr1Handler(p) \/ ReleaseLock_Fails(p)
                        \/ \E reasonable \in BOOLEAN : AcceptFails(p, reasonable)

Next == Environment \/ \E p \in Procs : OS_Accept(p)

Spec == Init /\ [][Next]_vars

-----------------------------------------------------------------------------
\* The types of the module's variables.
TypeOK ==
    /\ lock \in Procs \cup {None}
    /\ family \in {"inet", "unix"}
    /\ good \in SUBSET Clients
    /\ where \in [Clients -> {"new", "queued", "closed"} \cup Procs]
    /\ pc \in [Procs -> {"out", "lock", "test", "accept", "accepted", "unlock", "keeper", "serving",
                         "failed", "stopped"}]
    /\ socket \in [Procs -> Clients \cup {None}]
    /\ retry \in [Procs -> BOOLEAN]
    /\ shutdownPending \in [Procs -> BOOLEAN]
    /\ fail_on_intr \in [Procs -> BOOLEAN]
    /\ late \in [Procs -> Nat]

\* With locking at most one process at a time is between AcquireLock and
\* ReleaseLock, on every path through the two loops, the error returns included,
\* and a process that serves a request or waits for its turn does not keep the
\* others from accepting; a process that returns -1 keeps the lock only if it could
\* not be released.
LockDiscipline ==
    UseLocking => \A p \in Procs :
        /\ pc[p] \in {"test", "accept", "accepted", "unlock"} => lock = p
        /\ lock = p => \/ pc[p] \in {"test", "accept", "accepted", "unlock"}
                       \/ pc[p] = "failed" /\ socket[p] # None

\* "Otherwise this is a valid IPC fd": a process serves a connection that it holds
\* and whose client passed the check, although `socket' may name a connection that
\* OS_Accept has closed before.
ServesOwnApproved ==
    \A p \in Procs : pc[p] = "serving" => /\ socket[p] # None
                                          /\ where[socket[p]] = p
                                          /\ socket[p] \in good

\* No descriptor leaks: a process holds no connection but the one it is accepting
\* or serving, until it exits.
NoLeak ==
    \A c \in Clients, p \in Procs :
        where[c] = p => /\ socket[p] = c
                        /\ pc[p] \in {"accepted", "unlock", "keeper", "serving", "failed"}

\* "Prevent the lib from accepting any new requests": after the shutdown request a
\* process takes at most the connection it was waiting for ("There's a window
\* here").
ShutdownBound == \A p \in Procs : late[p] <= 1

-----------------------------------------------------------------------------
\* Every process goes on as long as it can: system calls that can return do, and
\* requests are served; accept does not fail or get interrupted for ever.
FairSpec == Spec /\ \A p \in Procs : /\ WF_vars(OS_Accept(p))
                                     /\ SF_vars(\E c \in Clients : Accept(p, c))

Running(p) == ~shutdownPending[p] /\ pc[p] \notin {"failed", "stopped"}

\* A connection in the queue is accepted, unless its client gives up, as long as
\* no process has been asked to stop or has failed.
QueueServed ==
    \A c \in Clients :
        (where[c] = "queued") ~> (where[c] # "queued" \/ \E p \in Procs : ~Running(p))

\* "Prevent the lib from accepting any new requests": a process that notices the
\* shutdown request leaves OS_Accept, or is blocked in accept.
ShutdownLeaves ==
    \A p \in Procs :
        (shutdownPending[p] /\ pc[p] = "test") ~> pc[p] \in {"accept", "serving", "failed", "stopped"}
=============================================================================
