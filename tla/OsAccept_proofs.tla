--------------------------- MODULE OsAccept_proofs ---------------------------
(***************************************************************************)
(* Proofs of the safety properties of OsAccept, for any number of          *)
(* processes and connections, with and without locking.                    *)
(***************************************************************************)
EXTENDS OsAccept, TLAPS

\* `socket' names a connection that the process holds or that it has refused; with
\* TCP a process only gets past the check with one that it holds.
SocketHeldOrRefused ==
    \A p \in Procs :
        /\ pc[p] \in {"unlock", "keeper", "serving"} => socket[p] # None
        /\ (family = "inet" /\ socket[p] # None /\ pc[p] \notin {"out", "failed", "stopped"})
              => where[socket[p]] = p \/ socket[p] \notin good
        /\ family = "inet" /\ pc[p] = "unlock" => socket[p] \in good
        /\ pc[p] = "keeper" => family = "unix"

\* Only a process that was asked to stop has accepted a late connection, and it
\* does not go back to accept.
LateOnce ==
    \A p \in Procs : /\ late[p] > 0 => shutdownPending[p]
                     /\ pc[p] = "accept" => late[p] = 0

IInv == /\ TypeOK
        /\ LockDiscipline
        /\ ServesOwnApproved
        /\ NoLeak
        /\ ShutdownBound
        /\ SocketHeldOrRefused
        /\ LateOnce

\* The invariant holds before the first process calls OS_Accept.
LEMMA AcceptInit == Init => IInv
BY NoneAssumption, ProcsAssumption
   DEF Init, IInv, TypeOK, LockDiscipline, ServesOwnApproved, NoLeak, ShutdownBound,
       SocketHeldOrRefused, LateOnce

\* The parts of IInv one by one.  The types.
LEMMA TypeNext == IInv /\ [Next]_vars => TypeOK'
<1> SUFFICES ASSUME IInv, [Next]_vars PROVE TypeOK'
    OBVIOUS
<1> USE DEF IInv, TypeOK, GoTo
<1>1. ASSUME NEW c \in Clients, Connect(c) \/ GiveUp(c) PROVE TypeOK'
      BY <1>1 DEF Connect, GiveUp, procs
<1>2. ASSUME NEW p \in Procs, Signal(p) \/ OS_Sigusr1Handler(p) PROVE TypeOK'
  <2>1. ASSUME NEW pending \in BOOLEAN, Interrupted(p, pending)
        PROVE  /\ pc' \in [Procs -> {"out", "lock", "test", "accept", "accepted", "unlock",
                                     "keeper", "serving", "failed", "stopped"}]
               /\ socket' \in [Procs -> Clients \cup {None}]
               /\ retry' \in [Procs -> BOOLEAN]
        BY <2>1 DEF Interrupted
  <2>2. CASE Signal(p)
        BY <2>1, <2>2 DEF Signal
  <2>3. CASE OS_Sigusr1Handler(p)
        BY <2>1, <2>3 DEF OS_Sigusr1Handler
  <2> QED BY <1>2, <2>2, <2>3
<1>3. ASSUME NEW p \in Procs, ReleaseLock_Fails(p) PROVE TypeOK'
      BY <1>3 DEF ReleaseLock_Fails
<1>4. ASSUME NEW p \in Procs, NEW r \in BOOLEAN, AcceptFails(p, r) PROVE TypeOK'
      BY <1>4 DEF AcceptFails
<1>5. ASSUME NEW p \in Procs, Enter(p) \/ AcquireLock(p) \/ Test(p) PROVE TypeOK'
      BY <1>5 DEF Enter, AcquireLock, Test
<1>6. ASSUME NEW p \in Procs, NEW c \in Clients, Accept(p, c) PROVE TypeOK'
      BY <1>6 DEF Accept
<1>7. ASSUME NEW p \in Procs, Accepted_Error(p) \/ Accepted_OK(p) PROVE TypeOK'
      BY <1>7 DEF Accepted_Error, Accepted_OK
<1>8. ASSUME NEW p \in Procs, Accepted_Refuse(p) \/ DropDead(p) \/ OS_IpcClose(p) PROVE TypeOK'
      BY <1>8 DEF Accepted_Refuse, DropDead, OS_IpcClose, CloseSocket
<1>9. ASSUME NEW p \in Procs, ReleaseLock(p) \/ is_af_unix_keeper(p) PROVE TypeOK'
      BY <1>9 DEF ReleaseLock, is_af_unix_keeper
<1>10. ASSUME NEW p \in Procs, Exit(p) PROVE TypeOK'
      BY <1>10 DEF Exit
<1>11. CASE UNCHANGED vars
      BY <1>11 DEF vars, procs
<1> QED BY <1>1, <1>2, <1>3, <1>4, <1>5, <1>6, <1>7, <1>8, <1>9, <1>10, <1>11
        DEF Next, Environment, OS_Accept

\* The lock: a process takes it when nobody has it and gives it back on every way
\* out of the loops.
LEMMA LockNext == IInv /\ [Next]_vars => LockDiscipline'
<1> SUFFICES ASSUME IInv, [Next]_vars PROVE LockDiscipline'
    OBVIOUS
<1> USE NoneAssumption DEF IInv, TypeOK, LockDiscipline, GoTo
<1>1. ASSUME NEW c \in Clients, Connect(c) \/ GiveUp(c) PROVE LockDiscipline'
      BY <1>1 DEF Connect, GiveUp, procs
<1>2. ASSUME NEW p \in Procs, Signal(p) \/ OS_Sigusr1Handler(p) PROVE LockDiscipline'
      BY <1>2 DEF Signal, OS_Sigusr1Handler, Interrupted
<1>3. ASSUME NEW p \in Procs, ReleaseLock_Fails(p) PROVE LockDiscipline'
      BY <1>3 DEF ReleaseLock_Fails, SocketHeldOrRefused
<1>4. ASSUME NEW p \in Procs, NEW r \in BOOLEAN, AcceptFails(p, r) PROVE LockDiscipline'
      BY <1>4 DEF AcceptFails
<1>5. ASSUME NEW p \in Procs, Enter(p) \/ AcquireLock(p) \/ Test(p) PROVE LockDiscipline'
      BY <1>5 DEF Enter, AcquireLock, Test
<1>6. ASSUME NEW p \in Procs, NEW c \in Clients, Accept(p, c) PROVE LockDiscipline'
      BY <1>6 DEF Accept
<1>7. ASSUME NEW p \in Procs, Accepted_Error(p) \/ Accepted_OK(p) PROVE LockDiscipline'
      BY <1>7 DEF Accepted_Error, Accepted_OK
<1>8. ASSUME NEW p \in Procs, Accepted_Refuse(p) \/ DropDead(p) \/ OS_IpcClose(p)
      PROVE LockDiscipline'
      BY <1>8 DEF Accepted_Refuse, DropDead, OS_IpcClose
<1>9. ASSUME NEW p \in Procs, ReleaseLock(p) \/ is_af_unix_keeper(p) PROVE LockDiscipline'
      BY <1>9 DEF ReleaseLock, is_af_unix_keeper
<1>10. ASSUME NEW p \in Procs, Exit(p) PROVE LockDiscipline'
      BY <1>10 DEF Exit
<1>11. CASE UNCHANGED vars
      BY <1>11 DEF vars, procs
<1> QED BY <1>1, <1>2, <1>3, <1>4, <1>5, <1>6, <1>7, <1>8, <1>9, <1>10, <1>11
        DEF Next, Environment, OS_Accept

\* Who holds a connection: NoLeak is inductive with the types.
LEMMA LeakNext == IInv /\ [Next]_vars => NoLeak'
<1> SUFFICES ASSUME IInv, [Next]_vars PROVE NoLeak'
    OBVIOUS
<1> USE NoneAssumption, ProcsAssumption DEF IInv, TypeOK, NoLeak, GoTo
<1>1. ASSUME NEW c \in Clients, Connect(c) \/ GiveUp(c) PROVE NoLeak'
      BY <1>1 DEF Connect, GiveUp, procs
<1>2. ASSUME NEW p \in Procs, Signal(p) \/ OS_Sigusr1Handler(p) PROVE NoLeak'
      BY <1>2 DEF Signal, OS_Sigusr1Handler, Interrupted
<1>3. ASSUME NEW p \in Procs, ReleaseLock_Fails(p) PROVE NoLeak'
      BY <1>3 DEF ReleaseLock_Fails
<1>4. ASSUME NEW p \in Procs, NEW r \in BOOLEAN, AcceptFails(p, r) PROVE NoLeak'
      BY <1>4 DEF AcceptFails
<1>5. ASSUME NEW p \in Procs, Enter(p) \/ AcquireLock(p) \/ Test(p) PROVE NoLeak'
      BY <1>5 DEF Enter, AcquireLock, Test
<1>6. ASSUME NEW p \in Procs, NEW c \in Clients, Accept(p, c) PROVE NoLeak'
      BY <1>6 DEF Accept
<1>7. ASSUME NEW p \in Procs, Accepted_Error(p) \/ Accepted_OK(p) PROVE NoLeak'
      BY <1>7 DEF Accepted_Error, Accepted_OK
<1>8. ASSUME NEW p \in Procs, Accepted_Refuse(p) \/ DropDead(p) \/ OS_IpcClose(p) PROVE NoLeak'
      BY <1>8 DEF Accepted_Refuse, DropDead, OS_IpcClose, CloseSocket
<1>9. ASSUME NEW p \in Procs, ReleaseLock(p) \/ is_af_unix_keeper(p) PROVE NoLeak'
      BY <1>9 DEF ReleaseLock, is_af_unix_keeper
<1>10. ASSUME NEW p \in Procs, Exit(p) PROVE NoLeak'
      BY <1>10 DEF Exit
<1>11. CASE UNCHANGED vars
      BY <1>11 DEF vars, procs
<1> QED BY <1>1, <1>2, <1>3, <1>4, <1>5, <1>6, <1>7, <1>8, <1>9, <1>10, <1>11
        DEF Next, Environment, OS_Accept

\* The connection in `socket', and with it the one that is served.
LEMMA SocketNext == IInv /\ [Next]_vars => SocketHeldOrRefused' /\ ServesOwnApproved'
<1> DEFINE Goal == SocketHeldOrRefused /\ ServesOwnApproved
<1> SUFFICES ASSUME IInv, [Next]_vars PROVE Goal'
    OBVIOUS
<1> USE NoneAssumption, ProcsAssumption
    DEF IInv, TypeOK, SocketHeldOrRefused, ServesOwnApproved, GoTo
<1>1. ASSUME NEW c \in Clients, Connect(c) \/ GiveUp(c) PROVE Goal'
      BY <1>1 DEF Connect, GiveUp, procs
<1>2. ASSUME NEW p \in Procs, Signal(p) \/ OS_Sigusr1Handler(p) PROVE Goal'
      BY <1>2 DEF Signal, OS_Sigusr1Handler, Interrupted
<1>3. ASSUME NEW p \in Procs, ReleaseLock_Fails(p) PROVE Goal'
      BY <1>3 DEF ReleaseLock_Fails
<1>4. ASSUME NEW p \in Procs, NEW r \in BOOLEAN, AcceptFails(p, r) PROVE Goal'
      BY <1>4 DEF AcceptFails
<1>5. ASSUME NEW p \in Procs, Enter(p) \/ AcquireLock(p) \/ Test(p) PROVE Goal'
      BY <1>5 DEF Enter, AcquireLock, Test
<1>6. ASSUME NEW p \in Procs, NEW c \in Clients, Accept(p, c) PROVE Goal'
      BY <1>6 DEF Accept, NoLeak
<1>7. ASSUME NEW p \in Procs, Accepted_Error(p) \/ Accepted_OK(p) PROVE Goal'
      BY <1>7 DEF Accepted_Error, Accepted_OK
<1>8. ASSUME NEW p \in Procs, Accepted_Refuse(p) \/ DropDead(p) \/ OS_IpcClose(p) PROVE Goal'
      BY <1>8 DEF Accepted_Refuse, DropDead, OS_IpcClose, CloseSocket
<1>9. ASSUME NEW p \in Procs, ReleaseLock(p) \/ is_af_unix_keeper(p) PROVE Goal'
      BY <1>9 DEF ReleaseLock, is_af_unix_keeper, Readable
<1>10. ASSUME NEW p \in Procs, Exit(p) PROVE Goal'
      BY <1>10 DEF Exit
<1>11. CASE UNCHANGED vars
      BY <1>11 DEF vars, procs
<1> QED BY <1>1, <1>2, <1>3, <1>4, <1>5, <1>6, <1>7, <1>8, <1>9, <1>10, <1>11
        DEF Next, Environment, OS_Accept

\* Connections accepted after the shutdown request.
LEMMA LateNext == IInv /\ [Next]_vars => LateOnce' /\ ShutdownBound'
<1> DEFINE Goal == LateOnce /\ ShutdownBound
<1> SUFFICES ASSUME IInv, [Next]_vars PROVE Goal'
    OBVIOUS
<1> USE DEF IInv, TypeOK, LateOnce, ShutdownBound, GoTo
<1>1. ASSUME NEW c \in Clients, Connect(c) \/ GiveUp(c) PROVE Goal'
      BY <1>1 DEF Connect, GiveUp, procs
<1>2. ASSUME NEW p \in Procs, Signal(p) \/ OS_Sigusr1Handler(p) PROVE Goal'
      BY <1>2 DEF Signal, OS_Sigusr1Handler, Interrupted
<1>3. ASSUME NEW p \in Procs, ReleaseLock_Fails(p) PROVE Goal'
      BY <1>3 DEF ReleaseLock_Fails
<1>4. ASSUME NEW p \in Procs, NEW r \in BOOLEAN, AcceptFails(p, r) PROVE Goal'
      BY <1>4 DEF AcceptFails
<1>5. ASSUME NEW p \in Procs, Enter(p) \/ AcquireLock(p) \/ Test(p) PROVE Goal'
      BY <1>5 DEF Enter, AcquireLock, Test
<1>6. ASSUME NEW p \in Procs, NEW c \in Clients, Accept(p, c) PROVE Goal'
      BY <1>6 DEF Accept
<1>7. ASSUME NEW p \in Procs, Accepted_Error(p) \/ Accepted_OK(p) PROVE Goal'
      BY <1>7 DEF Accepted_Error, Accepted_OK
<1>8. ASSUME NEW p \in Procs, Accepted_Refuse(p) \/ DropDead(p) \/ OS_IpcClose(p) PROVE Goal'
      BY <1>8 DEF Accepted_Refuse, DropDead, OS_IpcClose
<1>9. ASSUME NEW p \in Procs, ReleaseLock(p) \/ is_af_unix_keeper(p) PROVE Goal'
      BY <1>9 DEF ReleaseLock, is_af_unix_keeper
<1>10. ASSUME NEW p \in Procs, Exit(p) PROVE Goal'
      BY <1>10 DEF Exit
<1>11. CASE UNCHANGED vars
      BY <1>11 DEF vars, procs
<1> QED BY <1>1, <1>2, <1>3, <1>4, <1>5, <1>6, <1>7, <1>8, <1>9, <1>10, <1>11
        DEF Next, Environment, OS_Accept

\* The invariant holds in every reachable state of OS_Accept.
LEMMA AcceptInvariant == Spec => []IInv
<1>1. IInv /\ [Next]_vars => IInv'
      BY TypeNext, LockNext, LeakNext, SocketNext, LateNext DEF IInv
<1> QED BY <1>1, AcceptInit, PTL DEF Spec

\* At most one process is between AcquireLock and ReleaseLock, on every path.
THEOREM AcceptLockDiscipline == Spec => []LockDiscipline
<1>1. IInv => LockDiscipline
      BY DEF IInv
<1> QED BY <1>1, AcceptInvariant, PTL

\* What OS_Accept returns is a connection of this process that passed the check.
THEOREM AcceptServesOwnApproved == Spec => []ServesOwnApproved
<1>1. IInv => ServesOwnApproved
      BY DEF IInv
<1> QED BY <1>1, AcceptInvariant, PTL

\* OS_Accept leaks no descriptor.
THEOREM AcceptNoLeak == Spec => []NoLeak
<1>1. IInv => NoLeak
      BY DEF IInv
<1> QED BY <1>1, AcceptInvariant, PTL

\* After SIGUSR1 a process accepts at most one more connection.
THEOREM AcceptShutdownBound == Spec => []ShutdownBound
<1>1. IInv => ShutdownBound
      BY DEF IInv
<1> QED BY <1>1, AcceptInvariant, PTL
=============================================================================
