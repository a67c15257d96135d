----------------------------- MODULE OsAsyncIo -----------------------------
(***************************************************************************)
(* The asynchronous I/O table of the FastCGI OS layer (os_unix.c): the     *)
(* application registers reads and writes, OS_DoIo selects on them, posts  *)
(* what select reports and dispatches the callbacks one descriptor at a    *)
(* time.  Callbacks run in the middle of the scan and may call any of the  *)
(* other operations, which is why the code works off "posted" copies of    *)
(* the sets.                                                               *)
(*                                                                         *)
(* The two copies the code keeps of everything (readFdSet / writeFdSet,    *)
(* numRdPosted / numWrPosted, ...) are functions on Dirs here.  Buffers,   *)
(* lengths, offsets and callback pointers are left out: no control depends *)
(* on them.                                                                *)
(***************************************************************************)
EXTENDS Integers, FiniteSets

CONSTANTS
    LastFd,          \* descriptors are 0..LastFd
    InitTableSize    \* asyncIoTableSize before the first growth (16 in the code)

ASSUME LastFdAssumption == LastFd \in Nat
ASSUME InitTableSizeAssumption == InitTableSize \in Nat /\ InitTableSize >= 2

Fds  == 0..LastFd
Dirs == {"rd", "wr"}

VARIABLES
    libInitialized,    \* asyncIoTable is allocated
    asyncIoInUse,
    asyncIoTableSize,
    inUse,             \* [Dirs -> descriptors whose entry has inUse = 1]
    fdSet,             \* readFdSet, writeFdSet
    fdSetPost,         \* readFdSetPost, writeFdSetPost
    numPosted,         \* numRdPosted, numWrPosted
    maxFd,
    open,              \* descriptors the process holds (kernel state)
    pc,                \* "app": outside OS_DoIo; "rd", "wr": about to test that
                       \* entry of descriptor fd; "cbrd", "cbwr": in its callback
    fd,                \* OS_DoIo's loop variable
    careful            \* the application never closes a descriptor that has a
                       \* posted completion (fixed from the start)

table == <<inUse, fdSet, fdSetPost, numPosted, maxFd>>
vars  == <<libInitialized, asyncIoInUse, asyncIoTableSize, table, open, pc, fd, careful>>

\* AIO_RD_IX and AIO_WR_IX.
Ix(d, f) == IF d = "rd" THEN f * 2 ELSE f * 2 + 1

\* The code runs on behalf of the application: outside OS_DoIo or in a callback.
AppRunning == pc \in {"app", "cbrd", "cbwr"}

Init ==
    /\ libInitialized = FALSE
    /\ asyncIoInUse = FALSE
    /\ asyncIoTableSize = InitTableSize
    /\ inUse = [d \in Dirs |-> {}]
    /\ fdSet = [d \in Dirs |-> {}]
    /\ fdSetPost = [d \in Dirs |-> {}]
    /\ numPosted = [d \in Dirs |-> 0]
    /\ maxFd = -1
    /\ open = {0}
    /\ pc = "app"
    /\ fd = 0
    /\ careful \in BOOLEAN

\* The table is allocated afresh and the sets are emptied; the posted counters
\* and maxFd keep their values.
OS_LibInit ==
    /\ pc = "app"
    /\ ~libInitialized
    /\ libInitialized' = TRUE
    /\ inUse' = [d \in Dirs |-> {}]
    /\ fdSet' = [d \in Dirs |-> {}]
    /\ fdSetPost' = [d \in Dirs |-> {}]
    /\ UNCHANGED <<asyncIoInUse, asyncIoTableSize, numPosted, maxFd, open, pc, fd, careful>>

OS_LibShutdown ==
    /\ pc = "app"
    /\ libInitialized
    /\ libInitialized' = FALSE
    /\ inUse' = [d \in Dirs |-> {}]
    /\ UNCHANGED <<asyncIoInUse, asyncIoTableSize, fdSet, fdSetPost, numPosted, maxFd,
                   open, pc, fd, careful>>

\* The kernel hands the application the lowest free descriptor (socket, accept).
OpenFd ==
    /\ AppRunning
    /\ \E f \in Fds \ open : /\ \A g \in 0..(f - 1) : g \in open
                             /\ open' = open \cup {f}
    /\ UNCHANGED <<libInitialized, asyncIoInUse, asyncIoTableSize, table, pc, fd, careful>>

\* `while (index >= asyncIoTableSize) GrowAsyncTable()': the size doubles until
\* the index fits.  The new entries are zeroed: inUse does not change.
GrowAsyncTable(ix) ==
    \E n \in asyncIoTableSize .. (asyncIoTableSize + 2 * ix) :
        /\ n > ix
        /\ n = asyncIoTableSize \/ n \div 2 <= ix
        /\ \E k \in 0..ix : n = asyncIoTableSize * 2^k
        /\ asyncIoTableSize' = n

\* OS_AsyncRead and OS_AsyncWrite.  The ASSERTs are the caller's obligations.
OS_Async(d, f) ==
    /\ AppRunning
    /\ libInitialized
    /\ f \in open
    /\ f \notin inUse[d]
    /\ asyncIoInUse' = TRUE
    /\ maxFd' = IF f > maxFd THEN f ELSE maxFd
    /\ GrowAsyncTable(Ix(d, f))
    /\ inUse' = [inUse EXCEPT ![d] = @ \cup {f}]
    /\ fdSet' = [fdSet EXCEPT ![d] = @ \cup {f}]
    /\ UNCHANGED <<libInitialized, fdSetPost, numPosted, open, pc, fd, careful>>

\* Entry 0 always exists, so there is no growth.
OS_AsyncReadStdin ==
    /\ AppRunning
    /\ libInitialized
    /\ 0 \in open
    /\ 0 \notin inUse["rd"]
    /\ asyncIoInUse' = TRUE
    /\ maxFd' = IF 0 > maxFd THEN 0 ELSE maxFd
    /\ inUse' = [inUse EXCEPT !["rd"] = @ \cup {0}]
    /\ fdSet' = [fdSet EXCEPT !["rd"] = @ \cup {0}]
    /\ UNCHANGED <<libInitialized, asyncIoTableSize, fdSetPost, numPosted, open, pc, fd, careful>>

\* Mutant: the posted completion survives the close.
Forget_keepsPost(f) ==
    IF asyncIoInUse
    THEN /\ inUse' = [d \in Dirs |-> inUse[d] \ {f}]
         /\ fdSet' = [d \in Dirs |-> fdSet[d] \ {f}]
         /\ maxFd' = IF maxFd = f THEN maxFd - 1 ELSE maxFd
         /\ UNCHANGED <<numPosted, fdSetPost>>
    ELSE UNCHANGED table

\* Mutant: maxFd steps down whichever descriptor is closed.
Forget_alwaysShrinks(f) ==
    IF asyncIoInUse
    THEN /\ inUse' = [d \in Dirs |-> inUse[d] \ {f}]
         /\ fdSet' = [d \in Dirs |-> fdSet[d] \ {f}]
         /\ fdSetPost' = [d \in Dirs |-> fdSetPost[d] \ {f}]
         /\ maxFd' = maxFd - 1
         /\ UNCHANGED numPosted
    ELSE UNCHANGED table

\* The table part of OS_Close: all marks of the descriptor are cleared, the
\* counters are left alone and maxFd steps down by one.  (The code does not test whether
\* the table has an entry for f; one that has never been used is in no set.)
Forget(f) ==
    IF asyncIoInUse
    THEN /\ inUse' = [d \in Dirs |-> inUse[d] \ {f}]
         /\ fdSet' = [d \in Dirs |-> fdSet[d] \ {f}]
         /\ fdSetPost' = [d \in Dirs |-> fdSetPost[d] \ {f}]
         /\ maxFd' = IF maxFd = f THEN maxFd - 1 ELSE maxFd
         /\ UNCHANGED numPosted
    ELSE UNCHANGED table

OS_Close(f) ==
    /\ AppRunning
    /\ f \in open
    /\ careful => \A d \in Dirs : f \notin fdSetPost[d]
    /\ Forget(f)
    /\ open' = open \ {f}
    /\ UNCHANGED <<libInitialized, asyncIoInUse, asyncIoTableSize, pc, fd, careful>>

\* The read is cancelled before select has reported it; a posted completion
\* keeps its mark and its count.
OS_CloseRead(f) ==
    /\ AppRunning
    /\ libInitialized
    /\ f \in open
    /\ careful => f \notin fdSetPost["rd"]
    /\ inUse' = [inUse EXCEPT !["rd"] = @ \ {f}]
    /\ fdSet' = IF f \in inUse["rd"] THEN [fdSet EXCEPT !["rd"] = @ \ {f}] ELSE fdSet
    /\ UNCHANGED <<libInitialized, asyncIoInUse, asyncIoTableSize, fdSetPost, numPosted, maxFd,
                   open, pc, fd, careful>>

NothingPosted == \A d \in Dirs : numPosted[d] = 0

\* Mutant: what select reports stays in the selected sets as well.
OS_DoIo_Select_keepsFdSet(ready) ==
    /\ pc = "app"
    /\ libInitialized
    /\ NothingPosted
    /\ \A d \in Dirs : ready[d] \subseteq fdSet[d] \cap 0..maxFd
    /\ asyncIoInUse' = TRUE
    /\ numPosted' = [d \in Dirs |-> Cardinality(ready[d])]
    /\ fdSetPost' = [d \in Dirs |-> fdSetPost[d] \cup ready[d]]
    /\ pc' = IF \A d \in Dirs : ready[d] = {} THEN "app" ELSE "rd"
    /\ fd' = 0
    /\ UNCHANGED <<libInitialized, asyncIoTableSize, inUse, fdSet, maxFd, open, careful>>

\* OS_DoIo up to its dispatch loop, when no completion is outstanding: select
\* reports the subset `ready' (possibly nothing, after the timeout) of what lies
\* under maxFd, and what it reports is counted and moved to the posted sets.
OS_DoIo_Select(ready) ==
    /\ pc = "app"
    /\ libInitialized
    /\ NothingPosted
    /\ \A d \in Dirs : ready[d] \subseteq fdSet[d] \cap 0..maxFd
    /\ asyncIoInUse' = TRUE
    /\ numPosted' = [d \in Dirs |-> Cardinality(ready[d])]
    /\ fdSetPost' = [d \in Dirs |-> fdSetPost[d] \cup ready[d]]
    /\ fdSet' = [d \in Dirs |-> fdSet[d] \ ready[d]]
    /\ pc' = IF \A d \in Dirs : ready[d] = {} THEN "app" ELSE "rd"
    /\ fd' = 0
    /\ UNCHANGED <<libInitialized, asyncIoTableSize, inUse, maxFd, open, careful>>

\* OS_DoIo when a previous call has left completions counted: no select.
OS_DoIo_Resume ==
    /\ pc = "app"
    /\ libInitialized
    /\ ~NothingPosted
    /\ asyncIoInUse' = TRUE
    /\ pc' = "rd"
    /\ fd' = 0
    /\ UNCHANGED <<libInitialized, asyncIoTableSize, table, open, careful>>

\* Mutant: the posted mark is left set, so the entry is dispatched again.
Dispatch_keepsPost(d) ==
    /\ pc = d
    /\ d = "rd" => fd <= maxFd
    /\ fd \in fdSetPost[d] /\ fd \in inUse[d]
    /\ numPosted' = [numPosted EXCEPT ![d] = @ - 1]
    /\ inUse' = [inUse EXCEPT ![d] = @ \ {fd}]
    /\ pc' = IF d = "rd" THEN "cbrd" ELSE "cbwr"
    /\ UNCHANGED <<libInitialized, asyncIoInUse, asyncIoTableSize, fdSet, fdSetPost, maxFd, open,
                   fd, careful>>

\* Mutant: the entry of the dispatched operation is not freed.
Dispatch_keepsInUse(d) ==
    /\ pc = d
    /\ d = "rd" => fd <= maxFd
    /\ fd \in fdSetPost[d] /\ fd \in inUse[d]
    /\ numPosted' = [numPosted EXCEPT ![d] = @ - 1]
    /\ fdSetPost' = [fdSetPost EXCEPT ![d] = @ \ {fd}]
    /\ pc' = IF d = "rd" THEN "cbrd" ELSE "cbwr"
    /\ UNCHANGED <<libInitialized, asyncIoInUse, asyncIoTableSize, inUse, fdSet, maxFd, open,
                   fd, careful>>

\* One half of the body of the dispatch loop: the entry is posted and in use, so
\* the transfer is made and the callback called.
Dispatch(d) ==
    /\ pc = d
    /\ d = "rd" => fd <= maxFd
    /\ fd \in fdSetPost[d] /\ fd \in inUse[d]
    /\ numPosted' = [numPosted EXCEPT ![d] = @ - 1]
    /\ fdSetPost' = [fdSetPost EXCEPT ![d] = @ \ {fd}]
    /\ inUse' = [inUse EXCEPT ![d] = @ \ {fd}]
    /\ pc' = IF d = "rd" THEN "cbrd" ELSE "cbwr"
    /\ UNCHANGED <<libInitialized, asyncIoInUse, asyncIoTableSize, fdSet, maxFd, open, fd, careful>>

\* After the read half comes the write half, after that the next descriptor.
AfterHalf(d) ==
    /\ pc' = IF d = "rd" THEN "wr" ELSE "rd"
    /\ fd' = IF d = "rd" THEN fd ELSE fd + 1

Skip(d) ==
    /\ pc = d
    /\ d = "rd" => fd <= maxFd
    /\ ~(fd \in fdSetPost[d] /\ fd \in inUse[d])
    /\ AfterHalf(d)
    /\ UNCHANGED <<libInitialized, asyncIoInUse, asyncIoTableSize, table, open, careful>>

CallbackReturn(d) ==
    /\ pc = (IF d = "rd" THEN "cbrd" ELSE "cbwr")
    /\ AfterHalf(d)
    /\ UNCHANGED <<libInitialized, asyncIoInUse, asyncIoTableSize, table, open, careful>>


\* The loop test reads maxFd again on every iteration.
OS_DoIo_Return ==
    /\ pc = "rd"
    /\ fd > maxFd
    /\ pc' = "app"
    /\ fd' = 0
    /\ UNCHANGED <<libInitialized, asyncIoInUse, asyncIoTableSize, table, open, careful>>

Ready == [Dirs -> SUBSET Fds]

DoIoStep == \/ \E d \in Dirs : Dispatch(d) \/ Skip(d) \/ CallbackReturn(d)
            \/ OS_DoIo_Return

Next == \/ OS_LibInit \/ OS_LibShutdown \/ OpenFd \/ OS_AsyncReadStdin
        \/ \E d \in Dirs, f \in Fds : OS_Async(d, f)
        \/ \E f \in Fds : OS_Close(f) \/ OS_CloseRead(f)
        \/ \E ready \in Ready : OS_DoIo_Select(ready)
        \/ OS_DoIo_Resume
        \/ DoIoStep

Spec == Init /\ [][Next]_vars

-----------------------------------------------------------------------------
\* The types of the module's variables.
TypeOK ==
    /\ libInitialized \in BOOLEAN
    /\ asyncIoInUse \in BOOLEAN
    /\ asyncIoTableSize \in Nat /\ asyncIoTableSize >= 2
    /\ inUse \in [Dirs -> SUBSET Fds]
    /\ fdSet \in [Dirs -> SUBSET Fds]
    /\ fdSetPost \in [Dirs -> SUBSET Fds]
    /\ numPosted \in [Dirs -> Nat]
    /\ maxFd \in -1..LastFd
    /\ open \in SUBSET Fds
    /\ pc \in {"app", "rd", "wr", "cbrd", "cbwr"}
    /\ fd \in 0..(LastFd + 1)
    /\ careful \in BOOLEAN

\* No mark of a descriptor outlives it: select is never given a closed
\* descriptor (it would fail and OS_DoIo would exit the process), and no
\* completion posted for a closed descriptor is dispatched to the next user of
\* its number, however callbacks close and reopen descriptors during the scan.
ClosedForgotten ==
    \A d \in Dirs : inUse[d] \cup fdSet[d] \cup fdSetPost[d] \subseteq open

\* Every loop of OS_DoIo stops at maxFd, which OS_Close lowers one at a time:
\* no registered or posted descriptor lies above it.
ScanCovers == \A d \in Dirs : fdSet[d] \cup fdSetPost[d] \subseteq 0..maxFd

\* An outstanding operation is waiting for select or posted; one that is
\* neither would never complete.
OutstandingHeld == \A d \in Dirs : inUse[d] \subseteq fdSet[d] \cup fdSetPost[d]

\* The counters cover the posted sets, so a dispatch never takes one below zero.
PostedCounted == \A d \in Dirs : Cardinality(fdSetPost[d]) <= numPosted[d]

\* The entry of every outstanding operation lies within the allocated table.
EntriesInTable ==
    \A d \in Dirs : \A f \in inUse[d] : Ix(d, f) < asyncIoTableSize

\* However descriptors come and go, the loops of OS_DoIo and the allocated table
\* reach every descriptor that is registered, posted or has an operation.
TableCovers == ScanCovers /\ EntriesInTable

\* "If there were no completed events from a prior call, see if there's any work
\* to do": between calls of OS_DoIo, no posted event means that the next call
\* selects.
WorkSeenWhenNothingPosted ==
    pc = "app" /\ (\A d \in Dirs : fdSetPost[d] = {}) => NothingPosted

-----------------------------------------------------------------------------
\* The application keeps calling OS_DoIo and its callbacks return; the kernel
\* does not forever leave a descriptor out of what select reports.
DoIoCall == OS_DoIo_Resume \/ \E ready \in Ready : OS_DoIo_Select(ready)

Reports(d, f) == \E ready \in Ready : f \in ready[d] /\ OS_DoIo_Select(ready)

FairSpec == /\ Spec
            /\ WF_vars(DoIoCall) /\ WF_vars(DoIoStep)
            /\ \A d \in Dirs, f \in Fds : SF_vars(Reports(d, f))

\* An operation the application has registered is dispatched, or given up by the
\* application itself, as long as it never closes a descriptor that has a posted
\* completion.
OperationCompletes ==
    \A d \in Dirs, f \in Fds : (careful /\ f \in inUse[d]) ~> f \notin inUse[d]
=============================================================================
