-------------------------- MODULE OsAsyncIo_proofs --------------------------
(***************************************************************************)
(* The consistency of the async I/O table, for any number of descriptors,  *)
(* any initial table size and any application.                             *)
(***************************************************************************)
EXTENDS OsAsyncIo, FiniteSetTheorems, TLAPS

\* Inside the dispatch loop the cursor is a descriptor.
CursorInRange == pc \in {"wr", "cbrd", "cbwr"} => fd <= LastFd

\* OS_Close leaves the table alone until an operation has been registered.
UnusedEmpty ==
    ~asyncIoInUse => \A d \in Dirs : inUse[d] = {} /\ fdSet[d] = {} /\ fdSetPost[d] = {}

IInv == /\ TypeOK
        /\ UnusedEmpty
        /\ CursorInRange
        /\ ClosedForgotten
        /\ ScanCovers
        /\ OutstandingHeld
        /\ PostedCounted
        /\ EntriesInTable

\* A set of descriptors is finite, and what the cardinality of its parts is.
LEMMA FdSetsFinite ==
    ASSUME NEW S \in SUBSET Fds
    PROVE  /\ IsFiniteSet(S)
           /\ Cardinality(S) \in Nat
           /\ \A x : /\ Cardinality(S \ {x}) <= Cardinality(S)
                     /\ x \in S => /\ Cardinality(S) >= 1
                                   /\ Cardinality(S \ {x}) = Cardinality(S) - 1
<1>1. IsFiniteSet(S)
  <2>1. 0 \in Int /\ LastFd \in Int
    BY LastFdAssumption
  <2>2. IsFiniteSet(Fds)
    BY <2>1, FS_Interval DEF Fds
  <2> QED
    BY <2>2, FS_Subset
<1>2. Cardinality(S) \in Nat
  BY <1>1, FS_CardinalityType
<1>3. ASSUME NEW x
      PROVE  /\ Cardinality(S \ {x}) <= Cardinality(S)
             /\ x \in S => /\ Cardinality(S) >= 1
                           /\ Cardinality(S \ {x}) = Cardinality(S) - 1
  <2>1. Cardinality(S \ {x}) = IF x \in S THEN Cardinality(S) - 1 ELSE Cardinality(S)
    BY <1>1, FS_RemoveElement
  <2>2. x \in S => Cardinality(S) # 0
    BY <1>1, FS_EmptySet
  <2> QED
    BY <1>2, <2>1, <2>2
<1> QED
  BY <1>1, <1>2, <1>3

\* The invariant holds before the library is initialised.
LEMMA AsyncInit == Init => IInv
<1> SUFFICES ASSUME Init PROVE IInv
  OBVIOUS
<1>1. TypeOK
  <2>1. 0 \in Fds /\ fd \in 0..(LastFd + 1) /\ maxFd \in -1..LastFd
    BY LastFdAssumption DEF Init, Fds
  <2>2. /\ inUse \in [Dirs -> SUBSET Fds] /\ fdSet \in [Dirs -> SUBSET Fds]
        /\ fdSetPost \in [Dirs -> SUBSET Fds] /\ numPosted \in [Dirs -> Nat]
    BY DEF Init
  <2> QED
    BY <2>1, <2>2, InitTableSizeAssumption DEF Init, TypeOK
<1>2. PostedCounted
  BY FS_EmptySet DEF Init, PostedCounted, Dirs
<1> QED
  BY <1>1, <1>2 DEF Init, IInv, UnusedEmpty, CursorInRange, ClosedForgotten, ScanCovers, OutstandingHeld,
                    EntriesInTable

\* Every operation, step of OS_DoIo and callback preserves it.
LEMMA AsyncNext == IInv /\ [Next]_vars => IInv'
<1> SUFFICES ASSUME IInv, [Next]_vars PROVE IInv'
  OBVIOUS
<1> USE LastFdAssumption DEF IInv
<1>1. CASE OS_LibInit
  <2>1. PostedCounted'
    BY <1>1, FS_EmptySet DEF OS_LibInit, PostedCounted, TypeOK
  <2> QED
    BY <1>1, <2>1 DEF OS_LibInit, TypeOK, UnusedEmpty, CursorInRange, ClosedForgotten, ScanCovers,
                      OutstandingHeld, EntriesInTable
<1>2. CASE OS_LibShutdown
  BY <1>2 DEF OS_LibShutdown, TypeOK, UnusedEmpty, CursorInRange, ClosedForgotten, ScanCovers,
              OutstandingHeld, PostedCounted, EntriesInTable
<1>3. CASE OpenFd
  BY <1>3 DEF OpenFd, table, TypeOK, UnusedEmpty, CursorInRange, ClosedForgotten, ScanCovers,
              OutstandingHeld, PostedCounted, EntriesInTable
<1>4. ASSUME NEW d \in Dirs, NEW f \in Fds, OS_Async(d, f) PROVE IInv'
  <2>1. PICK n \in asyncIoTableSize .. (asyncIoTableSize + 2 * Ix(d, f)) :
            n > Ix(d, f) /\ asyncIoTableSize' = n
    BY <1>4 DEF OS_Async, GrowAsyncTable
  <2>2. Ix(d, f) \in Nat
    BY DEF Ix, Fds
  <2>3. asyncIoTableSize' \in Nat /\ asyncIoTableSize' >= asyncIoTableSize
    BY <2>1, <2>2 DEF TypeOK
  <2>4. TypeOK'
    BY <1>4, <2>3 DEF OS_Async, TypeOK, Fds
  <2>5. EntriesInTable'
    <3> SUFFICES ASSUME NEW e \in Dirs, NEW g \in inUse'[e] PROVE Ix(e, g) < asyncIoTableSize'
      BY DEF EntriesInTable, Ix
    <3>1. CASE e = d /\ g = f
      BY <2>1, <3>1
    <3>2. CASE ~(e = d /\ g = f)
      <4>1. g \in inUse[e] /\ g \in Fds
        BY <1>4, <3>2 DEF OS_Async, TypeOK
      <4>2. Ix(e, g) < asyncIoTableSize /\ Ix(e, g) \in Nat
        BY <4>1 DEF EntriesInTable, Ix, Fds
      <4> QED
        BY <2>3, <4>2 DEF TypeOK
    <3> QED
      BY <3>1, <3>2
  <2>6. ScanCovers'
    BY <1>4 DEF OS_Async, ScanCovers, TypeOK, Fds
  <2>7. ClosedForgotten' /\ OutstandingHeld'
    BY <1>4 DEF OS_Async, ClosedForgotten, OutstandingHeld, TypeOK
  <2> QED
    BY <1>4, <2>4, <2>5, <2>6, <2>7 DEF OS_Async, UnusedEmpty, CursorInRange, PostedCounted
<1>5. CASE OS_AsyncReadStdin
  <2>1. TypeOK' /\ ScanCovers'
    BY <1>5 DEF OS_AsyncReadStdin, TypeOK, ScanCovers, Fds, Dirs
  <2>2. EntriesInTable'
    BY <1>5 DEF OS_AsyncReadStdin, TypeOK, EntriesInTable, Ix, Fds, Dirs
  <2> QED
    BY <1>5, <2>1, <2>2 DEF OS_AsyncReadStdin, TypeOK, UnusedEmpty, CursorInRange, ClosedForgotten,
                            OutstandingHeld, PostedCounted, Dirs
<1>6. ASSUME NEW f \in Fds, OS_Close(f) PROVE IInv'
  <2>1. CASE asyncIoInUse
    <3>1. TypeOK'
      BY <1>6, <2>1 DEF OS_Close, Forget, TypeOK, Fds
    <3>2. ScanCovers'
      BY <1>6, <2>1 DEF OS_Close, Forget, TypeOK, ScanCovers, Fds
    <3>3. PostedCounted'
      <4> SUFFICES ASSUME NEW d \in Dirs
                   PROVE  Cardinality(fdSetPost'[d]) <= numPosted'[d]
        BY DEF PostedCounted
      <4>1. fdSetPost'[d] = fdSetPost[d] \ {f} /\ numPosted'[d] = numPosted[d]
        BY <1>6, <2>1 DEF OS_Close, Forget
      <4>2. fdSetPost[d] \in SUBSET Fds /\ fdSetPost[d] \ {f} \in SUBSET Fds
        BY DEF TypeOK
      <4>3. /\ Cardinality(fdSetPost[d] \ {f}) <= Cardinality(fdSetPost[d])
            /\ Cardinality(fdSetPost[d]) \in Nat
            /\ Cardinality(fdSetPost[d] \ {f}) \in Nat
        BY <4>2, FdSetsFinite
      <4> QED
        BY <4>1, <4>3 DEF PostedCounted, TypeOK
    <3> QED
      BY <1>6, <2>1, <3>1, <3>2, <3>3
         DEF OS_Close, Forget, TypeOK, UnusedEmpty, CursorInRange, ClosedForgotten, OutstandingHeld,
             EntriesInTable
  <2>2. CASE ~asyncIoInUse
    \* No operation was ever registered: there is nothing to forget.
    BY <1>6, <2>2 DEF OS_Close, Forget, table, TypeOK, UnusedEmpty, CursorInRange,
                      ClosedForgotten, ScanCovers, OutstandingHeld, PostedCounted, EntriesInTable
  <2> QED
    BY <2>1, <2>2 DEF TypeOK
<1>7. ASSUME NEW f \in Fds, OS_CloseRead(f) PROVE IInv'
  <2>1. TypeOK'
    BY <1>7 DEF OS_CloseRead, TypeOK, Dirs
  <2>2. ClosedForgotten' /\ ScanCovers' /\ UnusedEmpty'
    BY <1>7 DEF OS_CloseRead, TypeOK, ClosedForgotten, ScanCovers, UnusedEmpty, Dirs
  <2>3. OutstandingHeld'
    BY <1>7 DEF OS_CloseRead, TypeOK, OutstandingHeld, Dirs
  <2>4. EntriesInTable'
    BY <1>7 DEF OS_CloseRead, TypeOK, EntriesInTable, Dirs
  <2> QED
    BY <1>7, <2>1, <2>2, <2>3, <2>4 DEF OS_CloseRead, CursorInRange, PostedCounted
<1>8. ASSUME NEW ready \in Ready, OS_DoIo_Select(ready) PROVE IInv'
  <2>1. \A d \in Dirs : /\ ready[d] \in SUBSET Fds
                        /\ Cardinality(ready[d]) \in Nat
    BY FdSetsFinite DEF Ready
  <2>2. TypeOK'
    BY <1>8, <2>1 DEF OS_DoIo_Select, TypeOK
  <2>3. PostedCounted'
    <3> SUFFICES ASSUME NEW d \in Dirs
                 PROVE  Cardinality(fdSetPost'[d]) <= numPosted'[d]
      BY DEF PostedCounted
    <3>1. numPosted[d] = 0 /\ Cardinality(fdSetPost[d]) <= numPosted[d]
      BY <1>8 DEF OS_DoIo_Select, NothingPosted, PostedCounted
    <3>2. IsFiniteSet(fdSetPost[d]) /\ Cardinality(fdSetPost[d]) \in Nat
      BY FdSetsFinite DEF TypeOK
    <3>3. fdSetPost[d] = {}
      BY <3>1, <3>2, FS_EmptySet
    <3>4. fdSetPost'[d] = ready[d] /\ numPosted'[d] = Cardinality(ready[d])
      BY <1>8, <3>3 DEF OS_DoIo_Select
    <3> QED
      BY <2>1, <3>4
  <2> QED
    BY <1>8, <2>2, <2>3 DEF OS_DoIo_Select, TypeOK, UnusedEmpty, CursorInRange, ClosedForgotten,
                            ScanCovers, OutstandingHeld, EntriesInTable
<1>9. CASE OS_DoIo_Resume
  BY <1>9 DEF OS_DoIo_Resume, table, TypeOK, UnusedEmpty, CursorInRange, ClosedForgotten,
              ScanCovers, OutstandingHeld, PostedCounted, EntriesInTable
<1>10. ASSUME NEW d \in Dirs, Dispatch(d) PROVE IInv'
  <2>1. /\ fdSetPost[d] \in SUBSET Fds /\ fd \in fdSetPost[d]
        /\ numPosted[d] \in Nat /\ Cardinality(fdSetPost[d]) <= numPosted[d]
    BY <1>10 DEF Dispatch, TypeOK, PostedCounted
  <2>2. /\ Cardinality(fdSetPost[d]) \in Nat
        /\ Cardinality(fdSetPost[d]) >= 1
        /\ Cardinality(fdSetPost[d] \ {fd}) = Cardinality(fdSetPost[d]) - 1
    BY <2>1, FdSetsFinite
  <2>3. numPosted[d] - 1 \in Nat
    BY <2>1, <2>2
  <2>4. TypeOK' /\ CursorInRange'
    BY <1>10, <2>1, <2>3 DEF Dispatch, TypeOK, CursorInRange, Fds
  <2>5. PostedCounted'
    BY <1>10, <2>1, <2>2 DEF Dispatch, PostedCounted, TypeOK
  <2>6. UnusedEmpty' /\ OutstandingHeld' /\ EntriesInTable'
    BY <1>10 DEF Dispatch, TypeOK, UnusedEmpty, OutstandingHeld, EntriesInTable
  <2> QED
    BY <1>10, <2>4, <2>5, <2>6 DEF Dispatch, TypeOK, ClosedForgotten, ScanCovers
<1>11. ASSUME NEW d \in Dirs, Skip(d) \/ CallbackReturn(d) PROVE IInv'
  <2>1. TypeOK' /\ CursorInRange'
    BY <1>11 DEF Skip, CallbackReturn, AfterHalf, table, TypeOK, CursorInRange, Dirs
  <2> QED
    BY <1>11, <2>1 DEF Skip, CallbackReturn, table, UnusedEmpty, ClosedForgotten, ScanCovers,
                       OutstandingHeld, PostedCounted, EntriesInTable
<1>12. CASE OS_DoIo_Return
  BY <1>12 DEF OS_DoIo_Return, table, TypeOK, UnusedEmpty, CursorInRange, ClosedForgotten,
               ScanCovers, OutstandingHeld, PostedCounted, EntriesInTable
<1>13. CASE UNCHANGED vars
  BY <1>13 DEF vars, table, TypeOK, UnusedEmpty, CursorInRange, ClosedForgotten, ScanCovers,
               OutstandingHeld, PostedCounted, EntriesInTable
<1> QED
  BY <1>1, <1>2, <1>3, <1>4, <1>5, <1>6, <1>7, <1>8, <1>9, <1>10, <1>11, <1>12, <1>13
     DEF Next, DoIoStep

\* The inductive invariant holds in every behaviour of the async I/O table.
LEMMA AsyncInvariant == Spec => []IInv
  BY AsyncInit, AsyncNext, PTL DEF Spec

\* Whatever the application and its callbacks do, the variables of the async
\* table keep their types; in particular no posted counter becomes negative.
THEOREM AsyncTypeOK == Spec => []TypeOK
  BY AsyncInvariant, PTL DEF IInv

\* OS_Close leaves no mark of the descriptor behind: OS_DoIo never selects on a
\* closed descriptor and never dispatches a completion to the next user of its
\* number.
THEOREM AsyncClosedForgotten == Spec => []ClosedForgotten
  BY AsyncInvariant, PTL DEF IInv

\* maxFd covers every registered and every posted descriptor, so that the loops
\* of OS_DoIo miss none, and the growth of the table keeps up with the descriptors
\* in use.
THEOREM AsyncTableCovers == Spec => []TableCovers
<1>1. IInv => TableCovers
  BY DEF IInv, TableCovers
<1> QED BY <1>1, AsyncInvariant, PTL

\* No outstanding operation is lost between the selected and the posted sets.
THEOREM AsyncOutstandingHeld == Spec => []OutstandingHeld
  BY AsyncInvariant, PTL DEF IInv

\* The posted counters cover the posted sets.
THEOREM AsyncPostedCounted == Spec => []PostedCounted
  BY AsyncInvariant, PTL DEF IInv

-----------------------------------------------------------------------------
(***************************************************************************)
(* The scan ends.  OS_DoIo's loop test reads maxFd again on every          *)
(* iteration and callbacks register descriptors above it in the meantime,  *)
(* so the loop is not bounded by the maxFd it started with.                *)
(***************************************************************************)

\* What is left of a call of OS_DoIo: four stages for each descriptor from fd up
\* to the largest there can be, one for the loop test that ends it.
ScanLeft ==
    IF pc = "app" THEN 0
    ELSE 4 * (LastFd + 1 - fd)
         + (IF pc = "rd" THEN 4 ELSE IF pc = "cbrd" THEN 3 ELSE IF pc = "wr" THEN 2 ELSE 1)

\* Every step of the scan lowers it, and no operation that a callback calls
\* raises it.
LEMMA ScanLeftNext ==
  ASSUME IInv, Next, pc # "app"
  PROVE  /\ ScanLeft \in Nat /\ ScanLeft' \in Nat
         /\ DoIoStep => ScanLeft' < ScanLeft
         /\ ~DoIoStep => ScanLeft' = ScanLeft
<1> USE LastFdAssumption DEF IInv
<1>1. /\ pc \in {"rd", "wr", "cbrd", "cbwr"} /\ fd \in 0..(LastFd + 1)
      /\ maxFd \in -1..LastFd
      /\ pc # "rd" => fd <= LastFd
  BY DEF TypeOK, CursorInRange
<1>2. ScanLeft \in Nat
  BY <1>1 DEF ScanLeft
<1>3. CASE DoIoStep
  <2>1. ASSUME NEW d \in Dirs, Dispatch(d) PROVE ScanLeft' \in Nat /\ ScanLeft' < ScanLeft
    <3>1. fd' = fd /\ pc = d /\ pc' = IF d = "rd" THEN "cbrd" ELSE "cbwr"
      BY <2>1 DEF Dispatch
    <3>2. d = "rd" => fd <= LastFd
      BY <1>1, <2>1 DEF Dispatch
    <3> QED BY <1>1, <3>1, <3>2 DEF Dirs, ScanLeft
  <2>2. ASSUME NEW d \in Dirs, Skip(d) \/ CallbackReturn(d)
        PROVE  ScanLeft' \in Nat /\ ScanLeft' < ScanLeft
    <3>1. fd <= LastFd /\ AfterHalf(d) /\ pc \in IF d = "rd" THEN {"rd", "cbrd"} ELSE {"wr", "cbwr"}
      BY <1>1, <2>2 DEF Skip, CallbackReturn, Dirs
    <3> QED BY <1>1, <3>1 DEF Dirs, ScanLeft, AfterHalf
  <2>3. ASSUME OS_DoIo_Return PROVE ScanLeft' \in Nat /\ ScanLeft' < ScanLeft
    BY <1>1, <2>3 DEF OS_DoIo_Return, ScanLeft
  <2> QED BY <1>2, <1>3, <2>1, <2>2, <2>3 DEF DoIoStep
<1>4. CASE ~DoIoStep
  <2>1. pc' = pc /\ fd' = fd
    BY <1>4 DEF Next, OS_LibInit, OS_LibShutdown, OpenFd, OS_AsyncReadStdin, OS_Async,
                OS_Close, OS_CloseRead, OS_DoIo_Select, OS_DoIo_Resume
  <2> QED BY <1>2, <1>4, <2>1 DEF ScanLeft
<1> QED BY <1>2, <1>3, <1>4

\* OS_DoIo returns, whatever its callbacks register or close: each step of its
\* scan lowers ScanLeft, a natural number that no other step changes before
\* OS_DoIo has returned.
THEOREM AsyncScanEnds ==
  Spec => [][pc # "app" => /\ ScanLeft \in Nat /\ ScanLeft' \in Nat
                           /\ DoIoStep => ScanLeft' < ScanLeft
                           /\ ~DoIoStep => ScanLeft' = ScanLeft]_vars
<1>1. IInv /\ [Next]_vars => [pc # "app" => /\ ScanLeft \in Nat /\ ScanLeft' \in Nat
                                            /\ DoIoStep => ScanLeft' < ScanLeft
                                            /\ ~DoIoStep => ScanLeft' = ScanLeft]_vars
  BY ScanLeftNext
<1> QED BY <1>1, AsyncInvariant, PTL DEF Spec
=============================================================================
