------------------------- MODULE BookSemaphoreProofs -------------------------
(***************************************************************************)
(* Proofs about BookSemaphore, for any set of clearers and any bounds.     *)
(*                                                                         *)
(* Mutual exclusion alone is not inductive: the semaphore has to be tied   *)
(* to the process that is inside (Free), and the record, half changed at   *)
(* every point inside, to the last settled one (CollectorData,             *)
(* ClearerData).  All of it holds as long as no race is recorded.          *)
(***************************************************************************)
EXTENDS BookSemaphore, TLAPS

\* Nobody is inside when the semaphore is free, nor anything half done.
Free == /\ sem = 1 => Inside = {} /\ cpc \notin CollectorBusy /\ books = settled
        /\ cpc = "setval" /\ Inside = {} => books = settled

\* What UpdateBooks has done at each point.
FirstStored == [settled EXCEPT !.first = IF settled.first = 0 THEN cycle ELSE settled.first]
LastStored  == [FirstStored EXCEPT !.last = cycle]

CollectorData ==
    /\ cpc \in {"lock"} \cup CollectorBusy => cycle \in 1..MaxCycles
    /\ cpc \in {"first", "unlock"} => books = settled
    /\ cpc = "last" => books = FirstStored
    /\ cpc \in {"load", "store"} => books = LastStored
    /\ cpc = "store" => reg = settled.numfiles

\* What ClearBooks has done at each point.
ClearerData(p) ==
    /\ pc[p] \in {"copyfirst", "copylast", "copynum", "clearfirst", "unlock"}
          => books = settled
    /\ pc[p] \in {"copylast", "copynum"} => copy[p].first = settled.first
    /\ pc[p] = "copynum" => copy[p].last = settled.last
    /\ pc[p] \in {"clearfirst", "clearlast", "clearnum"} => copy[p] = settled
    /\ pc[p] \in {"clearlast", "clearnum"} => books.first = 0
    /\ pc[p] = "clearnum" => books.last = 0

Core == Alone /\ Free /\ CollectorData /\ \A p \in Clearers : ClearerData(p)

IInv == TypeOK /\ (raced = {} => Core)

-----------------------------------------------------------------------------
LEMMA NoBooksType == NoBooks = [first |-> 0, last |-> 0, numfiles |-> 0] /\ NoBooks \in Record
BY DEF NoBooks, Atomic!NoBooks, Record

\* The type invariant needs no other fact, except that the semaphore is binary:
\* an unlock finds it at 0 because its caller is inside.
LEMMA InvInit == Init => IInv
<1> SUFFICES ASSUME Init PROVE IInv
  OBVIOUS
<1>1. TypeOK
  BY NoBooksType, BoundsAssumption
     DEF Init, TypeOK, Record, CollectorBusy, ClearerBusy
<1>2. Core
  BY DEF Init, Core, Alone, Free, CollectorData, ClearerData, Inside,
         CollectorBusy, ClearerBusy
<1> QED BY <1>1, <1>2 DEF IInv

LEMMA TypeStep == IInv /\ [Next]_vars => TypeOK'
<1> SUFFICES ASSUME IInv, [Next]_vars PROVE TypeOK'
  OBVIOUS
<1> USE BoundsAssumption DEF TypeOK, Record, CollectorBusy, ClearerBusy,
        collectorVars, clearerVars, CollectorAt, ClearerAt
<1>a. TypeOK BY DEF IInv
<1>b. raced = {} /\ sem # 0 => sem = 1 /\ Inside = {} /\ cpc \notin CollectorBusy
  BY <1>a DEF IInv, Core, Free
<1>1. CASE CallUpdateBooks BY <1>a, <1>1 DEF CallUpdateBooks
<1>2. CASE CollectorLock BY <1>a, <1>2 DEF CollectorLock
<1>3. CASE CollectorInterrupted BY <1>a, <1>3 DEF CollectorInterrupted
<1>4. CASE StoreFirst BY <1>a, <1>4 DEF StoreFirst
<1>5. CASE StoreLast BY <1>a, <1>5 DEF StoreLast
<1>6. CASE LoadNumfiles BY <1>a, <1>6 DEF LoadNumfiles
<1>7. CASE StoreNumfiles BY <1>a, <1>7 DEF StoreNumfiles
<1>8. CASE CollectorUnlock BY <1>a, <1>b, <1>8 DEF CollectorUnlock
<1>9. CASE Crash BY <1>a, <1>9 DEF Crash
<1>10. CASE InitBookkeeper
  BY <1>a, <1>10, NoBooksType DEF InitBookkeeper, RaceWithInside
<1>11. CASE SetVal BY <1>a, <1>11 DEF SetVal, RaceWithInside
<1>12. ASSUME NEW p \in Clearers, CallClearBooks(p) PROVE TypeOK'
  BY <1>a, <1>12 DEF CallClearBooks
<1>13. ASSUME NEW p \in Clearers, ClearerLock(p) PROVE TypeOK'
  BY <1>a, <1>13 DEF ClearerLock
<1>14. ASSUME NEW p \in Clearers, ClearerInterrupted(p) PROVE TypeOK'
  BY <1>a, <1>14 DEF ClearerInterrupted
<1>15. ASSUME NEW p \in Clearers, CopyFirst(p) \/ CopyLast(p) \/ CopyNumfiles(p)
       PROVE  TypeOK'
  <2>1. copy' \in [Clearers -> Record]
    <3>1. CASE CopyFirst(p) BY <1>a, <3>1 DEF CopyFirst, Load
    <3>2. CASE CopyLast(p) BY <1>a, <3>2 DEF CopyLast, Load
    <3>3. CASE CopyNumfiles(p) BY <1>a, <3>3 DEF CopyNumfiles, Load
    <3> QED BY <1>15, <3>1, <3>2, <3>3
  <2>2. pc' \in [Clearers -> {"idle", "lock"} \cup ClearerBusy]
    BY <1>a, <1>15 DEF CopyFirst, CopyLast, CopyNumfiles, Load
  <2>3. UNCHANGED <<sem, books, settled, taken, raced, collectorVars>>
    BY <1>15 DEF CopyFirst, CopyLast, CopyNumfiles, Load
  <2> QED BY <1>a, <2>1, <2>2, <2>3
<1>16. ASSUME NEW p \in Clearers, ClearFirst(p) \/ ClearLast(p) PROVE TypeOK'
  <2>1. CASE ClearFirst(p) BY <1>a, <2>1 DEF ClearFirst
  <2>2. CASE ClearLast(p) BY <1>a, <2>2 DEF ClearLast
  <2> QED BY <1>16, <2>1, <2>2
<1>17. ASSUME NEW p \in Clearers, ClearNumfiles(p) PROVE TypeOK'
  BY <1>a, <1>17 DEF ClearNumfiles
<1>18. ASSUME NEW p \in Clearers, ClearerUnlock(p) PROVE TypeOK'
  BY <1>a, <1>b, <1>18, NoBooksType DEF ClearerUnlock, Inside
<1>19. CASE UNCHANGED vars BY <1>a, <1>19 DEF vars
<1> QED BY <1>1, <1>2, <1>3, <1>4, <1>5, <1>6, <1>7, <1>8, <1>9, <1>10, <1>11, <1>12,
           <1>13, <1>14, <1>15, <1>16, <1>17, <1>18, <1>19
        DEF Next, Update, Restart, Clear

\* As long as nothing raced, every step keeps the record in order.
LEMMA CoreStep == TypeOK /\ Core /\ [Next]_vars /\ raced' = {} => Core'
<1> SUFFICES ASSUME TypeOK, Core, [Next]_vars, raced' = {} PROVE Core'
  OBVIOUS
<1> USE BoundsAssumption DEF Core, Alone, Free, CollectorData, ClearerData, Inside,
        TypeOK, CollectorBusy, ClearerBusy,
        collectorVars, clearerVars, CollectorAt, ClearerAt
<1>1. CASE CallUpdateBooks BY <1>1 DEF CallUpdateBooks
<1>2. CASE CollectorLock BY <1>2 DEF CollectorLock
<1>3. CASE CollectorInterrupted BY <1>3 DEF CollectorInterrupted
<1>4. CASE StoreFirst BY <1>4 DEF StoreFirst, FirstStored, Record
<1>5. CASE StoreLast BY <1>5 DEF StoreLast, FirstStored, LastStored, Record
<1>6. CASE LoadNumfiles BY ZenonT(40), <1>6 DEF LoadNumfiles, FirstStored, LastStored, Record
<1>7. CASE StoreNumfiles BY <1>7 DEF StoreNumfiles
<1>8. CASE CollectorUnlock BY <1>8 DEF CollectorUnlock
<1>9. CASE Crash BY <1>9 DEF Crash
<1>10. CASE InitBookkeeper BY <1>10, NoBooksType DEF InitBookkeeper, RaceWithInside
<1>11. CASE SetVal BY <1>11 DEF SetVal, RaceWithInside
<1>12. ASSUME NEW p \in Clearers, CallClearBooks(p) PROVE Core'
  BY <1>12 DEF CallClearBooks, FirstStored, LastStored
<1>13. ASSUME NEW p \in Clearers, ClearerLock(p) PROVE Core'
  BY <1>13 DEF ClearerLock
<1>14. ASSUME NEW p \in Clearers, ClearerInterrupted(p) PROVE Core'
  BY <1>14 DEF ClearerInterrupted
<1>15. ASSUME NEW p \in Clearers, CopyFirst(p) PROVE Core'
  BY <1>15 DEF CopyFirst, Load, Record
<1>16. ASSUME NEW p \in Clearers, CopyLast(p) PROVE Core'
  BY <1>16 DEF CopyLast, Load, Record
<1>17. ASSUME NEW p \in Clearers, CopyNumfiles(p) PROVE Core'
  <2>1. /\ p \in Inside /\ books = settled
        /\ copy[p].first = settled.first /\ copy[p].last = settled.last
    BY <1>17 DEF CopyNumfiles, Load
  <2>2. copy'[p] = [copy[p] EXCEPT !.numfiles = settled.numfiles]
    BY <1>17, <2>1 DEF CopyNumfiles, Load
  <2>3. copy'[p] = settled
    BY <2>1, <2>2 DEF Record
  <2>4. cpc' = cpc /\ cpc \notin CollectorBusy /\ \A q \in Clearers : q # p => q \notin Inside
    BY <1>17, <2>1 DEF CopyNumfiles, Load
  <2>5. /\ pc' = [pc EXCEPT ![p] = "clearfirst"] /\ Inside' = Inside
        /\ UNCHANGED <<sem, books, settled, cycle, reg>>
    BY <1>17 DEF CopyNumfiles, Load
  <2> QED BY <2>1, <2>3, <2>4, <2>5
<1>18. ASSUME NEW p \in Clearers, ClearFirst(p) PROVE Core'
  BY <1>18 DEF ClearFirst, Record
<1>19. ASSUME NEW p \in Clearers, ClearLast(p) PROVE Core'
  BY <1>19 DEF ClearLast, Record
<1>20. ASSUME NEW p \in Clearers, ClearNumfiles(p) PROVE Core'
  BY <1>20 DEF ClearNumfiles
<1>21. ASSUME NEW p \in Clearers, ClearerUnlock(p) PROVE Core'
  BY <1>21 DEF ClearerUnlock
<1>22. CASE UNCHANGED vars BY <1>22 DEF vars, FirstStored, LastStored
<1> QED BY <1>1, <1>2, <1>3, <1>4, <1>5, <1>6, <1>7, <1>8, <1>9, <1>10, <1>11, <1>12,
           <1>13, <1>14, <1>15, <1>16, <1>17, <1>18, <1>19, <1>20, <1>21, <1>22
        DEF Next, Update, Restart, Clear

\* The strengthened invariant holds always.
THEOREM Inductive == Spec => []IInv
<1>1. IInv /\ [Next]_vars => IInv'
  <2> SUFFICES ASSUME IInv, [Next]_vars PROVE IInv'
    OBVIOUS
  <2>1. TypeOK' BY TypeStep
  <2>2. raced' = {} => raced = {}
    BY DEF Next, vars, Update, Restart, Clear, collectorVars, clearerVars,
           CallUpdateBooks, CollectorLock, CollectorInterrupted, StoreFirst, StoreLast,
           LoadNumfiles, StoreNumfiles, CollectorUnlock, Crash, InitBookkeeper, SetVal,
           RaceWithInside, CallClearBooks, ClearerLock, ClearerInterrupted, CopyFirst,
           CopyLast, CopyNumfiles, Load, ClearFirst, ClearLast, ClearNumfiles, ClearerUnlock
  <2> QED BY <2>1, <2>2, CoreStep DEF IInv
<1> QED BY <1>1, InvInit, PTL DEF Spec

\* Type correctness; the semaphore is binary as long as nothing raced.
THEOREM TypeCorrect == Spec => []TypeOK
<1>1. IInv => TypeOK BY DEF IInv
<1> QED BY <1>1, Inductive, PTL

\* sem_lock gives one process at a time the record, for any number of clearers
\* and across restarts of the collector, as long as nothing raced.
THEOREM MutualExclusion == Spec => []Exclusive
<1>1. IInv => Exclusive BY DEF IInv, Core, Exclusive
<1> QED BY <1>1, Inductive, PTL

-----------------------------------------------------------------------------
\* The two steps that complete an operation, and a restart, are steps of Books;
\* all others leave what Books sees alone.
LEMMA ImplStep ==
    IInv /\ [Next]_vars => (raced' = {} => [Atomic!Next]_<<settled, taken>>)
<1> SUFFICES ASSUME IInv, [Next]_vars, raced' = {}
             PROVE  [Atomic!Next]_<<settled, taken>>
  OBVIOUS
<1> USE DEF CollectorAt, ClearerAt
<1>a. TypeOK BY DEF IInv
<1>1. CASE StoreNumfiles
  <2>1. /\ raced = {} /\ cycle \in 1..MaxCycles
        /\ books = LastStored /\ reg = settled.numfiles
    BY <1>1 DEF StoreNumfiles, IInv, Core, CollectorData, CollectorBusy
  <2>2. settled' = Atomic!Counted(settled, cycle)
    BY <1>1, <1>a, <2>1
       DEF StoreNumfiles, LastStored, FirstStored, Atomic!Counted, TypeOK, Record
  <2> QED BY <1>1, <2>1, <2>2 DEF StoreNumfiles, Atomic!Next, Atomic!UpdateBooks
<1>2. CASE InitBookkeeper
  BY <1>2 DEF InitBookkeeper, NoBooks, Atomic!Next, Atomic!InitBookkeeper
<1>3. ASSUME NEW p \in Clearers, ClearNumfiles(p) PROVE [Atomic!Next]_<<settled, taken>>
  <2>1. /\ raced = {} /\ copy[p] = settled /\ books.first = 0 /\ books.last = 0
    BY <1>3 DEF ClearNumfiles, IInv, Core, ClearerData
  <2>2. settled' = Atomic!NoBooks
    BY <1>3, <1>a, <2>1 DEF ClearNumfiles, Atomic!NoBooks, TypeOK, Record
  <2>3. taken' = [taken EXCEPT ![p] = settled]
    BY <1>3, <2>1 DEF ClearNumfiles
  <2> QED BY <2>2, <2>3 DEF Atomic!Next, Atomic!ClearBooks
<1>4. CASE \/ CallUpdateBooks \/ CollectorLock \/ CollectorInterrupted \/ StoreFirst
           \/ StoreLast \/ LoadNumfiles \/ CollectorUnlock \/ Crash \/ SetVal
  BY <1>4 DEF CallUpdateBooks, CollectorLock, CollectorInterrupted, StoreFirst,
              StoreLast, LoadNumfiles, CollectorUnlock, Crash, SetVal
<1>5. ASSUME NEW p \in Clearers,
             \/ CallClearBooks(p) \/ ClearerLock(p) \/ ClearerInterrupted(p)
             \/ CopyFirst(p) \/ CopyLast(p) \/ CopyNumfiles(p)
             \/ ClearFirst(p) \/ ClearLast(p) \/ ClearerUnlock(p)
      PROVE  [Atomic!Next]_<<settled, taken>>
  BY <1>5 DEF CallClearBooks, ClearerLock, ClearerInterrupted, CopyFirst, CopyLast,
              CopyNumfiles, Load, ClearFirst, ClearLast, ClearerUnlock
<1>6. CASE UNCHANGED vars BY <1>6 DEF vars
<1> QED BY <1>1, <1>2, <1>3, <1>4, <1>5, <1>6 DEF Next, Update, Restart, Clear

\* As long as nothing raced, every behaviour of the loads, the stores and the
\* semaphore is one of the one step operations of Books.
THEOREM Refinement == Spec => Implements
<1>1. Init => Atomic!Init
  BY DEF Init, NoBooks, Atomic!Init
<1>2. IInv /\ [Next]_vars => [raced' = {} => [Atomic!Next]_<<settled, taken>>]_vars
  BY ImplStep
<1> QED BY <1>1, <1>2, Inductive, PTL DEF Spec, Implements
=============================================================================
