---------------------------- MODULE BookSemaphore ----------------------------
(***************************************************************************)
(* The book keeping record of bookkeeper.c at the level of its semaphore   *)
(* and of single loads and stores: a collector that counts its files in    *)
(* UpdateBooks, may die at any point, and initialises the segment it finds *)
(* when it is started again, and the processes that call ClearBooks (the   *)
(* launcher and every nfexpire).                                           *)
(*                                                                         *)
(* There is one segment and one semaphore: ReleaseBookkeeper(DESTROY) and  *)
(* the creation of a new pair are not modelled.  A clearer does not die    *)
(* between sem_lock and sem_unlock.                                        *)
(***************************************************************************)
EXTENDS Naturals

CONSTANTS
    Clearers,      \* processes that call ClearBooks
    MaxCycles,     \* bound: files the collector counts
    MaxCrashes,    \* bound: deaths of the collector
    Interrupts     \* a signal may interrupt semop

ASSUME BoundsAssumption == MaxCycles \in Nat /\ MaxCrashes \in Nat
ASSUME InterruptsAssumption == Interrupts \in BOOLEAN

VARIABLES
    sem,           \* value of the semaphore
    books,         \* the record in shared memory
    cpc, cycle,    \* the collector, and the slot of its file
    reg,           \* numfiles as the collector has loaded it
    crashes,
    pc, copy,      \* the clearers, and their tmp_books
    settled,       \* the record as the last complete operation left it (history)
    taken,         \* tmp_books of every complete ClearBooks (history)
    raced          \* why the semaphore no longer excludes (history)

collectorVars == <<cpc, cycle, reg, crashes>>
clearerVars   == <<pc, copy>>
vars == <<sem, books, collectorVars, clearerVars, settled, taken, raced>>

Atomic == INSTANCE Books WITH books <- settled, Times <- 1..MaxCycles

NoBooks == Atomic!NoBooks
Record  == [first : Nat, last : Nat, numfiles : Nat]

CollectorBusy == {"first", "last", "load", "store", "unlock"}
ClearerBusy   == {"copyfirst", "copylast", "copynum",
                  "clearfirst", "clearlast", "clearnum", "unlock"}

\* The clearers that are between sem_lock and sem_unlock.
Inside == {p \in Clearers : pc[p] \in ClearerBusy}

Init == /\ sem = 1 /\ books = NoBooks
        /\ cpc = "idle" /\ cycle = 0 /\ reg = 0 /\ crashes = 0
        /\ pc = [p \in Clearers |-> "idle"]
        /\ copy = [p \in Clearers |-> NoBooks]
        /\ settled = NoBooks /\ taken = [p \in Clearers |-> NoBooks]
        /\ raced = {}

-----------------------------------------------------------------------------
(* The collector: UpdateBooks                                              *)

CollectorAt(from, to) == cpc = from /\ cpc' = to /\ UNCHANGED <<clearerVars, taken>>

CallUpdateBooks ==
    /\ CollectorAt("idle", "lock") /\ cycle < MaxCycles
    /\ cycle' = cycle + 1
    /\ UNCHANGED <<sem, books, reg, crashes, settled, raced>>

\* Mutant of CollectorLock: semop with IPC_NOWAIT.
CollectorLockNoWait ==
    /\ CollectorAt("lock", "first")
    /\ sem' = IF sem > 0 THEN sem - 1 ELSE 0
    /\ UNCHANGED <<books, cycle, reg, crashes, settled, raced>>

\* sem_lock
CollectorLock ==
    /\ CollectorAt("lock", "first") /\ sem > 0
    /\ sem' = sem - 1
    /\ UNCHANGED <<books, cycle, reg, crashes, settled, raced>>

\* A signal ends the wait with EINTR: sem_lock only logs it and returns.
CollectorInterrupted ==
    /\ Interrupts
    /\ CollectorAt("lock", "first") /\ sem = 0
    /\ raced' = raced \cup {"interrupt"}
    /\ UNCHANGED <<sem, books, cycle, reg, crashes, settled>>

\* Mutant of StoreFirst: first is set with every file.
StoreFirstAlways ==
    /\ CollectorAt("first", "last")
    /\ books' = [books EXCEPT !.first = cycle]
    /\ UNCHANGED <<sem, cycle, reg, crashes, settled, raced>>

StoreFirst ==
    /\ CollectorAt("first", "last")
    /\ books' = IF books.first = 0 THEN [books EXCEPT !.first = cycle] ELSE books
    /\ UNCHANGED <<sem, cycle, reg, crashes, settled, raced>>

StoreLast ==
    /\ CollectorAt("last", "load")
    /\ books' = [books EXCEPT !.last = cycle]
    /\ UNCHANGED <<sem, cycle, reg, crashes, settled, raced>>

\* numfiles++ is a load ...
LoadNumfiles ==
    /\ CollectorAt("load", "store")
    /\ reg' = books.numfiles
    /\ UNCHANGED <<sem, books, cycle, crashes, settled, raced>>

\* ... and a store; filesize and sequence are changed like it.
StoreNumfiles ==
    /\ CollectorAt("store", "unlock")
    /\ books' = [books EXCEPT !.numfiles = reg + 1]
    /\ settled' = books'
    /\ UNCHANGED <<sem, cycle, reg, crashes, raced>>

\* sem_unlock
CollectorUnlock ==
    /\ CollectorAt("unlock", "idle")
    /\ sem' = sem + 1
    /\ UNCHANGED <<books, cycle, reg, crashes, settled, raced>>

-----------------------------------------------------------------------------
(* Death and restart of the collector: InitBookkeeper of a segment whose   *)
(* nfcapd_pid no longer exists.                                            *)

\* The semaphore keeps its value: there is no SEM_UNDO.
Crash ==
    /\ cpc \notin {"dead", "setval"} /\ CollectorAt(cpc, "dead")
    /\ crashes < MaxCrashes
    /\ crashes' = crashes + 1
    /\ UNCHANGED <<sem, books, cycle, reg, settled, raced>>

RaceWithInside == raced' = IF Inside # {} THEN raced \cup {"init"} ELSE raced

\* memset, without the semaphore.
InitBookkeeper ==
    /\ CollectorAt("dead", "setval")
    /\ books' = NoBooks
    /\ settled' = NoBooks
    /\ RaceWithInside
    /\ UNCHANGED <<sem, cycle, reg, crashes>>

\* semctl(SETVAL, 1)
SetVal ==
    /\ CollectorAt("setval", "idle")
    /\ sem' = 1
    /\ RaceWithInside
    /\ UNCHANGED <<books, cycle, reg, crashes, settled>>

-----------------------------------------------------------------------------
(* A clearer: ClearBooks with tmp_books                                    *)

ClearerAt(p, from, to) ==
    /\ pc[p] = from /\ pc' = [pc EXCEPT ![p] = to]
    /\ UNCHANGED collectorVars

CallClearBooks(p) ==
    /\ ClearerAt(p, "idle", "lock")
    /\ UNCHANGED <<sem, books, copy, settled, taken, raced>>

ClearerLock(p) ==
    /\ ClearerAt(p, "lock", "copyfirst") /\ sem > 0
    /\ sem' = sem - 1
    /\ UNCHANGED <<books, copy, settled, taken, raced>>

ClearerInterrupted(p) ==
    /\ Interrupts
    /\ ClearerAt(p, "lock", "copyfirst") /\ sem = 0
    /\ raced' = raced \cup {"interrupt"}
    /\ UNCHANGED <<sem, books, copy, settled, taken>>

\* memcpy to tmp_books
Load(p, from, to, field) ==
    /\ ClearerAt(p, from, to)
    /\ copy' = [copy EXCEPT ![p] = [@ EXCEPT ![field] = books[field]]]
    /\ UNCHANGED <<sem, books, settled, taken, raced>>

CopyFirst(p)    == Load(p, "copyfirst", "copylast", "first")
CopyLast(p)     == Load(p, "copylast", "copynum", "last")
CopyNumfiles(p) == Load(p, "copynum", "clearfirst", "numfiles")

ClearFirst(p) ==
    /\ ClearerAt(p, "clearfirst", "clearlast")
    /\ books' = [books EXCEPT !.first = 0]
    /\ UNCHANGED <<sem, copy, settled, taken, raced>>

ClearLast(p) ==
    /\ ClearerAt(p, "clearlast", "clearnum")
    /\ books' = [books EXCEPT !.last = 0]
    /\ UNCHANGED <<sem, copy, settled, taken, raced>>

ClearNumfiles(p) ==
    /\ ClearerAt(p, "clearnum", "unlock")
    /\ books' = [books EXCEPT !.numfiles = 0]
    /\ settled' = books'
    /\ taken' = [taken EXCEPT ![p] = copy[p]]
    /\ UNCHANGED <<sem, copy, raced>>

\* Mutant of ClearerUnlock: a return without sem_unlock.
ClearerReturn(p) ==
    /\ ClearerAt(p, "unlock", "idle")
    /\ UNCHANGED <<sem, books, copy, settled, taken, raced>>

\* sem_unlock; the caller is done with tmp_books before it calls again.
ClearerUnlock(p) ==
    /\ ClearerAt(p, "unlock", "idle")
    /\ sem' = sem + 1
    /\ copy' = [copy EXCEPT ![p] = NoBooks]
    /\ UNCHANGED <<books, settled, taken, raced>>

-----------------------------------------------------------------------------
Update == \/ CollectorLock \/ StoreFirst \/ StoreLast
          \/ LoadNumfiles \/ StoreNumfiles \/ CollectorUnlock

Restart == InitBookkeeper \/ SetVal

Clear(p) == \/ ClearerLock(p)
            \/ CopyFirst(p) \/ CopyLast(p) \/ CopyNumfiles(p)
            \/ ClearFirst(p) \/ ClearLast(p) \/ ClearNumfiles(p) \/ ClearerUnlock(p)

Next == \/ CallUpdateBooks \/ Update \/ CollectorInterrupted \/ Crash \/ Restart
        \/ \E p \in Clearers : CallClearBooks(p) \/ Clear(p) \/ ClearerInterrupted(p)

\* A call that was begun goes on; semop queues its waiters, so that nobody who
\* waits is passed over for ever; and a dead collector is started again.
Fairness == /\ WF_vars(Update) /\ SF_vars(CollectorLock) /\ WF_vars(Restart)
            /\ \A p \in Clearers : WF_vars(Clear(p)) /\ SF_vars(ClearerLock(p))

Spec == Init /\ [][Next]_vars /\ Fairness

-----------------------------------------------------------------------------
(* Properties                                                              *)

\* Type invariant; the semaphore is binary unless a race was recorded.
TypeOK == /\ sem \in Nat /\ (raced = {} => sem \in {0, 1})
          /\ books \in Record /\ settled \in Record
          /\ copy \in [Clearers -> Record] /\ taken \in [Clearers -> Record]
          /\ cpc \in {"idle", "lock", "dead", "setval"} \cup CollectorBusy
          /\ pc \in [Clearers -> {"idle", "lock"} \cup ClearerBusy]
          /\ cycle \in 0..MaxCycles /\ reg \in Nat /\ crashes \in 0..MaxCrashes
          /\ raced \subseteq {"interrupt", "init"}

\* Nobody else touches the record while one process does.
Alone == /\ \A p, q \in Inside : p = q
         /\ cpc \in CollectorBusy => Inside = {}

\* sem_lock gives exclusive access to the record, also across a restart of the
\* collector, unless a signal interrupted semop or the restart met a process
\* inside ClearBooks.
Exclusive == raced = {} => Alone

\* Under the same proviso the loads and stores of UpdateBooks and ClearBooks
\* amount to the one step operations of Books: nothing is counted twice or lost
\* between a copy and its reset, and no copy mixes two states of the record.
Implements ==
    /\ Atomic!Init
    /\ [][raced' = {} => [Atomic!Next]_<<settled, taken>>]_vars

\* A call of ClearBooks returns, even if the collector died in UpdateBooks.
ClearEnds == \A p \in Clearers : pc[p] = "lock" ~> pc[p] = "idle"
=============================================================================
