----------------------------- MODULE Accounting -----------------------------
(***************************************************************************)
(* Who keeps the books of a data directory.  Three kinds of processes      *)
(* share the directory, the book keeping record and the stat file .nfstat: *)
(*                                                                         *)
(*  - the collector nfcapd renames a finished file into the directory and  *)
(*    adds it to the book keeping record (run in nfcapd.c);                *)
(*  - the launcher of an auto-expiring nfcapd runs do_expire (launch.c);   *)
(*  - nfexpire lists, rescans, expires or sets limits (nfexpire.c).        *)
(*                                                                         *)
(* An expirer locks the stat file, folds the books into the stat record,   *)
(* removes files, and writes the record back.  The operations under the    *)
(* books' semaphore are atomic here (BookSemaphore shows why); rename and  *)
(* UpdateBooks are not one step, and neither are truncating and writing    *)
(* the stat file.                                                          *)
(***************************************************************************)
EXTENDS DirStat

CONSTANTS
    Scenes,         \* ways to use a data directory, see below
    LowWaterMark    \* low_water of a stat file at the beginning

(***************************************************************************)
(* A scene says which processes there are and bounds what they do:         *)
(*   auto, nfexpire   nfcapd runs with -e; somebody runs nfexpire          *)
(*   modes, args      what nfexpire is called for: a set of "list",        *)
(*                    "rescan", "expire", "update"; values of option -s,   *)
(*                    0 when it is not given                               *)
(*   stat, limit      the stat file at the beginning, "none" or "limits";  *)
(*                    its max_size                                         *)
(*   size             size of the data files                               *)
(*   slots, runs, restarts, crashes   bounds: time slots, expire runs of   *)
(*                    one process, restarts of the collector, processes    *)
(*                    that are killed                                      *)
(***************************************************************************)
\* No file is empty and a full directory is smaller than 2^64; nfexpire takes no
\* water mark above 100.
ASSUME ScenesAssumption ==
    \A sc \in Scenes : /\ sc.auto \in BOOLEAN /\ sc.nfexpire \in BOOLEAN
                       /\ sc.modes \subseteq {"list", "rescan", "expire", "update"}
                       /\ sc.stat \in {"none", "limits"}
                       /\ sc.limit \in Nat /\ sc.args \subseteq Nat
                       /\ sc.slots \in 1..MaxSlot
                       /\ sc.size \in Nat \ {0} /\ MaxSlot * sc.size < Wrap
ASSUME LowWaterAssumption == LowWaterMark \in 0..100

Processes == {"launcher", "nfexpire"}
Collector == "nfcapd"
Nobody    == "nobody"

VARIABLES
    scene,     \* how the directory is used
    now,       \* the clock, in slots
    dir,       \* files of the directory
    col,       \* the collector: [pc, t_start, done, ds]
    shm,       \* the shared memory segment with the books exists
    books,     \* its contents
    statfile,  \* [state, rec]: "none", "empty" or "full"
    lock,      \* holder of the write lock on the stat file
    x,         \* per expirer: its position and its local variables
    runs,      \* per expirer: runs left
    restarts, crashes,   \* counters for the bounds
    raced      \* history: what happened that the books cannot absorb, a subset
               \* of {"rescan", "gaveup", "overwrite", "restart", "stop", "died",
               \* "unlocked"}

vars == <<scene, now, dir, col, shm, books, statfile, lock, x, runs, restarts, crashes, raced>>
Launchers == IF scene.auto THEN {"launcher"} ELSE {}
Expirers  == Launchers \cup IF scene.nfexpire THEN {"nfexpire"} ELSE {}

colVars  == <<scene, now, col, restarts>>
fileVars == <<statfile, lock>>

Idle == [pc |-> "idle", mode |-> "none", ds |-> ZeroStat, rescan |-> FALSE,
         seg |-> "none", copy |-> NoBooks, seq |-> 0, tries |-> 0,
         noFiles |-> FALSE, again |-> FALSE, arg |-> 0, listed |-> [s \in Slot |-> 0],
         e |-> ExpireBegin(ZeroStat, [s \in Slot |-> 0], 0, 0, 0)]

Full(ds)  == [state |-> "full", rec |-> ds]
Empty     == [state |-> "empty", rec |-> ZeroStat]
NoFile    == [state |-> "none", rec |-> ZeroStat]

FirstStat == [ZeroStat EXCEPT !.max_size = scene.limit, !.low_water = LowWaterMark,
                              !.status = "FORCE_REBUILD"]

\* The collector has just been started on an empty directory.
Init == /\ scene \in Scenes
        /\ now = 1
        /\ dir = [s \in Slot |-> 0]
        /\ col = [pc |-> "run", t_start |-> 1, done |-> FALSE, ds |-> ZeroStat]
        /\ shm = TRUE
        /\ books = [NoBooks EXCEPT !.sequence = 1]
        /\ statfile = IF scene.stat = "none" THEN NoFile ELSE Full(FirstStat)
        /\ lock = Nobody
        /\ x = [p \in Expirers |-> Idle]
        /\ runs = [p \in Expirers |-> scene.runs]
        /\ restarts = 0 /\ crashes = 0
        /\ raced = {}

\* The stat file holds a record that no expirer would rebuild.
RecordOK == statfile.state = "full" /\ statfile.rec.status = "OK"

-----------------------------------------------------------------------------
(* The collector                                                           *)

\* The history is extended by a cause when the condition holds.
Note(cause, cond) == IF cond THEN {cause} ELSE {}

\* A process that has written the stat file, and is to write it again.
Rewriting == \E p \in Expirers : x[p].pc \in {"reopen", "relock"}

\* Between the scan of the directory and the moment the books are cleared.
Scanning(p) == x[p].pc \in {"wipe", "seq1", "seq2", "nwipe"}

Tick == /\ now <= scene.slots
        /\ now' = now + 1
        /\ UNCHANGED <<scene, dir, col, shm, books, fileVars, x, runs, restarts, crashes, raced>>

\* SIGTERM, SIGINT or SIGHUP: done = 1.
Signal == /\ col.pc = "run" /\ ~col.done /\ restarts < scene.restarts
          /\ col' = [col EXCEPT !.done = TRUE]
          /\ UNCHANGED <<scene, now, dir, shm, books, fileVars, x, runs, restarts, crashes, raced>>

\* The time slot is over, or the collector is to end.
RotationDue == col.pc = "run" /\ (now > col.t_start \/ col.done) /\ col.t_start <= scene.slots

\* The current file becomes nfcapd.<t_start>.
Rename ==
    /\ RotationDue
    /\ dir' = [dir EXCEPT ![col.t_start] = scene.size]
    /\ col' = [col EXCEPT !.pc = "renamed"]
    /\ raced' = raced \cup Note("overwrite", dir[col.t_start] # 0)
                     \cup Note("rescan", \E p \in Expirers : Scanning(p))
    /\ UNCHANGED <<scene, now, shm, books, fileVars, x, runs, restarts, crashes>>

\* Where the collector goes on after a rotation.
AfterRotation ==
    IF ~col.done THEN [col EXCEPT !.pc = "run", !.t_start = @ + 1]
    ELSE [col EXCEPT !.pc = IF Launchers = {} THEN "fold" ELSE "destroy"]

\* rename fails: the file is lost, the books are left alone.
RenameFails ==
    /\ RotationDue
    /\ col' = AfterRotation
    /\ UNCHANGED <<scene, now, dir, shm, books, fileVars, x, runs, restarts, crashes, raced>>

\* stat and UpdateBooks.  When an expirer removed the file in between, stat
\* fails and the size is whatever the uninitialised buffer holds.
Book ==
    /\ col.pc = "renamed"
    /\ \E size \in IF dir[col.t_start] # 0 THEN {dir[col.t_start]} ELSE {scene.size, 0} :
          books' = UpdateBooks(books, col.t_start, size)
    /\ col' = AfterRotation
    /\ raced' = raced \cup Note("rescan", \E p \in Expirers : Scanning(p))
    /\ UNCHANGED <<scene, now, dir, shm, fileVars, x, runs, restarts, crashes>>

\* Without auto-expire the collector folds its books into an existing stat
\* file when it ends; a stat record that is not OK is left alone.
FoldRead ==
    /\ col.pc = "fold"
    /\ \/ /\ statfile.state = "none"
          /\ col' = [col EXCEPT !.pc = "destroy"]
          /\ UNCHANGED lock
       \/ /\ statfile.state # "none" /\ lock = Nobody
          /\ LET ds == VerifyStatInfo(IF statfile.state = "empty" THEN TmplStat ELSE statfile.rec)
             IN IF ds.status = "OK"
                THEN col' = [col EXCEPT !.pc = "foldTrunc", !.ds = UpdateBookStat(ds, books)]
                ELSE col' = [col EXCEPT !.pc = "destroy"]
          /\ lock' = Collector
    /\ raced' = raced \cup Note("unlocked", lock' = Collector /\ Rewriting)
    /\ UNCHANGED <<scene, now, dir, shm, books, statfile, x, runs, restarts, crashes>>

FoldTrunc ==
    /\ col.pc = "foldTrunc"
    /\ statfile' = Empty
    /\ col' = [col EXCEPT !.pc = "foldWrite"]
    /\ UNCHANGED <<scene, now, dir, shm, books, lock, x, runs, restarts, crashes, raced>>

FoldWrite ==
    /\ col.pc = "foldWrite"
    /\ statfile' = Full(col.ds) /\ lock' = Nobody
    /\ col' = [col EXCEPT !.pc = "destroy", !.ds = ZeroStat]
    /\ UNCHANGED <<scene, now, dir, shm, books, x, runs, restarts, crashes, raced>>

\* kill_launcher waits for the launcher, then ReleaseBookkeeper(DESTROY).  A
\* process that is attached keeps the removed segment; nobody else finds it.
Destroy ==
    /\ col.pc = "destroy"
    /\ \A p \in Launchers : x[p].pc = "idle"
    /\ shm' = FALSE
    /\ books' = NoBooks
    /\ x' = [p \in Expirers |->
                IF x[p].seg = "live" THEN [x[p] EXCEPT !.seg = "removed", !.copy = books]
                ELSE x[p]]
    /\ lock' = IF lock = Collector THEN Nobody ELSE lock
    /\ raced' = raced \cup Note("stop", Launchers # {} /\ books.numfiles # 0)
    /\ col' = [col EXCEPT !.pc = "down"]
    /\ UNCHANGED <<scene, now, dir, statfile, runs, restarts, crashes>>

\* The collector is killed: the segment and the books stay.
Crash ==
    /\ col.pc # "down" /\ crashes < scene.crashes
    /\ crashes' = crashes + 1
    /\ col' = [col EXCEPT !.pc = "down", !.ds = ZeroStat]
    /\ lock' = IF lock = Collector THEN Nobody ELSE lock
    /\ raced' = raced \cup Note("died", books.numfiles # 0 \/ col.pc = "renamed")
    /\ UNCHANGED <<scene, now, dir, shm, books, statfile, x, runs, restarts>>

\* A new collector starts in the current slot.  InitBookkeeper creates the
\* segment, or finds the one of a dead collector and clears it.
Restart ==
    /\ col.pc = "down" /\ restarts < scene.restarts
    /\ restarts' = restarts + 1
    /\ col' = [pc |-> "run", t_start |-> now, done |-> FALSE, ds |-> ZeroStat]
    /\ shm' = TRUE
    /\ books' = [NoBooks EXCEPT !.sequence = 1]
    /\ raced' = raced \cup Note("restart", lock \in Expirers)
    /\ UNCHANGED <<scene, now, dir, fileVars, x, runs, crashes>>

-----------------------------------------------------------------------------
(* Steps of an expirer that launch.c and nfexpire.c share                  *)

Go(p, rec) == x' = [x EXCEPT ![p] = rec]
AtPC(p, pc) == x[p].pc = pc

Start(p) ==
    /\ AtPC(p, "idle") /\ runs[p] > 0
    /\ p \in Launchers => col.pc # "down"
    /\ runs' = [runs EXCEPT ![p] = @ - 1]
    /\ \E m \in IF p \in Launchers THEN {"auto"} ELSE scene.modes :
       \E a \in IF m \in {"expire", "update"} THEN scene.args ELSE {0} :
          Go(p, [Idle EXCEPT !.pc = "open", !.mode = m, !.arg = a])
    /\ UNCHANGED <<colVars, dir, shm, books, fileVars, crashes, raced>>

\* ReadStatInfo(CREATE_AND_LOCK): does the file exist?
Open(p) ==
    /\ AtPC(p, "open")
    /\ Go(p, [x[p] EXCEPT !.pc = IF statfile.state = "none" THEN "create" ELSE "lock"])
    /\ UNCHANGED <<colVars, dir, shm, books, fileVars, runs, crashes, raced>>

\* open(O_TRUNC|O_CREAT), which does not look at the lock.
Create(p) ==
    /\ AtPC(p, "create")
    /\ statfile' = Empty
    /\ Go(p, [x[p] EXCEPT !.pc = "lockNew"])
    /\ UNCHANGED <<colVars, dir, shm, books, lock, runs, crashes, raced>>

\* What is left to do once the record is up to date.
Task(p) == CASE x[p].mode = "expire" -> "begin"
             [] x[p].mode = "update" -> "param"
             [] OTHER -> "finish"

\* First step after the stat record is read: AccessBookkeeper attaches.
Attached == IF shm THEN "live" ELSE "none"
FirstStep(p, rescan) ==
    IF x[p].mode = "auto" THEN IF rescan THEN "scan" ELSE "merge"
    ELSE IF x[p].mode \in {"list", "expire"} THEN "sync"
    ELSE IF rescan THEN "seq0" ELSE Task(p)

\* The lock is granted on a file this process has created: ERR_NOSTATFILE.
LockNew(p) ==
    /\ AtPC(p, "lockNew") /\ lock = Nobody
    /\ lock' = p
    /\ Go(p, [x[p] EXCEPT !.pc = FirstStep(p, TRUE), !.rescan = TRUE, !.seg = Attached,
                          !.ds = IF x[p].mode = "auto"
                                 THEN [ZeroStat EXCEPT !.low_water = 95] ELSE ZeroStat])
    /\ raced' = raced \cup Note("unlocked", Rewriting)
    /\ UNCHANGED <<colVars, dir, shm, books, statfile, runs, crashes>>

\* The lock is granted and the record is read.
Lock(p) ==
    /\ AtPC(p, "lock") /\ lock = Nobody
    /\ lock' = p
    /\ LET ds == VerifyStatInfo(IF statfile.state = "empty" THEN TmplStat ELSE statfile.rec)
           rescan == ds.status = "FORCE_REBUILD" \/ x[p].mode = "rescan"
       IN Go(p, [x[p] EXCEPT !.pc = FirstStep(p, rescan), !.rescan = rescan,
                             !.seg = Attached, !.ds = ds])
    /\ raced' = raced \cup Note("unlocked", Rewriting)
    /\ UNCHANGED <<colVars, dir, shm, books, statfile, runs, crashes>>

\* The books as the process sees them, and ClearBooks on them.
Books(p) == IF x[p].seg = "live" THEN books ELSE x[p].copy
Clear(p, rec) ==
    /\ books' = IF x[p].seg = "live" THEN ClearBooks(books) ELSE books
    /\ Go(p, IF x[p].seg = "removed" THEN [rec EXCEPT !.copy = ClearBooks(@)] ELSE rec)

-----------------------------------------------------------------------------
(* do_expire of the launcher                                               *)

\* ExpireDir only runs when there is a limit.
Limits(ds) == IF ds.max_size # 0 THEN "begin" ELSE "trunc"

\* RescanDir; without books the limits are next.
Scan(p) ==
    /\ AtPC(p, "scan")
    /\ LET ds == RescanDir(x[p].ds, dir, now)
       IN Go(p, [x[p] EXCEPT !.ds = ds,
                             !.pc = IF x[p].seg = "none" THEN Limits(ds) ELSE "wipe"])
    /\ raced' = raced \cup Note("rescan", col.pc = "renamed")
    /\ UNCHANGED <<colVars, dir, shm, books, fileVars, runs, crashes>>

\* ClearBooks(books, NULL) after the rescan.
Wipe(p) ==
    /\ AtPC(p, "wipe")
    /\ Clear(p, [x[p] EXCEPT !.pc = "merge"])
    /\ UNCHANGED <<colVars, dir, shm, fileVars, runs, crashes, raced>>

\* ClearBooks(books, &tmp_books) and UpdateBookStat.
Merge(p) ==
    /\ AtPC(p, "merge")
    /\ IF x[p].seg = "none"
       THEN Go(p, [x[p] EXCEPT !.pc = Limits(x[p].ds)]) /\ UNCHANGED books
       ELSE Clear(p, [x[p] EXCEPT !.ds = UpdateBookStat(x[p].ds, Books(p)),
                                  !.pc = Limits(x[p].ds), !.seg = "none"])
    /\ UNCHANGED <<colVars, dir, shm, fileVars, runs, crashes, raced>>

-----------------------------------------------------------------------------
(* nfexpire                                                                *)

\* -l and -e: the books are folded in first; doubts lead to a rescan.
Sync(p) ==
    /\ AtPC(p, "sync")
    /\ LET ds == IF x[p].seg = "none" THEN x[p].ds ELSE UpdateBookStat(x[p].ds, Books(p))
           rescan == x[p].rescan \/ (x[p].seg # "none" /\ ds.status = "FORCE_REBUILD")
           rec == [x[p] EXCEPT !.ds = ds, !.rescan = rescan,
                               !.pc = IF rescan THEN "seq0" ELSE Task(p)]
       IN IF x[p].seg = "none" THEN Go(p, rec) /\ UNCHANGED books ELSE Clear(p, rec)
    /\ UNCHANGED <<colVars, dir, shm, fileVars, runs, crashes, raced>>

\* BookSequence, 0 without books.
BookSequence(p) == IF x[p].seg = "none" THEN 0 ELSE Books(p).sequence

Seq0(p) ==
    /\ AtPC(p, "seq0")
    /\ Go(p, [x[p] EXCEPT !.seq = BookSequence(p), !.pc = "nscan"])
    /\ UNCHANGED <<colVars, dir, shm, books, fileVars, runs, crashes, raced>>

NScan(p) ==
    /\ AtPC(p, "nscan")
    /\ LET ds == RescanDir(x[p].ds, dir, now)
       IN Go(p, [x[p] EXCEPT !.ds = ds, !.noFiles = @ \/ ds.numfiles = 0, !.pc = "seq1"])
    /\ raced' = raced \cup Note("rescan", col.pc = "renamed")
    /\ UNCHANGED <<colVars, dir, shm, books, fileVars, runs, crashes>>

\* At most three scans; an unchanged sequence ends the loop.
Seq1(p) ==
    /\ AtPC(p, "seq1")
    /\ Go(p, IF BookSequence(p) = x[p].seq \/ x[p].tries = 2
             THEN [x[p] EXCEPT !.pc = "seq2"]
             ELSE [x[p] EXCEPT !.pc = "seq0", !.tries = @ + 1])
    /\ UNCHANGED <<colVars, dir, shm, books, fileVars, runs, crashes, raced>>

\* The last check: a changed sequence ends nfexpire with exit code 250.
Seq2(p) ==
    /\ AtPC(p, "seq2")
    /\ Go(p, [x[p] EXCEPT !.pc = IF BookSequence(p) # x[p].seq THEN "finish"
                                 ELSE IF x[p].seg # "none" THEN "nwipe" ELSE Task(p)])
    /\ raced' = raced \cup Note("gaveup", BookSequence(p) # x[p].seq)
    /\ UNCHANGED <<colVars, dir, shm, books, fileVars, runs, crashes>>

NWipe(p) ==
    /\ AtPC(p, "nwipe")
    /\ Clear(p, [x[p] EXCEPT !.pc = Task(p)])
    /\ UNCHANGED <<colVars, dir, shm, fileVars, runs, crashes, raced>>

\* -u: the limits go to the record and, by UpdateBooksParam, to the books.
Param(p) ==
    /\ AtPC(p, "param")
    /\ Go(p, [x[p] EXCEPT !.ds.max_size = IF x[p].arg # 0 THEN x[p].arg ELSE @,
                          !.pc = "trunc", !.again = ~x[p].noFiles])
    /\ books' = IF x[p].seg = "live" THEN [books EXCEPT !.sequence = @ + 1] ELSE books
    /\ UNCHANGED <<colVars, dir, shm, fileVars, runs, crashes, raced>>

\* The end of main: the record is written unless the scan found no files.
Finish(p) ==
    /\ AtPC(p, "finish")
    /\ IF x[p].noFiles
       THEN /\ lock' = Nobody
            /\ Go(p, Idle)
       ELSE /\ Go(p, [x[p] EXCEPT !.pc = "trunc", !.seg = "none"])
            /\ UNCHANGED lock
    /\ UNCHANGED <<colVars, dir, shm, books, statfile, runs, crashes, raced>>

-----------------------------------------------------------------------------
(* ExpireDir and WriteStatInfo                                             *)

\* nfexpire -e: a limit from the command line replaces the record's limit.
Begin(p) ==
    /\ AtPC(p, "begin")
    /\ LET max == IF x[p].arg # 0 THEN x[p].arg ELSE x[p].ds.max_size
       IN Go(p, [x[p] EXCEPT !.e = ExpireBegin(x[p].ds, dir, max, 0, now),
                             !.listed = dir, !.ds.max_size = max,
                             !.ds.low_water = LowWater(x[p].ds), !.pc = "loop"])
    /\ UNCHANGED <<colVars, dir, shm, books, fileVars, runs, crashes, raced>>

Looping(p) == AtPC(p, "loop") /\ ~x[p].e.done /\ x[p].e.todo # {}

KeepFile(p) ==
    /\ Looping(p) /\ ~Victim(x[p].e, x[p].ds)
    /\ Go(p, [x[p] EXCEPT !.ds = ExpireStat(x[p].e, x[p].ds, 0, FALSE),
                          !.e = ExpireLoop(x[p].e, x[p].ds, FALSE, FALSE)])
    /\ UNCHANGED <<colVars, dir, shm, books, fileVars, runs, crashes, raced>>

\* The file's size is the one fts_open found when it listed the directory.
UnlinkFile(p) ==
    /\ Looping(p) /\ Victim(x[p].e, x[p].ds)
    /\ LET f == NextFile(x[p].e) IN
          /\ Go(p, [x[p] EXCEPT !.ds = ExpireStat(x[p].e, x[p].ds, x[p].listed[f], TRUE),
                                !.e = ExpireLoop(x[p].e, x[p].ds, TRUE, FALSE),
                                !.listed[f] = 0])
          /\ dir' = [dir EXCEPT ![f] = 0]
    /\ UNCHANGED <<colVars, shm, books, fileVars, runs, crashes, raced>>

EndLoop(p) ==
    /\ AtPC(p, "loop") /\ (x[p].e.done \/ x[p].e.todo = {})
    /\ Go(p, [x[p] EXCEPT !.ds = ExpireEnd(x[p].e, x[p].ds, now),
                          !.e = Idle.e, !.listed = Idle.listed,
                          !.pc = IF x[p].mode = "auto" THEN "trunc" ELSE "finish"])
    /\ UNCHANGED <<colVars, dir, shm, books, fileVars, runs, crashes, raced>>

Trunc(p) ==
    /\ AtPC(p, "trunc")
    /\ statfile' = Empty
    /\ Go(p, [x[p] EXCEPT !.pc = "write"])
    /\ UNCHANGED <<colVars, dir, shm, books, lock, runs, crashes, raced>>

\* Mutant of Write: the lock is not released.
WriteKeepLock(p) ==
    /\ AtPC(p, "write")
    /\ statfile' = Full(x[p].ds)
    /\ Go(p, IF x[p].again THEN [x[p] EXCEPT !.pc = "reopen", !.again = FALSE] ELSE Idle)
    /\ UNCHANGED <<colVars, dir, shm, books, lock, runs, crashes, raced>>

\* The lines are written over what the file holds, and the lock is released.
\* -u writes a second time, after the lock and the descriptor are gone.
Write(p) ==
    /\ AtPC(p, "write")
    /\ statfile' = Full(x[p].ds) /\ lock' = Nobody
    /\ Go(p, IF x[p].again THEN [x[p] EXCEPT !.pc = "reopen", !.again = FALSE] ELSE Idle)
    /\ UNCHANGED <<colVars, dir, shm, books, runs, crashes, raced>>

Reopen(p) ==
    /\ AtPC(p, "reopen")
    /\ statfile' = Empty
    /\ Go(p, [x[p] EXCEPT !.pc = "relock"])
    /\ UNCHANGED <<colVars, dir, shm, books, lock, runs, crashes, raced>>

Relock(p) ==
    /\ AtPC(p, "relock") /\ lock = Nobody
    /\ lock' = p
    /\ Go(p, [x[p] EXCEPT !.pc = "write"])
    /\ UNCHANGED <<colVars, dir, shm, books, statfile, runs, crashes, raced>>

\* The process is killed; the kernel releases its lock.  What it took from the
\* books or removed is lost for a record that is not rebuilt anyway.
Kill(p) ==
    /\ ~AtPC(p, "idle") /\ crashes < scene.crashes
    /\ crashes' = crashes + 1
    /\ Go(p, Idle)
    /\ lock' = IF lock = p THEN Nobody ELSE lock
    /\ raced' = raced \cup Note("died",
           lock = p /\ RecordOK /\ x[p].pc \notin {"scan", "wipe", "sync"}
                    /\ (AtPC(p, "merge") => x[p].rescan))
    /\ UNCHANGED <<colVars, dir, shm, books, statfile, runs>>

-----------------------------------------------------------------------------
CollectorNext == \/ Tick \/ Signal \/ Rename \/ RenameFails \/ Book
                 \/ FoldRead \/ FoldTrunc \/ FoldWrite \/ Destroy \/ Restart

ExpirerNext(p) ==
    \/ Open(p) \/ Create(p) \/ LockNew(p) \/ Lock(p)
    \/ Scan(p) \/ Wipe(p) \/ Merge(p)
    \/ Sync(p) \/ Seq0(p) \/ NScan(p) \/ Seq1(p) \/ Seq2(p) \/ NWipe(p)
    \/ Param(p) \/ Finish(p)
    \/ Begin(p) \/ KeepFile(p) \/ UnlinkFile(p) \/ EndLoop(p)
    \/ Trunc(p) \/ Write(p) \/ Reopen(p) \/ Relock(p)

Next == \/ CollectorNext \/ Crash
        \/ \E p \in Expirers : Start(p) \/ ExpirerNext(p) \/ Kill(p)

\* A process that was started goes on; nothing makes the collector rotate or
\* stop, and nobody has to start an expire run.
Fairness == \A p \in Processes : WF_vars(p \in Expirers /\ ExpirerNext(p))
FoldFairness == WF_vars(FoldTrunc \/ FoldWrite \/ Destroy)

Spec == Init /\ [][Next]_vars /\ Fairness /\ FoldFairness

-----------------------------------------------------------------------------
(* Properties                                                              *)

\* Nobody is between reading and writing the stat record.
Quiet == lock = Nobody /\ col.pc \in {"run", "renamed", "down"}

\* A file that is renamed but not yet in the books.
InFlight == IF col.pc = "renamed" THEN {col.t_start} ELSE {}

\* The stat record, the books and the file that is being added account for
\* every file of the directory exactly once, in number and in size.
Exact == /\ statfile.rec.numfiles + books.numfiles + Cardinality(InFlight)
               = Cardinality(Files(dir))
         /\ (statfile.rec.filesize + books.filesize + SizeOf(dir, InFlight)) % Wrap
               = DirSize(dir) % Wrap

\* Type invariant; only an expirer that is at work holds the lock.
TypeOK == /\ dir \in [Slot -> {0, scene.size}]
          /\ lock \in Expirers \cup {Collector, Nobody}
          /\ \A p \in Expirers : lock = p => ~AtPC(p, "idle")
          /\ books.numfiles \in Nat /\ books.filesize \in 0..(Wrap - 1)
          /\ statfile.rec.numfiles \in Nat /\ statfile.rec.filesize \in 0..(Wrap - 1)
          /\ col.t_start \in 1..(MaxSlot + 1)

\* As long as no rotation overlaps a rescan, no file is overwritten and no
\* process ends with counts in its hands, a stat record that claims to be OK
\* is exact whenever nobody works on it: files that are removed while the
\* collector adds new ones included (UpdateBooks, ClearBooks, UpdateBookStat,
\* ExpireDir and WriteStatInfo together).  And the variables have their types.
AccountsExact == /\ TypeOK
                 /\ raced = {} /\ Quiet /\ RecordOK => Exact

\* The files on the expirer's list that its record counts: those up to the last
\* one it knows.
Counted(p) == {s \in Files(dir) : x[p].listed[s] # 0 /\ s <= x[p].ds.last}

\* When ExpireDir ends, the files it knows about are below the size limit,
\* however many files the collector added while it was at work; with a low water
\* mark of 100 they may fill the limit.
LimitHolds ==
    [][\A p \in Expirers :
          /\ AtPC(p, "loop") /\ x'[p].pc \in {"trunc", "finish"}
          /\ raced = {} /\ x[p].ds.status = "OK" /\ x[p].ds.max_size # 0
          => \/ SizeOf(dir, Counted(p)) < x[p].ds.max_size
             \/ SizeOf(dir, Counted(p)) = x[p].ds.max_size /\ x[p].ds.low_water = 100]_vars

\* ExpireDir lists the directory after it took the books, so its list can hold
\* files its record does not count.  It never removes one of those.
OnlyCounted ==
    [][raced = {} =>
          \A s \in Files(dir) \ Files(dir') : \E p \in Expirers : s \in Counted(p)]_vars

\* An expire run that was started ends: nobody waits for the lock for ever.
Running(p) == p \in Expirers /\ ~AtPC(p, "idle")
RunsEnd == \A p \in Processes : Running(p) ~> ~Running(p)

-----------------------------------------------------------------------------
(* What the manual says, and the code does not do.                         *)

\* Everything the collector has booked is in the stat record.
Settled == Quiet /\ InFlight = {} /\ books.numfiles = 0

\* nfexpire.1: "Both ways synchronize access to the files, therefore both ways
\* can be run in parallel if required."  Nothing but the parallel use of
\* nfexpire and an auto-expiring nfcapd happens, and the record is exact.
ParallelExact == raced \subseteq {"unlocked"} /\ Settled /\ RecordOK => Exact
=============================================================================
