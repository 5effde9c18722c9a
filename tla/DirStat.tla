------------------------------- MODULE DirStat -------------------------------
(***************************************************************************)
(* The two records that account for the data files of one directory, and   *)
(* the functions on them: the collector's book keeping record in shared    *)
(* memory (bookkeeper.c) and the directory's stat record, kept in .nfstat  *)
(* (nfstatfile.c), with RescanDir, UpdateBookStat and the body of          *)
(* ExpireDir's loop (expire.c).                                            *)
(*                                                                         *)
(* A directory is a function from time slots to the size of the slot's     *)
(* file, 0 for none: the name nfcapd.YYYYmmddHHMM is its slot.  Times are  *)
(* slot numbers and 0 is "no time".  Sizes wrap like uint64_t, at Wrap.    *)
(***************************************************************************)
EXTENDS Integers, FiniteSets, FiniteSetsExt

CONSTANTS MaxSlot,    \* last time slot of the model
          Wrap        \* number of values of a size (2^64 in the code)

ASSUME MaxSlotAssumption == MaxSlot \in Nat \ {0}
ASSUME WrapAssumption    == Wrap \in Nat \ {0}

Slot == 1..MaxSlot

Files(dir) == {s \in Slot : dir[s] # 0}

\* A size is a number of units: one element for each unit of a file in S.
Units(dir, S)  == UNION {{s} \X (1..dir[s]) : s \in S}
SizeOf(dir, S) == Cardinality(Units(dir, S))
DirSize(dir)   == SizeOf(dir, Files(dir))

-----------------------------------------------------------------------------
(* Book keeping record                                                     *)

NoBooks == [first |-> 0, last |-> 0, numfiles |-> 0, filesize |-> 0, sequence |-> 0]

UpdateBooks(books, when, size) ==
    [first    |-> IF books.first = 0 THEN when ELSE books.first,
     last     |-> when,
     numfiles |-> books.numfiles + 1,
     filesize |-> (books.filesize + size) % Wrap,
     sequence |-> books.sequence + 1]

\* Mutant of ClearBooks: the counts are not reset.
ClearBooksKeepCounts(books) == [books EXCEPT !.first = 0, !.last = 0, !.sequence = @ + 1]

ClearBooks(books) == [NoBooks EXCEPT !.sequence = books.sequence + 1]

-----------------------------------------------------------------------------
(* Stat record                                                             *)

\* The zeroed record a process starts from when there is no stat file.
ZeroStat == [first |-> 0, last |-> 0, numfiles |-> 0, filesize |-> 0,
             max_size |-> 0, max_lifetime |-> 0, low_water |-> 0,
             status |-> "OK"]

\* dirstat_tmpl: what the lines of an empty stat file leave in place.
TmplStat == [ZeroStat EXCEPT !.low_water = 95, !.status = "FORCE_REBUILD"]

VerifyStatInfo(ds) ==
    IF ds.first = 0 \/ ds.first > ds.last \/ ds.low_water > 100
    THEN [ds EXCEPT !.status = "FORCE_REBUILD"] ELSE ds

\* What a complete scan of the directory finds.
RescanDir(ds, dir, now) ==
    LET found == Files(dir) IN
    IF found = {}
    THEN [ds EXCEPT !.first = now, !.last = now, !.numfiles = 0,
                    !.filesize = 0, !.status = "FORCE_REBUILD"]
    ELSE [ds EXCEPT !.first = Min(found), !.last = Max(found),
                    !.numfiles = Cardinality(found),
                    !.filesize = DirSize(dir) % Wrap, !.status = "OK"]

UpdateBookStat(ds, books) ==
    IF books.numfiles = 0 THEN ds
    ELSE IF books.last <= ds.last \/ books.first <= ds.first
    THEN [ds EXCEPT !.status = "FORCE_REBUILD"]
    ELSE [ds EXCEPT !.last = books.last,
                    !.numfiles = @ + books.numfiles,
                    !.filesize = (@ + books.filesize) % Wrap]

-----------------------------------------------------------------------------
(* ExpireDir: the state of its loop is a record, one operator per step.    *)

\* Mutant of SizeLimit: the water mark is ignored.
SizeLimitPlain(ds, maxsize) == maxsize

LowWater(ds) == IF ds.low_water = 0 THEN 95 ELSE ds.low_water

SizeLimit(ds, maxsize)      == (LowWater(ds) * maxsize) \div 100
TimeLimit(ds, maxlife, now) == now - (maxlife * LowWater(ds)) \div 100

\* Before the loop: which limits are exceeded, and the sorted list of files.
\* SizeOverInclusive is a mutant of SizeOver: the limit itself is allowed.
SizeOverInclusive(ds, maxsize) == maxsize # 0 /\ ds.filesize > maxsize
SizeOver(ds, maxsize)          == maxsize # 0 /\ ds.filesize >= maxsize
LifetimeOver(ds, maxlife, now) == maxlife # 0 /\ now - ds.first >= maxlife

ExpireBegin(ds, dir, maxsize, maxlife, now) ==
    [todo          |-> Files(dir),
     size_done     |-> ~SizeOver(ds, maxsize),
     lifetime_done |-> ~LifetimeOver(ds, maxlife, now),
     sizelimit     |-> SizeLimit(ds, maxsize),
     timelimit     |-> TimeLimit(ds, maxlife, now),
     num_expired   |-> 0,
     done          |-> FALSE]

\* The file the loop looks at: fts_read returns names in ascending order.
NextFile(e) == Min(e.todo)

\* The file falls to the size limit, or to the life time limit.
SizeVictim(e, ds) == ~e.size_done /\ ds.filesize > e.sizelimit
LifeVictim(e, ds) == /\ ~SizeVictim(e, ds) /\ ~e.lifetime_done
                     /\ NextFile(e) < e.timelimit
Victim(e, ds)     == SizeVictim(e, ds) \/ LifeVictim(e, ds)

\* A phase is over with the first file that is kept.
SizeDone(e, ds)  == e.size_done \/ ~SizeVictim(e, ds)
LifeDone(e, ds)  == e.lifetime_done \/ ~Victim(e, ds)
EndsPhase(e, ds) == ~SizeVictim(e, ds) /\ (~e.size_done \/ (~e.lifetime_done /\ ~Victim(e, ds)))

\* The loop state after the file; removed says whether unlink succeeded.
\* A file that falls to the size limit skips the test of done and timeout.
ExpireLoop(e, ds, removed, timeout) ==
    [e EXCEPT !.todo = @ \ {NextFile(e)},
              !.size_done = SizeDone(e, ds),
              !.lifetime_done = LifeDone(e, ds),
              !.num_expired = IF removed THEN @ + 1 ELSE @,
              !.done = /\ ~SizeVictim(e, ds)
                       /\ (SizeDone(e, ds) /\ LifeDone(e, ds)) \/ timeout]

\* Mutants of ExpireStat: removed files stay in the size; a file counts as removed when unlink failed.
ExpireStatKeepSize(e, ds, size, removed) ==
    [ds EXCEPT !.first = IF EndsPhase(e, ds) THEN NextFile(e) ELSE @]
ExpireStatCountFailed(e, ds, size, removed) ==
    [ds EXCEPT !.filesize = (@ - size) % Wrap,
               !.first = IF EndsPhase(e, ds) THEN NextFile(e) ELSE @]

\* The stat record after the file: first moves to a file that is kept, when
\* that file ends one of the two phases.
ExpireStat(e, ds, size, removed) ==
    [ds EXCEPT !.filesize = IF removed THEN (@ - size) % Wrap ELSE @,
               !.first = IF EndsPhase(e, ds) THEN NextFile(e) ELSE @]

\* After the loop.
ExpireEnd(e, ds, now) ==
    LET first == IF e.done THEN ds.first ELSE ds.last
        count == IF e.num_expired > ds.numfiles THEN 0 ELSE ds.numfiles - e.num_expired
    IN  [ds EXCEPT !.first = IF count = 0 THEN now ELSE first,
                   !.last  = IF count = 0 THEN now ELSE @,
                   !.numfiles = count,
                   !.status = IF count = 0 THEN "FORCE_REBUILD" ELSE @]

=============================================================================
