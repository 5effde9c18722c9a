------------------------------ MODULE ExpireDir ------------------------------
(***************************************************************************)
(* ExpireDir of src/Capture/nfelastic/bin/expire.c, on its own: one run    *)
(* over a directory, for every directory and every pair of limits of the   *)
(* model, with unlink failures, the run time alarm and the operator who    *)
(* may answer "no" on a terminal.                                          *)
(***************************************************************************)
EXTENDS DirStat

CONSTANTS Sizes,        \* file sizes
          MaxSizes,     \* size limits, 0 for none
          MaxLives,     \* life time limits, 0 for none
          LowWaters     \* water marks in percent

\* No file is empty and a full directory is smaller than 2^64.
ASSUME SizesAssumption  == \E largest \in 1..Wrap : /\ MaxSlot * largest < Wrap
                                                   /\ Sizes \subseteq 1..largest
ASSUME LimitsAssumption == /\ MaxSizes \subseteq Nat /\ MaxLives \subseteq Nat
                           /\ LowWaters \subseteq 0..100

VARIABLES pc,           \* "begin", "loop", "done"
          now,          \* time(NULL), read once at the beginning
          dir,          \* the directory
          ds,           \* dirstat
          e,            \* state of the loop
          timeout,      \* set by the SIGALRM handler
          failed,       \* some unlink failed
          dir0,         \* the directory at the beginning (history)
          exact         \* the record counted all of it (history)

vars == <<pc, now, dir, ds, e, timeout, failed, dir0, exact>>

maxsize == ds.max_size
maxlife == ds.max_lifetime

NoLoop == [todo |-> {}, size_done |-> FALSE, lifetime_done |-> FALSE,
           sizelimit |-> 0, timelimit |-> 0, num_expired |-> 0, done |-> FALSE]

\* The stat record is up to date, as after a rescan or after UpdateBookStat, or
\* it misses a file: one that was in the books of a collector that was killed.
Init == /\ pc = "begin"
        /\ now = MaxSlot + 1
        /\ dir \in [Slot -> Sizes \cup {0}]
        /\ \E ms \in MaxSizes, ml \in MaxLives, lw \in LowWaters, missed \in 0..MaxSlot :
              /\ ds = RescanDir([ZeroStat EXCEPT !.max_size = ms, !.max_lifetime = ml,
                                                 !.low_water = lw],
                                [s \in Slot |-> IF s = missed THEN 0 ELSE dir[s]], now)
              /\ exact = (missed \notin Files(dir))
        /\ e = NoLoop
        /\ timeout = FALSE
        /\ failed = FALSE
        /\ dir0 = dir

Begin ==
    /\ pc = "begin"
    /\ e' = ExpireBegin(ds, dir, maxsize, maxlife, now)
    /\ ds' = [ds EXCEPT !.low_water = LowWater(ds)]
    /\ pc' = "loop"
    /\ UNCHANGED <<now, dir, timeout, failed, dir0, exact>>

\* All files are older than the life time, and the operator does not confirm.
Cancel ==
    /\ pc = "begin"
    /\ maxlife # 0 /\ ds.last < now - maxlife
    /\ ds' = [ds EXCEPT !.low_water = LowWater(ds)]
    /\ pc' = "done"
    /\ UNCHANGED <<now, dir, e, timeout, failed, dir0, exact>>

Looping == pc = "loop" /\ ~e.done /\ e.todo # {}

\* The next file is kept.
Keep ==
    /\ Looping /\ ~Victim(e, ds)
    /\ ds' = ExpireStat(e, ds, 0, FALSE)
    /\ e' = ExpireLoop(e, ds, FALSE, timeout)
    /\ UNCHANGED <<pc, now, dir, timeout, failed, dir0, exact>>

\* The next file is removed.
Unlink ==
    /\ Looping /\ Victim(e, ds)
    /\ dir' = [dir EXCEPT ![NextFile(e)] = 0]
    /\ ds' = ExpireStat(e, ds, dir[NextFile(e)], TRUE)
    /\ e' = ExpireLoop(e, ds, TRUE, timeout)
    /\ UNCHANGED <<pc, now, timeout, failed, dir0, exact>>

\* unlink fails: the file stays and is passed over.
UnlinkFails ==
    /\ Looping /\ Victim(e, ds)
    /\ ds' = ExpireStat(e, ds, dir[NextFile(e)], FALSE)
    /\ e' = ExpireLoop(e, ds, FALSE, timeout)
    /\ failed' = TRUE
    /\ UNCHANGED <<pc, now, dir, timeout, dir0, exact>>

\* SIGALRM after the run time of option -T.
Alarm ==
    /\ pc = "loop" /\ ~timeout
    /\ timeout' = TRUE
    /\ UNCHANGED <<pc, now, dir, ds, e, failed, dir0, exact>>

End ==
    /\ pc = "loop" /\ (e.done \/ e.todo = {})
    /\ ds' = ExpireEnd(e, ds, now)
    /\ pc' = "done"
    /\ UNCHANGED <<now, dir, e, timeout, failed, dir0, exact>>

Next == Begin \/ Cancel \/ Keep \/ Unlink \/ UnlinkFails \/ Alarm \/ End

Spec == Init /\ [][Next]_vars

-----------------------------------------------------------------------------
(* Reference: what is to be kept, in terms of the limits alone.            *)

\* The newest files that fit below the size limit: the longest suffix of the
\* directory whose size does not exceed it.
FitsSize(limit) ==
    {s \in Files(dir0) : SizeOf(dir0, {t \in Files(dir0) : t >= s}) <= limit}

\* The files of the last slots, as many as the limit has.
FitsLife(limit) == {s \in Files(dir0) : now - s <= limit}

\* The water mark in percent; without one it is 95.
Percent(limit) == (limit * (IF ds.low_water = 0 THEN 95 ELSE ds.low_water)) \div 100

KeptBySize == IF maxsize # 0 /\ DirSize(dir0) >= maxsize
              THEN FitsSize(Percent(maxsize)) ELSE Files(dir0)

KeptByLife == IF maxlife # 0 /\ \E s \in Files(dir0) : now - s >= maxlife
              THEN FitsLife(Percent(maxlife)) ELSE Files(dir0)

-----------------------------------------------------------------------------
\* Type invariant of an expire run.
TypeOK == /\ pc \in {"begin", "loop", "done"}
          /\ dir \in [Slot -> Sizes \cup {0}]
          /\ ds.filesize \in 0..(Wrap - 1) /\ ds.numfiles \in 0..MaxSlot
          /\ e.todo \subseteq Slot
          /\ timeout \in BOOLEAN /\ failed \in BOOLEAN

\* An undisturbed run keeps exactly the newest files that satisfy both limits
\* at their water marks: a limit that is not exceeded removes nothing, and no
\* limit removes a file more than needed.  Also when the alarm ends it early,
\* files went oldest first.
KeepsExactly ==
    pc = "done" /\ ~failed =>
        /\ \A kept \in Files(dir), gone \in Files(dir0) \ Files(dir) : gone < kept
        /\ exact /\ ~timeout /\ e # NoLoop => Files(dir) = KeptBySize \cap KeptByLife

\* Whatever happens (unlink errors, the alarm, an operator who cancels), the
\* stat record that was exact is exact afterwards: count and size match the
\* directory.  And the variables have their types.
RecordExact ==
    /\ TypeOK
    /\ pc = "done" /\ exact =>
          /\ ds.numfiles = Cardinality(Files(dir))
          /\ ds.filesize = DirSize(dir)
          /\ Files(dir) = {} => ds.status = "FORCE_REBUILD"
=============================================================================
