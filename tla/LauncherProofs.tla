--------------------------- MODULE LauncherProofs ---------------------------
(***************************************************************************)
(* Proofs about what the launcher does in a cycle.  First, about ExpireDir *)
(* for every directory, every size of the files and every limit: what an   *)
(* expire run keeps, and that the stat record goes on counting what is     *)
(* there.  Then, about the signals of Launcher for any number of cycles    *)
(* and every set of options: that the launcher comes to that run, and that *)
(* it gives every file to the command as it should.                        *)
(***************************************************************************)
EXTENDS ExpireDir, Launcher, FiniteSetTheorems, NaturalsInduction,
        WellFoundedInduction, TLAPS

Directory == [Slot -> Sizes \cup {0}]

-----------------------------------------------------------------------------
(* Numbers and sizes                                                       *)

LEMMA Bounds == /\ MaxSlot \in Nat /\ MaxSlot >= 1 /\ Wrap \in Nat /\ Wrap >= 1
                /\ \A z \in Sizes : z \in Nat /\ z >= 1
                /\ IsFiniteSet(Slot) /\ Cardinality(Slot) = MaxSlot
<1>1. MaxSlot \in Nat /\ MaxSlot >= 1 /\ Wrap \in Nat /\ Wrap >= 1
  BY MaxSlotAssumption, WrapAssumption
<1>2. \A z \in Sizes : z \in Nat /\ z >= 1 BY <1>1, SizesAssumption
<1>3. IsFiniteSet(Slot) /\ Cardinality(Slot) = MaxSlot BY <1>1, FS_Interval DEF Slot
<1> QED BY <1>1, <1>2, <1>3

LEMMA Modulo == \A a \in Int : /\ a % Wrap \in 0..(Wrap - 1)
                               /\ a \in 0..(Wrap - 1) => a % Wrap = a
BY Bounds

LEMMA MinInSet == ASSUME NEW T \in SUBSET Nat, T # {}
                  PROVE  Min(T) \in T /\ \A s \in T : Min(T) <= s
<1> DEFINE less == {ss \in Nat \X Nat : ss[1] < ss[2]}
<1>1. IsWellFoundedOn(less, Nat) BY NatLessThanWellFounded DEF OpToRel
<1>2. PICK x \in T : \A y \in T : <<y, x>> \notin less BY <1>1, WFMin
<1>3. \A y \in T : ~(y < x) BY <1>2
<1>4. \E z \in T : \A y \in T : z <= y BY <1>3
<1> QED BY <1>4 DEF Min

LEMMA Oldest == ASSUME NEW T \in SUBSET Slot, T # {}
                PROVE  Min(T) \in T /\ Min(T) \in Nat /\ \A s \in T : Min(T) <= s
<1>1. T \in SUBSET Nat BY Bounds DEF Slot
<1> QED BY <1>1, MinInSet

LEMMA Newest == ASSUME NEW T \in SUBSET Slot, T # {}
                PROVE  Max(T) \in T /\ Max(T) \in Nat
<1> DEFINE ages == {MaxSlot - s : s \in T}
<1>1. ages \in SUBSET Nat /\ ages # {}
  <2>1. \A s \in T : MaxSlot - s \in Nat BY Bounds DEF Slot
  <2> QED BY <2>1
<1>2. Min(ages) \in ages /\ \A a \in ages : Min(ages) <= a BY <1>1, MinInSet
<1> HIDE DEF ages
<1>3. PICK m \in T : Min(ages) = MaxSlot - m BY <1>2 DEF ages
<1>4. \A s \in T : MaxSlot - m <= MaxSlot - s BY <1>2, <1>3 DEF ages
<1>5. \A s \in T : s \in Nat /\ s <= m BY <1>4, Bounds DEF Slot
<1>6. \E x \in T : \A y \in T : x >= y BY <1>5
<1>7. Max(T) \in T BY <1>6 DEF Max
<1> QED BY <1>5, <1>7

LEMMA SizeBound == ASSUME NEW d \in Directory, NEW S \in SUBSET Slot
                   PROVE  /\ IsFiniteSet(Units(d, S))
                          /\ SizeOf(d, S) \in Nat /\ SizeOf(d, S) < Wrap
<1>1. PICK m \in 1..Wrap : MaxSlot * m < Wrap /\ Sizes \subseteq 1..m BY SizesAssumption
<1>2. m \in Nat BY <1>1, Bounds
<1>3. IsFiniteSet(1..m) /\ Cardinality(1..m) = m BY <1>2, FS_Interval
<1>4. /\ IsFiniteSet(Slot \X (1..m))
      /\ Cardinality(Slot \X (1..m)) = Cardinality(Slot) * Cardinality(1..m)
  BY <1>3, Bounds, FS_Product
<1>5. Cardinality(Slot \X (1..m)) = MaxSlot * m BY <1>3, <1>4, Bounds
<1>6. Units(d, S) \subseteq Slot \X (1..m)
  <2> SUFFICES ASSUME NEW s \in S, NEW u \in {s} \X (1..d[s])
               PROVE  u \in Slot \X (1..m)
    BY DEF Units
  <2>1. d[s] \in (1..m) \cup {0} BY <1>1 DEF Directory
  <2>2. 1..d[s] \subseteq 1..m BY <1>2, <2>1
  <2> QED BY <2>2
<1>7. /\ IsFiniteSet(Units(d, S))
      /\ Cardinality(Units(d, S)) <= Cardinality(Slot \X (1..m))
  BY <1>4, <1>6, FS_Subset
<1>8. Cardinality(Units(d, S)) \in Nat BY <1>7, FS_CardinalityType
<1>9. MaxSlot * m \in Nat BY <1>2, Bounds
<1> QED BY <1>1, <1>5, <1>7, <1>8, <1>9, Bounds DEF SizeOf

LEMMA SizeMonotone == ASSUME NEW d \in Directory, NEW S \in SUBSET Slot, NEW T \in SUBSET S
                      PROVE  SizeOf(d, T) <= SizeOf(d, S)
<1>1. Units(d, T) \subseteq Units(d, S) BY DEF Units
<1>2. IsFiniteSet(Units(d, S)) BY SizeBound
<1> QED BY <1>1, <1>2, FS_Subset DEF SizeOf

LEMMA SizeSame == ASSUME NEW d \in Directory, NEW g \in Directory, NEW S \in SUBSET Slot,
                         \A s \in S : d[s] = g[s]
                  PROVE  SizeOf(d, S) = SizeOf(g, S)
<1>1. Units(d, S) = Units(g, S) BY DEF Units
<1> QED BY <1>1 DEF SizeOf

LEMMA SizeAdd == ASSUME NEW d \in Directory, NEW S \in SUBSET Slot, NEW x \in Slot, x \notin S
                 PROVE  SizeOf(d, S \cup {x}) = SizeOf(d, S) + d[x]
<1> DEFINE B == {x} \X (1..d[x])
<1>1. Units(d, S \cup {x}) = Units(d, S) \cup B BY DEF Units
<1>2. Units(d, S) \cap B = {} BY DEF Units
<1>3. d[x] \in Nat BY Bounds DEF Directory
<1>4. IsFiniteSet(B) /\ Cardinality(B) = d[x]
  <2>1. IsFiniteSet({x}) /\ Cardinality({x}) = 1 BY FS_Singleton
  <2>2. IsFiniteSet(1..d[x]) /\ Cardinality(1..d[x]) = d[x]
    <3>1. PICK n \in Nat : n = d[x] BY <1>3
    <3>2. IsFiniteSet(1..n) /\ Cardinality(1..n) = n BY FS_Interval
    <3> QED BY <3>1, <3>2
  <2>3. IsFiniteSet(B) /\ Cardinality(B) = Cardinality({x}) * Cardinality(1..d[x])
    BY <2>1, <2>2, FS_Product
  <2>4. Cardinality(B) = 1 * d[x] BY <2>1, <2>2, <2>3
  <2> QED BY <1>3, <2>3, <2>4
<1>5. IsFiniteSet(Units(d, S)) /\ SizeOf(d, S) \in Nat BY SizeBound
<1> HIDE DEF B
<1>6. Cardinality(Units(d, S) \cup B)
         = Cardinality(Units(d, S)) + Cardinality(B) - Cardinality({})
  BY <1>2, <1>4, <1>5, FS_Union
<1>7. Cardinality({}) = 0 BY FS_EmptySet
<1>8. SizeOf(d, S \cup {x}) = SizeOf(d, S) + d[x] - 0 BY <1>1, <1>4, <1>6, <1>7 DEF SizeOf
<1> QED BY <1>3, <1>5, <1>8

LEMMA FilesCount == ASSUME NEW d \in Directory
                    PROVE  /\ Files(d) \subseteq Slot /\ IsFiniteSet(Files(d))
                           /\ Cardinality(Files(d)) \in 0..MaxSlot
                           /\ Cardinality(Files(d)) = 0 <=> Files(d) = {}
                           /\ DirSize(d) \in 0..(Wrap - 1)
<1>1. Files(d) \subseteq Slot BY DEF Files
<1>2. IsFiniteSet(Files(d)) /\ Cardinality(Files(d)) <= MaxSlot
  BY <1>1, Bounds, FS_Subset
<1>3. Cardinality(Files(d)) \in Nat BY <1>2, FS_CardinalityType
<1>4. Cardinality(Files(d)) = 0 <=> Files(d) = {} BY <1>2, FS_EmptySet
<1>5. DirSize(d) \in Nat /\ DirSize(d) < Wrap BY <1>1, SizeBound DEF DirSize
<1> QED BY <1>1, <1>2, <1>3, <1>4, <1>5, Bounds

\* A file is removed.
LEMMA Removed == ASSUME NEW d \in Directory, NEW x \in Files(d),
                        NEW g \in Directory, g[x] = 0,
                        \A s \in Slot : s # x => g[s] = d[s]
                 PROVE  /\ Files(g) = Files(d) \ {x}
                        /\ \A s \in Files(g) : g[s] = d[s]
                        /\ d[x] \in Nat /\ DirSize(g) = DirSize(d) - d[x]
                        /\ Cardinality(Files(g)) = Cardinality(Files(d)) - 1
<1>1. x \in Slot /\ d[x] \in Nat BY Bounds DEF Files, Directory
<1>2. g[x] = 0 /\ \A s \in Slot : s # x => g[s] = d[s] OBVIOUS
<1>3. Files(g) = Files(d) \ {x} BY <1>2 DEF Files
<1>4. Files(g) \in SUBSET Slot /\ x \notin Files(g) /\ Files(d) = Files(g) \cup {x}
  BY <1>3 DEF Files
<1>5. SizeOf(d, Files(d)) = SizeOf(d, Files(g)) + d[x]
  <2>1. PICK S \in SUBSET Slot : S = Files(g) BY <1>4
  <2>2. x \notin S /\ Files(d) = S \cup {x} BY <1>4, <2>1
  <2>3. SizeOf(d, S \cup {x}) = SizeOf(d, S) + d[x] BY <1>1, <2>2, SizeAdd
  <2> QED BY <2>1, <2>2, <2>3
<1>6. \A s \in Files(g) : g[s] = d[s] BY <1>2, <1>4
<1>7. SizeOf(d, Files(g)) = SizeOf(g, Files(g)) BY <1>2, <1>4, <1>6, SizeSame
<1>8. SizeOf(g, Files(g)) \in Nat BY <1>2, <1>4, SizeBound
<1>9. DirSize(g) = DirSize(d) - d[x] BY <1>1, <1>5, <1>7, <1>8 DEF DirSize
<1>10. Cardinality(Files(d) \ {x}) = Cardinality(Files(d)) - 1
  <2>1. IsFiniteSet(Files(d)) BY FilesCount
  <2> QED BY <2>1, FS_RemoveElement
<1> QED BY <1>1, <1>2, <1>3, <1>6, <1>9, <1>10

-----------------------------------------------------------------------------
(* The inductive invariant                                                 *)

StatType == [first : Nat, last : Nat, numfiles : 0..MaxSlot, filesize : 0..(Wrap - 1),
             max_size : MaxSizes, max_lifetime : MaxLives, low_water : 0..100,
             status : {"OK", "FORCE_REBUILD"}]

LoopType == [todo : SUBSET Slot, size_done : BOOLEAN, lifetime_done : BOOLEAN,
             sizelimit : Int, timelimit : Int, num_expired : Nat, done : BOOLEAN]

Typed == /\ pc \in {"begin", "loop", "done"} /\ now = MaxSlot + 1
         /\ dir \in Directory /\ dir0 \in Directory
         /\ ds \in StatType /\ e \in LoopType
         /\ timeout \in BOOLEAN /\ failed \in BOOLEAN /\ exact \in BOOLEAN

\* The files that are left are files of the beginning, the list has the newest
\* files, and the loop counts what it removed.
Leftover ==
    /\ Files(dir) \subseteq Files(dir0) /\ \A s \in Files(dir) : dir[s] = dir0[s]
    /\ e.todo \subseteq Files(dir)
    /\ \A s \in e.todo, t \in Files(dir0) : s < t => t \in e.todo
    /\ e.num_expired = Cardinality(Files(dir0)) - Cardinality(Files(dir))
    /\ pc = "begin" => e = NoLoop /\ dir = dir0

\* A record that was exact has the size of the files that are left, and, until
\* the end, the number of files there were at the beginning.
Counted == exact =>
    /\ ds.filesize = DirSize(dir)
    /\ ds.numfiles = IF pc = "done" THEN Cardinality(Files(dir)) ELSE Cardinality(Files(dir0))
    /\ pc # "loop" /\ Files(dir) = {} => ds.status = "FORCE_REBUILD"
    /\ pc = "begin" => IF Files(dir0) = {} THEN ds.first = now
                       ELSE ds.first \in Files(dir0) /\ \A s \in Files(dir0) : ds.first <= s

\* Without a failure nothing is passed over.
Ordered == ~failed =>
    /\ pc = "loop" /\ ~e.done => e.todo = Files(dir)
    /\ \A kept \in Files(dir), gone \in Files(dir0) \ Files(dir) : gone < kept

SizeTooLarge == maxsize # 0 /\ DirSize(dir0) >= maxsize
TooOld == maxlife # 0 /\ \E s \in Files(dir0) : now - s >= maxlife
KeptByBoth == KeptBySize \cap KeptByLife

\* The loop of an undisturbed run: which phases are over and what that means for
\* the files.
InLoop ==
    /\ e.sizelimit = Percent(maxsize) /\ e.timelimit = now - Percent(maxlife)
    /\ ~e.size_done => SizeTooLarge
    /\ e.size_done /\ SizeTooLarge => DirSize(dir) <= e.sizelimit
    /\ ~e.lifetime_done => TooOld
    /\ ~e.done /\ e.lifetime_done => ~TooOld
    /\ \A s \in Files(dir0) \ Files(dir) : s \notin KeptByBoth
    /\ e.done => Files(dir) \subseteq KeptByBoth

Verdict == exact /\ ~failed /\ ~timeout =>
    /\ pc = "loop" => InLoop
    /\ pc = "done" => e = NoLoop \/ Files(dir) = KeptByBoth

IInv == Typed /\ Leftover /\ Counted /\ Ordered /\ Verdict

-----------------------------------------------------------------------------
(* The initial states                                                      *)

LEMMA Rescanned ==
    ASSUME NEW r \in StatType, NEW d \in Directory, NEW t \in Nat, NEW q,
           q = RescanDir(r, d, t)
    PROVE  /\ q \in StatType
           /\ q.numfiles = Cardinality(Files(d)) /\ q.filesize = DirSize(d)
           /\ Files(d) = {} => q.status = "FORCE_REBUILD" /\ q.first = t
           /\ Files(d) # {} => q.first \in Files(d) /\ \A s \in Files(d) : q.first <= s
<1>1. CASE Files(d) = {}
  <2>1. q = [r EXCEPT !.first = t, !.last = t, !.numfiles = 0,
                      !.filesize = 0, !.status = "FORCE_REBUILD"]
    BY <1>1 DEF RescanDir
  <2>2. 0 \in 0..MaxSlot /\ 0 \in 0..(Wrap - 1) BY Bounds
  <2>3. /\ q \in StatType /\ q.numfiles = 0 /\ q.filesize = 0
        /\ q.status = "FORCE_REBUILD" /\ q.first = t
    BY ONLY <2>1, <2>2, r \in StatType, t \in Nat DEF StatType
  <2>4. Cardinality(Files(d)) = 0 BY <1>1, FS_EmptySet
  <2>5. DirSize(d) = 0
    <3>1. Units(d, Files(d)) = {} BY <1>1 DEF Units
    <3> QED BY <3>1, FS_EmptySet DEF DirSize, SizeOf
  <2> QED BY <1>1, <2>3, <2>4, <2>5
<1>2. CASE Files(d) # {}
  <2>1. /\ Files(d) \in SUBSET Slot /\ Cardinality(Files(d)) \in 0..MaxSlot
        /\ DirSize(d) \in 0..(Wrap - 1)
    BY FilesCount
  <2>2. DirSize(d) % Wrap = DirSize(d) BY <2>1, Modulo
  <2>3. /\ Min(Files(d)) \in Files(d) /\ Min(Files(d)) \in Nat
        /\ \A s \in Files(d) : Min(Files(d)) <= s
    BY <1>2, <2>1, Oldest
  <2>4. Max(Files(d)) \in Nat BY <1>2, <2>1, Newest
  <2>5. q = [r EXCEPT !.first = Min(Files(d)), !.last = Max(Files(d)),
                      !.numfiles = Cardinality(Files(d)),
                      !.filesize = DirSize(d), !.status = "OK"]
    BY <1>2, <2>2 DEF RescanDir
  <2>6. PICK a, b, n, z : /\ a = Min(Files(d)) /\ b = Max(Files(d))
                          /\ n = Cardinality(Files(d)) /\ z = DirSize(d)
    OBVIOUS
  <2>7. a \in Nat /\ b \in Nat /\ n \in 0..MaxSlot /\ z \in 0..(Wrap - 1)
    BY <2>1, <2>3, <2>4, <2>6
  <2>8. q = [r EXCEPT !.first = a, !.last = b, !.numfiles = n, !.filesize = z, !.status = "OK"]
    BY <2>5, <2>6
  <2>9. q \in StatType /\ q.numfiles = n /\ q.filesize = z /\ q.first = a
    BY ONLY <2>7, <2>8, r \in StatType DEF StatType
  <2> QED BY <1>2, <2>3, <2>6, <2>9
<1> QED BY <1>1, <1>2

LEMMA Start == Init => IInv
<1> SUFFICES ASSUME Init PROVE IInv OBVIOUS
<1>1. PICK ms \in MaxSizes, ml \in MaxLives, lw \in LowWaters, missed \in 0..MaxSlot :
         /\ ds = RescanDir([ZeroStat EXCEPT !.max_size = ms, !.max_lifetime = ml,
                                            !.low_water = lw],
                           [s \in Slot |-> IF s = missed THEN 0 ELSE dir[s]], now)
         /\ exact = (missed \notin Files(dir))
  BY DEF Init
<1> DEFINE r == [ZeroStat EXCEPT !.max_size = ms, !.max_lifetime = ml, !.low_water = lw]
           d == [s \in Slot |-> IF s = missed THEN 0 ELSE dir[s]]
<1>2. r \in StatType
  <2>1. lw \in 0..100 /\ 0 \in 0..MaxSlot /\ 0 \in 0..(Wrap - 1) BY Bounds, LimitsAssumption
  <2>2. ZeroStat \in [first : Nat, last : Nat, numfiles : 0..MaxSlot,
                     filesize : 0..(Wrap - 1), max_size : Nat, max_lifetime : Nat,
                     low_water : Nat, status : {"OK", "FORCE_REBUILD"}]
    BY <2>1 DEF ZeroStat
  <2> QED BY <2>1, <2>2 DEF StatType
<1>3. now = MaxSlot + 1 /\ now \in Nat /\ dir \in Directory /\ dir0 = dir
  BY Bounds DEF Directory, Init
<1>4. d \in Directory BY <1>3 DEF Directory
<1>5. ds = RescanDir(r, d, now) BY <1>1
<1>6. exact = (missed \notin Files(dir)) BY <1>1
<1>7. exact => d = dir
  <2> SUFFICES ASSUME exact, NEW s \in Slot PROVE d[s] = dir[s]
    BY <1>3, <1>4 DEF Directory
  <2> QED BY <1>6 DEF Files
<1> HIDE DEF r, d
<1>8. /\ ds \in StatType /\ ds.numfiles = Cardinality(Files(d)) /\ ds.filesize = DirSize(d)
      /\ Files(d) = {} => ds.status = "FORCE_REBUILD" /\ ds.first = now
      /\ Files(d) # {} => ds.first \in Files(d) /\ \A s \in Files(d) : ds.first <= s
  <2>1. PICK b \in StatType, g \in Directory, t \in Nat : b = r /\ g = d /\ t = now
    BY <1>2, <1>3, <1>4
  <2>2. PICK q : q = RescanDir(b, g, t) OBVIOUS
  <2>3. /\ q \in StatType /\ q.numfiles = Cardinality(Files(g)) /\ q.filesize = DirSize(g)
        /\ Files(g) = {} => q.status = "FORCE_REBUILD" /\ q.first = t
        /\ Files(g) # {} => q.first \in Files(g) /\ \A s \in Files(g) : q.first <= s
    BY <2>2, Rescanned
  <2>4. q = ds BY <1>5, <2>1, <2>2
  <2> QED BY <2>1, <2>3, <2>4
<1>9. /\ e = NoLoop /\ e \in LoopType /\ e.todo = {} /\ e.num_expired = 0
  BY DEF NoLoop, LoopType, Init
<1>10. Typed BY <1>3, <1>6, <1>8, <1>9 DEF Typed, Init
<1>11. Leftover
  <2>1. Cardinality(Files(dir0)) \in Nat BY <1>3, FilesCount
  <2> QED BY <1>3, <1>9, <2>1 DEF Leftover
<1>12. Counted BY <1>3, <1>7, <1>8 DEF Counted, Init
<1>13. Ordered /\ Verdict BY <1>3 DEF Ordered, Verdict, Init
<1> QED BY <1>10, <1>11, <1>12, <1>13 DEF IInv

-----------------------------------------------------------------------------
(* The steps                                                               *)

\* The limits and what they ask for stay as they were.
LEMMA SameLimits ==
    ASSUME now' = now, dir0' = dir0, maxsize' = maxsize, maxlife' = maxlife,
           LowWater(ds') = LowWater(ds)
    PROVE  /\ SizeTooLarge' = SizeTooLarge /\ TooOld' = TooOld /\ KeptByBoth' = KeptByBoth
           /\ Percent(maxsize)' = Percent(maxsize) /\ Percent(maxlife)' = Percent(maxlife)
<1>1. Percent(maxsize)' = Percent(maxsize) /\ Percent(maxlife)' = Percent(maxlife)
  BY DEF Percent, LowWater
<1>2. SizeTooLarge' = SizeTooLarge /\ TooOld' = TooOld BY DEF SizeTooLarge, TooOld
<1>3. KeptBySize' = KeptBySize
  <2>1. FitsSize(Percent(maxsize))' = FitsSize(Percent(maxsize)) BY <1>1 DEF FitsSize
  <2> QED BY <2>1 DEF KeptBySize
<1>4. KeptByLife' = KeptByLife
  <2>1. FitsLife(Percent(maxlife))' = FitsLife(Percent(maxlife)) BY <1>1 DEF FitsLife
  <2> QED BY <2>1 DEF KeptByLife
<1> QED BY <1>1, <1>2, <1>3, <1>4 DEF KeptByBoth

LEMMA BeginStep == ASSUME IInv, Begin PROVE IInv'
<1> USE DEF IInv, Begin
<1>1. /\ pc = "begin" /\ pc' = "loop" /\ UNCHANGED <<now, dir, timeout, failed, dir0, exact>>
      /\ e = NoLoop /\ dir = dir0 /\ e.num_expired = 0
  BY DEF Leftover, NoLoop
<1>2. /\ ds' \in StatType /\ ds'.max_size = ds.max_size /\ ds'.max_lifetime = ds.max_lifetime
      /\ ds'.filesize = ds.filesize /\ ds'.numfiles = ds.numfiles /\ ds'.first = ds.first
      /\ LowWater(ds') = LowWater(ds)
  <2>1. LowWater(ds) \in 0..100 /\ LowWater(ds) # 0 BY DEF Typed, StatType, LowWater
  <2>2. ds' = [ds EXCEPT !.low_water = LowWater(ds)] OBVIOUS
  <2>3. /\ ds' \in StatType /\ ds'.max_size = ds.max_size /\ ds'.max_lifetime = ds.max_lifetime
        /\ ds'.filesize = ds.filesize /\ ds'.numfiles = ds.numfiles /\ ds'.first = ds.first
        /\ ds'.low_water = LowWater(ds)
    BY <2>1, <2>2 DEF Typed, StatType
  <2> QED BY <2>1, <2>3 DEF LowWater
<1>3. /\ ds.low_water \in Int /\ maxsize \in Nat /\ maxlife \in Nat /\ now \in Nat
      /\ LowWater(ds) \in Nat
  BY Bounds, LimitsAssumption DEF Typed, StatType, maxsize, maxlife, LowWater
<1>4. /\ e'.todo = Files(dir) /\ e'.size_done = ~SizeOver(ds, maxsize)
      /\ e'.lifetime_done = ~LifetimeOver(ds, maxlife, now)
      /\ e'.sizelimit = SizeLimit(ds, maxsize) /\ e'.timelimit = TimeLimit(ds, maxlife, now)
      /\ e'.num_expired = 0 /\ e'.done = FALSE
  BY DEF ExpireBegin
<1>5. /\ SizeTooLarge' = SizeTooLarge /\ TooOld' = TooOld /\ KeptByBoth' = KeptByBoth
      /\ Percent(maxsize)' = Percent(maxsize) /\ Percent(maxlife)' = Percent(maxlife)
  BY <1>1, <1>2, SameLimits DEF maxsize, maxlife
<1>6. /\ SizeLimit(ds, maxsize) = Percent(maxsize)
      /\ TimeLimit(ds, maxlife, now) = now - Percent(maxlife)
      /\ Percent(maxsize) \in Int /\ Percent(maxlife) \in Int
  <2>1. \A n \in Nat : /\ (LowWater(ds) * n) \div 100 = Percent(n)
                       /\ (n * LowWater(ds)) \div 100 = Percent(n)
                       /\ Percent(n) \in Int
    <3> SUFFICES ASSUME NEW n \in Nat
                 PROVE  /\ (LowWater(ds) * n) \div 100 = Percent(n)
                        /\ (n * LowWater(ds)) \div 100 = Percent(n)
                        /\ Percent(n) \in Int
      OBVIOUS
    <3>1. Percent(n) = (n * LowWater(ds)) \div 100 BY DEF Percent, LowWater
    <3>2. PICK w \in Nat : w = LowWater(ds) BY <1>3
    <3>3. w * n = n * w /\ n * w \in Int OBVIOUS
    <3> QED BY <3>1, <3>2, <3>3
  <2> QED BY <1>3, <2>1 DEF SizeLimit, TimeLimit
<1>7. Typed'
  <2>1. Files(dir) \subseteq Slot BY DEF Files
  <2>2. e' \in LoopType
    BY <1>3, <1>6, <2>1 DEF ExpireBegin, LoopType, SizeOver, LifetimeOver
  <2> QED BY <1>1, <1>2, <2>2 DEF Typed
<1>8. Leftover'
  <2>1. Cardinality(Files(dir)) \in Nat BY FilesCount DEF Typed
  <2> QED BY <1>1, <1>4, <2>1 DEF Leftover
<1>9. Counted' BY <1>1, <1>2 DEF Counted
<1>10. Ordered' BY <1>1, <1>4 DEF Ordered
<1>11. ASSUME exact PROVE InLoop'
  <2>1. SizeOver(ds, maxsize) = SizeTooLarge
    BY <1>1, <1>11 DEF SizeOver, SizeTooLarge, Counted
  <2>2. LifetimeOver(ds, maxlife, now) = TooOld
    <3>1. CASE Files(dir0) = {}
      <4>1. ds.first = now BY <1>1, <1>11, <3>1 DEF Counted
      <4>2. ~LifetimeOver(ds, maxlife, now) BY <1>3, <4>1 DEF LifetimeOver
      <4> QED BY <3>1, <4>2 DEF TooOld, LifetimeOver
    <3>2. CASE Files(dir0) # {}
      <4>1. ds.first \in Files(dir0) /\ \A s \in Files(dir0) : ds.first <= s
        BY <1>1, <1>11, <3>2 DEF Counted
      <4>2. \A s \in Files(dir0) : s \in Nat BY Bounds DEF Files, Slot
      <4>3. (\E s \in Files(dir0) : now - s >= maxlife) <=> now - ds.first >= maxlife
        BY <1>3, <4>1, <4>2
      <4> QED BY <4>3 DEF TooOld, LifetimeOver
    <3> QED BY <3>1, <3>2
  <2>3. /\ e'.sizelimit = Percent(maxsize)' /\ e'.timelimit = (now - Percent(maxlife))'
    BY <1>1, <1>4, <1>5, <1>6
  <2>4. /\ ~e'.size_done => SizeTooLarge'
        /\ ~(e'.size_done /\ SizeTooLarge')
        /\ ~e'.lifetime_done => TooOld'
        /\ ~(e'.lifetime_done /\ TooOld')
    BY <1>4, <1>5, <2>1, <2>2
  <2>5. dir0' = dir' /\ ~e'.done BY <1>1, <1>4
  <2>6. (\A s \in Files(dir0) \ Files(dir) : s \notin KeptByBoth)' BY <2>5
  <2> QED BY ONLY <2>3, <2>4, <2>5, <2>6 DEF InLoop
<1>12. Verdict' BY <1>1, <1>11 DEF Verdict
<1> QED BY <1>7, <1>8, <1>9, <1>10, <1>12

LEMMA CancelStep == ASSUME IInv, Cancel PROVE IInv'
<1> USE DEF IInv, Cancel
<1>1. /\ pc = "begin" /\ pc' = "done" /\ UNCHANGED <<now, dir, e, timeout, failed, dir0, exact>>
      /\ e = NoLoop /\ dir = dir0
  BY DEF Leftover
<1>2. /\ ds' \in StatType /\ ds'.filesize = ds.filesize /\ ds'.numfiles = ds.numfiles
      /\ ds'.status = ds.status
  <2>1. LowWater(ds) \in 0..100 BY DEF Typed, StatType, LowWater
  <2>2. ds' = [ds EXCEPT !.low_water = LowWater(ds)] OBVIOUS
  <2> QED BY <2>1, <2>2 DEF Typed, StatType
<1>3. Typed' BY <1>1, <1>2 DEF Typed
<1>4. Leftover' BY <1>1 DEF Leftover
<1>5. Counted' BY <1>1, <1>2 DEF Counted
<1>6. Ordered' BY <1>1 DEF Ordered
<1>7. Verdict' BY <1>1 DEF Verdict, NoLoop
<1> QED BY <1>3, <1>4, <1>5, <1>6, <1>7-----------------------------------------------------------------------------
(* A step of the loop                                                      *)

LEMMA LoopEffect ==
    ASSUME NEW r \in StatType, NEW b \in LoopType, b.todo # {}, NEW removed \in BOOLEAN,
           NEW size \in Nat, NEW tm \in BOOLEAN, NEW q, NEW c,
           q = ExpireStat(b, r, size, removed), c = ExpireLoop(b, r, removed, tm)
    PROVE  /\ q \in StatType /\ q.max_size = r.max_size /\ q.max_lifetime = r.max_lifetime
           /\ q.low_water = r.low_water /\ q.numfiles = r.numfiles
           /\ q.filesize = IF removed THEN (r.filesize - size) % Wrap ELSE r.filesize
           /\ c \in LoopType /\ c.todo = b.todo \ {NextFile(b)}
           /\ c.sizelimit = b.sizelimit /\ c.timelimit = b.timelimit
           /\ c.num_expired = IF removed THEN b.num_expired + 1 ELSE b.num_expired
           /\ c.size_done = SizeDone(b, r) /\ c.lifetime_done = LifeDone(b, r)
           /\ c.done = (~SizeVictim(b, r) /\ ((SizeDone(b, r) /\ LifeDone(b, r)) \/ tm))
           /\ NextFile(b) \in b.todo /\ NextFile(b) \in Nat
           /\ \A s \in b.todo : NextFile(b) <= s
<1>1. NextFile(b) \in b.todo /\ NextFile(b) \in Nat /\ \A s \in b.todo : NextFile(b) <= s
  BY Oldest DEF NextFile, LoopType
<1>2. r.filesize - size \in Int BY Bounds DEF StatType
<1>3. (r.filesize - size) % Wrap \in 0..(Wrap - 1) BY <1>2, Modulo
<1>4. PICK z : z = IF removed THEN (r.filesize - size) % Wrap ELSE r.filesize OBVIOUS
<1>5. PICK g : g = IF EndsPhase(b, r) THEN NextFile(b) ELSE r.first OBVIOUS
<1>6. z \in 0..(Wrap - 1) /\ g \in Nat BY <1>1, <1>3, <1>4, <1>5 DEF StatType
<1>7. q = [r EXCEPT !.filesize = z, !.first = g] BY <1>4, <1>5 DEF ExpireStat
<1>8. /\ q \in StatType /\ q.max_size = r.max_size /\ q.max_lifetime = r.max_lifetime
      /\ q.low_water = r.low_water /\ q.numfiles = r.numfiles /\ q.filesize = z
  BY ONLY <1>6, <1>7, r \in StatType DEF StatType
<1>9. PICK n : n = IF removed THEN b.num_expired + 1 ELSE b.num_expired OBVIOUS
<1>10. n \in Nat BY <1>9 DEF LoopType
<1>11. PICK over : over = (~SizeVictim(b, r) /\ ((SizeDone(b, r) /\ LifeDone(b, r)) \/ tm))
  OBVIOUS
<1>12. PICK sd, ld : sd = SizeDone(b, r) /\ ld = LifeDone(b, r) OBVIOUS
<1>13. sd \in BOOLEAN /\ ld \in BOOLEAN /\ over \in BOOLEAN
  BY <1>11, <1>12 DEF SizeDone, LifeDone, LoopType
<1>14. c = [b EXCEPT !.todo = @ \ {NextFile(b)}, !.size_done = sd, !.lifetime_done = ld,
                     !.num_expired = n, !.done = over]
  BY <1>9, <1>11, <1>12 DEF ExpireLoop
<1>15. /\ c \in LoopType /\ c.todo = b.todo \ {NextFile(b)} /\ c.sizelimit = b.sizelimit
       /\ c.timelimit = b.timelimit /\ c.num_expired = n
       /\ c.size_done = sd /\ c.lifetime_done = ld /\ c.done = over
  BY ONLY <1>10, <1>13, <1>14, b \in LoopType DEF LoopType
<1> QED BY <1>1, <1>4, <1>8, <1>9, <1>11, <1>12, <1>15

\* The effect on the variables.
LEMMA LoopStep ==
    ASSUME IInv, Looping, NEW removed \in BOOLEAN, NEW size \in Nat,
           ds' = ExpireStat(e, ds, size, removed), e' = ExpireLoop(e, ds, removed, timeout),
           now' = now, dir0' = dir0
    PROVE  /\ ds' \in StatType /\ e' \in LoopType /\ ds'.numfiles = ds.numfiles
           /\ ds'.filesize = IF removed THEN (ds.filesize - size) % Wrap ELSE ds.filesize
           /\ e'.todo = e.todo \ {NextFile(e)}
           /\ e'.sizelimit = e.sizelimit /\ e'.timelimit = e.timelimit
           /\ e'.num_expired = IF removed THEN e.num_expired + 1 ELSE e.num_expired
           /\ e'.size_done = SizeDone(e, ds) /\ e'.lifetime_done = LifeDone(e, ds)
           /\ e'.done = (~SizeVictim(e, ds) /\ ((SizeDone(e, ds) /\ LifeDone(e, ds)) \/ timeout))
           /\ NextFile(e) \in e.todo /\ NextFile(e) \in Nat
           /\ \A s \in e.todo : NextFile(e) <= s
           /\ \A s \in e'.todo, t \in Files(dir0) : s < t => t \in e'.todo
           /\ SizeTooLarge' = SizeTooLarge /\ TooOld' = TooOld /\ KeptByBoth' = KeptByBoth
           /\ Percent(maxsize)' = Percent(maxsize) /\ Percent(maxlife)' = Percent(maxlife)
<1>1. PICK r \in StatType, b \in LoopType, tm \in BOOLEAN : r = ds /\ b = e /\ tm = timeout
  BY DEF IInv, Typed
<1>2. PICK q, c : q = ds' /\ c = e' OBVIOUS
<1>3. q = ExpireStat(b, r, size, removed) /\ c = ExpireLoop(b, r, removed, tm) BY <1>1, <1>2
<1>4. b.todo # {} BY <1>1 DEF Looping
<1>5. /\ q \in StatType /\ q.max_size = r.max_size /\ q.max_lifetime = r.max_lifetime
      /\ q.low_water = r.low_water /\ q.numfiles = r.numfiles
      /\ q.filesize = IF removed THEN (r.filesize - size) % Wrap ELSE r.filesize
      /\ c \in LoopType /\ c.todo = b.todo \ {NextFile(b)}
      /\ c.sizelimit = b.sizelimit /\ c.timelimit = b.timelimit
      /\ c.num_expired = IF removed THEN b.num_expired + 1 ELSE b.num_expired
      /\ c.size_done = SizeDone(b, r) /\ c.lifetime_done = LifeDone(b, r)
      /\ c.done = (~SizeVictim(b, r) /\ ((SizeDone(b, r) /\ LifeDone(b, r)) \/ tm))
      /\ NextFile(b) \in b.todo /\ NextFile(b) \in Nat
      /\ \A s \in b.todo : NextFile(b) <= s
  BY ONLY <1>3, <1>4, LoopEffect, removed \in BOOLEAN, size \in Nat
<1>6. /\ SizeTooLarge' = SizeTooLarge /\ TooOld' = TooOld /\ KeptByBoth' = KeptByBoth
      /\ Percent(maxsize)' = Percent(maxsize) /\ Percent(maxlife)' = Percent(maxlife)
  BY <1>1, <1>2, <1>5, SameLimits DEF maxsize, maxlife, LowWater
<1>7. \A s \in e'.todo, t \in Files(dir0) : s < t => t \in e'.todo
  <2> SUFFICES ASSUME NEW s \in c.todo, NEW t \in Files(dir0), s < t PROVE t \in c.todo
    BY <1>2
  <2>1. s \in b.todo /\ s # NextFile(b) /\ NextFile(b) <= s BY <1>5
  <2>2. t \in b.todo BY <1>1, <2>1 DEF IInv, Leftover
  <2>3. s \in Nat /\ t \in Nat BY <2>1, <2>2, Bounds DEF LoopType, Slot
  <2>4. t # NextFile(b) BY <1>5, <2>1, <2>3
  <2> QED BY <1>5, <2>2, <2>4
<1> QED BY <1>1, <1>2, <1>5, <1>6, <1>7

-----------------------------------------------------------------------------
(* What is kept                                                            *)

LEMMA LimitTypes == ASSUME Typed
                    PROVE  Percent(maxsize) \in Int /\ Percent(maxlife) \in Int /\ now \in Nat
<1>1. /\ maxsize \in Nat /\ maxlife \in Nat /\ now \in Nat
      /\ (IF ds.low_water = 0 THEN 95 ELSE ds.low_water) \in Nat
  <2>1. ds.low_water \in Nat /\ ds.max_size \in MaxSizes /\ ds.max_lifetime \in MaxLives
    BY DEF Typed, StatType
  <2>2. now \in Nat BY Bounds DEF Typed
  <2> QED BY <2>1, <2>2, LimitsAssumption DEF maxsize, maxlife
<1>2. \A n \in Nat : Percent(n) \in Int
  <2> SUFFICES ASSUME NEW n \in Nat PROVE Percent(n) \in Int OBVIOUS
  <2>1. PICK w \in Nat : w = IF ds.low_water = 0 THEN 95 ELSE ds.low_water BY <1>1
  <2>2. n * w \in Int OBVIOUS
  <2>3. Percent(n) = (n * w) \div 100 BY <2>1 DEF Percent
  <2> QED BY <2>2, <2>3
<1> QED BY <1>1, <1>2

\* The files that are left are as large as they were.
LEMMA SizeLeft == ASSUME Typed, Leftover
                  PROVE  SizeOf(dir0, Files(dir)) = DirSize(dir) /\ DirSize(dir) \in Nat
<1>1. PICK d \in Directory, g \in Directory : d = dir /\ g = dir0 BY DEF Typed
<1>2. Files(d) \in SUBSET Slot /\ \A s \in Files(d) : d[s] = g[s]
  BY <1>1, Bounds DEF Leftover, Files
<1>3. SizeOf(d, Files(d)) = SizeOf(g, Files(d)) BY <1>2, SizeSame
<1>4. SizeOf(d, Files(d)) \in Nat BY <1>2, SizeBound
<1> QED BY <1>1, <1>3, <1>4 DEF DirSize

\* The oldest of the files that are left does not fit below the size limit.
LEMMA TooMuch ==
    ASSUME Typed, Leftover, NEW x \in e.todo, \A s \in e.todo : x <= s, e.todo = Files(dir),
           SizeTooLarge, DirSize(dir) > Percent(maxsize)
    PROVE  x \notin KeptBySize
<1>1. {t \in Files(dir0) : t >= x} = Files(dir)
  <2>1. \A t \in Files(dir0) : t \in Nat BY Bounds DEF Files, Slot
  <2>2. x \in Files(dir0) BY DEF Leftover
  <2>3. \A t \in Files(dir0) : t >= x => t \in Files(dir) BY <2>1, <2>2 DEF Leftover
  <2>4. \A t \in Files(dir) : t \in Files(dir0) /\ t >= x BY <2>1, <2>2 DEF Leftover
  <2> QED BY <2>3, <2>4
<1>2. SizeOf(dir0, {t \in Files(dir0) : t >= x}) = DirSize(dir) /\ DirSize(dir) \in Nat
  BY <1>1, SizeLeft
<1>3. Percent(maxsize) \in Int BY LimitTypes
<1>4. x \notin FitsSize(Percent(maxsize)) BY <1>2, <1>3 DEF FitsSize
<1>5. KeptBySize = FitsSize(Percent(maxsize)) BY DEF KeptBySize, SizeTooLarge
<1> QED BY <1>4, <1>5

\* The newest files, if they are small enough.
LEMMA SmallEnough ==
    ASSUME Typed, Leftover,
           \A kept \in Files(dir), gone \in Files(dir0) \ Files(dir) : gone < kept,
           SizeTooLarge => DirSize(dir) <= Percent(maxsize)
    PROVE  Files(dir) \subseteq KeptBySize
<1>1. CASE ~SizeTooLarge
  <2>1. KeptBySize = Files(dir0) BY <1>1 DEF KeptBySize, SizeTooLarge
  <2> QED BY <2>1 DEF Leftover
<1>2. CASE SizeTooLarge
  <2>1. KeptBySize = FitsSize(Percent(maxsize)) BY <1>2 DEF KeptBySize, SizeTooLarge
  <2> SUFFICES ASSUME NEW s \in Files(dir) PROVE s \in FitsSize(Percent(maxsize))
    BY <2>1
  <2> DEFINE T == {t \in Files(dir0) : t >= s}
  <2>2. \A t \in Files(dir0) : t \in Nat BY Bounds DEF Files, Slot
  <2>3. T \in SUBSET Files(dir) BY <2>2 DEF Leftover
  <2>4. PICK g \in Directory : g = dir0 BY DEF Typed
  <2>5. Files(dir) \in SUBSET Slot BY DEF Files
  <2>6. T \in SUBSET Slot BY <2>3, <2>5
  <2> HIDE DEF T
  <2>7. SizeOf(g, T) <= SizeOf(g, Files(dir)) BY <2>3, <2>5, SizeMonotone
  <2>8. SizeOf(g, T) \in Nat BY <2>6, SizeBound
  <2>9. SizeOf(dir0, T) <= Percent(maxsize)
    BY <1>2, <2>4, <2>7, <2>8, SizeLeft, LimitTypes
  <2>10. s \in Files(dir0) BY DEF Leftover
  <2> QED BY <2>9, <2>10 DEF T, FitsSize
<1> QED BY <1>1, <1>2

LEMMA TooOldFile ==
    ASSUME Typed, NEW x \in Nat, TooOld, x < now - Percent(maxlife)
    PROVE  x \notin KeptByLife
<1>1. KeptByLife = FitsLife(Percent(maxlife)) BY DEF KeptByLife, TooOld
<1>2. ~(now - x <= Percent(maxlife)) BY LimitTypes
<1> QED BY <1>1, <1>2 DEF FitsLife

LEMMA YoungEnough ==
    ASSUME Typed, Leftover,
           TooOld => \A s \in Files(dir) : ~(s < now - Percent(maxlife))
    PROVE  Files(dir) \subseteq KeptByLife
<1>1. CASE ~TooOld
  <2>1. KeptByLife = Files(dir0) BY <1>1 DEF KeptByLife, TooOld
  <2> QED BY <2>1 DEF Leftover
<1>2. CASE TooOld
  <2>1. KeptByLife = FitsLife(Percent(maxlife)) BY <1>2 DEF KeptByLife, TooOld
  <2>2. \A s \in Files(dir) : s \in Nat /\ s \in Files(dir0) BY Bounds DEF Leftover, Files, Slot
  <2>3. \A s \in Files(dir) : now - s <= Percent(maxlife) BY <1>2, <2>2, LimitTypes
  <2> QED BY <2>1, <2>2, <2>3 DEF FitsLife
<1> QED BY <1>1, <1>2

-----------------------------------------------------------------------------
(* The steps of the loop, the alarm and the end                            *)

LEMMA KeepStep == ASSUME IInv, Keep PROVE IInv'
<1>1. /\ Looping /\ ~Victim(e, ds) /\ UNCHANGED <<pc, now, dir, timeout, failed, dir0, exact>>
      /\ ds' = ExpireStat(e, ds, 0, FALSE) /\ e' = ExpireLoop(e, ds, FALSE, timeout)
      /\ pc = "loop" /\ ~e.done
  BY DEF Keep, Looping
<1>2. PICK x : x = NextFile(e) OBVIOUS
<1>3. /\ ds' \in StatType /\ e' \in LoopType /\ ds'.numfiles = ds.numfiles
      /\ ds'.filesize = ds.filesize /\ e'.todo = e.todo \ {x}
      /\ e'.sizelimit = e.sizelimit /\ e'.timelimit = e.timelimit
      /\ e'.num_expired = e.num_expired
      /\ e'.size_done = SizeDone(e, ds) /\ e'.lifetime_done = LifeDone(e, ds)
      /\ e'.done = (~SizeVictim(e, ds) /\ ((SizeDone(e, ds) /\ LifeDone(e, ds)) \/ timeout))
      /\ x \in e.todo /\ x \in Nat /\ \A s \in e.todo : x <= s
      /\ \A s \in e'.todo, t \in Files(dir0) : s < t => t \in e'.todo
      /\ SizeTooLarge' = SizeTooLarge /\ TooOld' = TooOld /\ KeptByBoth' = KeptByBoth
      /\ Percent(maxsize)' = Percent(maxsize) /\ Percent(maxlife)' = Percent(maxlife)
  BY <1>1, <1>2, LoopStep
<1>4. ~SizeVictim(e, ds) /\ ~LifeVictim(e, ds) BY <1>1 DEF Victim
<1>5. e'.size_done /\ e'.lifetime_done /\ e'.done
  BY <1>1, <1>3, <1>4 DEF SizeDone, LifeDone
<1>6. Typed' BY <1>1, <1>3 DEF Typed, IInv
<1>7. Leftover' BY <1>1, <1>3 DEF Leftover, IInv
<1>8. Counted' BY <1>1, <1>3 DEF Counted, IInv
<1>9. Ordered' BY <1>1, <1>5 DEF Ordered, IInv
<1>10. ASSUME exact, ~failed, ~timeout PROVE InLoop'
  <2>1. InLoop /\ e.todo = Files(dir) BY <1>1, <1>10 DEF IInv, Verdict, Ordered
  <2>2. SizeTooLarge => DirSize(dir) <= Percent(maxsize)
    <3>1. ASSUME SizeTooLarge, ~e.size_done PROVE DirSize(dir) <= Percent(maxsize)
      <4>1. ds.filesize = DirSize(dir) /\ e.sizelimit = Percent(maxsize)
        BY <1>10, <2>1 DEF IInv, Counted, InLoop
      <4>2. ~(DirSize(dir) > Percent(maxsize)) BY <1>4, <3>1, <4>1 DEF SizeVictim
      <4> QED BY <4>2, SizeLeft, LimitTypes DEF IInv
    <3> QED BY <2>1, <3>1 DEF InLoop
  <2>3. TooOld => \A s \in Files(dir) : ~(s < now - Percent(maxlife))
    <3> SUFFICES ASSUME TooOld, NEW s \in Files(dir) PROVE ~(s < now - Percent(maxlife))
      OBVIOUS
    <3>1. ~e.lifetime_done /\ e.timelimit = now - Percent(maxlife) BY <1>1, <2>1 DEF InLoop
    <3>2. ~(x < now - Percent(maxlife)) BY <1>2, <1>4, <3>1 DEF LifeVictim
    <3>3. x <= s /\ s \in Nat BY <1>3, <2>1, Bounds DEF Files, Slot
    <3> QED BY <1>3, <3>2, <3>3, LimitTypes DEF IInv
  <2>4. Files(dir) \subseteq KeptBySize
    BY <1>10, <2>2, SmallEnough DEF IInv, Ordered
  <2>5. Files(dir) \subseteq KeptByLife BY <2>3, YoungEnough DEF IInv
  <2>6. Files(dir) \subseteq KeptByBoth BY <2>4, <2>5 DEF KeptByBoth
  <2>7. (SizeTooLarge => DirSize(dir) <= e.sizelimit) BY <2>1, <2>2 DEF InLoop
  <2>8. (\A s \in Files(dir0) \ Files(dir) : s \notin KeptByBoth)'
    BY <1>1, <1>3, <2>1 DEF InLoop
  <2>9. /\ e'.sizelimit = Percent(maxsize)' /\ e'.timelimit = now' - Percent(maxlife)'
        /\ Files(dir)' \subseteq KeptByBoth'
        /\ SizeTooLarge' => DirSize(dir)' <= e'.sizelimit
    BY <1>1, <1>3, <2>1, <2>6, <2>7 DEF InLoop
  <2> QED BY ONLY <1>5, <2>8, <2>9 DEF InLoop
<1>11. Verdict' BY <1>1, <1>10 DEF Verdict
<1> QED BY <1>6, <1>7, <1>8, <1>9, <1>11 DEF IInv

LEMMA UnlinkStep == ASSUME IInv, Unlink PROVE IInv'
<1>1. PICK x : x = NextFile(e) OBVIOUS
<1>2. /\ Looping /\ Victim(e, ds) /\ UNCHANGED <<pc, now, timeout, failed, dir0, exact>>
      /\ dir' = [dir EXCEPT ![x] = 0]
      /\ ds' = ExpireStat(e, ds, dir[x], TRUE) /\ e' = ExpireLoop(e, ds, TRUE, timeout)
      /\ pc = "loop" /\ ~e.done
  BY <1>1 DEF Unlink, Looping
<1>3. x \in e.todo /\ x \in Files(dir)
  <2>1. e.todo \in SUBSET Slot /\ e.todo # {}
    BY <1>2 DEF IInv, Typed, LoopType, Looping
  <2>2. x \in e.todo BY <1>1, <2>1, Oldest DEF NextFile
  <2> QED BY <2>2 DEF IInv, Leftover
<1>4. /\ dir' \in Directory /\ Files(dir') = Files(dir) \ {x}
      /\ \A s \in Files(dir') : dir'[s] = dir[s]
      /\ dir[x] \in Nat /\ DirSize(dir') = DirSize(dir) - dir[x]
      /\ Cardinality(Files(dir')) = Cardinality(Files(dir)) - 1
  <2>1. PICK d \in Directory : d = dir BY DEF IInv, Typed
  <2>2. PICK g \in Directory : g = dir'
    <3>1. dir' \in Directory BY <1>2, <2>1 DEF Directory
    <3> QED BY <3>1
  <2>3. x \in Files(d) /\ g[x] = 0 /\ \A s \in Slot : s # x => g[s] = d[s]
    BY <1>2, <1>3, <2>1, <2>2 DEF Directory, Files
  <2>4. /\ Files(g) = Files(d) \ {x}
        /\ \A s \in Files(g) : g[s] = d[s]
        /\ d[x] \in Nat /\ DirSize(g) = DirSize(d) - d[x]
        /\ Cardinality(Files(g)) = Cardinality(Files(d)) - 1
    BY <2>3, Removed
  <2> QED BY <2>1, <2>2, <2>4
<1>5. /\ Cardinality(Files(dir)) \in Nat /\ Cardinality(Files(dir0)) \in Nat
      /\ DirSize(dir) \in 0..(Wrap - 1) /\ DirSize(dir') \in 0..(Wrap - 1)
  <2>1. \A d \in Directory : Cardinality(Files(d)) \in 0..MaxSlot /\ DirSize(d) \in 0..(Wrap - 1)
    BY FilesCount
  <2> QED BY <1>4, <2>1, Bounds DEF IInv, Typed
<1>6. /\ ds' \in StatType /\ e' \in LoopType /\ ds'.numfiles = ds.numfiles
      /\ ds'.filesize = (ds.filesize - dir[x]) % Wrap /\ e'.todo = e.todo \ {x}
      /\ e'.sizelimit = e.sizelimit /\ e'.timelimit = e.timelimit
      /\ e'.num_expired = e.num_expired + 1
      /\ e'.size_done = SizeDone(e, ds) /\ e'.lifetime_done = LifeDone(e, ds)
      /\ e'.done = (~SizeVictim(e, ds) /\ ((SizeDone(e, ds) /\ LifeDone(e, ds)) \/ timeout))
      /\ x \in e.todo /\ x \in Nat /\ \A s \in e.todo : x <= s
      /\ \A s \in e'.todo, t \in Files(dir0) : s < t => t \in e'.todo
      /\ SizeTooLarge' = SizeTooLarge /\ TooOld' = TooOld /\ KeptByBoth' = KeptByBoth
      /\ Percent(maxsize)' = Percent(maxsize) /\ Percent(maxlife)' = Percent(maxlife)
  <2>1. PICK size \in Nat : size = dir[x] BY <1>4
  <2>2. ds' = ExpireStat(e, ds, size, TRUE) BY <1>2, <2>1
  <2> QED BY <1>1, <1>2, <2>1, <2>2, LoopStep
<1>7. Typed' BY <1>2, <1>4, <1>6 DEF Typed, IInv
<1>8. Leftover'
  <2>1. /\ Files(dir)' \subseteq Files(dir0)' /\ (\A s \in Files(dir) : dir[s] = dir0[s])'
        /\ e'.todo \subseteq Files(dir)'
    BY <1>2, <1>4, <1>6 DEF Leftover, IInv
  <2>2. e'.num_expired = Cardinality(Files(dir0)') - Cardinality(Files(dir)')
    <3>1. e.num_expired = Cardinality(Files(dir0)) - Cardinality(Files(dir))
      BY DEF Leftover, IInv
    <3>2. e'.num_expired = Cardinality(Files(dir0)) - Cardinality(Files(dir'))
      BY <1>4, <1>5, <1>6, <3>1
    <3> QED BY <1>2, <3>2
  <2> QED BY <1>2, <1>6, <2>1, <2>2 DEF Leftover
<1>9. Counted'
  <2>1. ASSUME exact PROVE ds'.filesize = DirSize(dir')
    <3>1. ds.filesize - dir[x] = DirSize(dir') BY <1>4, <2>1 DEF IInv, Counted
    <3> QED BY <1>5, <1>6, <3>1, Modulo, Bounds
  <2> QED BY <1>2, <1>6, <2>1 DEF Counted, IInv
<1>10. Ordered'
  <2>1. ASSUME ~failed PROVE /\ e'.todo = Files(dir')
                             /\ \A kept \in Files(dir'), gone \in Files(dir0) \ Files(dir') :
                                   gone < kept
    <3>1. e.todo = Files(dir) BY <1>2, <2>1 DEF IInv, Ordered
    <3> SUFFICES ASSUME NEW kept \in Files(dir'), NEW gone \in Files(dir0) \ Files(dir')
                 PROVE  gone < kept
      BY <1>4, <1>6, <3>1
    <3>2. kept \in Files(dir) /\ kept # x /\ x <= kept /\ kept \in Nat
      BY <1>4, <1>6, <3>1, Bounds DEF Files, Slot
    <3>3. gone = x \/ gone \in Files(dir0) \ Files(dir) BY <1>4
    <3> QED BY <1>6, <2>1, <3>2, <3>3 DEF IInv, Ordered
  <2> QED BY <1>2, <2>1 DEF Ordered
<1>11. ASSUME exact, ~failed, ~timeout PROVE InLoop'
  <2>1. InLoop /\ e.todo = Files(dir) BY <1>2, <1>11 DEF IInv, Verdict, Ordered
  <2>2. ds.filesize = DirSize(dir) /\ e.sizelimit = Percent(maxsize)
    BY <1>11, <2>1 DEF IInv, Counted, InLoop
  <2>3. x \notin KeptByBoth
    <3>1. CASE SizeVictim(e, ds)
      <4>1. SizeTooLarge /\ DirSize(dir) > Percent(maxsize)
        BY <2>1, <2>2, <3>1 DEF SizeVictim, InLoop
      <4>2. x \notin KeptBySize BY <1>6, <2>1, <4>1, TooMuch DEF IInv
      <4> QED BY <4>2 DEF KeptByBoth
    <3>2. CASE LifeVictim(e, ds)
      <4>1. TooOld /\ x < now - Percent(maxlife)
        BY <1>1, <2>1, <3>2 DEF LifeVictim, InLoop
      <4>2. x \notin KeptByLife BY <1>6, <4>1, TooOldFile DEF IInv
      <4> QED BY <4>2 DEF KeptByBoth
    <3> QED BY <1>2, <3>1, <3>2 DEF Victim
  <2>4. (\A s \in Files(dir0) \ Files(dir) : s \notin KeptByBoth)'
    BY <1>2, <1>4, <1>6, <2>1, <2>3 DEF InLoop
  <2>5. ~e'.done /\ e'.lifetime_done = e.lifetime_done
    <3>1. LifeDone(e, ds) = e.lifetime_done
      BY <1>2 DEF LifeDone, IInv, Typed, LoopType
    <3>2. ~SizeVictim(e, ds) => ~e.lifetime_done BY <1>2 DEF Victim, LifeVictim
    <3> QED BY <1>6, <1>11, <3>1, <3>2
  <2>6. DirSize(dir') <= DirSize(dir) /\ DirSize(dir') \in Nat /\ DirSize(dir) \in Nat
    BY <1>4, <1>5, Bounds
  <2>7. ASSUME e'.size_done, SizeTooLarge PROVE DirSize(dir') <= Percent(maxsize)
    <3>1. DirSize(dir) <= Percent(maxsize)
      <4>1. CASE e.size_done BY <2>1, <2>2, <2>7, <4>1 DEF InLoop
      <4>2. CASE ~e.size_done
        <5>1. ~SizeVictim(e, ds) BY <1>6, <2>7, <4>2 DEF SizeDone
        <5>2. ~(DirSize(dir) > Percent(maxsize)) BY <2>2, <4>2, <5>1 DEF SizeVictim
        <5> QED BY <2>6, <5>2, LimitTypes DEF IInv
      <4> QED BY <4>1, <4>2
    <3> QED BY <2>6, <3>1, LimitTypes DEF IInv
  <2>8. ~e'.size_done => SizeTooLarge
    BY <1>6, <2>1 DEF SizeDone, InLoop, IInv, Typed, LoopType
  <2>9. /\ e'.sizelimit = Percent(maxsize)' /\ e'.timelimit = now' - Percent(maxlife)'
        /\ ~e'.size_done => SizeTooLarge'
        /\ e'.size_done /\ SizeTooLarge' => DirSize(dir)' <= e'.sizelimit
        /\ ~e'.lifetime_done => TooOld'
        /\ ~e'.done /\ e'.lifetime_done => ~TooOld'
        /\ ~e'.done
    BY <1>2, <1>6, <2>1, <2>5, <2>7, <2>8 DEF InLoop
  <2> QED BY ONLY <2>4, <2>9 DEF InLoop
<1>12. Verdict' BY <1>2, <1>11 DEF Verdict
<1> QED BY <1>7, <1>8, <1>9, <1>10, <1>12 DEF IInv

LEMMA UnlinkFailsStep == ASSUME IInv, UnlinkFails PROVE IInv'
<1>1. /\ Looping /\ Victim(e, ds) /\ UNCHANGED <<pc, now, timeout, dir, dir0, exact>>
      /\ ds' = ExpireStat(e, ds, dir[NextFile(e)], FALSE) /\ failed' = TRUE
      /\ e' = ExpireLoop(e, ds, FALSE, timeout) /\ pc = "loop"
  BY DEF UnlinkFails, Looping
<1>2. PICK size \in Nat : ds' = ExpireStat(e, ds, size, FALSE)
  <2>1. NextFile(e) \in Slot
    BY <1>1, Oldest DEF IInv, Typed, LoopType, Looping, NextFile
  <2>2. dir[NextFile(e)] \in Nat BY <2>1, Bounds DEF IInv, Typed, Directory
  <2> QED BY <1>1, <2>2
<1>3. /\ ds' \in StatType /\ e' \in LoopType /\ ds'.numfiles = ds.numfiles
      /\ ds'.filesize = ds.filesize /\ e'.todo = e.todo \ {NextFile(e)}
      /\ e'.num_expired = e.num_expired
      /\ \A s \in e'.todo, t \in Files(dir0) : s < t => t \in e'.todo
  BY <1>1, <1>2, LoopStep
<1>4. Typed' BY <1>1, <1>3 DEF Typed, IInv
<1>5. Leftover' BY <1>1, <1>3 DEF Leftover, IInv
<1>6. Counted' BY <1>1, <1>3 DEF Counted, IInv
<1>7. Ordered' /\ Verdict' BY <1>1 DEF Ordered, Verdict
<1> QED BY <1>4, <1>5, <1>6, <1>7 DEF IInv

LEMMA AlarmStep == ASSUME IInv, Alarm PROVE IInv'
<1>1. pc = "loop" /\ timeout' = TRUE /\ UNCHANGED <<pc, now, dir, ds, e, failed, dir0, exact>>
  BY DEF Alarm
<1>2. Typed' BY <1>1 DEF Typed, IInv
<1>3. Leftover' BY <1>1 DEF Leftover, IInv
<1>4. Counted' BY <1>1 DEF Counted, IInv
<1>5. Ordered' /\ Verdict' BY <1>1 DEF Ordered, Verdict, IInv
<1> QED BY <1>2, <1>3, <1>4, <1>5 DEF IInv

LEMMA EndStep == ASSUME IInv, End PROVE IInv'
<1>1. /\ pc = "loop" /\ (e.done \/ e.todo = {}) /\ ds' = ExpireEnd(e, ds, now)
      /\ pc' = "done" /\ UNCHANGED <<now, dir, e, timeout, failed, dir0, exact>>
  BY DEF End
<1>2. PICK count : count = IF e.num_expired > ds.numfiles THEN 0 ELSE ds.numfiles - e.num_expired
  OBVIOUS
<1>3. PICK first : first = IF e.done THEN ds.first ELSE ds.last OBVIOUS
<1>4. PICK f, l, st : /\ f = IF count = 0 THEN now ELSE first
                      /\ l = IF count = 0 THEN now ELSE ds.last
                      /\ st = IF count = 0 THEN "FORCE_REBUILD" ELSE ds.status
  OBVIOUS
<1>5. ds' = [ds EXCEPT !.first = f, !.last = l, !.numfiles = count, !.status = st]
  BY <1>1, <1>2, <1>3, <1>4 DEF ExpireEnd
<1>6. /\ ds \in StatType /\ ds.numfiles \in 0..MaxSlot /\ e.num_expired \in Nat /\ now \in Nat
      /\ ds.first \in Nat /\ ds.last \in Nat /\ ds.status \in {"OK", "FORCE_REBUILD"}
  BY Bounds DEF IInv, Typed, StatType, LoopType
<1>7. count \in 0..MaxSlot BY <1>2, <1>6, Bounds
<1>8. f \in Nat /\ l \in Nat /\ st \in {"OK", "FORCE_REBUILD"} BY <1>3, <1>4, <1>6
<1>9. /\ ds' \in StatType /\ ds'.max_size = ds.max_size /\ ds'.max_lifetime = ds.max_lifetime
      /\ ds'.low_water = ds.low_water /\ ds'.filesize = ds.filesize /\ ds'.numfiles = count
      /\ ds'.status = st
  BY ONLY <1>5, <1>6, <1>7, <1>8 DEF StatType
<1>10. Typed' BY <1>1, <1>9 DEF Typed, IInv
<1>11. Leftover' BY <1>1 DEF Leftover, IInv
<1>12. Counted'
  <2>1. \A d \in Directory : /\ Cardinality(Files(d)) \in Nat
                             /\ Cardinality(Files(d)) = 0 <=> Files(d) = {}
    BY FilesCount
  <2>2. ASSUME exact PROVE count = Cardinality(Files(dir))
    <3>1. ds.numfiles = Cardinality(Files(dir0)) BY <1>1, <2>2 DEF IInv, Counted
    <3>2. e.num_expired = Cardinality(Files(dir0)) - Cardinality(Files(dir))
      BY DEF IInv, Leftover
    <3>3. Cardinality(Files(dir)) \in Nat /\ Cardinality(Files(dir0)) \in Nat
      BY <2>1 DEF IInv, Typed
    <3> QED BY <1>2, <3>1, <3>2, <3>3
  <2>3. ASSUME exact, Files(dir) = {} PROVE st = "FORCE_REBUILD"
    <3>1. count = 0 BY <2>1, <2>2, <2>3 DEF IInv, Typed
    <3> QED BY <1>4, <3>1
  <2> QED BY <1>1, <1>9, <2>2, <2>3 DEF Counted, IInv
<1>13. Ordered' BY <1>1 DEF Ordered, IInv
<1>14. ASSUME exact, ~failed, ~timeout PROVE Files(dir)' = KeptByBoth'
  <2>1. InLoop BY <1>1, <1>14 DEF IInv, Verdict
  <2>2. Files(dir) \subseteq KeptByBoth
    <3>1. CASE e.done BY <2>1, <3>1 DEF InLoop
    <3>2. CASE ~e.done
      <4>1. Files(dir) = {} BY <1>1, <1>14, <3>2 DEF IInv, Ordered
      <4> QED BY <4>1
    <3> QED BY <3>1, <3>2
  <2>3. KeptByBoth \subseteq Files(dir0)
    BY DEF KeptByBoth, KeptBySize, FitsSize
  <2>4. Files(dir) = KeptByBoth BY <2>1, <2>2, <2>3 DEF InLoop
  <2>5. KeptByBoth' = KeptByBoth BY <1>1, <1>9, SameLimits DEF maxsize, maxlife, LowWater
  <2> QED BY <1>1, <2>4, <2>5
<1>15. Verdict' BY <1>1, <1>14 DEF Verdict
<1> QED BY <1>10, <1>11, <1>12, <1>13, <1>15 DEF IInv

-----------------------------------------------------------------------------
(* The theorems                                                            *)

LEMMA Step == IInv /\ [Next]_vars => IInv'
<1> SUFFICES ASSUME IInv, [Next]_vars PROVE IInv' OBVIOUS
<1>1. CASE UNCHANGED vars
  <2>1. UNCHANGED <<pc, now, dir, ds, e, timeout, failed, dir0, exact>> BY <1>1 DEF vars
  <2>2. /\ SizeTooLarge' = SizeTooLarge /\ TooOld' = TooOld /\ KeptByBoth' = KeptByBoth
        /\ Percent(maxsize)' = Percent(maxsize) /\ Percent(maxlife)' = Percent(maxlife)
    BY <2>1, SameLimits DEF maxsize, maxlife, LowWater
  <2>3. Typed' BY <2>1 DEF IInv, Typed
  <2>4. Leftover' BY <2>1 DEF IInv, Leftover
  <2>5. Counted' BY <2>1 DEF IInv, Counted
  <2>6. Ordered' BY <2>1 DEF IInv, Ordered
  <2>7. InLoop => InLoop' BY <2>1, <2>2 DEF InLoop
  <2>8. Verdict' BY <2>1, <2>2, <2>7 DEF IInv, Verdict
  <2> QED BY <2>3, <2>4, <2>5, <2>6, <2>8 DEF IInv
<1>2. CASE Next
  BY <1>2, BeginStep, CancelStep, KeepStep, UnlinkStep, UnlinkFailsStep, AlarmStep, EndStep
  DEF Next
<1> QED BY <1>1, <1>2

\* An undisturbed run of ExpireDir keeps exactly the newest files that satisfy
\* both limits at their water marks, and files go oldest first also when the
\* alarm ends it: for every directory, every limit and every water mark.
THEOREM ExpiresExactly == Spec => []KeepsExactly
<1>1. IInv => KeepsExactly
  BY DEF IInv, Ordered, Verdict, KeepsExactly, KeptByBoth
<1> QED BY <1>1, Start, Step, PTL DEF Spec

\* Unlink errors, the alarm and an operator who cancels included, a stat record
\* that counted all files counts all files that are left.
THEOREM RecordStaysExact == Spec => []RecordExact
<1>1. IInv => RecordExact
  <2> SUFFICES ASSUME IInv PROVE RecordExact OBVIOUS
  <2>1. TypeOK BY DEF IInv, Typed, StatType, LoopType, Directory, TypeOK
  <2> QED BY <2>1 DEF IInv, Counted, RecordExact
<1> QED BY <1>1, Start, Step, PTL DEF Spec

-----------------------------------------------------------------------------
(* The signals between the collector and the launcher                      *)

LEMMA LTypeInit == LInit => LTypeOK
<1> SUFFICES ASSUME LInit PROVE LTypeOK
  OBVIOUS
<1> USE MaxCyclesAssumption DEF LInit
<1>1. ran \in [1..(MaxCycles + 1) -> Nat] OBVIOUS
<1>2. comm \in [fname : 0..(MaxCycles + 1), tstamp : 0..(MaxCycles + 1)] OBVIOUS
<1>3. cycle \in 0..(MaxCycles + 1) /\ expired \in 0..(MaxCycles + 1) OBVIOUS
<1>4. launcher_alive \in BOOLEAN /\ (launcher_alive <=> lpc # "dead") OBVIOUS
<1>5. /\ launch \in BOOLEAN /\ cdone \in BOOLEAN /\ torn \in BOOLEAN
      /\ late \in BOOLEAN
  OBVIOUS
<1>6. /\ done \in 0..2 /\ child_exit \in Nat /\ kids \in Nat /\ zombies \in Nat
      /\ expanded \in Nat
  OBVIOUS
<1> HIDE DEF LInit
<1> QED BY <1>1, <1>2, <1>3, <1>4, <1>5, <1>6 DEF LTypeOK

\* SIGTERM counts to two, and then it ends the launcher.
LEMMA TermType == ASSUME LTypeOK, launcher_alive, Term
                  PROVE  /\ done' \in 0..2 /\ launch' \in BOOLEAN /\ child_exit' \in Nat
                         /\ launcher_alive' \in BOOLEAN
                         /\ launcher_alive' <=> lpc' # "dead"
<1>1. CASE lpc = "boot" \/ done > 1
  BY <1>1 DEF LTypeOK, Term, Die, handlerVars
<1>2. CASE ~(lpc = "boot" \/ done > 1)
  <2>1. Woken # "dead" BY DEF LTypeOK, Woken
  <2>2. done' \in 0..2 BY <1>2 DEF LTypeOK, Term
  <2> QED BY <1>2, <2>1, <2>2 DEF LTypeOK, Term
<1> QED BY <1>1, <1>2

LEMMA LTypeStep == LTypeOK /\ [LNext]_lvars => LTypeOK'
<1> SUFFICES ASSUME LTypeOK, [LNext]_lvars PROVE LTypeOK'
  OBVIOUS
<1> USE MaxCyclesAssumption
    DEF LTypeOK, collectorVars, handlerVars, workVars, Unsignalled,
        Woken, Die, Hup, At, GoTo, FirstJob
<1>1. CASE Stop BY <1>1 DEF Stop
<1>2. CASE Rotate BY <1>2 DEF Rotate
<1>3. CASE CommTime BY <1>3 DEF CommTime
<1>4. CASE SignalLauncher BY <1>4 DEF SignalLauncher
<1>5. CASE Kill BY <1>5, TermType DEF Kill
<1>6. CASE LauncherEnded BY <1>6 DEF LauncherEnded
<1>7. CASE Timeout BY <1>7, TermType DEF Timeout
<1>8. CASE WaitPid BY <1>8 DEF WaitPid
<1>9. CASE Boot BY <1>9 DEF Boot
<1>10. CASE Test BY <1>10 DEF Test
<1>11. CASE Sleep BY <1>11 DEF Sleep
<1>12. CASE Wake BY <1>12 DEF Wake
<1>13. CASE ExpandName BY <1>13 DEF ExpandName
<1>14. CASE Execute
  <2>1. ran' \in [1..(MaxCycles + 1) -> Nat]
    <3>1. expanded \in 1..(MaxCycles + 1) => ran[expanded] + 1 \in Nat OBVIOUS
    <3> QED BY <1>14, <3>1 DEF Execute
  <2>2. torn' \in BOOLEAN BY <1>14 DEF Execute
  <2> QED BY <1>14, <2>1, <2>2 DEF Execute
<1>15. CASE BeginExpire BY <1>15 DEF BeginExpire
<1>16. CASE EndExpire BY <1>16 DEF EndExpire
<1>17. CASE Reap
  <2>0. zombies' = 0 \/ zombies' = zombies BY <1>17, Zenon DEF Reap
  <2>1. zombies' \in Nat BY <2>0
  <2>2. lpc # "dead" /\ lpc' # "dead" /\ launcher_alive' = launcher_alive
    BY <1>17 DEF Reap
  <2> QED BY <1>17, <2>1, <2>2 DEF Reap
<1>18. CASE Reaped BY <1>18 DEF Reaped
<1>19. CASE Last BY <1>19 DEF Last
<1>20. CASE Exit BY <1>20 DEF Exit
<1>21. CASE KidExit BY SMTT(40), <1>21 DEF KidExit
<1>22. CASE UNCHANGED lvars BY <1>22 DEF lvars
<1> QED BY <1>1, <1>2, <1>3, <1>4, <1>5, <1>6, <1>7, <1>8, <1>9, <1>10, <1>11, <1>12,
           <1>13, <1>14, <1>15, <1>16, <1>17, <1>18, <1>19, <1>20, <1>21, <1>22
        DEF LNext, CollectorNext, LauncherNext

-----------------------------------------------------------------------------
(* A SIGHUP is not forgotten.                                                  *)
LEMMA HupInit == LInit => HupRemembered
BY DEF LInit, HupRemembered, Signalled

LEMMA HupStep == LTypeOK /\ HupRemembered /\ [LNext]_lvars => HupRemembered'
<1> SUFFICES ASSUME LTypeOK, HupRemembered, [LNext]_lvars PROVE HupRemembered'
  OBVIOUS
<1> USE MaxCyclesAssumption
    DEF LTypeOK, HupRemembered, Signalled, collectorVars, handlerVars, workVars, Unsignalled,
        Woken, Die, Hup, Term, At, GoTo, FirstJob
<1>1. CASE Stop BY <1>1 DEF Stop
<1>2. CASE Rotate BY <1>2 DEF Rotate
<1>3. CASE CommTime BY <1>3 DEF CommTime
<1>4. CASE SignalLauncher BY <1>4 DEF SignalLauncher
<1>5. CASE Kill BY <1>5 DEF Kill
<1>6. CASE LauncherEnded BY <1>6 DEF LauncherEnded
<1>7. CASE Timeout BY <1>7 DEF Timeout
<1>8. CASE WaitPid BY <1>8 DEF WaitPid
<1>9. CASE Boot BY <1>9 DEF Boot
<1>10. CASE Test BY <1>10 DEF Test
<1>11. CASE Sleep BY <1>11 DEF Sleep
<1>12. CASE Wake BY <1>12 DEF Wake
<1>13. CASE ExpandName BY <1>13 DEF ExpandName
<1>14. CASE Execute BY <1>14 DEF Execute
<1>15. CASE BeginExpire BY <1>15 DEF BeginExpire
<1>16. CASE EndExpire BY <1>16 DEF EndExpire
<1>17. CASE Reap BY <1>17 DEF Reap
<1>18. CASE Reaped BY <1>18 DEF Reaped
<1>19. CASE Last BY <1>19 DEF Last
<1>20. CASE Exit BY <1>20 DEF Exit
<1>21. CASE KidExit BY <1>21 DEF KidExit
<1>22. CASE UNCHANGED lvars BY <1>22 DEF lvars
<1> QED BY <1>1, <1>2, <1>3, <1>4, <1>5, <1>6, <1>7, <1>8, <1>9, <1>10, <1>11, <1>12,
           <1>13, <1>14, <1>15, <1>16, <1>17, <1>18, <1>19, <1>20, <1>21, <1>22
        DEF LNext, CollectorNext, LauncherNext

-----------------------------------------------------------------------------
(* As long as no file was finished too early, the launcher works on one file  *)
(* at a time: the collector only writes to commbuff while the launcher is      *)
(* idle, and a file that is announced or worked on was not handed to the       *)
(* command yet.                                                                *)
OneAtATime ==
    /\ cpc \in {"comm", "signal"} => lpc = "select" /\ ~launch /\ kids = 0 /\ ran[cycle] = 0
    /\ cpc # "comm" => comm = [fname |-> cycle, tstamp |-> cycle]
    /\ launch => lpc \in {"wake", "dead"} /\ ran[cycle] = 0
    /\ lpc \in {"fname", "tstamp"} => ran[cycle] = 0
    /\ lpc = "tstamp" => expanded = cycle
    /\ \A n \in 1..(MaxCycles + 1) : ran[n] <= 1 /\ (n > cycle => ran[n] = 0)
    /\ ~torn

InOrder == ~late => OneAtATime

SignalInv == LTypeOK /\ HupRemembered /\ InOrder

LEMMA OrderInit == LInit => InOrder
BY DEF LInit, InOrder, OneAtATime

\* SIGTERM announces no file.
LEMMA TermQuiet == Term => /\ launch' = launch
                           /\ \/ lpc' = lpc \/ lpc' = "dead"
                              \/ lpc \in {"select", "last"} /\ lpc' \in {"wake", "exit"}
BY DEF Term, Die, Woken, handlerVars

LEMMA OrderStep == LTypeOK /\ InOrder /\ [LNext]_lvars => InOrder'
<1> SUFFICES ASSUME LTypeOK, InOrder, [LNext]_lvars PROVE InOrder'
  OBVIOUS
<1> USE MaxCyclesAssumption
    DEF LTypeOK, InOrder, OneAtATime, IdleLauncher, collectorVars, handlerVars, workVars, Unsignalled,
        Woken, Die, Hup, At, GoTo, FirstJob
<1>1. CASE Stop BY <1>1 DEF Stop
<1>2. CASE Rotate
  <2> SUFFICES ASSUME ~late, IdleLauncher PROVE OneAtATime'
    BY <1>2 DEF Rotate
  <2>1. /\ cycle' = cycle + 1 /\ cycle' \in 1..(MaxCycles + 1) /\ cpc' = "comm"
        /\ UNCHANGED <<lpc, launch, kids, ran, torn>>
    BY <1>2 DEF Rotate
  <2>2. ran'[cycle'] = 0 BY <2>1
  <2>3. \A n \in 1..(MaxCycles + 1) : ran'[n] <= 1 /\ (n > cycle' => ran'[n] = 0)
    BY <2>1
  <2> QED BY <2>1, <2>2, <2>3
<1>3. CASE CommTime BY <1>3 DEF CommTime
<1>4. CASE SignalLauncher BY <1>4 DEF SignalLauncher
<1>5. CASE Kill BY <1>5, TermQuiet DEF Kill
<1>6. CASE LauncherEnded BY <1>6 DEF LauncherEnded
<1>7. CASE Timeout BY <1>7, TermQuiet DEF Timeout
<1>8. CASE WaitPid BY <1>8 DEF WaitPid
<1>9. CASE Boot BY <1>9 DEF Boot
<1>10. CASE Test BY <1>10 DEF Test
<1>11. CASE Sleep BY <1>11 DEF Sleep
<1>12. CASE Wake BY <1>12 DEF Wake
<1>13. CASE ExpandName BY <1>13 DEF ExpandName
<1>14. CASE Execute BY <1>14 DEF Execute
<1>15. CASE BeginExpire BY <1>15 DEF BeginExpire
<1>16. CASE EndExpire BY <1>16 DEF EndExpire
<1>17. CASE Reap BY <1>17 DEF Reap
<1>18. CASE Reaped BY <1>18 DEF Reaped
<1>19. CASE Last BY <1>19 DEF Last
<1>20. CASE Exit BY <1>20 DEF Exit
<1>21. CASE KidExit BY <1>21 DEF KidExit
<1>22. CASE UNCHANGED lvars BY <1>22 DEF lvars
<1> QED BY <1>1, <1>2, <1>3, <1>4, <1>5, <1>6, <1>7, <1>8, <1>9, <1>10, <1>11, <1>12,
           <1>13, <1>14, <1>15, <1>16, <1>17, <1>18, <1>19, <1>20, <1>21, <1>22
        DEF LNext, CollectorNext, LauncherNext

-----------------------------------------------------------------------------
LEMMA LInvariance == LSpec => []SignalInv
<1>1. LInit => SignalInv BY LTypeInit, HupInit, OrderInit DEF SignalInv
<1>2. SignalInv /\ [LNext]_lvars => SignalInv' BY LTypeStep, HupStep, OrderStep DEF SignalInv
<1> QED BY <1>1, <1>2, PTL DEF LSpec

\* Type correctness of the signals between collector and launcher.
THEOREM SignalsTyped == LSpec => []LTypeOK
<1>1. SignalInv => LTypeOK BY DEF SignalInv
<1> QED BY <1>1, LInvariance, PTL

\* A launcher never loses the SIGHUP of a cycle it has not expired for.
THEOREM SignalNotLost == LSpec => []HupRemembered
<1>1. SignalInv => HupRemembered BY DEF SignalInv
<1> QED BY <1>1, LInvariance, PTL

\* As long as the launcher is idle when a file is finished, no command is run
\* twice for a file or with the time of another one.
THEOREM CommandsExact == LSpec => []CommandOnce
<1>1. SignalInv => CommandOnce BY DEF SignalInv, InOrder, OneAtATime, CommandOnce
<1> QED BY <1>1, LInvariance, PTL
=============================================================================
