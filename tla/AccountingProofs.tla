-------------------------- MODULE AccountingProofs --------------------------
(***************************************************************************)
(* Proofs about Accounting, for any set of scenes, any size of the files,  *)
(* any limits and any number of slots.                                     *)
(*                                                                         *)
(* AccountsExact speaks of the moments when nobody is at work.  What makes *)
(* it inductive is what the files on the disk are worth at every other     *)
(* moment (IInv):                                                          *)
(*   Typed   the types, with numbers of any size where the code wraps;     *)
(*   Times   no file is of a slot to come, the collector's is the latest;  *)
(*   Places  who can be where with the lock, the books and the stat file,  *)
(*           whatever raced;                                               *)
(*   Core    as long as nothing raced: the record that counts, which is    *)
(*           in the stat file or in the hands of the collector or of the   *)
(*           one expirer with the lock, knows the files up to its last one *)
(*           and the books know all later ones but those in flight         *)
(*           (Cover); once the collector has folded its books into it, it  *)
(*           knows them all (Folded).  LoopGood says the same of an        *)
(*           expirer half way through its list.                            *)
(***************************************************************************)
EXTENDS Accounting, FiniteSetTheorems, NaturalsInduction, WellFoundedInduction, TLAPS

-----------------------------------------------------------------------------
(* Types                                                                   *)

Directory(z) == [Slot -> {0, z}]

StatRec == [first : Nat, last : Nat, numfiles : Nat, filesize : 0..(Wrap - 1),
            max_size : Nat, max_lifetime : {0}, low_water : 0..100,
            status : {"OK", "FORCE_REBUILD"}]

BookRec == [first : Nat, last : Nat, numfiles : Nat, filesize : 0..(Wrap - 1),
            sequence : Nat]

LoopRec == [todo : SUBSET Slot, size_done : BOOLEAN, lifetime_done : {TRUE},
            sizelimit : Nat, timelimit : Int, num_expired : Nat, done : BOOLEAN]

\* Where an expirer can be: without the lock, before a second write, with it.
Before  == {"idle", "open", "create", "lockNew", "lock"}
Again   == {"reopen", "relock"}
Shared  == {"begin", "loop", "trunc", "write"}
Merging == {"scan", "wipe", "merge"}
Syncing == {"sync", "seq0", "nscan", "seq1", "seq2", "nwipe", "param", "finish"}
Working == Shared \cup Merging \cup Syncing

Modes == {"none", "auto", "list", "rescan", "expire", "update"}

ExpirerRec(z) ==
    [pc : Before \cup Again \cup Working, mode : Modes, ds : StatRec, rescan : BOOLEAN,
     seg : {"none", "live", "removed"}, copy : BookRec, seq : Nat, tries : Nat,
     noFiles : BOOLEAN, again : BOOLEAN, arg : Nat, listed : Directory(z), e : LoopRec]

CollectorPCs == {"run", "renamed", "fold", "foldTrunc", "foldWrite", "destroy", "down"}
CollectorRec == [pc : CollectorPCs, t_start : Nat, done : BOOLEAN, ds : StatRec]
StatFile     == [state : {"none", "empty", "full"}, rec : StatRec]

Typed == /\ scene \in Scenes
         /\ now \in Nat /\ dir \in Directory(scene.size)
         /\ col \in CollectorRec
         /\ shm \in BOOLEAN /\ books \in BookRec
         /\ statfile \in StatFile
         /\ lock \in Expirers \cup {Collector, Nobody}
         /\ x \in [Expirers -> ExpirerRec(scene.size)]

-----------------------------------------------------------------------------
(* Who is where, whatever raced                                            *)

\* No file is of a slot to come.
Times == /\ now \in 1..(scene.slots + 1)
         /\ col.t_start \in 1..now
         /\ Files(dir) \subseteq 1..now
         /\ col.pc # "down" => Files(dir) \subseteq 1..col.t_start
         /\ col.pc = "renamed" => /\ col.t_start <= scene.slots
                                  /\ ~col.done => col.t_start < now

BooksShape(b) == IF b.numfiles = 0 THEN b.first = 0 /\ b.last = 0 /\ b.filesize = 0
                 ELSE b.first # 0

\* An expirer p with the variables r, when l holds the lock and the stat file is st.
PlaceIs(p, r, l, st) ==
    /\ l = p <=> r.pc \in Working
    /\ p = "launcher" => /\ r.pc \in Before \cup Shared \cup Merging
                         /\ r.pc # "idle" => r.mode = "auto"
                         /\ ~r.again /\ ~r.noFiles /\ r.seg # "removed"
    /\ p # "launcher" => /\ r.pc \in Before \cup Again \cup Shared \cup Syncing
                         /\ r.mode # "auto"
    /\ r.pc \notin {"idle", "open", "create"} => st # "none"
    /\ r.pc \in Before => r.seg = "none" /\ ~r.noFiles
    /\ r.pc \in {"scan", "wipe"} => r.rescan

Places == /\ \A p \in Expirers : PlaceIs(p, x[p], lock, statfile.state)
          /\ col.pc \in {"foldTrunc", "foldWrite"} => lock = Collector
          /\ lock = Collector => col.pc \in {"foldTrunc", "foldWrite", "destroy"}
          /\ col.pc \in {"fold", "foldTrunc", "foldWrite"} => Launchers = {}
          /\ lock = Collector => Launchers = {}
          /\ ~shm => col.pc = "down"
          /\ BooksShape(books)

-----------------------------------------------------------------------------
(* What accounts for the files of a directory d                            *)

\* The files a record knows.
Known(ds, d) == {s \in Files(d) : s <= ds.last}

\* The record counts the files it knows.
Fits(ds, d) == /\ ds.last \in Files(d) /\ ds.first \in 1..ds.last
               /\ ds.numfiles = Cardinality(Known(ds, d))
               /\ ds.filesize = SizeOf(d, Known(ds, d))

\* Next to the files in K, which end at last, the books count all but those in
\* flight, in F.
Rest(K, d, F) == Files(d) \ (K \cup F)
Cover(K, last, b, d, F) ==
    /\ K \subseteq Files(d) /\ F \subseteq Files(d)
    /\ last \in K \/ (last = 0 /\ K = {})
    /\ \A s \in K : s <= last
    /\ b.numfiles = Cardinality(Rest(K, d, F)) /\ b.filesize = SizeOf(d, Rest(K, d, F))
    /\ \A s \in Rest(K, d, F) : last < s /\ s <= b.last
    /\ Rest(K, d, F) # {} => b.last \in Rest(K, d, F) /\ last < b.first
    /\ \A t \in F : last < t /\ b.last < t

\* After the collector has folded its books into the record, they count files
\* that the record knows.
Folded(K, last, b, d) == Files(d) = K /\ last \in K /\ (\A s \in K : s <= last) /\ b.last <= last

Account(K, last, b, d, F, folded) ==
    IF folded THEN Folded(K, last, b, d) ELSE Cover(K, last, b, d, F)

\* A record that claims to be OK, and the books, account for the directory.
Good(ds, b, d, F, folded) ==
    ds.status = "OK" => /\ Fits(ds, d)
                        /\ Account(Known(ds, d), ds.last, b, d, F, folded)

Ended == col.pc = "destroy" /\ Launchers = {}

-----------------------------------------------------------------------------
(* What the collector and the expirers have in their hands                 *)

\* An expirer that has not taken from the books yet.
Clean(r) == r.pc \in {"scan", "wipe", "sync"} \/ (r.pc = "merge" /\ ~r.rescan)

\* The stat file is still what counts: nobody has taken from the books.
Untouched == \/ lock = Nobody
             \/ lock = Collector /\ col.pc = "foldTrunc"
             \/ \E p \in Expirers : lock = p /\ Clean(x[p])

FileGood == /\ Untouched /\ RecordOK => Good(statfile.rec, books, dir, InFlight, Ended)
            /\ lock = Collector /\ col.pc # "foldTrunc" => ~RecordOK

FoldGood == col.pc \in {"foldTrunc", "foldWrite"} =>
                col.ds.status = "OK" /\ Good(col.ds, books, dir, {}, TRUE)

\* What a scan has found, before anything else happens.
Scanned(ds, d) ==
    IF Files(d) = {} THEN ds.status = "FORCE_REBUILD" /\ ds.filesize = 0
    ELSE ds.status = "OK" /\ Fits(ds, d) /\ Known(ds, d) = Files(d)

\* A record that is not OK counts nothing, or the files it knows.
Modest(ds, d) == ds.status # "OK" =>
    ds.filesize = 0 \/ (ds.last \in Files(d) /\ ds.filesize = SizeOf(d, Known(ds, d)))

\* The files on the list that a record counts.
OnList(listed, ds) == {s \in Files(listed) : s <= ds.last}

LoopGood(r, b, d, F, folded) ==
    LET C == OnList(r.listed, r.ds) IN
    /\ \A s \in Slot : r.listed[s] # 0 => d[s] = r.listed[s]
    /\ ~r.e.done => r.e.todo = Files(r.listed)
    /\ r.e.done => r.e.size_done
    /\ r.ds.low_water \in 1..100 /\ r.e.sizelimit = SizeLimit(r.ds, r.ds.max_size)
    /\ r.e.size_done => \/ r.ds.max_size = 0 \/ r.ds.filesize < r.ds.max_size
                        \/ r.ds.filesize <= r.e.sizelimit
    /\ IF r.ds.status = "OK"
       THEN /\ r.ds.filesize = SizeOf(r.listed, C)
            /\ r.ds.numfiles = r.e.num_expired + Cardinality(C)
            /\ C # {} => /\ r.ds.first \in 1..r.ds.last
                         /\ r.ds.last \in C
                         /\ Account(C, r.ds.last, b, d, F, folded)
       ELSE r.ds.filesize \in {0, SizeOf(r.listed, C)}

\* What an expirer r has in its hands at its place: next to the books b, the
\* directory d and the files in flight F; folded is Ended, up says that the books
\* are in memory, ok that the stat file claims to be OK.
PhaseOf(r, b, d, F, folded, up, ok) ==
    /\ r.pc \in (Merging \cup Syncing) \ {"param", "finish"} /\ r.seg # "live" => ~up
    /\ r.pc \in {"sync", "merge"} /\ ~r.rescan =>
          /\ r.ds.status = "OK" /\ Good(r.ds, b, d, F, folded)
          /\ r.seg = "removed" => r.copy.numfiles = 0 \/ r.copy.last <= r.ds.last
    /\ r.pc = "merge" /\ r.rescan =>
          /\ Good(r.ds, b, d, F, FALSE)
          /\ r.ds.status # "OK" => r.ds.filesize = 0 /\ Cover({}, 0, b, d, F)
    /\ r.pc \in {"wipe", "seq1", "seq2", "nwipe"} => F = {} /\ Scanned(r.ds, d)
    /\ r.pc \in {"begin", "param", "finish", "trunc", "write"} \cup Again =>
          Good(r.ds, b, d, F, folded)
    /\ r.pc = "begin" => Modest(r.ds, d)
    /\ r.pc = "loop" => LoopGood(r, b, d, F, folded)
    /\ r.pc \in Syncing \cup {"begin", "loop"} /\ r.noFiles => ~ok
    /\ r.pc \in {"seq0", "nscan", "seq1", "seq2"} /\ ok => Files(d) # {}

Phase(p) == PhaseOf(x[p], books, dir, InFlight, Ended, shm, RecordOK)

Core == /\ FileGood /\ FoldGood
        /\ col.pc = "down" => books.numfiles = 0
        /\ Rewriting => lock = Nobody
        /\ \A p \in Expirers : Phase(p)

IInv == Typed /\ Times /\ Places /\ (raced = {} => Core)

-----------------------------------------------------------------------------
(* Numbers and sizes                                                       *)

\* A full directory of files of size z is smaller than 2^64.
SizeFits(z) == z \in Nat \ {0} /\ MaxSlot * z < Wrap

LEMMA Bounds == /\ MaxSlot \in Nat /\ MaxSlot >= 1 /\ Wrap \in Nat /\ Wrap >= 1
                /\ IsFiniteSet(Slot) /\ Cardinality(Slot) = MaxSlot
                /\ \A s \in Slot : s \in Nat /\ s >= 1
<1>1. MaxSlot \in Nat /\ MaxSlot >= 1 /\ Wrap \in Nat /\ Wrap >= 1
  BY MaxSlotAssumption, WrapAssumption
<1>2. IsFiniteSet(Slot) /\ Cardinality(Slot) = MaxSlot BY <1>1, FS_Interval DEF Slot
<1>3. \A s \in Slot : s \in Nat /\ s >= 1 BY <1>1 DEF Slot
<1> QED BY <1>1, <1>2, <1>3

LEMMA Modulo == \A a \in Int : /\ a % Wrap \in 0..(Wrap - 1)
                               /\ a \in 0..(Wrap - 1) => a % Wrap = a
BY Bounds

LEMMA Least == ASSUME NEW T \in SUBSET Nat, T # {}
               PROVE  Min(T) \in T /\ \A s \in T : Min(T) <= s
<1> DEFINE less == {ss \in Nat \X Nat : ss[1] < ss[2]}
<1>1. IsWellFoundedOn(less, Nat) BY NatLessThanWellFounded DEF OpToRel
<1>2. PICK m \in T : \A y \in T : <<y, m>> \notin less BY <1>1, WFMin
<1>3. \A y \in T : ~(y < m) BY <1>2
<1>4. \E m2 \in T : \A y \in T : m2 <= y BY <1>3
<1> QED BY <1>4 DEF Min

LEMMA Oldest == ASSUME NEW T \in SUBSET Slot, T # {}
                PROVE  Min(T) \in T /\ Min(T) \in Nat /\ \A s \in T : Min(T) <= s
<1>1. T \in SUBSET Nat BY Bounds
<1> QED BY <1>1, Least

LEMMA Newest == ASSUME NEW T \in SUBSET Slot, T # {}
                PROVE  Max(T) \in T /\ Max(T) \in Nat /\ \A s \in T : s <= Max(T)
<1> DEFINE ages == {MaxSlot - s : s \in T}
<1>1. ages \in SUBSET Nat /\ ages # {}
  <2>1. \A s \in T : MaxSlot - s \in Nat BY Bounds DEF Slot
  <2> QED BY <2>1
<1>2. Min(ages) \in ages /\ \A a \in ages : Min(ages) <= a BY <1>1, Least
<1> HIDE DEF ages
<1>3. PICK m \in T : Min(ages) = MaxSlot - m BY <1>2 DEF ages
<1>4. \A s \in T : MaxSlot - m <= MaxSlot - s BY <1>2, <1>3 DEF ages
<1>5. \A s \in T : s \in Nat /\ s <= m BY <1>4, Bounds DEF Slot
<1>6. \E y \in T : \A s \in T : y >= s BY <1>5
<1>7. Max(T) \in T /\ \A s \in T : Max(T) >= s BY <1>6 DEF Max
<1> QED BY <1>5, <1>7

LEMMA SizeBound == ASSUME NEW z, SizeFits(z), NEW d \in Directory(z), NEW S \in SUBSET Slot
                   PROVE  /\ IsFiniteSet(Units(d, S)) /\ IsFiniteSet(S)
                          /\ SizeOf(d, S) \in 0..(Wrap - 1) /\ SizeOf(d, S) \in Nat
                          /\ Cardinality(S) \in Nat /\ (Cardinality(S) = 0 <=> S = {})
<1>1. z \in Nat /\ MaxSlot * z < Wrap BY DEF SizeFits
<1>2. IsFiniteSet(1..z) /\ Cardinality(1..z) = z BY <1>1, FS_Interval
<1>3. /\ IsFiniteSet(Slot \X (1..z))
      /\ Cardinality(Slot \X (1..z)) = Cardinality(Slot) * Cardinality(1..z)
  BY <1>2, Bounds, FS_Product
<1>4. Cardinality(Slot \X (1..z)) = MaxSlot * z BY <1>2, <1>3, Bounds
<1>5. Units(d, S) \subseteq Slot \X (1..z)
  <2> SUFFICES ASSUME NEW s \in S, NEW u \in {s} \X (1..d[s])
               PROVE  u \in Slot \X (1..z)
    BY DEF Units
  <2>1. d[s] \in {0, z} BY DEF Directory
  <2>2. 1..d[s] \subseteq 1..z BY <1>1, <2>1
  <2> QED BY <2>2
<1>6. /\ IsFiniteSet(Units(d, S))
      /\ Cardinality(Units(d, S)) <= Cardinality(Slot \X (1..z))
  BY <1>3, <1>5, FS_Subset
<1>7. Cardinality(Units(d, S)) \in Nat BY <1>6, FS_CardinalityType
<1>8. MaxSlot * z \in Nat BY <1>1, Bounds
<1>9. SizeOf(d, S) \in 0..(Wrap - 1) /\ SizeOf(d, S) \in Nat
  BY <1>1, <1>4, <1>6, <1>7, <1>8, Bounds DEF SizeOf
<1>10. IsFiniteSet(S) BY Bounds, FS_Subset
<1>11. Cardinality(S) \in Nat /\ (Cardinality(S) = 0 <=> S = {})
  BY <1>10, FS_EmptySet, FS_CardinalityType
<1> QED BY <1>6, <1>9, <1>10, <1>11

\* Disjoint sets of files add up, in number and in size.
LEMMA Sum == ASSUME NEW z, SizeFits(z), NEW d \in Directory(z),
                    NEW S \in SUBSET Slot, NEW T \in SUBSET Slot, S \cap T = {}
             PROVE  /\ SizeOf(d, S \cup T) = SizeOf(d, S) + SizeOf(d, T)
                    /\ Cardinality(S \cup T) = Cardinality(S) + Cardinality(T)
<1>1. Units(d, S \cup T) = Units(d, S) \cup Units(d, T) BY DEF Units
<1>2. Units(d, S) \cap Units(d, T) = {} BY DEF Units
<1>3. /\ IsFiniteSet(Units(d, S)) /\ SizeOf(d, S) \in Nat /\ IsFiniteSet(S)
      /\ Cardinality(S) \in Nat
  BY SizeBound, Bounds
<1>4. /\ IsFiniteSet(Units(d, T)) /\ SizeOf(d, T) \in Nat /\ IsFiniteSet(T)
      /\ Cardinality(T) \in Nat
  BY SizeBound, Bounds
<1>5. Cardinality({}) = 0 BY FS_EmptySet
<1>6. Cardinality(Units(d, S) \cup Units(d, T))
         = Cardinality(Units(d, S)) + Cardinality(Units(d, T)) - Cardinality({})
  BY <1>2, <1>3, <1>4, FS_Union
<1>7. SizeOf(d, S \cup T) = SizeOf(d, S) + SizeOf(d, T) - 0
  BY <1>1, <1>5, <1>6 DEF SizeOf
<1>8. Cardinality(S \cup T) = Cardinality(S) + Cardinality(T) - Cardinality({})
  BY <1>3, <1>4, FS_Union
<1> QED BY <1>3, <1>4, <1>5, <1>7, <1>8

\* One file has its own size.
LEMMA Single == ASSUME NEW z, SizeFits(z), NEW d \in Directory(z), NEW s \in Slot
                PROVE  SizeOf(d, {s}) = d[s] /\ Cardinality({s}) = 1 /\ d[s] \in Nat
<1>1. d[s] \in Nat BY DEF Directory, SizeFits
<1>2. Units(d, {s}) = {s} \X (1..d[s]) BY DEF Units
<1>3. PICK n \in Nat : n = d[s] BY <1>1
<1>4. IsFiniteSet(1..n) /\ Cardinality(1..n) = n BY FS_Interval
<1>5. IsFiniteSet({s}) /\ Cardinality({s}) = 1 BY FS_Singleton
<1>6. Cardinality({s} \X (1..n)) = Cardinality({s}) * Cardinality(1..n)
  BY <1>4, <1>5, FS_Product
<1>7. Cardinality({s} \X (1..n)) = 1 * n BY <1>4, <1>5, <1>6
<1>8. SizeOf(d, {s}) = Cardinality({s} \X (1..n)) BY <1>2, <1>3 DEF SizeOf
<1> QED BY <1>1, <1>3, <1>5, <1>7, <1>8

\* The size of S depends on the files in S only.
LEMMA SameSize == ASSUME NEW d, NEW g, NEW S, \A s \in S : d[s] = g[s]
                  PROVE  SizeOf(d, S) = SizeOf(g, S)
<1>1. Units(d, S) = Units(g, S) BY DEF Units
<1> QED BY <1>1 DEF SizeOf

LEMMA EmptySum == ASSUME NEW d PROVE SizeOf(d, {}) = 0 /\ Cardinality({}) = 0
<1>1. Units(d, {}) = {} BY DEF Units
<1> QED BY <1>1, FS_EmptySet DEF SizeOf

-----------------------------------------------------------------------------
(* The operators of DirStat keep the types                                 *)

LEMMA Percentages == ASSUME NEW w \in 0..100, NEW m \in Nat
                     PROVE  /\ (w * m) \div 100 \in Nat /\ (w * m) \div 100 <= m
                            /\ w < 100 /\ m # 0 => (w * m) \div 100 < m
<1>1. w * m \in Nat OBVIOUS
<1>2. w * m <= 100 * m OBVIOUS
<1>3. w < 100 /\ m # 0 => w * m < 100 * m OBVIOUS
<1>4. PICK v \in Nat : v = w * m BY <1>1
<1>5. v <= 100 * m /\ (w < 100 /\ m # 0 => v < 100 * m) BY <1>2, <1>3, <1>4
<1>6. /\ v \div 100 \in Nat /\ v \div 100 <= m
      /\ w < 100 /\ m # 0 => v \div 100 < m
  BY <1>4, <1>5
<1> QED BY <1>4, <1>6

LEMMA Constants == /\ ZeroStat \in StatRec /\ TmplStat \in StatRec
                   /\ NoBooks \in BookRec /\ BooksShape(NoBooks)
<1>1. ZeroStat \in StatRec BY Bounds DEF ZeroStat, StatRec
<1>2. TmplStat \in StatRec
  <2>1. ASSUME NEW z \in StatRec
        PROVE  [z EXCEPT !.low_water = 95, !.status = "FORCE_REBUILD"] \in StatRec
    <3>1. "FORCE_REBUILD" \in {"OK", "FORCE_REBUILD"} /\ 95 \in 0..100 OBVIOUS
    <3> QED BY <3>1 DEF StatRec
  <2> QED BY <1>1, <2>1 DEF TmplStat
<1>3. NoBooks \in BookRec /\ BooksShape(NoBooks) BY Bounds DEF NoBooks, BookRec, BooksShape
<1> QED BY <1>1, <1>2, <1>3

LEMMA VerifyType == ASSUME NEW ds \in StatRec
                    PROVE  VerifyStatInfo(ds) \in StatRec
BY DEF VerifyStatInfo, StatRec

\* A record that is OK after VerifyStatInfo is the one that was read.
LEMMA Verified == ASSUME NEW ds \in StatRec, VerifyStatInfo(ds).status = "OK"
                  PROVE  VerifyStatInfo(ds) = ds /\ ds.status = "OK"
<1>1. CASE ds.first = 0 \/ ds.first > ds.last \/ ds.low_water > 100
  BY <1>1 DEF VerifyStatInfo, StatRec
<1>2. CASE ~(ds.first = 0 \/ ds.first > ds.last \/ ds.low_water > 100)
  BY <1>2 DEF VerifyStatInfo
<1> QED BY <1>1, <1>2

LEMMA FilesFinite == ASSUME NEW z, SizeFits(z), NEW d \in Directory(z)
                     PROVE  /\ Files(d) \in SUBSET Slot
                            /\ Cardinality(Files(d)) \in Nat
                            /\ SizeOf(d, Files(d)) \in 0..(Wrap - 1)
                            /\ SizeOf(d, Files(d)) % Wrap = SizeOf(d, Files(d))
<1>1. Files(d) \in SUBSET Slot BY DEF Files
<1> QED BY <1>1, SizeBound, Modulo

LEMMA RescanType == ASSUME NEW z, SizeFits(z), NEW d \in Directory(z),
                           NEW ds \in StatRec, NEW n \in Nat
                    PROVE  RescanDir(ds, d, n) \in StatRec
<1>1. CASE Files(d) = {}
  <2>1. 0 \in 0..(Wrap - 1) BY Bounds
  <2>2. [ds EXCEPT !.first = n, !.last = n, !.numfiles = 0,
                   !.filesize = 0, !.status = "FORCE_REBUILD"] \in StatRec
    BY <2>1 DEF StatRec
  <2> QED BY <1>1, <2>2 DEF RescanDir
<1>2. CASE Files(d) # {}
  <2>1. Min(Files(d)) \in Nat /\ Max(Files(d)) \in Nat BY <1>2, FilesFinite, Oldest, Newest
  <2>2. DirSize(d) % Wrap \in 0..(Wrap - 1) BY FilesFinite DEF DirSize
  <2>3. PICK mn \in Nat, mx \in Nat, c \in Nat, f \in 0..(Wrap - 1) :
           /\ mn = Min(Files(d)) /\ mx = Max(Files(d)) /\ c = Cardinality(Files(d))
           /\ f = DirSize(d) % Wrap
    BY <2>1, <2>2, FilesFinite
  <2>4. RescanDir(ds, d, n) = [ds EXCEPT !.first = mn, !.last = mx, !.numfiles = c,
                                         !.filesize = f, !.status = "OK"]
    BY <1>2, <2>3 DEF RescanDir
  <2>5. [ds EXCEPT !.first = mn, !.last = mx, !.numfiles = c,
                   !.filesize = f, !.status = "OK"] \in StatRec
    BY DEF StatRec
  <2> QED BY <2>4, <2>5
<1> QED BY <1>1, <1>2

LEMMA BookTypes == ASSUME NEW b \in BookRec, NEW when \in Nat, NEW size \in Nat
                   PROVE  UpdateBooks(b, when, size) \in BookRec /\ ClearBooks(b) \in BookRec
<1>1. (b.filesize + size) % Wrap \in 0..(Wrap - 1) BY Bounds, Modulo DEF BookRec
<1>2. PICK f \in 0..(Wrap - 1) : f = (b.filesize + size) % Wrap BY <1>1
<1>3. UpdateBooks(b, when, size) =
         [first |-> IF b.first = 0 THEN when ELSE b.first, last |-> when,
          numfiles |-> b.numfiles + 1, filesize |-> f, sequence |-> b.sequence + 1]
  BY <1>2 DEF UpdateBooks
<1>4. UpdateBooks(b, when, size) \in BookRec BY <1>3 DEF BookRec
<1>5. ClearBooks(b) \in BookRec BY Bounds DEF ClearBooks, NoBooks, BookRec
<1> QED BY <1>4, <1>5

LEMMA ClearedBooks == ASSUME NEW b \in BookRec
                      PROVE  /\ ClearBooks(b) \in BookRec /\ ClearBooks(b).numfiles = 0
                             /\ ClearBooks(b).first = 0 /\ ClearBooks(b).last = 0
                             /\ ClearBooks(b).filesize = 0
BY Bounds DEF ClearBooks, NoBooks, BookRec

LEMMA UpdateStatType == ASSUME NEW ds \in StatRec, NEW b \in BookRec
                        PROVE  UpdateBookStat(ds, b) \in StatRec
<1>1. (ds.filesize + b.filesize) % Wrap \in 0..(Wrap - 1)
  BY Bounds, Modulo DEF BookRec, StatRec
<1>2. PICK f \in 0..(Wrap - 1) : f = (ds.filesize + b.filesize) % Wrap BY <1>1
<1>3. [ds EXCEPT !.last = b.last, !.numfiles = @ + b.numfiles, !.filesize = f] \in StatRec
  <2>1. PICK n \in Nat, l \in Nat : n = ds.numfiles + b.numfiles /\ l = b.last
    BY DEF StatRec, BookRec
  <2>2. [ds EXCEPT !.last = l, !.numfiles = n, !.filesize = f] \in StatRec BY DEF StatRec
  <2> QED BY <2>1, <2>2
<1>4. [ds EXCEPT !.status = "FORCE_REBUILD"] \in StatRec BY DEF StatRec
<1> QED BY <1>2, <1>3, <1>4 DEF UpdateBookStat

LEMMA LowWaterType == ASSUME NEW ds \in StatRec
                      PROVE  LowWater(ds) \in 1..100 /\ LowWater(ds) \in 0..100
BY DEF LowWater, StatRec

LEMMA SizeLimitType == ASSUME NEW ds \in StatRec, NEW m \in Nat
                       PROVE  SizeLimit(ds, m) \in Nat
BY LowWaterType, Percentages DEF SizeLimit

LEMMA BeginType == ASSUME NEW ds \in StatRec, NEW z, SizeFits(z), NEW d \in Directory(z),
                          NEW m \in Nat, NEW n \in Nat
                   PROVE  ExpireBegin(ds, d, m, 0, n) \in LoopRec
<1>1. Files(d) \in SUBSET Slot BY DEF Files
<1>2. ~LifetimeOver(ds, 0, n) BY DEF LifetimeOver
<1>3. TimeLimit(ds, 0, n) \in Int
  <2>1. 0 * LowWater(ds) = 0 BY LowWaterType
  <2>2. (0 * LowWater(ds)) \div 100 = 0 BY <2>1
  <2> QED BY <2>2 DEF TimeLimit
<1>4. PICK sl \in Nat, tl \in Int : sl = SizeLimit(ds, m) /\ tl = TimeLimit(ds, 0, n)
  BY <1>3, SizeLimitType
<1>5. ExpireBegin(ds, d, m, 0, n) =
        [todo |-> Files(d), size_done |-> ~SizeOver(ds, m), lifetime_done |-> TRUE,
         sizelimit |-> sl, timelimit |-> tl, num_expired |-> 0, done |-> FALSE]
  BY <1>2, <1>4 DEF ExpireBegin
<1>6. PICK o \in BOOLEAN : o = ~SizeOver(ds, m) BY DEF SizeOver
<1>7. [todo |-> Files(d), size_done |-> o, lifetime_done |-> TRUE,
       sizelimit |-> sl, timelimit |-> tl, num_expired |-> 0, done |-> FALSE] \in LoopRec
  BY <1>1 DEF LoopRec
<1> QED BY <1>5, <1>6, <1>7

LEMMA LoopType == ASSUME NEW e \in LoopRec, NEW ds \in StatRec, NEW removed \in BOOLEAN
                  PROVE  ExpireLoop(e, ds, removed, FALSE) \in LoopRec
<1>1. SizeDone(e, ds) \in BOOLEAN BY DEF SizeDone, SizeVictim, LoopRec
<1>2. LifeDone(e, ds) = TRUE BY DEF LifeDone, LoopRec
<1>3. (~SizeVictim(e, ds) /\ ((SizeDone(e, ds) /\ LifeDone(e, ds)) \/ FALSE)) \in BOOLEAN
  OBVIOUS
<1>4. PICK sd \in BOOLEAN, dn \in BOOLEAN :
         /\ sd = SizeDone(e, ds)
         /\ dn = (/\ ~SizeVictim(e, ds)
                  /\ (SizeDone(e, ds) /\ LifeDone(e, ds)) \/ FALSE)
  BY <1>1, <1>3
<1>5. ExpireLoop(e, ds, removed, FALSE) =
        [e EXCEPT !.todo = @ \ {NextFile(e)}, !.size_done = sd, !.lifetime_done = TRUE,
                  !.num_expired = IF removed THEN @ + 1 ELSE @, !.done = dn]
  BY <1>2, <1>4 DEF ExpireLoop
<1>6. PICK t \in SUBSET Slot : t = e.todo \ {NextFile(e)} BY DEF LoopRec
<1>8. PICK n \in Nat : n = IF removed THEN e.num_expired + 1 ELSE e.num_expired
  BY DEF LoopRec
<1>7. [e EXCEPT !.todo = t, !.size_done = sd, !.lifetime_done = TRUE,
                !.num_expired = n, !.done = dn] \in LoopRec
  BY DEF LoopRec
<1> QED BY <1>5, <1>6, <1>7, <1>8

LEMMA ExpireStatType == ASSUME NEW e \in LoopRec, e.todo # {}, NEW ds \in StatRec,
                               NEW size \in Nat, NEW removed \in BOOLEAN
                        PROVE  ExpireStat(e, ds, size, removed) \in StatRec
<1>1. NextFile(e) \in Nat BY Oldest DEF LoopRec, NextFile
<1>2. (ds.filesize - size) % Wrap \in 0..(Wrap - 1) BY Bounds, Modulo DEF StatRec
<1>3. PICK f \in 0..(Wrap - 1), n \in Nat : f = (ds.filesize - size) % Wrap /\ n = NextFile(e)
  BY <1>1, <1>2
<1>4. ExpireStat(e, ds, size, removed) =
        [ds EXCEPT !.filesize = IF removed THEN f ELSE @,
                   !.first = IF EndsPhase(e, ds) THEN n ELSE @]
  BY <1>3 DEF ExpireStat
<1> QED BY <1>4 DEF StatRec

LEMMA ExpireEndType == ASSUME NEW e \in LoopRec, NEW ds \in StatRec, NEW n \in Nat
                       PROVE  ExpireEnd(e, ds, n) \in StatRec
<1>1. PICK c \in Nat : c = IF e.num_expired > ds.numfiles THEN 0 ELSE ds.numfiles - e.num_expired
  BY DEF LoopRec, StatRec
<1>2. PICK f \in Nat : f = IF e.done THEN ds.first ELSE ds.last BY DEF StatRec
<1>3. ExpireEnd(e, ds, n) = [ds EXCEPT !.first = IF c = 0 THEN n ELSE f,
                   !.last  = IF c = 0 THEN n ELSE @,
                   !.numfiles = c,
                   !.status = IF c = 0 THEN "FORCE_REBUILD" ELSE @]
  BY <1>1, <1>2 DEF ExpireEnd
<1> QED BY <1>3 DEF StatRec

-----------------------------------------------------------------------------
(* What accounts for the files: the collector adds one                     *)

LEMMA RestIsFinite == ASSUME NEW z, SizeFits(z), NEW d \in Directory(z), NEW K, NEW F
                      PROVE  /\ Rest(K, d, F) \in SUBSET Slot
                             /\ Cardinality(Rest(K, d, F)) \in Nat
                             /\ (Cardinality(Rest(K, d, F)) = 0 <=> Rest(K, d, F) = {})
                             /\ SizeOf(d, Rest(K, d, F)) \in 0..(Wrap - 1)
<1>1. Rest(K, d, F) \in SUBSET Slot BY DEF Rest, Files
<1> QED BY <1>1, SizeBound

LEMMA CoverTypes == ASSUME NEW z, SizeFits(z), NEW d \in Directory(z), NEW K, NEW last, NEW b,
                           NEW F, Cover(K, last, b, d, F)
                    PROVE  /\ K \in SUBSET Slot /\ F \in SUBSET Slot /\ last \in Nat
                           /\ K # {} => last \in K /\ last >= 1
                           /\ K \cap F = {}
<1>1. K \in SUBSET Slot /\ F \in SUBSET Slot BY DEF Cover, Files
<1>2. last \in Nat /\ (K # {} => last \in K /\ last >= 1) BY <1>1, Bounds DEF Cover
<1>3. ASSUME NEW s \in K, s \in F PROVE FALSE
  <2>1. s <= last /\ last < s BY <1>3 DEF Cover
  <2> QED BY <2>1, <1>1, <1>2, Bounds
<1> QED BY <1>1, <1>2, <1>3

\* The new file is newer than all others.
LEMMA CoverRenamed ==
    ASSUME NEW z, SizeFits(z), NEW d \in Directory(z), NEW K, NEW last, NEW b \in BookRec,
           BooksShape(b), Cover(K, last, b, d, {}),
           NEW t \in Slot, d[t] = 0, Files(d) \subseteq 1..t
    PROVE  LET g == [d EXCEPT ![t] = z] IN
           /\ g \in Directory(z) /\ Files(g) = Files(d) \cup {t} /\ t \notin Files(d)
           /\ last < t /\ Cover(K, last, b, g, {t})
<1> DEFINE g == [d EXCEPT ![t] = z]
<1>1. z \in Nat /\ z # 0 BY DEF SizeFits
<1>2. /\ g \in Directory(z) /\ Files(g) = Files(d) \cup {t} /\ t \notin Files(d)
      /\ \A s \in Files(d) : g[s] = d[s]
  BY <1>1 DEF Directory, Files
<1> HIDE DEF g
<1>3. \A s \in Files(d) : s \in Nat /\ s < t
  <2>1. \A s \in Files(d) : s \in Slot /\ s # t /\ s \in 1..t BY <1>2 DEF Files
  <2> QED BY <2>1, Bounds
<1>4. K \in SUBSET Slot /\ last \in Nat BY CoverTypes
<1>11. K \subseteq Files(d) BY DEF Cover
<1>5. last < t BY <1>3, <1>4, <1>11, Bounds DEF Cover
<1>6. Rest(K, g, {t}) = Rest(K, d, {}) BY <1>2, <1>11 DEF Rest
<1>7. Rest(K, d, {}) \subseteq Files(d) BY DEF Rest
<1>8. SizeOf(g, Rest(K, g, {t})) = SizeOf(d, Rest(K, d, {})) BY <1>2, <1>6, <1>7, SameSize
<1>9. b.last < t
  <2>1. CASE Rest(K, d, {}) = {}
    <3>1. b.numfiles = 0 BY <2>1, RestIsFinite DEF Cover
    <3> QED BY <3>1, Bounds DEF BooksShape
  <2>2. CASE Rest(K, d, {}) # {} BY <2>2, <1>3, <1>7 DEF Cover
  <2> QED BY <2>1, <2>2
<1>10. Cover(K, last, b, g, {t}) BY <1>2, <1>5, <1>6, <1>8, <1>9 DEF Cover
<1> QED BY <1>2, <1>5, <1>10 DEF g

LEMMA CoverBooked ==
    ASSUME NEW z, SizeFits(z), NEW d \in Directory(z), NEW K, NEW last, NEW b \in BookRec,
           BooksShape(b), NEW t \in Slot, Cover(K, last, b, d, {t})
    PROVE  Cover(K, last, UpdateBooks(b, t, d[t]), d, {})
<1> DEFINE c == UpdateBooks(b, t, d[t])
           R == Rest(K, d, {t})
<1>1. K \in SUBSET Slot /\ last \in Nat /\ K \cap {t} = {} BY CoverTypes
<1>2. t \in Files(d) /\ last < t /\ b.last < t BY DEF Cover
<1>3. Rest(K, d, {}) = R \cup {t} /\ R \cap {t} = {} /\ R \in SUBSET Slot /\ {t} \in SUBSET Slot
  BY <1>1, <1>2 DEF Rest, Files
<1>4. /\ SizeOf(d, R) \in Nat /\ Cardinality(R) \in Nat
      /\ (Cardinality(R) = 0 <=> R = {})
      /\ SizeOf(d, Rest(K, d, {})) \in 0..(Wrap - 1)
  <2>1. /\ Cardinality(R) \in Nat /\ (Cardinality(R) = 0 <=> R = {})
        /\ SizeOf(d, R) \in 0..(Wrap - 1)
    BY RestIsFinite
  <2>2. SizeOf(d, Rest(K, d, {})) \in 0..(Wrap - 1) BY RestIsFinite
  <2> QED BY <2>1, <2>2, Bounds
<1>5. SizeOf(d, {t}) = d[t] /\ Cardinality({t}) = 1 /\ d[t] \in Nat BY Single
<1>6. /\ SizeOf(d, R \cup {t}) = SizeOf(d, R) + d[t]
      /\ Cardinality(R \cup {t}) = Cardinality(R) + 1
  <2>1. PICK S \in SUBSET Slot : S = R BY <1>3
  <2>2. S \cap {t} = {} BY <1>3, <2>1
  <2>3. /\ SizeOf(d, S \cup {t}) = SizeOf(d, S) + SizeOf(d, {t})
        /\ Cardinality(S \cup {t}) = Cardinality(S) + Cardinality({t})
    BY <1>3, <2>2, Sum
  <2> QED BY <1>5, <2>1, <2>3
<1>7. b.numfiles = Cardinality(R) /\ b.filesize = SizeOf(d, R) BY DEF Cover
<1>8. c.last = t /\ c.numfiles = b.numfiles + 1
  BY DEF UpdateBooks
<1>9. c.first = IF b.first = 0 THEN t ELSE b.first BY DEF UpdateBooks
<1>10. c.filesize = SizeOf(d, R) + d[t]
  <2>1. c.filesize = (SizeOf(d, R) + d[t]) % Wrap BY <1>7 DEF UpdateBooks
  <2>2. SizeOf(d, R) + d[t] \in 0..(Wrap - 1) BY <1>3, <1>4, <1>6
  <2> QED BY <2>1, <2>2, Modulo
<1>11. last < c.first
  <2>1. CASE R = {}
    <3>1. b.first = 0 BY <2>1, <1>4, <1>7 DEF BooksShape
    <3> QED BY <3>1, <1>2, <1>9
  <2>2. CASE R # {}
    <3>1. b.first # 0 BY <2>2, <1>4, <1>7 DEF BooksShape, BookRec
    <3> QED BY <3>1, <2>2, <1>9 DEF Cover
  <2> QED BY <2>1, <2>2
<1>12. \A s \in R \cup {t} : last < s /\ s <= c.last
  <2>1. \A s \in R : last < s /\ s <= b.last /\ s \in Nat BY <1>3, Bounds DEF Cover
  <2>2. b.last \in Nat /\ t \in Nat BY Bounds DEF BookRec
  <2> QED BY <2>1, <2>2, <1>2, <1>8
<1> HIDE DEF c
<1>13. \A k \in K : k <= last BY DEF Cover
<1>14. K \subseteq Files(d) /\ (last \in K \/ (last = 0 /\ K = {})) BY DEF Cover
<1>15. c.numfiles = Cardinality(Rest(K, d, {})) /\ c.filesize = SizeOf(d, Rest(K, d, {}))
  BY <1>3, <1>6, <1>7, <1>8, <1>10
<1>16. Cover(K, last, c, d, {})
  <2> HIDE DEF R
  <2> QED BY <1>3, <1>8, <1>11, <1>12, <1>13, <1>14, <1>15 DEF Cover
<1> QED BY <1>16 DEF c

\* Only the counts of the books matter.
LEMMA CoverSame ==
    ASSUME NEW K, NEW last, NEW b, NEW d, NEW F, Cover(K, last, b, d, F),
           NEW c, c.numfiles = b.numfiles, c.filesize = b.filesize,
           c.first = b.first, c.last = b.last
    PROVE  Cover(K, last, c, d, F)
BY DEF Cover

\* Books that count nothing can be replaced by others that count nothing.
LEMMA CoverEmpty ==
    ASSUME NEW z, SizeFits(z), NEW d \in Directory(z), NEW K, NEW last, NEW F,
           K \subseteq Files(d), F \subseteq Files(d), last \in K \/ (last = 0 /\ K = {}),
           \A s \in K : s <= last, \A t \in F : last < t,
           Rest(K, d, F) = {},
           NEW c, c.numfiles = 0, c.filesize = 0, c.last = 0
    PROVE  Cover(K, last, c, d, F)
<1>1. Cardinality({}) = 0 /\ SizeOf(d, {}) = 0 BY EmptySum
<1>2. \A t \in F : c.last < t
  <2>1. \A t \in F : t \in Slot BY DEF Files
  <2> QED BY <2>1, Bounds
<1> QED BY <1>1, <1>2 DEF Cover

LEMMA CoverCleared ==
    ASSUME NEW z, SizeFits(z), NEW d \in Directory(z), NEW K, NEW last, NEW b, NEW F,
           Cover(K, last, b, d, F), b.numfiles = 0,
           NEW c, c.numfiles = 0, c.filesize = 0, c.last = 0
    PROVE  Cover(K, last, c, d, F) /\ Rest(K, d, F) = {}
<1>1. Rest(K, d, F) = {} BY RestIsFinite DEF Cover
<1>2. /\ K \subseteq Files(d) /\ F \subseteq Files(d) /\ (last \in K \/ (last = 0 /\ K = {}))
      /\ (\A s \in K : s <= last) /\ \A t \in F : last < t
  BY DEF Cover
<1>3. Cover(K, last, c, d, F) BY <1>1, <1>2, CoverEmpty
<1> QED BY <1>1, <1>3

LEMMA FoldedToCover ==
    ASSUME NEW z, SizeFits(z), NEW d \in Directory(z), NEW K, NEW last, NEW b,
           Folded(K, last, b, d),
           NEW c, c.numfiles = 0, c.filesize = 0, c.last = 0
    PROVE  Cover(K, last, c, d, {})
<1>1. Rest(K, d, {}) = {} BY DEF Folded, Rest
<1> QED BY <1>1, CoverEmpty DEF Folded

-----------------------------------------------------------------------------
(* What accounts for the files: records                                    *)

LEMMA KnownFiles == ASSUME NEW d, NEW ds
                    PROVE  /\ Known(ds, d) \subseteq Files(d) /\ Known(ds, d) \in SUBSET Slot
                           /\ \A s \in Known(ds, d) : s <= ds.last
BY DEF Known, Files

\* A newer file leaves what a record knows alone.
LEMMA FitsRenamed ==
    ASSUME NEW z, SizeFits(z), NEW d \in Directory(z), NEW ds \in StatRec, NEW t \in Slot,
           d[t] = 0, ds.last < t, NEW g, g = [d EXCEPT ![t] = z]
    PROVE  /\ Known(ds, g) = Known(ds, d)
           /\ SizeOf(g, Known(ds, g)) = SizeOf(d, Known(ds, d))
           /\ Fits(ds, d) => Fits(ds, g)
<1>1. z \in Nat /\ z # 0 BY DEF SizeFits
<1>2. Files(g) = Files(d) \cup {t} /\ t \notin Files(d) /\ \A s \in Files(d) : g[s] = d[s]
  BY <1>1 DEF Directory, Files
<1>3. ~(t <= ds.last) BY Bounds DEF StatRec
<1>4. Known(ds, g) = Known(ds, d) BY <1>2, <1>3 DEF Known
<1>5. SizeOf(g, Known(ds, d)) = SizeOf(d, Known(ds, d))
  <2> DEFINE S == Known(ds, d)
  <2>1. \A s \in S : g[s] = d[s] BY <1>2, KnownFiles
  <2> HIDE DEF S
  <2>2. SizeOf(g, S) = SizeOf(d, S) BY <2>1, SameSize, ZenonT(30)
  <2> QED BY <2>2 DEF S
<1> QED BY <1>2, <1>4, <1>5 DEF Fits

LEMMA GoodRenamed ==
    ASSUME NEW z, SizeFits(z), NEW d \in Directory(z), NEW b \in BookRec, BooksShape(b),
           NEW ds \in StatRec, NEW t \in Slot, d[t] = 0, Files(d) \subseteq 1..t,
           NEW g, g = [d EXCEPT ![t] = z]
    PROVE  /\ Good(ds, b, d, {}, FALSE) => Good(ds, b, g, {t}, FALSE)
           /\ Modest(ds, d) => Modest(ds, g)
<1>1. ASSUME Good(ds, b, d, {}, FALSE), ds.status = "OK"
      PROVE  Fits(ds, g) /\ Cover(Known(ds, g), ds.last, b, g, {t})
  <2>1. Fits(ds, d) /\ Cover(Known(ds, d), ds.last, b, d, {}) BY <1>1 DEF Good, Account
  <2>2. ds.last < t /\ Cover(Known(ds, d), ds.last, b, g, {t}) BY <2>1, CoverRenamed
  <2> QED BY <2>1, <2>2, FitsRenamed
<1>2. ASSUME Modest(ds, d), ds.status # "OK", ds.filesize # 0
      PROVE  ds.last \in Files(g) /\ ds.filesize = SizeOf(g, Known(ds, g))
  <2>1. ds.last \in Files(d) /\ ds.filesize = SizeOf(d, Known(ds, d)) BY <1>2 DEF Modest
  <2>2. ds.last # t /\ ds.last \in 1..t BY <2>1 DEF Files
  <2>3. ds.last < t BY <2>2, Bounds
  <2>4. ds.last \in Files(g) BY <2>1, <2>2 DEF Files, Directory
  <2>5. SizeOf(g, Known(ds, g)) = SizeOf(d, Known(ds, d)) BY <2>3, FitsRenamed
  <2> QED BY <2>1, <2>4, <2>5
<1> QED BY <1>1, <1>2 DEF Good, Account, Modest

LEMMA GoodBooked ==
    ASSUME NEW z, SizeFits(z), NEW d \in Directory(z), NEW b \in BookRec, BooksShape(b),
           NEW ds, NEW t \in Slot, Good(ds, b, d, {t}, FALSE)
    PROVE  Good(ds, UpdateBooks(b, t, d[t]), d, {}, FALSE)
BY CoverBooked DEF Good, Account

\* UpdateBookStat adds what the books count to a record, and the books can be
\* cleared.
LEMMA Merged ==
    ASSUME NEW z, SizeFits(z), NEW d \in Directory(z), NEW F, NEW b \in BookRec, BooksShape(b),
           NEW ds \in StatRec, ds.status = "OK", Fits(ds, d),
           Cover(Known(ds, d), ds.last, b, d, F)
    PROVE  LET new == UpdateBookStat(ds, b) IN
           /\ new.status = "OK" /\ Fits(new, d)
           /\ Known(new, d) = Known(ds, d) \cup Rest(Known(ds, d), d, F)
           /\ b.last <= new.last
           /\ \A c : c.numfiles = 0 /\ c.filesize = 0 /\ c.last = 0 =>
                        Cover(Known(new, d), new.last, c, d, F)
<1> DEFINE K   == Known(ds, d)
           R   == Rest(K, d, F)
           new == UpdateBookStat(ds, b)
<1>1. CASE b.numfiles = 0
  <2>1. R = {} BY <1>1, RestIsFinite DEF Cover
  <2>2. new = ds /\ b.last = 0 BY <1>1 DEF UpdateBookStat, BooksShape
  <2>3. 0 <= ds.last BY DEF StatRec
  <2> QED BY <1>1, <2>1, <2>2, <2>3, CoverCleared
<1>2. CASE b.numfiles # 0
  <2>1. K \in SUBSET Slot /\ R \in SUBSET Slot /\ K \cap R = {} /\ R # {}
    BY <1>2, KnownFiles, RestIsFinite DEF Cover, Rest
  <2>2. b.last \in R /\ ds.last < b.first /\ ds.last < b.last /\ b.last \in Files(d)
    BY <2>1 DEF Cover, Rest
  <2>3. ~(b.last <= ds.last) /\ ~(b.first <= ds.first)
    BY <2>2 DEF Fits, StatRec, BookRec
  <2>4. new = [ds EXCEPT !.last = b.last, !.numfiles = @ + b.numfiles,
                         !.filesize = (@ + b.filesize) % Wrap]
    BY <1>2, <2>3 DEF UpdateBookStat
  <2>5. /\ new.status = "OK" /\ new.last = b.last /\ new.first = ds.first
        /\ new.numfiles = ds.numfiles + b.numfiles
        /\ new.filesize = (ds.filesize + b.filesize) % Wrap
    BY <2>4 DEF StatRec
  <2>6. /\ SizeOf(d, K \cup R) = SizeOf(d, K) + SizeOf(d, R)
        /\ Cardinality(K \cup R) = Cardinality(K) + Cardinality(R)
        /\ SizeOf(d, K \cup R) \in 0..(Wrap - 1)
    <3>1. K \cup R \in SUBSET Slot BY <2>1
    <3>2. SizeOf(d, K \cup R) \in 0..(Wrap - 1) BY <3>1, SizeBound
    <3> QED BY <3>2, <2>1, Sum
  <2>7. Known(new, d) = K \cup R
    <3>1. \A s \in Files(d) : s \in Nat /\ s >= 1 BY Bounds DEF Files
    <3>2. \A s \in K : s <= new.last
      <4>1. \A s \in K : s <= ds.last /\ s \in Nat BY <3>1, KnownFiles
      <4> QED BY <4>1, <2>2, <2>5 DEF StatRec, BookRec
    <3>3. \A s \in R : s <= new.last BY <2>5 DEF Cover
    <3>4. \A s \in F : ~(s <= new.last)
      <4>1. \A s \in F : s \in Nat /\ b.last < s BY <3>1 DEF Cover
      <4> QED BY <4>1, <2>5 DEF BookRec
    <3>5. \A s \in Files(d) : s \in K \cup R \/ s \in F BY DEF Rest
    <3>6. K \cup R \subseteq Files(d) BY KnownFiles DEF Rest
    <3> HIDE DEF K, R, new
    <3> QED BY <3>2, <3>3, <3>4, <3>5, <3>6 DEF Known
  <2>8. Fits(new, d)
    <3>1. new.first \in 1..new.last
      <4>1. ds.first \in 1..ds.last BY DEF Fits
      <4> QED BY <4>1, <2>2, <2>5 DEF StatRec, BookRec
    <3>2. new.numfiles = Cardinality(K \cup R) BY <2>5, <2>6 DEF Fits, Cover
    <3>3. new.filesize = SizeOf(d, K \cup R) BY <2>5, <2>6, Modulo DEF Fits, Cover
    <3> QED BY <2>2, <2>5, <2>7, <3>1, <3>2, <3>3 DEF Fits
  <2>9. ASSUME NEW c, c.numfiles = 0, c.filesize = 0, c.last = 0
        PROVE  Cover(Known(new, d), new.last, c, d, F)
    <3>1. Rest(K \cup R, d, F) = {} BY DEF Rest
    <3>2. K \cup R \subseteq Files(d) /\ F \subseteq Files(d) /\ new.last \in K \cup R
      BY <2>2, <2>5, KnownFiles DEF Rest, Cover
    <3>3. \A t \in F : new.last < t BY <2>5 DEF Cover
    <3>4. \A s \in K \cup R : s <= new.last BY <2>7, KnownFiles
    <3> HIDE DEF K, R, new
    <3> QED BY <2>7, <2>9, <3>1, <3>2, <3>3, <3>4, CoverEmpty
  <2>10. b.last <= new.last BY <2>5 DEF BookRec
  <2> QED BY <2>5, <2>7, <2>8, <2>9, <2>10
<1> QED BY <1>1, <1>2

LEMMA GoodMerged ==
    ASSUME NEW z, SizeFits(z), NEW d \in Directory(z), NEW F, NEW b \in BookRec, BooksShape(b),
           NEW ds \in StatRec, ds.status = "OK", Good(ds, b, d, F, FALSE),
           NEW c, c.numfiles = 0, c.filesize = 0, c.last = 0
    PROVE  Good(UpdateBookStat(ds, b), c, d, F, FALSE) /\ UpdateBookStat(ds, b).status = "OK"
BY Merged DEF Good, Account

\* The collector folds its books into the record, and the books stay.
LEMMA FoldMerged ==
    ASSUME NEW z, SizeFits(z), NEW d \in Directory(z), NEW b \in BookRec, BooksShape(b),
           NEW ds \in StatRec, ds.status = "OK", Good(ds, b, d, {}, FALSE)
    PROVE  /\ Good(UpdateBookStat(ds, b), b, d, {}, TRUE)
           /\ UpdateBookStat(ds, b).status = "OK"
<1> DEFINE new == UpdateBookStat(ds, b)
<1>1. Fits(ds, d) /\ Cover(Known(ds, d), ds.last, b, d, {}) BY DEF Good, Account
<1>2. /\ new.status = "OK" /\ Fits(new, d) /\ b.last <= new.last
      /\ Known(new, d) = Known(ds, d) \cup Rest(Known(ds, d), d, {})
  BY <1>1, Merged
<1>3. Known(new, d) = Files(d) BY <1>2, KnownFiles DEF Rest
<1>4. new.last \in Known(new, d) BY <1>2, <1>3 DEF Fits
<1> HIDE DEF new
<1>5. Folded(Known(new, d), new.last, b, d) BY <1>2, <1>3, <1>4, KnownFiles DEF Folded
<1> QED BY <1>2, <1>5 DEF Good, Account, new

\* Books that the record has already: they count nothing, or force a rebuild.
LEMMA FoldedMerged ==
    ASSUME NEW ds \in StatRec, NEW b \in BookRec, b.numfiles = 0 \/ b.last <= ds.last
    PROVE  UpdateBookStat(ds, b) = ds \/ UpdateBookStat(ds, b).status = "FORCE_REBUILD"
BY DEF UpdateBookStat, StatRec

LEMMA GoodCleared ==
    ASSUME NEW z, SizeFits(z), NEW d \in Directory(z), NEW b, NEW F, NEW ds, NEW folded,
           Good(ds, b, d, F, folded), folded => F = {}, ~folded => b.numfiles = 0,
           NEW c, c.numfiles = 0, c.filesize = 0, c.last = 0
    PROVE  Good(ds, c, d, F, FALSE)
<1> SUFFICES ASSUME ds.status = "OK"
             PROVE  Fits(ds, d) /\ Cover(Known(ds, d), ds.last, c, d, F)
  BY DEF Good, Account
<1>1. Fits(ds, d) BY DEF Good
<1>2. CASE folded
  <2>1. Folded(Known(ds, d), ds.last, b, d) BY <1>2 DEF Good, Account
  <2> QED BY <1>1, <1>2, <2>1, FoldedToCover
<1>3. CASE ~folded
  <2>1. Cover(Known(ds, d), ds.last, b, d, F) BY <1>3 DEF Good, Account
  <2> QED BY <1>1, <1>3, <2>1, CoverCleared
<1> QED BY <1>2, <1>3


-----------------------------------------------------------------------------
(* What accounts for the files: scans, and books that are empty            *)

NothingIn(c) == c.numfiles = 0 /\ c.filesize = 0 /\ c.last = 0

LEMMA ScanFinds ==
    ASSUME NEW z, SizeFits(z), NEW d \in Directory(z), NEW ds \in StatRec, NEW n \in Nat
    PROVE  Scanned(RescanDir(ds, d, n), d)
<1> DEFINE new == RescanDir(ds, d, n)
<1>1. CASE Files(d) = {}
  BY <1>1 DEF RescanDir, Scanned, StatRec
<1>2. CASE Files(d) # {}
  <2>1. /\ Min(Files(d)) \in Nat /\ Min(Files(d)) >= 1 /\ Max(Files(d)) \in Files(d)
        /\ Min(Files(d)) <= Max(Files(d)) /\ Max(Files(d)) \in Nat
        /\ \A s \in Files(d) : s <= Max(Files(d))
    BY <1>2, FilesFinite, Oldest, Newest, Bounds
  <2>2. /\ new.status = "OK" /\ new.first = Min(Files(d)) /\ new.last = Max(Files(d))
        /\ new.numfiles = Cardinality(Files(d)) /\ new.filesize = SizeOf(d, Files(d))
    BY <1>2, FilesFinite DEF RescanDir, StatRec, DirSize
  <2> HIDE DEF new
  <2>3. Known(new, d) = Files(d) BY <2>1, <2>2 DEF Known
  <2>4. Fits(new, d) BY <2>1, <2>2, <2>3 DEF Fits
  <2> QED BY <1>2, <2>2, <2>3, <2>4 DEF Scanned, new
<1> QED BY <1>1, <1>2

\* After a scan with nothing on the way, books that are empty complete it.
LEMMA ScannedGood ==
    ASSUME NEW z, SizeFits(z), NEW d \in Directory(z), NEW ds \in StatRec, Scanned(ds, d),
           NEW c, NothingIn(c), NEW folded
    PROVE  /\ Good(ds, c, d, {}, folded) /\ Modest(ds, d)
           /\ ds.status # "OK" => ds.filesize = 0 /\ Cover({}, 0, c, d, {})
<1>1. CASE Files(d) = {}
  <2>1. ds.status # "OK" /\ ds.filesize = 0 BY <1>1 DEF Scanned
  <2>2. Rest({}, d, {}) = {} BY <1>1 DEF Rest
  <2>3. Cover({}, 0, c, d, {}) BY <2>2, CoverEmpty DEF NothingIn
  <2> QED BY <2>1, <2>3 DEF Good, Modest
<1>2. CASE Files(d) # {}
  <2>1. ds.status = "OK" /\ Fits(ds, d) /\ Known(ds, d) = Files(d) BY <1>2 DEF Scanned
  <2>2. ds.last \in Known(ds, d) /\ c.last <= ds.last
    BY <2>1 DEF Fits, NothingIn, StatRec
  <2>3. Folded(Known(ds, d), ds.last, c, d) BY <2>1, <2>2, KnownFiles DEF Folded
  <2>4. Cover(Known(ds, d), ds.last, c, d, {}) BY <2>3, FoldedToCover DEF NothingIn
  <2> QED BY <2>1, <2>3, <2>4 DEF Good, Account, Modest
<1> QED BY <1>1, <1>2

\* The scan found nothing, and the books count what came since.
LEMMA ForceMerged ==
    ASSUME NEW z, SizeFits(z), NEW d \in Directory(z), NEW F, NEW b \in BookRec, BooksShape(b),
           NEW ds \in StatRec, ds.status # "OK", ds.filesize = 0, Cover({}, 0, b, d, F)
    PROVE  UpdateBookStat(ds, b).status # "OK" /\ Modest(UpdateBookStat(ds, b), d)
<1> DEFINE R   == Rest({}, d, F)
           new == UpdateBookStat(ds, b)
<1>1. CASE b.numfiles = 0
  BY <1>1 DEF UpdateBookStat, Modest
<1>2. CASE b.numfiles # 0 /\ (b.last <= ds.last \/ b.first <= ds.first)
  <2>1. new = [ds EXCEPT !.status = "FORCE_REBUILD"] BY <1>2 DEF UpdateBookStat
  <2>2. new.status = "FORCE_REBUILD" /\ new.filesize = 0 BY <2>1 DEF StatRec
  <2> QED BY <2>2 DEF Modest
<1>3. CASE b.numfiles # 0 /\ ~(b.last <= ds.last \/ b.first <= ds.first)
  <2>1. new = [ds EXCEPT !.last = b.last, !.numfiles = @ + b.numfiles,
                         !.filesize = (@ + b.filesize) % Wrap]
    BY <1>3 DEF UpdateBookStat
  <2>2. (0 + b.filesize) % Wrap = b.filesize BY Modulo DEF BookRec
  <2>3. new.status # "OK" /\ new.last = b.last /\ new.filesize = b.filesize
    BY <2>1, <2>2 DEF StatRec
  <2>4. R # {} BY <1>3, RestIsFinite DEF Cover
  <2>5. b.last \in R /\ R \subseteq Files(d) BY <2>4 DEF Cover, Rest
  <2> HIDE DEF new
  <2>6. Known(new, d) = R
    <3>1. \A s \in R : s <= b.last BY DEF Cover
    <3>2. \A s \in F : ~(s <= b.last)
      <4>1. \A s \in F : s \in Slot /\ b.last < s BY DEF Cover, Files
      <4> QED BY <4>1, Bounds DEF BookRec
    <3>3. \A s \in Files(d) : s \in R \/ s \in F BY DEF Rest
    <3> QED BY <2>3, <2>5, <3>1, <3>2, <3>3 DEF Known
  <2>7. b.filesize = SizeOf(d, R) BY DEF Cover
  <2> QED BY <2>3, <2>5, <2>6, <2>7 DEF Modest, new
<1> QED BY <1>1, <1>2, <1>3

\* A record that is good is read as it is.
LEMMA GoodVerified ==
    ASSUME NEW ds \in StatRec, NEW d, NEW b, NEW F, NEW folded,
           ds.status = "OK", Good(ds, b, d, F, folded)
    PROVE  VerifyStatInfo(ds) = ds /\ Files(d) # {}
<1>1. ds.first \in 1..ds.last /\ ds.last \in Files(d) BY DEF Good, Fits
<1>2. ~(ds.first = 0 \/ ds.first > ds.last \/ ds.low_water > 100) BY <1>1 DEF StatRec
<1> QED BY <1>1, <1>2 DEF VerifyStatInfo

\* Folding the books in, whatever the collector has done with them.
LEMMA GoodSynced ==
    ASSUME NEW z, SizeFits(z), NEW d \in Directory(z), NEW F, NEW b \in BookRec, BooksShape(b),
           NEW ds \in StatRec, ds.status = "OK", NEW folded \in BOOLEAN,
           Good(ds, b, d, F, folded), UpdateBookStat(ds, b).status = "OK",
           NEW c, NothingIn(c)
    PROVE  Good(UpdateBookStat(ds, b), c, d, F, folded)
<1>1. CASE folded = FALSE BY <1>1, GoodMerged DEF NothingIn
<1>2. CASE folded = TRUE
  <2>1. Fits(ds, d) /\ Folded(Known(ds, d), ds.last, b, d) BY <1>2 DEF Good, Account
  <2>2. UpdateBookStat(ds, b) = ds BY <2>1, FoldedMerged DEF Folded
  <2>3. c.last <= ds.last BY DEF NothingIn, StatRec
  <2>4. Folded(Known(ds, d), ds.last, c, d) BY <2>1, <2>3 DEF Folded
  <2> QED BY <1>2, <2>1, <2>2, <2>4 DEF Good, Account
<1> QED BY <1>1, <1>2

\* Only some fields matter.
LEMMA GoodSame ==
    ASSUME NEW ds, NEW new, NEW b, NEW c, NEW d, NEW F, NEW folded, Good(ds, b, d, F, folded),
           new.first = ds.first, new.last = ds.last, new.numfiles = ds.numfiles,
           new.filesize = ds.filesize, new.status = ds.status,
           c.numfiles = b.numfiles, c.filesize = b.filesize,
           c.first = b.first, c.last = b.last
    PROVE  Good(new, c, d, F, folded)
<1>1. Known(new, d) = Known(ds, d) BY DEF Known
<1>2. Fits(ds, d) => Fits(new, d) BY <1>1 DEF Fits
<1>3. Account(Known(ds, d), ds.last, b, d, F, folded)
         => Account(Known(new, d), new.last, c, d, F, folded)
  BY <1>1 DEF Account, Cover, Folded
<1> QED BY <1>2, <1>3 DEF Good

\* Files, books and the record add up.
LEMMA GoodExact ==
    ASSUME NEW z, SizeFits(z), NEW d \in Directory(z), NEW F, NEW b, NEW ds,
           ds.status = "OK", Good(ds, b, d, F, FALSE)
    PROVE  /\ ds.numfiles + b.numfiles + Cardinality(F) = Cardinality(Files(d))
           /\ ds.filesize + b.filesize + SizeOf(d, F) = SizeOf(d, Files(d))
<1> DEFINE K == Known(ds, d)
           R == Rest(K, d, F)
<1>1. Fits(ds, d) /\ Cover(K, ds.last, b, d, F) BY DEF Good, Account
<1>2. K \in SUBSET Slot /\ F \in SUBSET Slot /\ K \cap F = {} BY <1>1, CoverTypes
<1>3. R \in SUBSET Slot BY RestIsFinite
<1>4. K \subseteq Files(d) /\ F \subseteq Files(d) BY <1>1 DEF Cover
<1>5. K \cup R \in SUBSET Slot /\ K \cap R = {} /\ (K \cup R) \cap F = {}
  BY <1>2, <1>3 DEF Rest
<1>6. (K \cup R) \cup F = Files(d) BY <1>4 DEF Rest
<1>7. /\ SizeOf(d, K \cup R) = SizeOf(d, K) + SizeOf(d, R)
      /\ Cardinality(K \cup R) = Cardinality(K) + Cardinality(R)
  BY <1>2, <1>3, <1>5, Sum
<1>8. PICK S \in SUBSET Slot : S = K \cup R BY <1>5
<1>9. /\ SizeOf(d, S \cup F) = SizeOf(d, S) + SizeOf(d, F)
      /\ Cardinality(S \cup F) = Cardinality(S) + Cardinality(F)
  BY <1>2, <1>5, <1>8, Sum
<1>10. /\ ds.numfiles = Cardinality(K) /\ ds.filesize = SizeOf(d, K)
       /\ b.numfiles = Cardinality(R) /\ b.filesize = SizeOf(d, R)
  BY <1>1 DEF Fits, Cover
<1> HIDE DEF K, R
<1> QED BY <1>6, <1>7, <1>8, <1>9, <1>10

-----------------------------------------------------------------------------
(* The loop of ExpireDir                                                   *)

LEMMA StatFields == ASSUME NEW ds \in StatRec
                    PROVE  /\ ds.first \in Nat /\ ds.last \in Nat /\ ds.numfiles \in Nat
                           /\ ds.filesize \in Nat /\ ds.filesize \in 0..(Wrap - 1)
                           /\ ds.max_size \in Nat /\ ds.low_water \in 0..100
                           /\ ds.status \in {"OK", "FORCE_REBUILD"}
<1>1. ds.filesize \in 0..(Wrap - 1) BY DEF StatRec
<1>2. ds.filesize \in Nat BY <1>1, Bounds
<1> QED BY <1>1, <1>2 DEF StatRec

LEMMA LoopFields == ASSUME NEW e \in LoopRec
                    PROVE  /\ e.todo \in SUBSET Slot /\ e.size_done \in BOOLEAN
                           /\ e.lifetime_done = TRUE /\ e.sizelimit \in Nat
                           /\ e.num_expired \in Nat /\ e.done \in BOOLEAN
BY DEF LoopRec

LEMMA ListFiles == ASSUME NEW g, NEW ds
                   PROVE  /\ OnList(g, ds) \subseteq Files(g) /\ OnList(g, ds) \in SUBSET Slot
                          /\ Files(g) \in SUBSET Slot /\ \A s \in OnList(g, ds) : s <= ds.last
BY DEF OnList, Files

\* What a LoopGood record says, without the file list's part of a directory.
LEMMA BeginGood ==
    ASSUME NEW z, SizeFits(z), NEW d \in Directory(z), NEW b, NEW F, NEW folded,
           NEW ds \in StatRec, Good(ds, b, d, F, folded), Modest(ds, d),
           NEW max \in Nat, NEW n, NEW r, r.listed = d, r.e = ExpireBegin(ds, d, max, 0, n),
           r.ds = [ds EXCEPT !.max_size = max, !.low_water = LowWater(ds)]
    PROVE  LoopGood(r, b, d, F, folded)
<1> DEFINE C == OnList(r.listed, r.ds)
<1>1. /\ r.ds.last = ds.last /\ r.ds.first = ds.first /\ r.ds.filesize = ds.filesize
      /\ r.ds.numfiles = ds.numfiles /\ r.ds.status = ds.status
      /\ r.ds.max_size = max /\ r.ds.low_water = LowWater(ds)
  BY DEF StatRec
<1>2. C = Known(ds, d) BY <1>1 DEF OnList, Known
<1>3. /\ r.e.todo = Files(d) /\ r.e.size_done = ~SizeOver(ds, max) /\ r.e.done = FALSE
      /\ r.e.num_expired = 0 /\ r.e.sizelimit = SizeLimit(ds, max)
  BY DEF ExpireBegin
<1>4. LowWater(r.ds) = LowWater(ds) /\ LowWater(ds) \in 1..100
  BY <1>1, LowWaterType DEF LowWater
<1>5. r.e.sizelimit = SizeLimit(r.ds, r.ds.max_size) BY <1>1, <1>3, <1>4 DEF SizeLimit
<1>6. r.e.size_done => r.ds.max_size = 0 \/ r.ds.filesize < r.ds.max_size
  <2>1. ds.filesize \in Nat BY StatFields
  <2>2. r.e.size_done => max = 0 \/ ~(ds.filesize >= max) BY <1>3 DEF SizeOver
  <2> QED BY <2>1, <2>2, <1>1
<1>7. ASSUME ds.status = "OK"
      PROVE  /\ ds.filesize = SizeOf(d, C) /\ ds.numfiles = 0 + Cardinality(C)
             /\ ds.first \in 1..ds.last /\ ds.last \in C
             /\ Account(C, ds.last, b, d, F, folded)
  <2>1. Fits(ds, d) /\ Account(C, ds.last, b, d, F, folded) BY <1>2, <1>7 DEF Good
  <2>2. Cardinality(C) \in Nat BY SizeBound, KnownFiles, <1>2
  <2>3. ds.last \in C BY <1>2, <2>1 DEF Fits, Known, StatRec
  <2> HIDE DEF C
  <2> QED BY <1>2, <2>1, <2>2, <2>3 DEF Fits
<1>8. ASSUME ds.status # "OK" PROVE ds.filesize \in {0, SizeOf(d, C)}
  BY <1>2, <1>8 DEF Modest
<1>9. \A s \in Slot : r.listed[s] # 0 => d[s] = r.listed[s] OBVIOUS
<1> HIDE DEF C
<1> QED BY <1>1, <1>3, <1>4, <1>5, <1>6, <1>7, <1>8, <1>9 DEF LoopGood, C

LEMMA KeepGood ==
    ASSUME NEW b, NEW d, NEW F, NEW folded,
           NEW r, r.ds \in StatRec, r.e \in LoopRec, LoopGood(r, b, d, F, folded),
           ~r.e.done, r.e.todo # {}, ~Victim(r.e, r.ds),
           NEW new, new.listed = r.listed, new.ds = ExpireStat(r.e, r.ds, 0, FALSE),
           new.e = ExpireLoop(r.e, r.ds, FALSE, FALSE)
    PROVE  LoopGood(new, b, d, F, folded)
<1> DEFINE C == OnList(r.listed, r.ds)
<1>1. r.e.todo = Files(r.listed) /\ r.e.lifetime_done = TRUE BY DEF LoopGood, LoopRec
<1>2. r.e.size_done \/ r.ds.filesize <= r.e.sizelimit
  <2>1. r.ds.filesize \in Nat /\ r.e.sizelimit \in Nat BY StatFields, LoopFields
  <2>2. r.e.size_done \/ ~(r.ds.filesize > r.e.sizelimit) BY DEF Victim, SizeVictim
  <2> QED BY <2>1, <2>2
<1>3. ~SizeVictim(r.e, r.ds) BY DEF Victim
<1>4. /\ new.ds.last = r.ds.last /\ new.ds.filesize = r.ds.filesize
      /\ new.ds.numfiles = r.ds.numfiles /\ new.ds.status = r.ds.status
      /\ new.ds.max_size = r.ds.max_size /\ new.ds.low_water = r.ds.low_water
      /\ new.ds.first \in {r.ds.first, NextFile(r.e)}
  BY DEF ExpireStat, StatRec
<1>5. /\ new.e.size_done = TRUE /\ new.e.done = TRUE /\ new.e.num_expired = r.e.num_expired
      /\ new.e.sizelimit = r.e.sizelimit
  BY <1>1, <1>3 DEF ExpireLoop, SizeDone, LifeDone, LoopRec
<1>6. OnList(new.listed, new.ds) = C BY <1>4 DEF OnList
<1>7. ASSUME C # {}, r.ds.first \in 1..r.ds.last, r.ds.last \in C
      PROVE  new.ds.first \in 1..new.ds.last
  <2>1. NextFile(r.e) \in Slot /\ \A s \in Files(r.listed) : NextFile(r.e) <= s
    BY <1>1, Oldest, ListFiles DEF NextFile
  <2>2. NextFile(r.e) <= r.ds.last BY <1>7, <2>1, ListFiles
  <2>3. NextFile(r.e) \in 1..r.ds.last BY <2>1, <2>2, Bounds DEF StatRec
  <2> QED BY <1>4, <1>7, <2>3
<1>8. SizeLimit(new.ds, new.ds.max_size) = SizeLimit(r.ds, r.ds.max_size)
  BY <1>4 DEF SizeLimit, LowWater
<1>9. new.ds.max_size = 0 \/ new.ds.filesize < new.ds.max_size \/ new.ds.filesize <= new.e.sizelimit
  BY <1>2, <1>4, <1>5 DEF LoopGood
<1> HIDE DEF C
<1> QED BY <1>4, <1>5, <1>6, <1>7, <1>8, <1>9 DEF LoopGood, C

\* The file that goes is on the list, and the record counts it.
LEMMA VictimCounted ==
    ASSUME NEW z, SizeFits(z), NEW d \in Directory(z), NEW b, NEW F, NEW folded,
           NEW r, r.ds \in StatRec, r.e \in LoopRec, r.listed \in Directory(z),
           LoopGood(r, b, d, F, folded),
           ~r.e.done, r.e.todo # {}, Victim(r.e, r.ds)
    PROVE  LET C == OnList(r.listed, r.ds)
               f == NextFile(r.e)
           IN  /\ ~r.e.size_done /\ SizeVictim(r.e, r.ds)
               /\ f \in C /\ (\A s \in C : f <= s) /\ f \in Slot
               /\ r.ds.filesize = SizeOf(r.listed, C) /\ r.e.todo = Files(r.listed)
<1> DEFINE C == OnList(r.listed, r.ds)
           f == NextFile(r.e)
<1>1. r.e.todo = Files(r.listed) /\ r.e.lifetime_done = TRUE BY DEF LoopGood, LoopRec
<1>2. SizeVictim(r.e, r.ds) /\ ~r.e.size_done /\ r.ds.filesize > r.e.sizelimit
  BY <1>1 DEF Victim, LifeVictim, SizeVictim
<1>3. r.ds.filesize \in Nat /\ r.e.sizelimit \in Nat BY StatFields, LoopFields
<1>4. r.ds.filesize > 0 BY <1>2, <1>3
<1>5. r.ds.filesize = SizeOf(r.listed, C) BY <1>4 DEF LoopGood
<1>6. C # {} BY <1>4, <1>5, EmptySum
<1>7. f \in Files(r.listed) /\ f \in Slot /\ f \in Nat /\ \A s \in Files(r.listed) : f <= s
  BY <1>1, Oldest, ListFiles DEF NextFile
<1>8. PICK c \in C : TRUE BY <1>6
<1>9. f <= c /\ c <= r.ds.last /\ c \in Nat BY <1>7, <1>8, ListFiles, Bounds
<1>10. f <= r.ds.last BY <1>7, <1>9 DEF StatRec
<1>11. f \in C BY <1>7, <1>10 DEF OnList
<1> QED BY <1>1, <1>2, <1>5, <1>7, <1>11, ListFiles

LEMMA AccountRemoved ==
    ASSUME NEW z, SizeFits(z), NEW d \in Directory(z), NEW C, NEW last, NEW b, NEW F, NEW folded,
           Account(C, last, b, d, F, folded), NEW f \in C, last \in C \ {f}, C \in SUBSET Slot,
           NEW g, g = [d EXCEPT ![f] = 0]
    PROVE  Account(C \ {f}, last, b, g, F, folded)
<1>1. Files(g) = Files(d) \ {f} /\ \A s \in Files(g) : g[s] = d[s]
  BY DEF Files, Directory
<1>2. CASE folded
  BY <1>1, <1>2 DEF Account, Folded
<1>3. CASE ~folded
  <2>1. Cover(C, last, b, d, F) BY <1>3 DEF Account
  <2>2. f \notin F BY <2>1, CoverTypes
  <2>3. Rest(C \ {f}, g, F) = Rest(C, d, F) BY <1>1 DEF Rest
  <2>4. \A s \in Rest(C, d, F) : g[s] = d[s] BY <1>1, <2>3 DEF Rest
  <2>5. SizeOf(g, Rest(C, d, F)) = SizeOf(d, Rest(C, d, F))
    <3>1. PICK R, k : R = Rest(C, d, F) /\ k = g OBVIOUS
    <3>2. \A s \in R : k[s] = d[s] BY <2>4, <3>1
    <3>3. SizeOf(k, R) = SizeOf(d, R) BY <3>2, SameSize
    <3> QED BY <3>1, <3>3
  <2>6. Cover(C \ {f}, last, b, g, F) BY <1>1, <2>1, <2>2, <2>3, <2>5 DEF Cover
  <2> QED BY <1>3, <2>6 DEF Account
<1> QED BY <1>2, <1>3

\* The directory d, or a list, when the file f is gone.
Without(d, f) == [d EXCEPT ![f] = 0]

LEMMA UnlinkGood ==
    ASSUME NEW z, SizeFits(z), NEW d \in Directory(z), NEW b, NEW F, NEW folded,
           NEW r, r.ds \in StatRec, r.e \in LoopRec, r.listed \in Directory(z),
           LoopGood(r, b, d, F, folded),
           ~r.e.done, r.e.todo # {}, Victim(r.e, r.ds), NEW f, f = NextFile(r.e),
           NEW g, g = Without(d, f),
           NEW new, new.listed = Without(r.listed, f),
           new.ds = ExpireStat(r.e, r.ds, r.listed[f], TRUE),
           new.e = ExpireLoop(r.e, r.ds, TRUE, FALSE)
    PROVE  LoopGood(new, b, g, F, folded)
<1> USE DEF Without
<1> DEFINE C == OnList(r.listed, r.ds)
           D == C \ {f}
<1>1. /\ ~r.e.size_done /\ SizeVictim(r.e, r.ds) /\ f \in C /\ (\A s \in C : f <= s) /\ f \in Slot
      /\ r.ds.filesize = SizeOf(r.listed, C) /\ r.e.todo = Files(r.listed)
  BY VictimCounted
<1>2. C \in SUBSET Slot /\ D \in SUBSET Slot /\ {f} \in SUBSET Slot /\ D \cap {f} = {}
      /\ D \cup {f} = C
  BY <1>1, ListFiles
<1>3. /\ SizeOf(r.listed, C) = SizeOf(r.listed, D) + r.listed[f]
      /\ Cardinality(C) = Cardinality(D) + 1 /\ r.listed[f] \in Nat
      /\ SizeOf(r.listed, D) \in 0..(Wrap - 1) /\ Cardinality(D) \in Nat
  <2>1. PICK S \in SUBSET Slot : S = D BY <1>2
  <2>2. /\ SizeOf(r.listed, S \cup {f}) = SizeOf(r.listed, S) + SizeOf(r.listed, {f})
        /\ Cardinality(S \cup {f}) = Cardinality(S) + Cardinality({f})
    BY <1>2, <2>1, Sum
  <2>3. SizeOf(r.listed, S) \in 0..(Wrap - 1) /\ Cardinality(S) \in Nat BY SizeBound
  <2>4. SizeOf(r.listed, {f}) = r.listed[f] /\ Cardinality({f}) = 1 /\ r.listed[f] \in Nat
    BY <1>1, Single
  <2> QED BY <1>2, <2>1, <2>2, <2>3, <2>4
<1>4. Files(new.listed) = Files(r.listed) \ {f} /\ \A s \in Files(new.listed) : new.listed[s] = r.listed[s]
  BY <1>1 DEF Files, Directory
<1>5. ~EndsPhase(r.e, r.ds) BY <1>1 DEF EndsPhase
<1>6. /\ new.ds.last = r.ds.last /\ new.ds.first = r.ds.first
      /\ new.ds.numfiles = r.ds.numfiles /\ new.ds.status = r.ds.status
      /\ new.ds.max_size = r.ds.max_size /\ new.ds.low_water = r.ds.low_water
      /\ new.ds.filesize = (r.ds.filesize - r.listed[f]) % Wrap
  BY <1>5 DEF ExpireStat, StatRec
<1>7. new.ds.filesize = SizeOf(r.listed, D)
  <2>1. PICK a \in 0..(Wrap - 1), l \in Nat : a = SizeOf(r.listed, D) /\ l = r.listed[f]
    BY <1>3
  <2>2. a \in Int BY Bounds
  <2>3. r.ds.filesize = a + l BY <1>1, <1>3, <2>1
  <2>4. r.ds.filesize - l = a BY <2>2, <2>3
  <2>5. a % Wrap = a BY <2>2, Modulo
  <2> QED BY <1>6, <2>1, <2>4, <2>5
<1>8. /\ new.e.size_done = FALSE /\ new.e.done = FALSE
      /\ new.e.num_expired = r.e.num_expired + 1 /\ new.e.sizelimit = r.e.sizelimit
      /\ new.e.todo = Files(new.listed)
  BY <1>1, <1>4 DEF ExpireLoop, SizeDone, LoopRec
<1>9. OnList(new.listed, new.ds) = D BY <1>4, <1>6 DEF OnList
<1>10. SizeOf(new.listed, D) = SizeOf(r.listed, D)
  <2>1. D \subseteq Files(new.listed) BY <1>4, ListFiles
  <2>2. PICK S, k : S = D /\ k = new.listed OBVIOUS
  <2>3. \A s \in S : k[s] = r.listed[s] BY <1>4, <2>1, <2>2
  <2>4. SizeOf(k, S) = SizeOf(r.listed, S) BY <2>3, SameSize
  <2> QED BY <2>2, <2>4
<1>11. \A s \in Slot : new.listed[s] # 0 => g[s] = new.listed[s]
  <2>1. \A s \in Slot : r.listed[s] # 0 => d[s] = r.listed[s] BY DEF LoopGood
  <2> QED BY <1>1, <2>1 DEF Directory
<1>12. ASSUME r.ds.status = "OK", D # {}
       PROVE  /\ r.ds.first \in 1..r.ds.last /\ r.ds.last \in D
              /\ Account(D, r.ds.last, b, g, F, folded)
  <2>1. /\ r.ds.first \in 1..r.ds.last /\ r.ds.last \in C
        /\ Account(C, r.ds.last, b, d, F, folded)
    BY <1>1, <1>12 DEF LoopGood
  <2>2. PICK s \in D : TRUE BY <1>12
  <2>3. f <= s /\ s # f /\ s <= r.ds.last /\ s \in Nat /\ f \in Nat
    BY <1>1, <1>2, <2>2, ListFiles, Bounds
  <2>4. r.ds.last # f BY <2>3 DEF StatRec
  <2>5. r.ds.last \in D BY <2>1, <2>4
  <2> HIDE DEF C
  <2>6. Account(C \ {f}, r.ds.last, b, g, F, folded) BY <1>1, <1>2, <2>1, <2>5, AccountRemoved
  <2> QED BY <2>1, <2>5, <2>6
<1>13. ASSUME r.ds.status = "OK"
       PROVE  r.ds.numfiles = r.e.num_expired + 1 + Cardinality(D)
  <2>1. r.ds.numfiles = r.e.num_expired + Cardinality(C) BY <1>13 DEF LoopGood
  <2>2. r.e.num_expired \in Nat BY DEF LoopRec
  <2> QED BY <1>3, <2>1, <2>2
<1>14. SizeLimit(new.ds, new.ds.max_size) = SizeLimit(r.ds, r.ds.max_size)
  BY <1>6 DEF SizeLimit, LowWater
<1> HIDE DEF C, D
<1>15. new.e.sizelimit = SizeLimit(new.ds, new.ds.max_size) /\ new.ds.low_water \in 1..100
  BY <1>6, <1>8, <1>14 DEF LoopGood
<1> QED BY <1>6, <1>7, <1>8, <1>9, <1>10, <1>11, <1>12, <1>13, <1>15 DEF LoopGood

\* What the list and the record say of the directory when the loop is over.
LEMMA ListedIsKnown ==
    ASSUME NEW z, SizeFits(z), NEW d \in Directory(z), NEW b, NEW F, NEW folded,
           NEW r, r.ds \in StatRec, LoopGood(r, b, d, F, folded), r.ds.status = "OK",
           OnList(r.listed, r.ds) # {}
    PROVE  Known(r.ds, d) = OnList(r.listed, r.ds)
<1> DEFINE C == OnList(r.listed, r.ds)
<1>1. r.ds.last \in C /\ Account(C, r.ds.last, b, d, F, folded) BY DEF LoopGood
<1>2. CASE folded
  <2>1. Files(d) = C BY <1>1, <1>2 DEF Account, Folded
  <2> QED BY <2>1, ListFiles DEF Known
<1>3. CASE ~folded
  <2>1. Cover(C, r.ds.last, b, d, F) BY <1>1, <1>3 DEF Account
  <2>2. C \subseteq Files(d) BY <2>1 DEF Cover
  <2>3. \A s \in Files(d) : s \in C \/ s \in F \/ s \in Rest(C, d, F) BY DEF Rest
  <2>4. \A s \in Files(d) : s \in Nat BY Bounds DEF Files
  <2>5. \A s \in Files(d) : s \in C \/ ~(s <= r.ds.last)
    <3>1. \A s \in F \cup Rest(C, d, F) : r.ds.last < s BY <2>1 DEF Cover
    <3> HIDE DEF C
    <3> QED BY <2>3, <2>4, <3>1 DEF StatRec
  <2> QED BY <2>2, <2>5, ListFiles DEF Known
<1> QED BY <1>2, <1>3

LEMMA EndGood ==
    ASSUME NEW z, SizeFits(z), NEW d \in Directory(z), NEW b, NEW F, NEW folded,
           NEW r, r.ds \in StatRec, r.e \in LoopRec, r.listed \in Directory(z),
           LoopGood(r, b, d, F, folded), r.e.done \/ r.e.todo = {}, NEW n
    PROVE  Good(ExpireEnd(r.e, r.ds, n), b, d, F, folded)
<1> DEFINE C   == OnList(r.listed, r.ds)
           new == ExpireEnd(r.e, r.ds, n)
<1> SUFFICES ASSUME new.status = "OK" PROVE Fits(new, d) /\ Account(Known(new, d), new.last, b, d, F, folded)
  BY DEF Good
<1>1. Cardinality(C) \in Nat /\ (Cardinality(C) = 0 <=> C = {}) BY ListFiles, SizeBound
<1>2. CASE r.ds.status # "OK" BY <1>2 DEF ExpireEnd, StatRec
<1>3. CASE r.ds.status = "OK"
  <2>1. r.ds.numfiles = r.e.num_expired + Cardinality(C) /\ r.ds.filesize = SizeOf(r.listed, C)
    BY <1>3 DEF LoopGood
  <2> HIDE DEF C
  <2>2. ~(r.e.num_expired > r.ds.numfiles) /\ r.ds.numfiles - r.e.num_expired = Cardinality(C)
    <3>1. PICK m \in Nat, k \in Nat : m = r.e.num_expired /\ k = Cardinality(C)
      BY <1>1, LoopFields DEF C
    <3> QED BY <2>1, <3>1
  <2>3. CASE C = {}
    BY <1>1, <2>2, <2>3 DEF ExpireEnd, StatRec
  <2>4. CASE C # {}
    <3>1. r.e.done
      <4>1. C \subseteq Files(r.listed) BY ListFiles DEF C
      <4> QED BY <2>4, <4>1 DEF LoopGood
    <3>2. /\ new.first = r.ds.first /\ new.last = r.ds.last /\ new.numfiles = Cardinality(C)
          /\ new.filesize = r.ds.filesize
      BY <1>1, <2>2, <2>4, <3>1 DEF ExpireEnd, StatRec
    <3>3. /\ r.ds.first \in 1..r.ds.last /\ r.ds.last \in C
          /\ Account(C, r.ds.last, b, d, F, folded)
      BY <1>3, <2>4 DEF LoopGood, C
    <3>4. Known(r.ds, d) = C BY <1>3, <2>4, ListedIsKnown DEF C
    <3> HIDE DEF new
    <3>5. Known(new, d) = C BY <3>2, <3>4 DEF Known
    <3>6. SizeOf(d, C) = SizeOf(r.listed, C)
      <4>1. \A s \in C : d[s] = r.listed[s]
        <5>1. \A s \in C : s \in Slot /\ r.listed[s] # 0 BY DEF C, OnList, Files
        <5> QED BY <5>1 DEF LoopGood
      <4> QED BY <4>1, SameSize
    <3>7. r.ds.last \in Files(d) BY <3>3, <3>4 DEF Known
    <3> QED BY <2>1, <3>2, <3>3, <3>5, <3>6, <3>7 DEF Fits
  <2> QED BY <2>3, <2>4
<1> QED BY <1>2, <1>3

-----------------------------------------------------------------------------
(* What an expirer has in its hands, while the collector works             *)

LEMMA ExpirerFields == ASSUME NEW z, NEW r \in ExpirerRec(z)
                       PROVE  /\ r.pc \in Before \cup Again \cup Working /\ r.mode \in Modes
                              /\ r.ds \in StatRec /\ r.rescan \in BOOLEAN
                              /\ r.seg \in {"none", "live", "removed"} /\ r.copy \in BookRec
                              /\ r.seq \in Nat /\ r.tries \in Nat /\ r.noFiles \in BOOLEAN
                              /\ r.again \in BOOLEAN /\ r.arg \in Nat
                              /\ r.listed \in Directory(z) /\ r.e \in LoopRec
BY DEF ExpirerRec

LEMMA LoopRenamed ==
    ASSUME NEW z, SizeFits(z), NEW d \in Directory(z), NEW b \in BookRec, BooksShape(b),
           NEW r, r.ds \in StatRec, NEW t \in Slot, d[t] = 0, Files(d) \subseteq 1..t,
           NEW g, g = [d EXCEPT ![t] = z], LoopGood(r, b, d, {}, FALSE)
    PROVE  LoopGood(r, b, g, {t}, FALSE)
<1> DEFINE C == OnList(r.listed, r.ds)
<1>1. \A s \in Slot : r.listed[s] # 0 => g[s] = r.listed[s]
  <2>1. \A s \in Slot : r.listed[s] # 0 => d[s] = r.listed[s] BY DEF LoopGood
  <2> QED BY <2>1 DEF Directory
<1>2. ASSUME r.ds.status = "OK", C # {}
      PROVE  Account(C, r.ds.last, b, g, {t}, FALSE)
  <2>1. Cover(C, r.ds.last, b, d, {}) BY <1>2 DEF LoopGood, Account
  <2>2. Cover(C, r.ds.last, b, g, {t}) BY <2>1, CoverRenamed
  <2> QED BY <2>2 DEF Account
<1> QED BY <1>1, <1>2 DEF LoopGood

LEMMA PhaseRenamed ==
    ASSUME NEW z, SizeFits(z), NEW d \in Directory(z), NEW b \in BookRec, BooksShape(b),
           NEW r \in ExpirerRec(z), NEW t \in Slot, d[t] = 0, Files(d) \subseteq 1..t,
           NEW g, g = [d EXCEPT ![t] = z], NEW up, NEW ok,
           PhaseOf(r, b, d, {}, FALSE, up, ok), r.pc \notin {"wipe", "seq1", "seq2", "nwipe"}
    PROVE  PhaseOf(r, b, g, {t}, FALSE, up, ok)
<1>1. r.ds \in StatRec BY ExpirerFields
<1>2. Good(r.ds, b, d, {}, FALSE) => Good(r.ds, b, g, {t}, FALSE) BY <1>1, GoodRenamed
<1>3. Modest(r.ds, d) => Modest(r.ds, g) BY <1>1, GoodRenamed
<1>4. LoopGood(r, b, d, {}, FALSE) => LoopGood(r, b, g, {t}, FALSE) BY <1>1, LoopRenamed
<1>5. Cover({}, 0, b, d, {}) => Cover({}, 0, b, g, {t}) BY CoverRenamed
<1>6. Files(g) # {}
  <2>1. z # 0 BY DEF SizeFits
  <2> QED BY <2>1 DEF Files, Directory
<1> QED BY <1>2, <1>3, <1>4, <1>5, <1>6 DEF PhaseOf

\* The size that the collector books for its new file, when it is still there.
LEMMA AddedSize == ASSUME NEW d, NEW K, NEW last, NEW b, NEW t, Cover(K, last, b, d, {t}),
                          NEW z, NEW size \in IF d[t] # 0 THEN {d[t]} ELSE {z, 0}
                   PROVE  size = d[t]
<1>1. t \in Files(d) BY DEF Cover
<1> QED BY <1>1 DEF Files

LEMMA PhaseBooked ==
    ASSUME NEW z, SizeFits(z), NEW d \in Directory(z), NEW b \in BookRec, BooksShape(b),
           NEW r \in ExpirerRec(z), NEW t \in Slot, NEW up, NEW ok,
           NEW size \in IF d[t] # 0 THEN {d[t]} ELSE {z, 0},
           PhaseOf(r, b, d, {t}, FALSE, up, ok), r.pc \notin {"wipe", "seq1", "seq2", "nwipe"}
    PROVE  PhaseOf(r, UpdateBooks(b, t, size), d, {}, FALSE, up, ok)
<1> DEFINE c == UpdateBooks(b, t, size)
<1>1. ASSUME NEW K, NEW last, Cover(K, last, b, d, {t})
      PROVE  Cover(K, last, c, d, {})
  <2>1. size = d[t] BY <1>1, AddedSize
  <2> QED BY <1>1, <2>1, CoverBooked
<1>2. Good(r.ds, b, d, {t}, FALSE) => Good(r.ds, c, d, {}, FALSE) BY <1>1 DEF Good, Account
<1>3. LoopGood(r, b, d, {t}, FALSE) => LoopGood(r, c, d, {}, FALSE) BY <1>1 DEF LoopGood, Account
<1> HIDE DEF c
<1>4. PhaseOf(r, c, d, {}, FALSE, up, ok) BY <1>1, <1>2, <1>3 DEF PhaseOf
<1> QED BY <1>4 DEF c

LEMMA GoodAdded ==
    ASSUME NEW z, SizeFits(z), NEW d \in Directory(z), NEW b \in BookRec, BooksShape(b),
           NEW ds, NEW t \in Slot, NEW size \in IF d[t] # 0 THEN {d[t]} ELSE {z, 0},
           Good(ds, b, d, {t}, FALSE)
    PROVE  Good(ds, UpdateBooks(b, t, size), d, {}, FALSE)
<1>1. ASSUME ds.status = "OK", Cover(Known(ds, d), ds.last, b, d, {t})
      PROVE  Cover(Known(ds, d), ds.last, UpdateBooks(b, t, size), d, {})
  <2>1. size = d[t] BY <1>1, AddedSize
  <2> QED BY <1>1, <2>1, CoverBooked
<1> QED BY <1>1 DEF Good, Account

\* The collector ends or starts: its books are empty, or folded in.
LEMMA AccountCleared ==
    ASSUME NEW z, SizeFits(z), NEW d \in Directory(z), NEW K, NEW last, NEW b, NEW folded,
           Account(K, last, b, d, {}, folded), ~folded => b.numfiles = 0,
           NEW c, NothingIn(c)
    PROVE  Account(K, last, c, d, {}, FALSE)
<1>1. CASE folded BY <1>1, FoldedToCover DEF Account, NothingIn
<1>2. CASE ~folded BY <1>2, CoverCleared DEF Account, NothingIn
<1> QED BY <1>1, <1>2

LEMMA PhaseEmptied ==
    ASSUME NEW z, SizeFits(z), NEW d \in Directory(z), NEW b \in BookRec, NEW folded,
           NEW r \in ExpirerRec(z), NEW up, NEW ok, PhaseOf(r, b, d, {}, folded, up, ok),
           ~folded => b.numfiles = 0, r.pc = "merge" => ~folded, NEW c, NothingIn(c),
           NEW new, new = r \/ (r.seg = "live" /\ new = [r EXCEPT !.seg = "removed", !.copy = b]),
           NEW stay,
           r.pc \in (Merging \cup Syncing) \ {"param", "finish"} /\ new.seg # "live" => ~stay
    PROVE  PhaseOf(new, c, d, {}, FALSE, stay, ok)
<1>1. /\ r.ds \in StatRec /\ new.pc = r.pc /\ new.ds = r.ds /\ new.rescan = r.rescan
      /\ new.listed = r.listed /\ new.e = r.e /\ new.noFiles = r.noFiles
      /\ r.seg # "live" => new = r
  BY ExpirerFields DEF ExpirerRec
<1>2. ASSUME NEW G, Good(r.ds, b, d, {}, G), G = folded \/ (G = FALSE /\ ~folded)
      PROVE  Good(r.ds, c, d, {}, FALSE)
  BY <1>2, GoodCleared DEF NothingIn
<1>3. ASSUME Cover({}, 0, b, d, {}), ~folded
      PROVE  Cover({}, 0, c, d, {})
  BY <1>3, CoverCleared DEF NothingIn
<1>4. ASSUME LoopGood(r, b, d, {}, folded)
      PROVE  LoopGood(new, c, d, {}, FALSE)
  <2>1. ASSUME r.ds.status = "OK", OnList(r.listed, r.ds) # {}
        PROVE  Account(OnList(r.listed, r.ds), r.ds.last, c, d, {}, FALSE)
    <3>1. Account(OnList(r.listed, r.ds), r.ds.last, b, d, {}, folded)
      BY <1>4, <2>1 DEF LoopGood
    <3> QED BY <3>1, AccountCleared
  <2> QED BY <1>1, <1>4, <2>1 DEF LoopGood
<1>5. ASSUME r.pc \in {"sync", "merge"}, ~r.rescan, new.seg = "removed"
      PROVE  new.copy.numfiles = 0 \/ new.copy.last <= new.ds.last
  <2>1. CASE new = r BY <1>5, <2>1 DEF PhaseOf
  <2>2. CASE new = [r EXCEPT !.seg = "removed", !.copy = b]
    <3>1. new.copy = b BY <2>2 DEF ExpirerRec
    <3>2. r.ds.status = "OK" /\ Good(r.ds, b, d, {}, folded) BY <1>5 DEF PhaseOf
    <3>3. folded => b.last <= r.ds.last BY <3>2 DEF Good, Account, Folded
    <3> QED BY <1>1, <3>1, <3>3
  <2> QED BY <2>1, <2>2
<1>6. r.pc \in (Merging \cup Syncing) \ {"param", "finish"} /\ new.seg # "live" => ~stay
  OBVIOUS
<1>7. ASSUME r.pc = "merge", r.rescan
      PROVE  /\ Good(new.ds, c, d, {}, FALSE)
             /\ new.ds.status # "OK" => new.ds.filesize = 0 /\ Cover({}, 0, c, d, {})
  <2>1. /\ Good(r.ds, b, d, {}, FALSE) /\ ~folded
        /\ r.ds.status # "OK" => r.ds.filesize = 0 /\ Cover({}, 0, b, d, {})
    BY <1>7 DEF PhaseOf
  <2> QED BY <1>1, <1>2, <1>3, <2>1
<1>8. ASSUME Good(r.ds, b, d, {}, folded) PROVE Good(new.ds, c, d, {}, FALSE)
  BY <1>1, <1>2, <1>8
<1>9. new.pc = r.pc /\ new.ds = r.ds /\ new.rescan = r.rescan /\ new.noFiles = r.noFiles
  BY <1>1
<1> HIDE DEF Working, Merging, Syncing
<1> QED BY <1>4, <1>5, <1>6, <1>7, <1>8, <1>9 DEF PhaseOf

-----------------------------------------------------------------------------
(* The frame of a step of an expirer                                       *)

LEMMA Scene == ASSUME Typed
               PROVE  /\ SizeFits(scene.size) /\ scene.size \in Nat
                      /\ scene.slots \in 1..MaxSlot /\ scene.slots \in Nat
                      /\ scene.modes \subseteq {"list", "rescan", "expire", "update"}
                      /\ scene.args \subseteq Nat
                      /\ Expirers \subseteq {"launcher", "nfexpire"}
                      /\ \A p \in Expirers : p # Collector /\ p # Nobody
                      /\ \A p \in Expirers : p \in Launchers <=> p = "launcher"
                      /\ Launchers \subseteq Expirers
                      /\ (Launchers = {} <=> "launcher" \notin Expirers)
<1>1. scene \in Scenes BY DEF Typed
<1>2. /\ scene.auto \in BOOLEAN /\ scene.slots \in 1..MaxSlot
      /\ scene.size \in Nat \ {0} /\ MaxSlot * scene.size < Wrap
      /\ scene.modes \subseteq {"list", "rescan", "expire", "update"} /\ scene.args \subseteq Nat
  BY <1>1, ScenesAssumption
<1>3. scene.slots \in Nat BY <1>2, Bounds
<1>4. SizeFits(scene.size) BY <1>2 DEF SizeFits
<1> QED BY <1>2, <1>3, <1>4 DEF Expirers, Launchers, Collector, Nobody

LEMMA Went == ASSUME NEW z, x \in [Expirers -> ExpirerRec(z)], NEW p \in Expirers,
                     NEW new \in ExpirerRec(z), Go(p, new)
              PROVE  /\ x' \in [Expirers -> ExpirerRec(z)] /\ x'[p] = new
                     /\ \A q \in Expirers : q # p => x'[q] = x[q]
BY DEF Go

\* Before it has the lock an expirer has nothing in its hands.
LEMMA PhaseBefore == ASSUME NEW r, r.pc \in Before, NEW b, NEW d, NEW F, NEW folded,
                            NEW up, NEW ok
                     PROVE  PhaseOf(r, b, d, F, folded, up, ok)
BY DEF PhaseOf, Before, Again, Merging, Syncing

LEMMA PhaseNotOK == ASSUME NEW r, NEW b, NEW d, NEW F, NEW folded, NEW up,
                           NEW ok \in BOOLEAN, NEW now_ok \in BOOLEAN, now_ok => ok,
                           PhaseOf(r, b, d, F, folded, up, ok)
                    PROVE  PhaseOf(r, b, d, F, folded, up, now_ok)
BY DEF PhaseOf

\* The holder of the lock is alone.
LEMMA Alone == ASSUME Typed, Places, Core, NEW p \in Expirers, lock = p,
                      NEW q \in Expirers, q # p
               PROVE  x[q].pc \in Before
<1>1. x[q].pc \in Before \cup Again \cup Working BY ExpirerFields DEF Typed
<1>2. x[q].pc \notin Working BY DEF Places, PlaceIs
<1>3. x[q].pc \notin Again
  <2>1. ~Rewriting BY Scene DEF Core
  <2> QED BY <2>1 DEF Rewriting, Again
<1> QED BY <1>1, <1>2, <1>3

LEMMA Others ==
    ASSUME Typed, Places, Core, NEW p \in Expirers, NEW q \in Expirers, q # p, x'[q] = x[q],
           UNCHANGED <<scene, col, shm>>,
           (UNCHANGED <<books, dir>> /\ (RecordOK' => RecordOK)) \/ lock = p
    PROVE  Phase(q)'
<1>1. InFlight' = InFlight /\ Ended' = Ended BY DEF InFlight, Ended, Launchers
<1>2. CASE lock = p
  <2>1. x'[q].pc \in Before BY <1>2, Alone
  <2> QED BY <2>1, PhaseBefore DEF Phase
<1>3. CASE UNCHANGED <<books, dir>> /\ (RecordOK' => RecordOK)
  <2>1. Phase(q) BY DEF Core
  <2>2. RecordOK \in BOOLEAN /\ RecordOK' \in BOOLEAN BY DEF RecordOK
  <2>3. PhaseOf(x[q], books, dir, InFlight, Ended, shm, RecordOK')
    BY <1>3, <2>1, <2>2, PhaseNotOK DEF Phase
  <2> QED BY <1>1, <1>3, <2>3 DEF Phase
<1> QED BY <1>2, <1>3

\* How the lock moves in a step of p.
LockMoves(p, new) == \/ new = lock
                     \/ lock = Nobody /\ new = p
                     \/ lock = p /\ new = Nobody

LEMMA FrameTyped ==
    ASSUME Typed, Times, Places, NEW p \in Expirers, NEW new \in ExpirerRec(scene.size), Go(p, new),
           UNCHANGED <<scene, now, col, shm>>,
           dir' \in Directory(scene.size), Files(dir') \subseteq Files(dir),
           books' \in BookRec, BooksShape(books'), statfile' \in StatFile,
           statfile'.state = "none" => statfile.state = "none",
           PlaceIs(p, new, lock', statfile'.state), LockMoves(p, lock')
    PROVE  Typed' /\ Times' /\ Places'
<1>1. Expirers' = Expirers /\ Launchers' = Launchers BY DEF Expirers, Launchers
<1>2. /\ x' \in [Expirers -> ExpirerRec(scene.size)] /\ x'[p] = new
      /\ \A q \in Expirers : q # p => x'[q] = x[q]
  BY Went DEF Typed
<1>3. p # Collector /\ p # Nobody BY Scene
<1>4. Typed' BY <1>1, <1>2 DEF Typed, LockMoves
<1>5. Times' BY DEF Times
<1>6. ASSUME NEW q \in Expirers PROVE PlaceIs(q, x'[q], lock', statfile'.state)
  <2>1. CASE q = p BY <1>2, <2>1
  <2>2. CASE q # p
    <3>1. PlaceIs(q, x[q], lock, statfile.state) BY DEF Places
    <3>2. lock' = q <=> lock = q BY <1>3, <2>2, Scene DEF LockMoves
    <3> QED BY <1>2, <2>2, <3>1, <3>2 DEF PlaceIs
  <2> QED BY <2>1, <2>2
<1>7. (lock' = Collector <=> lock = Collector) BY <1>3 DEF LockMoves, Nobody, Collector
<1>8. Places' BY <1>1, <1>6, <1>7 DEF Places
<1> QED BY <1>4, <1>5, <1>8

\* What p must have in its hands after the step.
LEMMA FrameCore ==
    ASSUME Typed, Times, Places, Core, NEW p \in Expirers, NEW new \in ExpirerRec(scene.size), Go(p, new),
           UNCHANGED <<scene, now, col, shm>>, LockMoves(p, lock'),
           \/ lock = p
           \/ UNCHANGED <<books, dir>> /\ (statfile' = statfile \/ ~RecordOK'),
           PhaseOf(new, books', dir', InFlight, Ended, shm, RecordOK'),
           RecordOK' /\ (lock' # lock \/ lock = p) /\ (lock' = p => Clean(new)) =>
               Good(statfile'.rec, books', dir', InFlight, Ended),
           col.pc = "down" => books'.numfiles = 0,
           new.pc \in Again => lock' = Nobody,
           Rewriting => lock' = Nobody \/ x[p].pc \in Again
    PROVE  Core'
<1>1. Expirers' = Expirers BY DEF Expirers, Launchers
<1>2. x'[p] = new /\ \A q \in Expirers : q # p => x'[q] = x[q] BY Went DEF Typed
<1>3. p # Collector /\ p # Nobody BY Scene
<1>4. InFlight' = InFlight /\ Ended' = Ended BY DEF InFlight, Ended, Launchers
<1>5. \A q \in Expirers : Phase(q)'
  <2>1. Phase(p)' BY <1>2, <1>4 DEF Phase
  <2>2. (UNCHANGED <<books, dir>> /\ (RecordOK' => RecordOK)) \/ lock = p BY DEF RecordOK
  <2>3. ASSUME NEW q \in Expirers, q # p PROVE Phase(q)' BY <1>2, <2>2, <2>3, Others
  <2> QED BY <2>1, <2>3
<1>6. FileGood'
  <2>1. CASE lock' # lock \/ lock = p
    <3>1. lock' # Collector /\ lock' \in {p, Nobody} BY <1>3, <2>1 DEF LockMoves, Nobody, Collector
    <3>2. ASSUME Untouched' PROVE lock' = p => Clean(new)
      BY <1>1, <1>2, <1>3, <3>1, <3>2 DEF Untouched, Collector
    <3> QED BY <1>4, <2>1, <3>1, <3>2 DEF FileGood
  <2>2. CASE lock' = lock /\ lock # p
    <3>1. UNCHANGED <<books, dir>> BY <2>2
    <3>2. CASE ~RecordOK' BY <3>2 DEF FileGood
    <3>3. CASE RecordOK'
      <4>1. statfile' = statfile /\ RecordOK BY <2>2, <3>3 DEF RecordOK
      <4>2. Untouched' => Untouched BY <1>1, <1>2, <2>2 DEF Untouched
      <4>3. FileGood BY DEF Core
      <4> QED BY <1>4, <2>2, <3>1, <4>1, <4>2, <4>3 DEF FileGood
    <3> QED BY <3>2, <3>3
  <2> QED BY <2>1, <2>2
<1>7. FoldGood'
  <2>1. CASE col.pc \in {"foldTrunc", "foldWrite"}
    <3>1. lock # p BY <1>3, <2>1 DEF Places
    <3>2. FoldGood BY DEF Core
    <3> QED BY <3>1, <3>2 DEF FoldGood
  <2>2. CASE col.pc \notin {"foldTrunc", "foldWrite"} BY <2>2 DEF FoldGood
  <2> QED BY <2>1, <2>2
<1>8. Rewriting' => lock' = Nobody
  <2> SUFFICES ASSUME NEW q \in Expirers, x'[q].pc \in {"reopen", "relock"} PROVE lock' = Nobody
    BY <1>1 DEF Rewriting
  <2>1. CASE q = p BY <1>2, <2>1 DEF Again
  <2>2. CASE q # p
    <3>1. x[q].pc \in Again /\ Rewriting BY <1>2, <2>2 DEF Rewriting, Again
    <3>2. x[p].pc \notin Again
      <4>1. x[q].pc \in Again /\ x[p].pc \in Again => p # "launcher" /\ q # "launcher"
        BY DEF Places, PlaceIs, Before, Again, Shared, Merging
      <4> QED BY <2>2, <3>1, <4>1, Scene
    <3> QED BY <3>1, <3>2
  <2> QED BY <2>1, <2>2
<1> QED BY <1>1, <1>5, <1>6, <1>7, <1>8 DEF Core

-----------------------------------------------------------------------------
(* The steps of an expirer up to the lock                                  *)

LEMMA Moved == ASSUME NEW z, NEW r \in ExpirerRec(z), NEW pc \in Before \cup Again \cup Working
               PROVE  /\ [r EXCEPT !.pc = pc] \in ExpirerRec(z)
                      /\ LET new == [r EXCEPT !.pc = pc] IN
                         /\ new.pc = pc /\ new.mode = r.mode /\ new.ds = r.ds
                         /\ new.rescan = r.rescan /\ new.seg = r.seg /\ new.copy = r.copy
                         /\ new.noFiles = r.noFiles /\ new.again = r.again /\ new.arg = r.arg
                         /\ new.listed = r.listed /\ new.e = r.e
BY DEF ExpirerRec

LEMMA IdleType == ASSUME NEW z, SizeFits(z)
                  PROVE  /\ Idle \in ExpirerRec(z) /\ Idle.pc = "idle" /\ Idle.seg = "none"
                         /\ Idle.noFiles = FALSE /\ Idle.again = FALSE /\ Idle.mode = "none"
                         /\ Idle.e \in LoopRec /\ Idle.listed \in Directory(z)
                         /\ Idle.rescan = FALSE
<1>1. [s \in Slot |-> 0] \in Directory(z) BY DEF Directory
<1>2. ExpireBegin(ZeroStat, [s \in Slot |-> 0], 0, 0, 0) \in LoopRec BY <1>1, Constants, BeginType
<1>3. PICK d \in Directory(z), e \in LoopRec : d = [s \in Slot |-> 0] /\ e = ExpireBegin(ZeroStat, [s \in Slot |-> 0], 0, 0, 0)
  BY <1>1, <1>2
<1>4. Idle = [pc |-> "idle", mode |-> "none", ds |-> ZeroStat, rescan |-> FALSE,
         seg |-> "none", copy |-> NoBooks, seq |-> 0, tries |-> 0,
         noFiles |-> FALSE, again |-> FALSE, arg |-> 0, listed |-> d, e |-> e]
  BY <1>3 DEF Idle
<1>5. Idle \in ExpirerRec(z) BY <1>4, Constants DEF ExpirerRec, Before, Modes
<1> QED BY <1>1, <1>2, <1>3, <1>4, <1>5

LEMMA Stays == ASSUME Typed, Times, Places
               PROVE  /\ dir \in Directory(scene.size) /\ books \in BookRec /\ BooksShape(books)
                      /\ statfile \in StatFile /\ \A p \in Expirers : x[p] \in ExpirerRec(scene.size)
                      /\ \A p \in Expirers : PlaceIs(p, x[p], lock, statfile.state)
                      /\ lock \in Expirers \cup {Collector, Nobody}
BY DEF Typed, Places

LEMMA StartStep == ASSUME IInv, NEW p \in Expirers, Start(p) PROVE IInv'
<1> USE DEF IInv
<1>1. PICK m \in Modes, a \in Nat :
         /\ Go(p, [Idle EXCEPT !.pc = "open", !.mode = m, !.arg = a])
         /\ p = "launcher" <=> m = "auto"
  <2>1. PICK m, a : /\ m \in IF p \in Launchers THEN {"auto"} ELSE scene.modes
                    /\ a \in IF m \in {"expire", "update"} THEN scene.args ELSE {0}
                    /\ Go(p, [Idle EXCEPT !.pc = "open", !.mode = m, !.arg = a])
    BY DEF Start
  <2>2. m \in Modes /\ (p = "launcher" <=> m = "auto") BY <2>1, Scene DEF Modes
  <2>3. a \in Nat BY <2>1, Scene
  <2> QED BY <2>1, <2>2, <2>3
<1>2. PICK new \in ExpirerRec(scene.size) :
         /\ Go(p, new) /\ new.pc = "open" /\ new.mode = m /\ ~new.again
         /\ new.seg = "none" /\ ~new.noFiles
  <2> DEFINE new == [Idle EXCEPT !.pc = "open", !.mode = m, !.arg = a]
  <2>1. Idle \in ExpirerRec(scene.size) BY Scene, IdleType
  <2>2. new \in ExpirerRec(scene.size) BY <2>1 DEF ExpirerRec, Before
  <2>3. /\ new.pc = "open" /\ new.mode = m /\ new.again = Idle.again
        /\ new.seg = Idle.seg /\ new.noFiles = Idle.noFiles
    BY <2>1 DEF ExpirerRec
  <2> HIDE DEF new
  <2> QED BY <1>1, <2>2, <2>3, Scene, IdleType DEF new
<1>3. /\ x[p].pc = "idle" /\ UNCHANGED <<scene, now, col, shm, books, dir, statfile, lock, raced>>
  BY DEF Start, AtPC, colVars, fileVars
<1>4. PlaceIs(p, new, lock, statfile.state)
  <2>1. lock # p BY <1>3, Stays DEF PlaceIs, Working, Shared, Merging, Syncing
  <2> QED BY <1>1, <1>2, <2>1
        DEF PlaceIs, Before, Working, Shared, Merging, Syncing
<1>5. Typed' /\ Times' /\ Places' BY <1>2, <1>3, <1>4, Stays, FrameTyped DEF LockMoves
<1>6. ASSUME Core PROVE Core'
  <2>1. PhaseOf(new, books, dir, InFlight, Ended, shm, RecordOK)
    BY <1>2, PhaseBefore DEF Before
  <2>2. lock # p BY <1>3, Stays DEF PlaceIs, Working, Shared, Merging, Syncing
  <2>3. new.pc \notin Again BY <1>2 DEF Again
  <2>4. RecordOK' = RecordOK BY <1>3 DEF RecordOK
  <2>5. /\ col.pc = "down" => books.numfiles = 0
        /\ Rewriting => lock = Nobody
    BY <1>6 DEF Core
  <2> QED BY <1>2, <1>3, <1>6, <2>1, <2>2, <2>3, <2>4, <2>5, FrameCore DEF LockMoves
<1> QED BY <1>3, <1>5, <1>6

LEMMA OpenStep == ASSUME IInv, NEW p \in Expirers, Open(p) PROVE IInv'
<1> USE DEF IInv
<1>1. /\ x[p].pc = "open" /\ UNCHANGED <<scene, now, col, shm, books, dir, statfile, lock, raced>>
      /\ Go(p, [x[p] EXCEPT !.pc = IF statfile.state = "none" THEN "create" ELSE "lock"])
  BY DEF Open, AtPC, colVars, fileVars
<1>2. PICK pc : pc = IF statfile.state = "none" THEN "create" ELSE "lock" OBVIOUS
<1>3. PICK new : new = [x[p] EXCEPT !.pc = pc] OBVIOUS
<1>4. /\ new \in ExpirerRec(scene.size) /\ Go(p, new)
      /\ new.pc = pc /\ new.mode = x[p].mode /\ new.again = x[p].again
      /\ new.seg = x[p].seg /\ new.noFiles = x[p].noFiles
  <2>1. pc \in Before BY <1>2 DEF Before
  <2> QED BY <1>1, <1>2, <1>3, <2>1, Stays, Moved
<1>5. lock # p /\ PlaceIs(p, new, lock, statfile.state)
  <2>1. lock # p BY <1>1, Stays DEF PlaceIs, Working, Shared, Merging, Syncing
  <2> QED BY <1>1, <1>2, <1>4, <2>1, Stays
        DEF PlaceIs, Before, Working, Shared, Merging, Syncing
<1>6. Typed' /\ Times' /\ Places' BY <1>1, <1>4, <1>5, Stays, FrameTyped DEF LockMoves
<1>7. ASSUME Core PROVE Core'
  <2>1. PhaseOf(new, books, dir, InFlight, Ended, shm, RecordOK)
    BY <1>2, <1>4, PhaseBefore DEF Before
  <2>2. new.pc \notin Again BY <1>2, <1>4 DEF Again
  <2>3. RecordOK' = RecordOK BY <1>1 DEF RecordOK
  <2>4. /\ col.pc = "down" => books.numfiles = 0
        /\ Rewriting => lock = Nobody
    BY <1>7 DEF Core
  <2> QED BY <1>1, <1>4, <1>5, <1>7, <2>1, <2>2, <2>3, <2>4, FrameCore DEF LockMoves
<1> QED BY <1>1, <1>6, <1>7

LEMMA StatFiles == /\ Empty \in StatFile /\ Empty.state = "empty"
                   /\ \A ds \in StatRec : Full(ds) \in StatFile /\ Full(ds).state = "full" /\ Full(ds).rec = ds
                   /\ NoFile \in StatFile /\ NoFile.state = "none"
BY Constants DEF Empty, Full, NoFile, StatFile

LEMMA CreateStep == ASSUME IInv, NEW p \in Expirers, Create(p) PROVE IInv'
<1> USE DEF IInv
<1>1. /\ x[p].pc = "create" /\ UNCHANGED <<scene, now, col, shm, books, dir, lock, raced>>
      /\ Go(p, [x[p] EXCEPT !.pc = "lockNew"]) /\ statfile' = Empty
  BY DEF Create, AtPC, colVars
<1>2. PICK new : new = [x[p] EXCEPT !.pc = "lockNew"] OBVIOUS
<1>3. /\ new \in ExpirerRec(scene.size) /\ Go(p, new)
      /\ new.pc = "lockNew" /\ new.mode = x[p].mode /\ new.again = x[p].again
      /\ new.seg = x[p].seg /\ new.noFiles = x[p].noFiles
  BY <1>1, <1>2, Stays, Moved DEF Before
<1>4. lock # p /\ PlaceIs(p, new, lock, statfile'.state)
  <2>1. lock # p BY <1>1, Stays DEF PlaceIs, Working, Shared, Merging, Syncing
  <2> QED BY <1>1, <1>3, <2>1, Stays, StatFiles
        DEF PlaceIs, Before, Working, Shared, Merging, Syncing
<1>5. Typed' /\ Times' /\ Places' BY <1>1, <1>3, <1>4, Stays, StatFiles, FrameTyped DEF LockMoves
<1>6. ASSUME Core PROVE Core'
  <2>1. PhaseOf(new, books, dir, InFlight, Ended, shm, RecordOK')
    BY <1>3, PhaseBefore DEF Before
  <2>2. new.pc \notin Again BY <1>3 DEF Again
  <2>3. ~RecordOK' BY <1>1, StatFiles DEF RecordOK
  <2>4. /\ col.pc = "down" => books.numfiles = 0
        /\ Rewriting => lock = Nobody
    BY <1>6 DEF Core
  <2> QED BY <1>1, <1>3, <1>4, <1>6, <2>1, <2>2, <2>3, <2>4, FrameCore DEF LockMoves
<1> QED BY <1>1, <1>5, <1>6

\* Where an expirer goes on with the lock.
LEMMA FirstSteps ==
    ASSUME Typed, Times, Places, NEW p \in Expirers, x[p].pc \in {"lockNew", "lock"},
           NEW rescan \in BOOLEAN, x[p].mode = "rescan" => rescan
    PROVE  /\ p = "launcher" => FirstStep(p, rescan) = IF rescan THEN "scan" ELSE "merge"
           /\ p # "launcher" =>
                 FirstStep(p, rescan) \in {"sync"} \cup IF rescan THEN {"seq0"} ELSE {"param", "finish"}
           /\ FirstStep(p, rescan) \in Working
<1>1. PlaceIs(p, x[p], lock, statfile.state) /\ x[p].mode \in Modes BY Stays, ExpirerFields
<1> QED BY <1>1 DEF FirstStep, Task, PlaceIs, Working, Shared, Merging, Syncing, Modes

LEMMA LockNewStep == ASSUME IInv, NEW p \in Expirers, LockNew(p) PROVE IInv'
<1> USE DEF IInv
<1>1. /\ x[p].pc = "lockNew" /\ lock = Nobody /\ lock' = p
      /\ raced' = raced \cup Note("unlocked", Rewriting)
      /\ UNCHANGED <<scene, now, col, shm, books, dir, statfile>>
      /\ Go(p, [x[p] EXCEPT !.pc = FirstStep(p, TRUE), !.rescan = TRUE, !.seg = Attached,
                          !.ds = IF x[p].mode = "auto"
                                 THEN [ZeroStat EXCEPT !.low_water = 95] ELSE ZeroStat])
  BY DEF LockNew, AtPC, colVars
<1>2. PICK ds \in StatRec : ds = IF x[p].mode = "auto"
                                 THEN [ZeroStat EXCEPT !.low_water = 95] ELSE ZeroStat
  <2>1. ASSUME NEW z \in StatRec PROVE [z EXCEPT !.low_water = 95] \in StatRec
    <3>1. 95 \in 0..100 OBVIOUS
    <3> QED BY <3>1 DEF StatRec
  <2> QED BY <2>1, Constants
<1>3. PICK pc, seg : pc = FirstStep(p, TRUE) /\ seg = Attached OBVIOUS
<1>4. PICK new : new = [x[p] EXCEPT !.pc = pc, !.rescan = TRUE, !.seg = seg, !.ds = ds] OBVIOUS
<1>5. pc = IF p = "launcher" THEN "scan" ELSE pc
  BY <1>1, <1>3, FirstSteps
<1>6. p # "launcher" => pc \in {"sync", "seq0"} BY <1>1, <1>3, FirstSteps
<1>7. /\ new \in ExpirerRec(scene.size) /\ Go(p, new)
      /\ new.pc = pc /\ new.mode = x[p].mode /\ new.again = x[p].again /\ new.rescan = TRUE
      /\ new.seg = seg /\ new.noFiles = x[p].noFiles /\ new.ds = ds
  <2>1. x[p] \in ExpirerRec(scene.size) BY Stays
  <2>2. pc \in Before \cup Again \cup Working BY <1>1, <1>3, FirstSteps
  <2>3. seg \in {"none", "live", "removed"} BY <1>3 DEF Attached
  <2>4. Go(p, new) BY <1>1, <1>2, <1>3, <1>4
  <2>5. PICK rescan \in BOOLEAN : rescan OBVIOUS
  <2>6. PICK r \in ExpirerRec(scene.size) : r = x[p] BY <2>1
  <2>7. new = [r EXCEPT !.pc = pc, !.rescan = rescan, !.seg = seg, !.ds = ds] BY <1>4, <2>5, <2>6
  <2>8. /\ new \in ExpirerRec(scene.size) /\ new.pc = pc /\ new.rescan = rescan
        /\ new.seg = seg /\ new.ds = ds /\ new.mode = r.mode /\ new.again = r.again
        /\ new.noFiles = r.noFiles
    <3>1. rescan \in BOOLEAN /\ ds \in StatRec OBVIOUS
    <3> QED BY <2>2, <2>3, <2>7, <3>1 DEF ExpirerRec
  <2> QED BY <2>4, <2>5, <2>6, <2>8
<1>8. PlaceIs(p, new, p, statfile.state)
  <2>1. PlaceIs(p, x[p], lock, statfile.state) BY Stays
  <2>2. seg # "removed" BY <1>3 DEF Attached
  <2> QED BY <1>1, <1>5, <1>6, <1>7, <2>1, <2>2
        DEF PlaceIs, Before, Working, Shared, Merging, Syncing
<1>9. Typed' /\ Times' /\ Places' BY <1>1, <1>7, <1>8, Stays, FrameTyped DEF LockMoves
<1>10. ASSUME Core, raced' = {} PROVE Core'
  <2>1. ~Rewriting BY <1>1, <1>10 DEF Note
  <2>2. RecordOK' = RecordOK BY <1>1 DEF RecordOK
  <2>3. Untouched BY <1>1 DEF Untouched
  <2>4. RecordOK => Good(statfile.rec, books, dir, InFlight, Ended) /\ Files(dir) # {}
    <3>1. FileGood BY <1>10 DEF Core
    <3>2. statfile.rec \in StatRec BY Stays DEF StatFile
    <3> QED BY <2>3, <3>1, <3>2, GoodVerified DEF FileGood, RecordOK
  <2>5. seg # "live" => ~shm BY <1>3 DEF Attached
  <2>6. ~x[p].noFiles BY <1>1, Stays DEF PlaceIs, Before
  <2>7. PhaseOf(new, books, dir, InFlight, Ended, shm, RecordOK)
    BY <1>5, <1>6, <1>7, <2>4, <2>5, <2>6 DEF PhaseOf, Again
  <2>8. new.pc \notin Again BY <1>5, <1>6, <1>7 DEF Again
  <2>9. col.pc = "down" => books.numfiles = 0 BY <1>10 DEF Core
  <2> QED BY <1>1, <1>7, <1>10, <2>1, <2>2, <2>4, <2>7, <2>8, <2>9, FrameCore DEF LockMoves
<1>11. raced' = {} => raced = {} BY <1>1
<1> QED BY <1>9, <1>10, <1>11

LEMMA LockStep == ASSUME IInv, NEW p \in Expirers, Lock(p) PROVE IInv'
<1> USE DEF IInv
<1>1. PICK read : read = IF statfile.state = "empty" THEN TmplStat ELSE statfile.rec OBVIOUS
<1>2. PICK ds : ds = VerifyStatInfo(read) OBVIOUS
<1>3. PICK rescan \in BOOLEAN : rescan = (ds.status = "FORCE_REBUILD" \/ x[p].mode = "rescan")
  OBVIOUS
<1>4. PICK pc, seg : pc = FirstStep(p, rescan) /\ seg = Attached OBVIOUS
<1>5. PICK new : new = [x[p] EXCEPT !.pc = pc, !.rescan = rescan, !.seg = seg, !.ds = ds] OBVIOUS
<1>6. /\ x[p].pc = "lock" /\ lock = Nobody /\ lock' = p
      /\ raced' = raced \cup Note("unlocked", Rewriting)
      /\ UNCHANGED <<scene, now, col, shm, books, dir, statfile>> /\ Go(p, new)
  BY <1>1, <1>2, <1>3, <1>4, <1>5 DEF Lock, AtPC, colVars
<1>7. read \in StatRec /\ ds \in StatRec
  <2>1. read \in StatRec BY <1>1, Stays, Constants DEF StatFile
  <2> QED BY <1>2, <2>1, VerifyType
<1>8. x[p].mode = "rescan" => rescan = TRUE BY <1>3
<1>9. /\ p = "launcher" => pc = IF rescan THEN "scan" ELSE "merge"
      /\ p # "launcher" => pc \in {"sync"} \cup IF rescan THEN {"seq0"} ELSE {"param", "finish"}
      /\ pc \in Working
  BY <1>4, <1>6, <1>8, FirstSteps
<1>10. /\ new \in ExpirerRec(scene.size)
       /\ new.pc = pc /\ new.mode = x[p].mode /\ new.again = x[p].again /\ new.rescan = rescan
       /\ new.seg = seg /\ new.noFiles = x[p].noFiles /\ new.ds = ds
  <2>1. seg \in {"none", "live", "removed"} BY <1>4 DEF Attached
  <2>2. pc \in Before \cup Again \cup Working BY <1>9
  <2>3. PICK r \in ExpirerRec(scene.size) : r = x[p] BY Stays
  <2>4. new = [r EXCEPT !.pc = pc, !.rescan = rescan, !.seg = seg, !.ds = ds] BY <1>5, <2>3
  <2>5. /\ new \in ExpirerRec(scene.size) /\ new.pc = pc /\ new.rescan = rescan
        /\ new.seg = seg /\ new.ds = ds /\ new.mode = r.mode /\ new.again = r.again
        /\ new.noFiles = r.noFiles
    BY <1>7, <2>1, <2>2, <2>4 DEF ExpirerRec
  <2> QED BY <2>3, <2>5
<1>11. seg # "removed" /\ (seg # "live" => ~shm) BY <1>4 DEF Attached
<1>12. PlaceIs(p, new, p, statfile.state)
  <2>1. PlaceIs(p, x[p], lock, statfile.state) BY Stays
  <2> QED BY <1>6, <1>9, <1>10, <1>11, <2>1
        DEF PlaceIs, Before, Working, Shared, Merging, Syncing
<1>13. Typed' /\ Times' /\ Places' BY <1>6, <1>10, <1>12, Stays, FrameTyped DEF LockMoves
<1>14. ASSUME Core, raced' = {} PROVE Core'
  <2>1. ~Rewriting BY <1>6, <1>14 DEF Note
  <2>2. RecordOK' = RecordOK BY <1>6 DEF RecordOK
  <2>3. RecordOK => Good(statfile.rec, books, dir, InFlight, Ended) /\ Files(dir) # {}
    <3>1. FileGood BY <1>14 DEF Core
    <3>2. statfile.rec \in StatRec BY Stays DEF StatFile
    <3>3. Untouched BY <1>6 DEF Untouched
    <3> QED BY <3>1, <3>2, <3>3, GoodVerified DEF FileGood, RecordOK
  <2>4. ASSUME ~rescan PROVE ds.status = "OK" /\ Good(ds, books, dir, InFlight, Ended)
    <3>1. ds.status = "OK" BY <1>3, <1>7, <2>4, StatFields
    <3>2. ds = read /\ read.status = "OK" BY <1>2, <1>7, <3>1, Verified
    <3>3. statfile.state # "empty" BY <1>1, <3>2, Constants DEF TmplStat, ZeroStat
    <3>4. statfile.state # "none" BY <1>6, Stays DEF PlaceIs
    <3>5. RecordOK /\ ds = statfile.rec BY <1>1, <3>2, <3>3, <3>4, Stays DEF RecordOK, StatFile
    <3> QED BY <2>3, <3>1, <3>5
  <2>5. ~x[p].noFiles BY <1>6, Stays DEF PlaceIs, Before
  <2>6. PhaseOf(new, books, dir, InFlight, Ended, shm, RecordOK)
    BY <1>9, <1>10, <1>11, <2>3, <2>4, <2>5 DEF PhaseOf, Again
  <2>7. new.pc \notin Again BY <1>9, <1>10 DEF Again, Working, Shared, Merging, Syncing
  <2>8. col.pc = "down" => books.numfiles = 0 BY <1>14 DEF Core
  <2> QED BY <1>6, <1>10, <1>14, <2>1, <2>2, <2>3, <2>6, <2>7, <2>8, FrameCore DEF LockMoves
<1>15. raced' = {} => raced = {} BY <1>6
<1> QED BY <1>13, <1>14, <1>15

-----------------------------------------------------------------------------
(* The steps of the holder of the lock                                     *)

LEMMA Holding == ASSUME Typed, Times, Places, NEW p \in Expirers, x[p].pc \in Working
                 PROVE  /\ lock = p /\ statfile.state # "none" /\ x[p] \in ExpirerRec(scene.size)
                        /\ p = "launcher" => /\ x[p].pc \in Shared \cup Merging
                                             /\ x[p].mode = "auto" /\ ~x[p].again
                                             /\ ~x[p].noFiles /\ x[p].seg # "removed"
                        /\ p # "launcher" => x[p].pc \in Shared \cup Syncing /\ x[p].mode # "auto"
                        /\ x[p].pc \in {"scan", "wipe"} => x[p].rescan
                        /\ SizeFits(scene.size) /\ dir \in Directory(scene.size)
                        /\ books \in BookRec /\ BooksShape(books) /\ now \in Nat
                        /\ x[p].ds \in StatRec /\ Ended \in BOOLEAN
<1>1. PlaceIs(p, x[p], lock, statfile.state) BY Stays
<1>2. x[p].pc \notin Before \cup Again
  BY DEF Before, Again, Working, Shared, Merging, Syncing
<1>3. x[p] \in ExpirerRec(scene.size) BY Stays
<1>4. x[p].ds \in StatRec BY <1>3, ExpirerFields
<1>5. Ended \in BOOLEAN BY DEF Ended
<1>6. now \in Nat BY DEF Typed
<1> QED BY <1>1, <1>2, <1>3, <1>4, <1>5, <1>6, Stays, Scene DEF PlaceIs, Before

LEMMA HoldStep ==
    ASSUME IInv, NEW p \in Expirers, x[p].pc \in Working,
           NEW new \in ExpirerRec(scene.size), Go(p, new), UNCHANGED <<scene, now, col, shm, lock>>,
           new.pc \in Working, new.mode = x[p].mode,
           p = "launcher" => /\ new.pc \in Shared \cup Merging /\ ~new.again
                             /\ ~new.noFiles /\ new.seg # "removed"
           , p # "launcher" => new.pc \in Shared \cup Syncing,
           new.pc \in {"scan", "wipe"} => new.rescan,
           dir' \in Directory(scene.size), Files(dir') \subseteq Files(dir),
           books' \in BookRec, BooksShape(books'), statfile' \in StatFile, statfile'.state # "none",
           raced \subseteq raced',
           Core /\ raced' = {} =>
               /\ PhaseOf(new, books', dir', InFlight, Ended, shm, RecordOK')
               /\ Clean(new) => Clean(x[p]) /\ UNCHANGED <<statfile, books, dir>>
               /\ col.pc = "down" => books'.numfiles = 0
    PROVE  IInv'
<1> USE DEF IInv
<1>1. lock = p /\ statfile.state # "none" BY Holding
<1>2. new.pc \notin Before \cup Again
  BY DEF Before, Again, Working, Shared, Merging, Syncing
<1>3. PlaceIs(p, new, lock', statfile'.state)
  BY <1>1, <1>2, Holding DEF PlaceIs, Before
<1>4. Typed' /\ Times' /\ Places' BY <1>1, <1>3, FrameTyped DEF LockMoves
<1>5. ASSUME Core, raced' = {} PROVE Core'
  <2>1. PhaseOf(new, books', dir', InFlight, Ended, shm, RecordOK') BY <1>5
  <2>2. ASSUME RecordOK', Clean(new) PROVE Good(statfile'.rec, books', dir', InFlight, Ended)
    <3>1. Clean(x[p]) /\ UNCHANGED <<statfile, books, dir>> /\ RecordOK BY <1>5, <2>2 DEF RecordOK
    <3>2. Untouched BY <1>1, <3>1 DEF Untouched
    <3>3. FileGood BY <1>5 DEF Core
    <3> QED BY <3>1, <3>2, <3>3 DEF FileGood
  <2>3. ~Rewriting BY <1>1, <1>5, Scene DEF Core
  <2>4. col.pc = "down" => books'.numfiles = 0 BY <1>5
  <2> QED BY <1>1, <1>2, <1>5, <2>1, <2>2, <2>3, <2>4, FrameCore DEF LockMoves
<1>6. raced' = {} => raced = {} OBVIOUS
<1> QED BY <1>4, <1>5, <1>6

\* Without the books in memory nobody is there to fill them.
LEMMA NoMemory == ASSUME Places, Core, ~shm PROVE books.numfiles = 0 /\ NothingIn(books) /\ InFlight = {}
<1>1. col.pc = "down" BY DEF Places
<1>2. books.numfiles = 0 BY <1>1 DEF Core
<1>3. BooksShape(books) BY DEF Places
<1> QED BY <1>1, <1>2, <1>3 DEF BooksShape, NothingIn, InFlight

LEMMA ScanStep == ASSUME IInv, NEW p \in Expirers, Scan(p) PROVE IInv'
<1> USE DEF IInv
<1>1. PICK ds : ds = RescanDir(x[p].ds, dir, now) OBVIOUS
<1>2. PICK pc : pc = IF x[p].seg = "none" THEN Limits(ds) ELSE "wipe" OBVIOUS
<1>3. PICK new : new = [x[p] EXCEPT !.ds = ds, !.pc = pc] OBVIOUS
<1>4. /\ x[p].pc = "scan" /\ Go(p, new) /\ raced' = raced \cup Note("rescan", col.pc = "renamed")
      /\ UNCHANGED <<scene, now, col, dir, shm, books, statfile, lock>>
  BY <1>1, <1>2, <1>3 DEF Scan, AtPC, colVars, fileVars
<1>5. x[p].pc \in Working /\ p = "launcher"
  <2>1. x[p].pc \in Working BY <1>4 DEF Working, Merging
  <2> QED BY <1>4, <2>1, Holding DEF Shared, Syncing
<1>6. ds \in StatRec /\ Scanned(ds, dir) BY <1>1, <1>5, Holding, RescanType, ScanFinds
<1>7. pc \in {"begin", "trunc", "wipe"} /\ (pc # "wipe" => x[p].seg = "none")
      /\ pc \in Shared \cup Merging /\ pc \in Working
  BY <1>2 DEF Limits, Working, Shared, Merging
<1>8. /\ new \in ExpirerRec(scene.size) /\ new.pc = pc /\ new.ds = ds /\ new.mode = x[p].mode
      /\ new.again = x[p].again /\ new.noFiles = x[p].noFiles /\ new.seg = x[p].seg
      /\ new.rescan = x[p].rescan
  <2>1. pc \in Before \cup Again \cup Working BY <1>7
  <2>2. PICK r \in ExpirerRec(scene.size) : r = x[p] BY <1>5, Holding
  <2>3. new = [r EXCEPT !.ds = ds, !.pc = pc] BY <1>3, <2>2
  <2>4. ds \in StatRec BY <1>6
  <2>5. /\ new \in ExpirerRec(scene.size) /\ new.pc = pc /\ new.ds = ds /\ new.mode = r.mode
        /\ new.again = r.again /\ new.noFiles = r.noFiles /\ new.seg = r.seg
        /\ new.rescan = r.rescan
    BY <2>1, <2>3, <2>4 DEF ExpirerRec
  <2> QED BY <2>2, <2>5
<1>9. ASSUME Core, raced' = {}
      PROVE  /\ PhaseOf(new, books, dir, InFlight, Ended, shm, RecordOK)
             /\ Clean(new) => Clean(x[p])
             /\ col.pc = "down" => books.numfiles = 0
  <2>1. InFlight = {} BY <1>4, <1>9 DEF Note, InFlight
  <2>2. x[p].seg # "live" => ~shm
    <3>1. Phase(p) BY <1>9 DEF Core
    <3> QED BY <1>4, <3>1 DEF Phase, PhaseOf, Merging
  <2>3. pc # "wipe" => Good(ds, books, dir, InFlight, Ended) /\ Modest(ds, dir)
    <3>1. pc # "wipe" => NothingIn(books) BY <1>7, <1>9, <2>2, NoMemory
    <3> QED BY <1>5, <1>6, <2>1, <3>1, Holding, ScannedGood
  <2>4. ~x[p].noFiles BY <1>5, Holding
  <2>5. PhaseOf(new, books, dir, InFlight, Ended, shm, RecordOK)
    BY <1>6, <1>7, <1>8, <2>1, <2>2, <2>3, <2>4 DEF PhaseOf, Again, Merging, Syncing
  <2> QED BY <1>4, <1>9, <2>5 DEF Core, Clean
<1>10. RecordOK' = RecordOK BY <1>4 DEF RecordOK
<1>11. /\ ~new.again /\ ~new.noFiles /\ new.seg # "removed" /\ x[p].rescan
       /\ statfile \in StatFile /\ statfile.state # "none"
  BY <1>4, <1>5, <1>8, Holding, Stays
<1> HIDE DEF IInv
<1> QED BY <1>4, <1>5, <1>7, <1>8, <1>9, <1>10, <1>11, Holding, HoldStep DEF IInv

\* ClearBooks on the books, when this process sees the shared ones; the others
\* cannot be filled any more.
LEMMA Cleared ==
    ASSUME IInv, NEW p \in Expirers, NEW rec, Clear(p, rec), NEW new,
           new = IF x[p].seg = "removed" THEN [rec EXCEPT !.copy = ClearBooks(@)] ELSE rec,
           rec \in ExpirerRec(scene.size)
    PROVE  /\ Go(p, new) /\ new \in ExpirerRec(scene.size)
           /\ new.pc = rec.pc /\ new.ds = rec.ds /\ new.mode = rec.mode /\ new.again = rec.again
           /\ new.noFiles = rec.noFiles /\ new.seg = rec.seg /\ new.rescan = rec.rescan
           /\ books' \in BookRec /\ BooksShape(books')
           /\ x[p].seg # "live" => books' = books
           /\ x[p].seg = "live" => NothingIn(books')
           /\ Core /\ (x[p].seg # "live" => ~shm) => NothingIn(books')
           /\ Core => (col.pc = "down" => books'.numfiles = 0)
<1> USE DEF IInv
<1>1. books' = (IF x[p].seg = "live" THEN ClearBooks(books) ELSE books) /\ Go(p, new)
  BY DEF Clear
<1>2. books \in BookRec /\ BooksShape(books) BY Stays
<1>3. books' \in BookRec /\ BooksShape(books') /\ (x[p].seg = "live" => NothingIn(books'))
  BY <1>1, <1>2, ClearedBooks DEF NothingIn, BooksShape
<1>4. /\ new \in ExpirerRec(scene.size)
      /\ new.pc = rec.pc /\ new.ds = rec.ds /\ new.mode = rec.mode /\ new.again = rec.again
      /\ new.noFiles = rec.noFiles /\ new.seg = rec.seg /\ new.rescan = rec.rescan
  <2>1. CASE x[p].seg = "removed"
    <3>1. PICK r \in ExpirerRec(scene.size) : r = rec OBVIOUS
    <3>2. PICK c \in BookRec : c = ClearBooks(rec.copy) BY ClearedBooks, ExpirerFields
    <3>3. new = [r EXCEPT !.copy = c] BY <2>1, <3>1, <3>2
    <3>4. c \in BookRec OBVIOUS
    <3>5. /\ new \in ExpirerRec(scene.size)
          /\ new.pc = r.pc /\ new.ds = r.ds /\ new.mode = r.mode /\ new.again = r.again
          /\ new.noFiles = r.noFiles /\ new.seg = r.seg /\ new.rescan = r.rescan
      BY <3>3, <3>4 DEF ExpirerRec
    <3> QED BY <3>1, <3>5
  <2>2. CASE x[p].seg # "removed" BY <2>2
  <2> QED BY <2>1, <2>2
<1>5. ASSUME Core, x[p].seg # "live" => ~shm PROVE NothingIn(books')
  BY <1>1, <1>3, <1>5, NoMemory
<1>6. ASSUME Core, col.pc = "down" PROVE books'.numfiles = 0
  BY <1>1, <1>3, <1>6 DEF Core, NothingIn
<1> QED BY <1>1, <1>3, <1>4, <1>5, <1>6

LEMMA WipeStep == ASSUME IInv, NEW p \in Expirers, Wipe(p) PROVE IInv'
<1> USE DEF IInv
<1>1. PICK rec : rec = [x[p] EXCEPT !.pc = "merge"] OBVIOUS
<1>2. /\ x[p].pc = "wipe" /\ Clear(p, rec)
      /\ UNCHANGED <<scene, now, col, dir, shm, statfile, lock, raced>>
  BY <1>1 DEF Wipe, AtPC, colVars, fileVars
<1>3. x[p].pc \in Working /\ p = "launcher"
  <2>1. x[p].pc \in Working BY <1>2 DEF Working, Merging
  <2> QED BY <1>2, <2>1, Holding DEF Shared, Syncing
<1>4. /\ rec \in ExpirerRec(scene.size) /\ rec.pc = "merge" /\ rec.ds = x[p].ds
      /\ rec.mode = x[p].mode /\ rec.again = x[p].again
      /\ rec.noFiles = x[p].noFiles /\ rec.seg = x[p].seg /\ rec.rescan = x[p].rescan
  BY <1>1, <1>3, Holding, Moved DEF Working, Merging
<1>5. PICK new : new = IF x[p].seg = "removed" THEN [rec EXCEPT !.copy = ClearBooks(@)] ELSE rec
  OBVIOUS
<1>6. /\ Go(p, new) /\ new \in ExpirerRec(scene.size)
      /\ new.pc = rec.pc /\ new.ds = rec.ds /\ new.mode = rec.mode /\ new.again = rec.again
      /\ new.noFiles = rec.noFiles /\ new.seg = rec.seg /\ new.rescan = rec.rescan
      /\ books' \in BookRec /\ BooksShape(books')
      /\ Core /\ (x[p].seg # "live" => ~shm) => NothingIn(books')
      /\ Core => (col.pc = "down" => books'.numfiles = 0)
  BY <1>2, <1>4, <1>5, Cleared
<1>7. x[p].rescan /\ ~x[p].noFiles /\ ~x[p].again /\ x[p].seg # "removed"
  BY <1>2, <1>3, Holding
<1>8. ASSUME Core
      PROVE  /\ PhaseOf(new, books', dir, InFlight, Ended, shm, RecordOK) /\ ~Clean(new)
  <2>1. Phase(p) BY <1>8 DEF Core
  <2>2. /\ InFlight = {} /\ Scanned(x[p].ds, dir) /\ (x[p].seg # "live" => ~shm)
    BY <1>2, <2>1 DEF Phase, PhaseOf, Merging
  <2>3. /\ Good(x[p].ds, books', dir, {}, FALSE)
        /\ x[p].ds.status # "OK" => x[p].ds.filesize = 0 /\ Cover({}, 0, books', dir, {})
    BY <1>3, <1>6, <1>8, <2>2, Holding, ScannedGood
  <2>4. PhaseOf(new, books', dir, InFlight, Ended, shm, RecordOK)
    BY <1>4, <1>6, <1>7, <2>2, <2>3 DEF PhaseOf, Again
  <2> QED BY <1>4, <1>6, <1>7, <2>4 DEF Clean
<1>9. RecordOK' = RecordOK BY <1>2 DEF RecordOK
<1>10. new.pc \in Working /\ new.pc \in Shared \cup Merging /\ statfile \in StatFile
       /\ statfile.state # "none"
  BY <1>3, <1>4, <1>6, Holding, Stays DEF Working, Merging
<1>11. /\ ~new.again /\ ~new.noFiles /\ new.seg # "removed" /\ new.rescan
       /\ new.mode = x[p].mode
  BY <1>4, <1>6, <1>7
<1> HIDE DEF IInv
<1> QED BY <1>2, <1>3, <1>6, <1>8, <1>9, <1>10, <1>11, Holding, HoldStep DEF IInv

LEMMA MergeStep == ASSUME IInv, NEW p \in Expirers, Merge(p) PROVE IInv'
<1> USE DEF IInv
<1>1. /\ x[p].pc = "merge" /\ UNCHANGED <<scene, now, col, dir, shm, statfile, lock, raced>>
      /\ IF x[p].seg = "none"
         THEN Go(p, [x[p] EXCEPT !.pc = Limits(x[p].ds)]) /\ UNCHANGED books
         ELSE Clear(p, [x[p] EXCEPT !.ds = UpdateBookStat(x[p].ds, Books(p)),
                                    !.pc = Limits(x[p].ds), !.seg = "none"])
  BY DEF Merge, AtPC, colVars, fileVars
<1>2. x[p].pc \in Working /\ p = "launcher"
  <2>1. x[p].pc \in Working BY <1>1 DEF Working, Merging
  <2> QED BY <1>1, <2>1, Holding DEF Shared, Syncing
<1>3. /\ ~x[p].noFiles /\ ~x[p].again /\ x[p].seg \in {"none", "live"} /\ x[p].ds \in StatRec
      /\ Ended = FALSE /\ SizeFits(scene.size) /\ dir \in Directory(scene.size)
      /\ books \in BookRec /\ BooksShape(books) /\ statfile \in StatFile /\ statfile.state # "none"
  <2>1. Ended = FALSE BY <1>2, Scene DEF Ended
  <2> QED BY <1>2, <2>1, Holding, Stays, ExpirerFields
<1>4. PICK pc \in {"begin", "trunc"} : pc = Limits(x[p].ds) BY DEF Limits
<1>5. PICK nd \in StatRec : nd = IF x[p].seg = "none" THEN x[p].ds ELSE UpdateBookStat(x[p].ds, books)
  BY <1>3, UpdateStatType
<1>6. PICK new \in ExpirerRec(scene.size) :
         /\ Go(p, new) /\ new.pc = pc /\ new.ds = nd /\ new.mode = x[p].mode
         /\ new.again = x[p].again /\ new.noFiles = x[p].noFiles /\ new.seg # "removed"
         /\ books' \in BookRec /\ BooksShape(books')
         /\ x[p].seg = "none" => books' = books
         /\ x[p].seg = "live" => NothingIn(books')
         /\ Core => (col.pc = "down" => books'.numfiles = 0)
  <2>1. PICK r \in ExpirerRec(scene.size) : r = x[p] BY <1>2, Holding
  <2>2. pc \in Before \cup Again \cup Working BY DEF Working, Shared
  <2>3. CASE x[p].seg = "none"
    <3>1. PICK new : new = [r EXCEPT !.pc = pc] OBVIOUS
    <3>2. Go(p, new) BY <1>1, <1>4, <2>1, <2>3, <3>1
    <3>3. /\ new \in ExpirerRec(scene.size) /\ new.pc = pc /\ new.ds = r.ds
          /\ new.mode = r.mode /\ new.again = r.again /\ new.noFiles = r.noFiles
          /\ new.seg = r.seg
      BY <2>2, <3>1, Moved
    <3>4. new.ds = nd /\ new.seg # "removed" BY <1>5, <2>1, <2>3, <3>3
    <3>5. Core => (col.pc = "down" => books.numfiles = 0) BY DEF Core
    <3>6. books' = books BY <1>1, <2>3
    <3> QED BY <1>3, <2>1, <2>3, <3>2, <3>3, <3>4, <3>5, <3>6
  <2>4. CASE x[p].seg = "live"
    <3>1. PICK rec : rec = [r EXCEPT !.ds = nd, !.pc = pc, !.seg = "none"] OBVIOUS
    <3>2. Clear(p, rec)
      <4>1. Books(p) = books BY <2>4 DEF Books
      <4> QED BY <1>1, <1>4, <1>5, <2>1, <2>4, <3>1, <4>1
    <3>3. nd \in StatRec /\ "none" \in {"none", "live", "removed"} OBVIOUS
    <3>4. /\ rec \in ExpirerRec(scene.size) /\ rec.pc = pc /\ rec.ds = nd /\ rec.mode = r.mode
          /\ rec.again = r.again /\ rec.noFiles = r.noFiles /\ rec.seg = "none"
      BY <2>2, <3>1, <3>3 DEF ExpirerRec
    <3>5. /\ Go(p, rec) /\ books' \in BookRec /\ BooksShape(books') /\ NothingIn(books')
          /\ Core => (col.pc = "down" => books'.numfiles = 0)
      BY <2>4, <3>2, <3>4, Cleared
    <3>6. rec \in ExpirerRec(scene.size) /\ rec.pc = pc /\ rec.ds = nd /\ rec.mode = x[p].mode
          /\ rec.again = x[p].again /\ rec.noFiles = x[p].noFiles /\ rec.seg # "removed"
      BY <2>1, <3>4
    <3> QED BY <2>4, <3>5, <3>6
  <2> QED BY <1>3, <2>3, <2>4
<1>7. ASSUME Core
      PROVE  Good(nd, books', dir, InFlight, FALSE) /\ Modest(nd, dir)
  <2>1. Phase(p) BY <1>7 DEF Core
  <2>2. /\ Good(x[p].ds, books, dir, InFlight, FALSE)
        /\ x[p].ds.status # "OK" => x[p].ds.filesize = 0 /\ Cover({}, 0, books, dir, InFlight)
    BY <1>1, <1>3, <2>1, StatFields DEF Phase, PhaseOf
  <2>3. CASE x[p].seg = "none"
    BY <1>5, <1>6, <2>2, <2>3 DEF Modest
  <2>4. CASE x[p].seg = "live" /\ x[p].ds.status = "OK"
    <3>1. Good(nd, books', dir, InFlight, FALSE) /\ nd.status = "OK"
      BY <1>3, <1>5, <1>6, <2>2, <2>4, GoodMerged DEF NothingIn
    <3> QED BY <3>1 DEF Modest
  <2>5. CASE x[p].seg = "live" /\ x[p].ds.status # "OK"
    <3>1. nd.status # "OK" /\ Modest(nd, dir) BY <1>3, <1>5, <2>2, <2>5, ForceMerged
    <3> QED BY <3>1 DEF Good
  <2> QED BY <1>3, <2>3, <2>4, <2>5
<1>8. ASSUME Core
      PROVE  PhaseOf(new, books', dir, InFlight, Ended, shm, RecordOK) /\ ~Clean(new)
  <2>1. Good(new.ds, books', dir, InFlight, Ended) /\ Modest(new.ds, dir)
    BY <1>3, <1>6, <1>7, <1>8
  <2> QED BY <1>3, <1>6, <2>1 DEF PhaseOf, Again, Merging, Syncing, Clean
<1>9. RecordOK' = RecordOK BY <1>1 DEF RecordOK
<1>10. new.pc \in Working /\ new.pc \in Shared \cup Merging /\ new.pc \notin {"scan", "wipe"}
  BY <1>6 DEF Working, Shared
<1> HIDE DEF IInv
<1> QED BY <1>1, <1>2, <1>3, <1>6, <1>8, <1>9, <1>10, HoldStep DEF IInv

\* What an expirer does once its record is up to date.
LEMMA Tasks == ASSUME Typed, Times, Places, NEW p \in Expirers, x[p].pc \in Syncing
               PROVE  /\ p # "launcher" /\ x[p].pc \in Working
                      /\ Task(p) \in {"begin", "param", "finish"}
<1>1. x[p].pc \in Working BY DEF Working
<1>2. p # "launcher" BY <1>1, Holding DEF Shared, Merging, Syncing
<1> QED BY <1>1, <1>2 DEF Task

LEMMA SyncStep == ASSUME IInv, NEW p \in Expirers, Sync(p) PROVE IInv'
<1> USE DEF IInv
<1>1. PICK nd : nd = IF x[p].seg = "none" THEN x[p].ds ELSE UpdateBookStat(x[p].ds, Books(p))
  OBVIOUS
<1>2. PICK rescan \in BOOLEAN :
         rescan = (x[p].rescan \/ (x[p].seg # "none" /\ nd.status = "FORCE_REBUILD"))
  <2>1. x[p].rescan \in BOOLEAN BY Stays, ExpirerFields
  <2> QED BY <2>1
<1>3. PICK pc : pc = IF rescan THEN "seq0" ELSE Task(p) OBVIOUS
<1>4. PICK rec : rec = [x[p] EXCEPT !.ds = nd, !.rescan = rescan, !.pc = pc] OBVIOUS
<1>5. /\ x[p].pc = "sync" /\ UNCHANGED <<scene, now, col, dir, shm, statfile, lock, raced>>
      /\ IF x[p].seg = "none" THEN Go(p, rec) /\ UNCHANGED books ELSE Clear(p, rec)
  BY <1>1, <1>2, <1>3, <1>4 DEF Sync, AtPC, colVars, fileVars
<1>6. p # "launcher" /\ x[p].pc \in Working /\ Task(p) \in {"begin", "param", "finish"}
  BY <1>5, Tasks DEF Syncing
<1>7. pc \in {"seq0", "begin", "param", "finish"} /\ pc \in Working /\ pc \in Shared \cup Syncing
  BY <1>3, <1>6 DEF Working, Shared, Syncing
<1>8. nd \in StatRec
  <2>1. x[p].ds \in StatRec /\ x[p].copy \in BookRec /\ books \in BookRec BY Stays, ExpirerFields
  <2> QED BY <1>1, <2>1, UpdateStatType DEF Books
<1>9. /\ rec \in ExpirerRec(scene.size) /\ rec.pc = pc /\ rec.ds = nd /\ rec.mode = x[p].mode
      /\ rec.noFiles = x[p].noFiles /\ rec.seg = x[p].seg /\ rec.rescan = rescan
  <2>1. PICK r \in ExpirerRec(scene.size) : r = x[p] BY <1>6, Holding
  <2>2. rec = [r EXCEPT !.ds = nd, !.rescan = rescan, !.pc = pc] BY <1>4, <2>1
  <2>3. pc \in Before \cup Again \cup Working BY <1>7
  <2>4. rescan \in BOOLEAN OBVIOUS
  <2>5. /\ rec \in ExpirerRec(scene.size) /\ rec.pc = pc /\ rec.ds = nd /\ rec.mode = r.mode
        /\ rec.noFiles = r.noFiles /\ rec.seg = r.seg /\ rec.rescan = rescan
    BY <1>8, <2>2, <2>3, <2>4 DEF ExpirerRec
  <2> QED BY <2>1, <2>5
<1>10. PICK new \in ExpirerRec(scene.size) :
         /\ Go(p, new) /\ new.pc = pc /\ new.ds = nd /\ new.mode = x[p].mode
         /\ new.noFiles = x[p].noFiles /\ new.seg = x[p].seg /\ new.rescan = rescan
         /\ books' \in BookRec /\ BooksShape(books')
         /\ x[p].seg # "live" => books' = books
         /\ x[p].seg = "live" => NothingIn(books')
         /\ Core => (col.pc = "down" => books'.numfiles = 0)
  <2>1. CASE x[p].seg = "none"
    <3>1. Core => (col.pc = "down" => books.numfiles = 0) BY DEF Core
    <3> QED BY <1>5, <1>9, <2>1, <3>1, Stays
  <2>2. CASE x[p].seg # "none"
    <3>1. PICK new : new = IF x[p].seg = "removed" THEN [rec EXCEPT !.copy = ClearBooks(@)] ELSE rec
      OBVIOUS
    <3>2. Clear(p, rec) BY <1>5, <2>2
    <3> QED BY <1>9, <3>1, <3>2, Cleared
  <2> QED BY <2>1, <2>2
<1>11. ASSUME Core, ~rescan
       PROVE  nd.status = "OK" /\ Good(nd, books', dir, InFlight, Ended)
  <2>1. Phase(p) BY <1>11 DEF Core
  <2>2. ~x[p].rescan BY <1>2, <1>11
  <2>3. /\ x[p].ds.status = "OK" /\ Good(x[p].ds, books, dir, InFlight, Ended)
        /\ x[p].seg = "removed" => x[p].copy.numfiles = 0 \/ x[p].copy.last <= x[p].ds.last
    BY <1>5, <2>1, <2>2 DEF Phase, PhaseOf
  <2>4. nd.status = "OK"
    <3>1. x[p].seg # "none" => nd.status # "FORCE_REBUILD" BY <1>2, <1>11
    <3> QED BY <1>1, <1>8, <2>3, <3>1, StatFields
  <2>5. /\ x[p].ds \in StatRec /\ x[p].copy \in BookRec /\ books \in BookRec /\ BooksShape(books)
        /\ SizeFits(scene.size) /\ dir \in Directory(scene.size) /\ Ended \in BOOLEAN
        /\ x[p].seg \in {"none", "live", "removed"}
    BY <1>6, Holding, ExpirerFields
  <2>6. CASE x[p].seg = "none" BY <1>1, <1>10, <2>3, <2>4, <2>6
  <2>7. CASE x[p].seg = "removed"
    <3>1. nd = UpdateBookStat(x[p].ds, x[p].copy) BY <1>1, <2>7 DEF Books
    <3>2. nd = x[p].ds BY <2>3, <2>4, <2>5, <2>7, <3>1, FoldedMerged
    <3> QED BY <1>10, <2>3, <2>4, <2>7, <3>2
  <2>8. CASE x[p].seg = "live"
    <3>1. nd = UpdateBookStat(x[p].ds, books) BY <1>1, <2>8 DEF Books
    <3>2. NothingIn(books') BY <1>10, <2>8
    <3> QED BY <2>3, <2>4, <2>5, <3>1, <3>2, GoodSynced
  <2> QED BY <2>5, <2>6, <2>7, <2>8
<1>12. ASSUME Core
       PROVE  PhaseOf(new, books', dir, InFlight, Ended, shm, RecordOK) /\ ~Clean(new)
  <2>1. Phase(p) BY <1>12 DEF Core
  <2>2. ~rescan => Good(new.ds, books', dir, InFlight, Ended) /\ Modest(new.ds, dir)
    BY <1>10, <1>11, <1>12 DEF Modest
  <2>3. (x[p].seg # "live" => ~shm) /\ (x[p].noFiles => ~RecordOK)
    BY <1>5, <2>1 DEF Phase, PhaseOf, Syncing
  <2>4. RecordOK => Files(dir) # {}
    <3>1. Untouched BY <1>5, <1>6, Holding DEF Untouched, Clean
    <3>2. FileGood BY <1>12 DEF Core
    <3>3. statfile.rec \in StatRec BY Stays DEF StatFile
    <3> QED BY <3>1, <3>2, <3>3, GoodVerified DEF FileGood, RecordOK
  <2>5. pc = "seq0" <=> rescan BY <1>3, <1>6
  <2> QED BY <1>7, <1>10, <2>2, <2>3, <2>4, <2>5 DEF PhaseOf, Again, Clean
<1>13. RecordOK' = RecordOK BY <1>5 DEF RecordOK
<1>14. statfile \in StatFile /\ statfile.state # "none" /\ dir \in Directory(scene.size)
  BY <1>6, Holding, Stays
<1>15. new.pc \notin {"scan", "wipe"} BY <1>7, <1>10
<1> HIDE DEF IInv
<1> QED BY <1>5, <1>6, <1>7, <1>10, <1>12, <1>13, <1>14, <1>15, HoldStep DEF IInv

\* A step of nfexpire between the lock and ExpireDir that takes nothing from the
\* books and leaves the stat file alone.
LEMMA QuietStep ==
    ASSUME IInv, NEW p \in Expirers, x[p].pc \in Syncing, NEW new \in ExpirerRec(scene.size), Go(p, new),
           UNCHANGED <<scene, now, col, dir, shm, books, statfile, lock>>,
           new.pc \in Shared \cup Syncing, new.pc # "sync", new.mode = x[p].mode,
           raced \subseteq raced',
           Core /\ raced' = {} => PhaseOf(new, books, dir, InFlight, Ended, shm, RecordOK)
    PROVE  IInv'
<1>1. x[p].pc \in Working /\ p # "launcher" BY Tasks DEF IInv
<1>2. new.pc \in Working /\ new.pc \notin {"scan", "wipe", "merge"}
  BY DEF Working, Shared, Syncing
<1>3. /\ statfile \in StatFile /\ statfile.state # "none" /\ dir \in Directory(scene.size)
      /\ books \in BookRec /\ BooksShape(books)
  BY <1>1, Holding, Stays DEF IInv
<1>4. RecordOK' = RecordOK BY DEF RecordOK
<1>5. ~Clean(new) BY <1>2 DEF Clean
<1>6. Core => (col.pc = "down" => books.numfiles = 0) BY DEF Core
<1> QED BY <1>1, <1>2, <1>3, <1>4, <1>5, <1>6, HoldStep

LEMMA Seq0Step == ASSUME IInv, NEW p \in Expirers, Seq0(p) PROVE IInv'
<1>1. PICK seq : seq = BookSequence(p) OBVIOUS
<1>2. PICK new : new = [x[p] EXCEPT !.seq = seq, !.pc = "nscan"] OBVIOUS
<1>3. /\ x[p].pc = "seq0" /\ Go(p, new)
      /\ UNCHANGED <<scene, now, col, dir, shm, books, statfile, lock, raced>>
  BY <1>1, <1>2 DEF Seq0, AtPC, colVars, fileVars
<1>4. PICK r \in ExpirerRec(scene.size) : r = x[p] BY Stays DEF IInv
<1>5. seq \in Nat
  <2>1. books \in BookRec BY Stays DEF IInv
  <2>2. x[p].copy \in BookRec BY <1>4, ExpirerFields
  <2> QED BY <1>1, <2>1, <2>2 DEF BookSequence, Books, BookRec
<1>6. /\ new \in ExpirerRec(scene.size) /\ new.pc = "nscan" /\ new.mode = r.mode
      /\ new.noFiles = r.noFiles /\ new.seg = r.seg
  <2>1. new = [r EXCEPT !.seq = seq, !.pc = "nscan"] BY <1>2, <1>4
  <2>2. "nscan" \in Before \cup Again \cup Working BY DEF Working, Syncing
  <2>3. seq \in Nat BY <1>5
  <2> QED BY <2>1, <2>2, <2>3 DEF ExpirerRec
<1>7. ASSUME Core PROVE PhaseOf(new, books, dir, InFlight, Ended, shm, RecordOK)
  <2>1. Phase(p) BY <1>7 DEF Core
  <2> QED BY <1>3, <1>4, <1>6, <2>1 DEF Phase, PhaseOf, Again, Syncing
<1>8. x[p].pc \in Syncing /\ new.pc \in Shared \cup Syncing BY <1>3, <1>6 DEF Syncing
<1> QED BY <1>3, <1>4, <1>6, <1>7, <1>8, QuietStep

LEMMA NScanStep == ASSUME IInv, NEW p \in Expirers, NScan(p) PROVE IInv'
<1>1. PICK ds : ds = RescanDir(x[p].ds, dir, now) OBVIOUS
<1>2. PICK noFiles \in BOOLEAN : noFiles = (x[p].noFiles \/ ds.numfiles = 0) OBVIOUS
<1>3. PICK new : new = [x[p] EXCEPT !.ds = ds, !.noFiles = noFiles, !.pc = "seq1"] OBVIOUS
<1>4. /\ x[p].pc = "nscan" /\ Go(p, new) /\ raced' = raced \cup Note("rescan", col.pc = "renamed")
      /\ UNCHANGED <<scene, now, col, dir, shm, books, statfile, lock>>
  BY <1>1, <1>2, <1>3 DEF NScan, AtPC, colVars, fileVars
<1>5. x[p].pc \in Working BY <1>4 DEF Working, Syncing
<1>6. ds \in StatRec /\ Scanned(ds, dir) BY <1>1, <1>5, Holding, RescanType, ScanFinds DEF IInv
<1>7. PICK r \in ExpirerRec(scene.size) : r = x[p] BY Stays DEF IInv
<1>8. /\ new \in ExpirerRec(scene.size) /\ new.pc = "seq1" /\ new.ds = ds /\ new.mode = r.mode
      /\ new.noFiles = noFiles /\ new.seg = r.seg
  <2>1. new = [r EXCEPT !.ds = ds, !.noFiles = noFiles, !.pc = "seq1"] BY <1>3, <1>7
  <2>2. "seq1" \in Before \cup Again \cup Working BY DEF Working, Syncing
  <2>3. ds \in StatRec /\ noFiles \in BOOLEAN BY <1>6
  <2> QED BY <2>1, <2>2, <2>3 DEF ExpirerRec
<1>9. ASSUME Core, raced' = {} PROVE PhaseOf(new, books, dir, InFlight, Ended, shm, RecordOK)
  <2>1. Phase(p) BY <1>9 DEF Core
  <2>2. /\ x[p].seg # "live" => ~shm
        /\ x[p].noFiles => ~RecordOK
        /\ RecordOK => Files(dir) # {}
    BY <1>4, <2>1 DEF Phase, PhaseOf, Syncing
  <2>3. InFlight = {} BY <1>4, <1>9 DEF Note, InFlight
  <2>4. ds.numfiles = 0 => Files(dir) = {}
    <3>1. SizeFits(scene.size) /\ dir \in Directory(scene.size) BY Stays, Scene DEF IInv
    <3>2. Cardinality(Files(dir)) = 0 <=> Files(dir) = {} BY <3>1, FilesFinite, SizeBound
    <3> QED BY <1>6, <3>2 DEF Scanned, Fits
  <2>5. noFiles => ~RecordOK BY <1>2, <2>2, <2>4
  <2> QED BY <1>6, <1>7, <1>8, <2>2, <2>3, <2>5 DEF PhaseOf, Again, Syncing
<1>10. x[p].pc \in Syncing /\ new.pc \in Shared \cup Syncing BY <1>4, <1>8 DEF Syncing
<1> QED BY <1>4, <1>7, <1>8, <1>9, <1>10, QuietStep

LEMMA Seq1Step == ASSUME IInv, NEW p \in Expirers, Seq1(p) PROVE IInv'
<1>1. /\ x[p].pc = "seq1" /\ UNCHANGED <<scene, now, col, dir, shm, books, statfile, lock, raced>>
      /\ \/ Go(p, [x[p] EXCEPT !.pc = "seq2"])
         \/ Go(p, [x[p] EXCEPT !.pc = "seq0", !.tries = @ + 1])
  BY DEF Seq1, AtPC, colVars, fileVars
<1>2. PICK r \in ExpirerRec(scene.size) : r = x[p] BY Stays DEF IInv
<1>3. PICK new \in ExpirerRec(scene.size) :
         /\ Go(p, new) /\ new.pc \in {"seq0", "seq2"} /\ new.mode = r.mode
         /\ new.noFiles = r.noFiles /\ new.seg = r.seg /\ new.ds = r.ds
  <2>1. "seq0" \in Before \cup Again \cup Working /\ "seq2" \in Before \cup Again \cup Working
    BY DEF Working, Syncing
  <2>2. CASE Go(p, [x[p] EXCEPT !.pc = "seq2"])
    <3>1. PICK new : new = [r EXCEPT !.pc = "seq2"] OBVIOUS
    <3>2. Go(p, new) BY <1>2, <2>2, <3>1
    <3>3. /\ new \in ExpirerRec(scene.size) /\ new.pc = "seq2" /\ new.mode = r.mode
          /\ new.noFiles = r.noFiles /\ new.seg = r.seg /\ new.ds = r.ds
      BY <2>1, <3>1, Moved
    <3> QED BY <3>2, <3>3
  <2>3. CASE Go(p, [x[p] EXCEPT !.pc = "seq0", !.tries = @ + 1])
    <3>1. PICK n \in Nat : n = r.tries + 1 BY ExpirerFields
    <3>2. PICK new : new = [r EXCEPT !.pc = "seq0", !.tries = n] OBVIOUS
    <3>3. Go(p, new) BY <1>2, <2>3, <3>1, <3>2
    <3>4. n \in Nat OBVIOUS
    <3>5. /\ new \in ExpirerRec(scene.size) /\ new.pc = "seq0" /\ new.mode = r.mode
          /\ new.noFiles = r.noFiles /\ new.seg = r.seg /\ new.ds = r.ds
      BY <2>1, <3>2, <3>4 DEF ExpirerRec
    <3> QED BY <3>3, <3>5
  <2> QED BY <1>1, <2>2, <2>3
<1>4. ASSUME Core PROVE PhaseOf(new, books, dir, InFlight, Ended, shm, RecordOK)
  <2>1. Phase(p) BY <1>4 DEF Core
  <2> QED BY <1>1, <1>2, <1>3, <2>1 DEF Phase, PhaseOf, Again, Syncing
<1>5. x[p].pc \in Syncing /\ new.pc \in Shared \cup Syncing /\ new.pc # "sync"
  BY <1>1, <1>3 DEF Syncing
<1> QED BY <1>1, <1>2, <1>3, <1>4, <1>5, QuietStep

LEMMA Seq2Step == ASSUME IInv, NEW p \in Expirers, Seq2(p) PROVE IInv'
<1>1. PICK pc : pc = IF BookSequence(p) # x[p].seq THEN "finish"
                     ELSE IF x[p].seg # "none" THEN "nwipe" ELSE Task(p)
  OBVIOUS
<1>2. PICK new : new = [x[p] EXCEPT !.pc = pc] OBVIOUS
<1>3. /\ x[p].pc = "seq2" /\ Go(p, new)
      /\ raced' = raced \cup Note("gaveup", BookSequence(p) # x[p].seq)
      /\ UNCHANGED <<scene, now, col, dir, shm, books, statfile, lock>>
  BY <1>1, <1>2 DEF Seq2, AtPC, colVars, fileVars
<1>4. x[p].pc \in Syncing BY <1>3 DEF Syncing
<1>5. Task(p) \in {"begin", "param", "finish"} /\ x[p].pc \in Working BY <1>4, Tasks DEF IInv
<1>6. pc \in {"nwipe", "begin", "param", "finish"} /\ pc \in Working /\ pc \in Shared \cup Syncing
  BY <1>1, <1>5 DEF Working, Shared, Syncing
<1>7. PICK r \in ExpirerRec(scene.size) : r = x[p] BY Stays DEF IInv
<1>8. /\ new \in ExpirerRec(scene.size) /\ new.pc = pc /\ new.ds = r.ds /\ new.mode = r.mode
      /\ new.noFiles = r.noFiles /\ new.seg = r.seg
  BY <1>2, <1>6, <1>7, Moved
<1>9. ASSUME Core, raced' = {} PROVE PhaseOf(new, books, dir, InFlight, Ended, shm, RecordOK)
  <2>1. Phase(p) BY <1>9 DEF Core
  <2>2. /\ x[p].seg # "live" => ~shm
        /\ InFlight = {} /\ Scanned(x[p].ds, dir)
        /\ x[p].noFiles => ~RecordOK
    BY <1>3, <2>1 DEF Phase, PhaseOf, Syncing
  <2>3. BookSequence(p) = x[p].seq BY <1>3, <1>9 DEF Note
  <2>4. pc # "nwipe" => x[p].seg = "none" BY <1>1, <2>3
  <2>5. pc # "nwipe" => Good(x[p].ds, books, dir, {}, Ended) /\ Modest(x[p].ds, dir)
    <3>1. pc # "nwipe" => NothingIn(books) BY <1>9, <2>2, <2>4, NoMemory DEF IInv
    <3> QED BY <1>5, <2>2, <3>1, Holding, ScannedGood DEF IInv
  <2> QED BY <1>6, <1>7, <1>8, <2>2, <2>5 DEF PhaseOf, Again, Syncing
<1>10. new.pc # "sync" BY <1>6, <1>8
<1> QED BY <1>3, <1>4, <1>6, <1>7, <1>8, <1>9, <1>10, QuietStep

LEMMA NWipeStep == ASSUME IInv, NEW p \in Expirers, NWipe(p) PROVE IInv'
<1> USE DEF IInv
<1>1. PICK pc : pc = Task(p) OBVIOUS
<1>2. PICK rec : rec = [x[p] EXCEPT !.pc = pc] OBVIOUS
<1>3. /\ x[p].pc = "nwipe" /\ Clear(p, rec)
      /\ UNCHANGED <<scene, now, col, dir, shm, statfile, lock, raced>>
  BY <1>1, <1>2 DEF NWipe, AtPC, colVars, fileVars
<1>4. /\ p # "launcher" /\ x[p].pc \in Working
      /\ pc \in {"begin", "param", "finish"}
  BY <1>1, <1>3, Tasks DEF Syncing
<1>5. PICK r \in ExpirerRec(scene.size) : r = x[p] BY Stays
<1>6. pc \in Working /\ pc \in Shared \cup Syncing BY <1>4 DEF Working, Shared, Syncing
<1>7. /\ rec \in ExpirerRec(scene.size) /\ rec.pc = pc /\ rec.ds = r.ds
      /\ rec.mode = r.mode /\ rec.noFiles = r.noFiles /\ rec.seg = r.seg
  BY <1>2, <1>5, <1>6, Moved
<1>8. PICK new : new = IF x[p].seg = "removed" THEN [rec EXCEPT !.copy = ClearBooks(@)] ELSE rec
  OBVIOUS
<1>9. /\ Go(p, new) /\ new \in ExpirerRec(scene.size)
      /\ new.pc = pc /\ new.ds = x[p].ds /\ new.mode = x[p].mode /\ new.noFiles = x[p].noFiles
      /\ books' \in BookRec /\ BooksShape(books')
      /\ Core /\ (x[p].seg # "live" => ~shm) => NothingIn(books')
      /\ Core => (col.pc = "down" => books'.numfiles = 0)
  BY <1>3, <1>5, <1>7, <1>8, Cleared
<1>10. ASSUME Core
       PROVE  PhaseOf(new, books', dir, InFlight, Ended, shm, RecordOK) /\ ~Clean(new)
  <2>1. Phase(p) BY <1>10 DEF Core
  <2>2. /\ InFlight = {} /\ Scanned(x[p].ds, dir) /\ (x[p].seg # "live" => ~shm)
        /\ x[p].noFiles => ~RecordOK
    BY <1>3, <2>1 DEF Phase, PhaseOf, Syncing
  <2>3. NothingIn(books') BY <1>9, <1>10, <2>2
  <2>4. Good(x[p].ds, books', dir, {}, Ended) /\ Modest(x[p].ds, dir)
    BY <1>4, <2>2, <2>3, Holding, ScannedGood
  <2> QED BY <1>4, <1>9, <2>2, <2>4 DEF PhaseOf, Again, Merging, Syncing, Clean
<1>11. RecordOK' = RecordOK BY <1>3 DEF RecordOK
<1>12. /\ new.pc \in Working /\ new.pc \in Shared \cup Syncing /\ new.pc \notin {"scan", "wipe"}
       /\ statfile \in StatFile /\ statfile.state # "none" /\ dir \in Directory(scene.size)
  BY <1>4, <1>6, <1>9, Holding, Stays
<1> HIDE DEF IInv
<1> QED BY <1>3, <1>4, <1>9, <1>10, <1>11, <1>12, HoldStep DEF IInv

LEMMA ParamStep == ASSUME IInv, NEW p \in Expirers, Param(p) PROVE IInv'
<1> USE DEF IInv
<1>1. PICK m : m = IF x[p].arg # 0 THEN x[p].arg ELSE x[p].ds.max_size OBVIOUS
<1>2. PICK ds : ds = [x[p].ds EXCEPT !.max_size = m] OBVIOUS
<1>3. PICK again \in BOOLEAN : again = ~x[p].noFiles OBVIOUS
<1>4. PICK r \in ExpirerRec(scene.size) : r = x[p] BY Stays
<1>5. PICK new : new = [r EXCEPT !.ds = ds, !.pc = "trunc", !.again = again] OBVIOUS
<1>6. /\ x[p].pc = "param" /\ Go(p, new)
      /\ books' = IF x[p].seg = "live" THEN [books EXCEPT !.sequence = @ + 1] ELSE books
      /\ UNCHANGED <<scene, now, col, dir, shm, statfile, lock, raced>>
  <2>1. Go(p, [x[p] EXCEPT !.ds.max_size = IF x[p].arg # 0 THEN x[p].arg ELSE @,
                           !.pc = "trunc", !.again = ~x[p].noFiles])
    BY DEF Param
  <2>2. Go(p, new) BY <1>1, <1>2, <1>3, <1>4, <1>5, <2>1
  <2> QED BY <2>2 DEF Param, AtPC, colVars, fileVars
<1>7. p # "launcher" /\ x[p].pc \in Working BY <1>6, Tasks DEF Syncing
<1>8. r.ds \in StatRec /\ r.arg \in Nat /\ m \in Nat
  <2>1. r.ds \in StatRec /\ r.arg \in Nat BY ExpirerFields
  <2> QED BY <1>1, <1>4, <2>1, StatFields
<1>9. /\ ds \in StatRec /\ ds.first = r.ds.first /\ ds.last = r.ds.last
      /\ ds.numfiles = r.ds.numfiles /\ ds.filesize = r.ds.filesize /\ ds.status = r.ds.status
  <2>1. PICK s \in StatRec : s = r.ds BY <1>8
  <2>2. ds = [s EXCEPT !.max_size = m] BY <1>2, <1>4, <2>1
  <2>3. m \in Nat BY <1>8
  <2>4. /\ ds \in StatRec /\ ds.first = s.first /\ ds.last = s.last
        /\ ds.numfiles = s.numfiles /\ ds.filesize = s.filesize /\ ds.status = s.status
    BY <2>2, <2>3 DEF StatRec
  <2> QED BY <2>1, <2>4
<1>10. new \in ExpirerRec(scene.size) /\ new.pc = "trunc" /\ new.ds = ds /\ new.mode = r.mode
  <2>1. "trunc" \in Before \cup Again \cup Working BY DEF Working, Shared
  <2>2. ds \in StatRec /\ again \in BOOLEAN BY <1>9
  <2> QED BY <1>5, <2>1, <2>2 DEF ExpirerRec
<1>11. /\ books' \in BookRec /\ BooksShape(books')
       /\ books'.numfiles = books.numfiles /\ books'.filesize = books.filesize
       /\ books'.first = books.first /\ books'.last = books.last
  <2>1. PICK b \in BookRec : b = books BY Stays
  <2>2. BooksShape(b) BY <2>1, Stays
  <2>3. PICK n \in Nat : n = b.sequence + 1 BY DEF BookRec
  <2>4. n \in Nat OBVIOUS
  <2>5. PICK c : c = [b EXCEPT !.sequence = n] OBVIOUS
  <2>6. /\ c \in BookRec /\ c.numfiles = b.numfiles /\ c.filesize = b.filesize
        /\ c.first = b.first /\ c.last = b.last
    BY <2>4, <2>5 DEF BookRec
  <2>7. BooksShape(c) BY <2>2, <2>6 DEF BooksShape
  <2>8. books' = c \/ books' = b BY <1>6, <2>1, <2>3, <2>5
  <2> QED BY <2>1, <2>2, <2>6, <2>7, <2>8
<1>12. ASSUME Core
       PROVE  /\ PhaseOf(new, books', dir, InFlight, Ended, shm, RecordOK) /\ ~Clean(new)
              /\ col.pc = "down" => books'.numfiles = 0
  <2>1. Phase(p) BY <1>12 DEF Core
  <2>2. Good(x[p].ds, books, dir, InFlight, Ended) BY <1>6, <2>1 DEF Phase, PhaseOf
  <2>3. Good(ds, books', dir, InFlight, Ended) BY <1>4, <1>9, <1>11, <2>2, GoodSame
  <2>4. PhaseOf(new, books', dir, InFlight, Ended, shm, RecordOK)
    BY <1>10, <2>3 DEF PhaseOf, Again, Merging, Syncing
  <2> QED BY <1>10, <1>11, <1>12, <2>4 DEF Core, Clean
<1>13. RecordOK' = RecordOK BY <1>6 DEF RecordOK
<1>14. /\ new.pc \in Working /\ new.pc \in Shared \cup Syncing /\ new.pc \notin {"scan", "wipe"}
       /\ statfile \in StatFile /\ statfile.state # "none" /\ dir \in Directory(scene.size)
  BY <1>7, <1>10, Holding, Stays DEF Working, Shared
<1> HIDE DEF IInv
<1> QED BY <1>4, <1>6, <1>7, <1>10, <1>11, <1>12, <1>13, <1>14, HoldStep DEF IInv

\* A process that releases the lock: what it leaves in the stat file is good.
LEMMA ReleaseStep ==
    ASSUME IInv, NEW p \in Expirers, x[p].pc \in Working, NEW new \in ExpirerRec(scene.size), Go(p, new),
           UNCHANGED <<scene, now, col, dir, shm, books>>, lock' = Nobody,
           new.pc \in {"idle"} \cup Again, p = "launcher" => new.pc = "idle" /\ ~new.again,
           new.mode \in {"none", x[p].mode},
           new.pc = "idle" => new.seg = "none" /\ ~new.noFiles,
           statfile' \in StatFile, statfile'.state # "none", raced \subseteq raced',
           Core /\ raced' = {} =>
               /\ PhaseOf(new, books, dir, InFlight, Ended, shm, RecordOK')
               /\ RecordOK' => Good(statfile'.rec, books, dir, InFlight, Ended)
    PROVE  IInv'
<1> USE DEF IInv
<1>1. lock = p BY Holding
<1>2. PlaceIs(p, new, lock', statfile'.state)
  <2>1. p # Nobody BY Scene
  <2>2. x[p].mode # "auto" \/ p = "launcher" BY Holding
  <2>3. new.mode # "auto" \/ p = "launcher" BY <2>2
  <2> QED BY <2>1, <2>2, <2>3 DEF PlaceIs, Before, Again, Working, Shared, Merging, Syncing
<1>3. Typed' /\ Times' /\ Places' BY <1>1, <1>2, Stays, FrameTyped DEF LockMoves
<1>4. ASSUME Core, raced' = {} PROVE Core'
  <2>1. /\ PhaseOf(new, books', dir', InFlight, Ended, shm, RecordOK')
        /\ RecordOK' => Good(statfile'.rec, books', dir', InFlight, Ended)
    BY <1>4
  <2>2. col.pc = "down" => books'.numfiles = 0 BY <1>4 DEF Core
  <2> QED BY <1>1, <1>4, <2>1, <2>2, FrameCore DEF LockMoves
<1>5. raced' = {} => raced = {} OBVIOUS
<1> QED BY <1>3, <1>4, <1>5

LEMMA FinishStep == ASSUME IInv, NEW p \in Expirers, Finish(p) PROVE IInv'
<1>1. /\ x[p].pc = "finish" /\ UNCHANGED <<scene, now, col, dir, shm, books, statfile, raced>>
      /\ IF x[p].noFiles THEN lock' = Nobody /\ Go(p, Idle)
         ELSE Go(p, [x[p] EXCEPT !.pc = "trunc", !.seg = "none"]) /\ UNCHANGED lock
  BY DEF Finish, AtPC, colVars
<1>2. /\ x[p].pc \in Syncing /\ x[p].pc \in Working /\ p # "launcher"
  BY <1>1, Tasks DEF Syncing, IInv
<1>3. CASE x[p].noFiles
  <2>1. PICK new \in ExpirerRec(scene.size) :
           Go(p, new) /\ new.pc = "idle" /\ new.mode = "none" /\ new.seg = "none" /\ ~new.noFiles
    BY <1>1, <1>3, IdleType, Scene DEF IInv
  <2>2. statfile \in StatFile /\ statfile.state # "none" BY <1>2, Holding, Stays DEF IInv
  <2>3. RecordOK' = RecordOK BY <1>1 DEF RecordOK
  <2>4. ASSUME Core
        PROVE  PhaseOf(new, books, dir, InFlight, Ended, shm, RecordOK') /\ ~RecordOK'
    <3>1. Phase(p) BY <2>4 DEF Core
    <3>2. ~RecordOK BY <1>1, <1>3, <3>1 DEF Phase, PhaseOf, Syncing
    <3> QED BY <2>1, <2>3, <3>2, PhaseBefore DEF Before
  <2> QED BY <1>1, <1>2, <1>3, <2>1, <2>2, <2>4, ReleaseStep
<1>4. CASE ~x[p].noFiles
  <2>1. PICK r \in ExpirerRec(scene.size) : r = x[p] BY Stays DEF IInv
  <2>2. PICK new : new = [r EXCEPT !.pc = "trunc", !.seg = "none"] OBVIOUS
  <2>3. Go(p, new) /\ lock' = lock BY <1>1, <1>4, <2>1, <2>2
  <2>4. new \in ExpirerRec(scene.size) /\ new.pc = "trunc" /\ new.ds = r.ds /\ new.mode = r.mode
    <3>1. "trunc" \in Before \cup Again \cup Working BY DEF Working, Shared
    <3>2. "none" \in {"none", "live", "removed"} OBVIOUS
    <3> QED BY <2>2, <3>1, <3>2 DEF ExpirerRec
  <2>5. ASSUME Core PROVE PhaseOf(new, books, dir, InFlight, Ended, shm, RecordOK)
    <3>1. Phase(p) BY <2>5 DEF Core
    <3>2. Good(x[p].ds, books, dir, InFlight, Ended) BY <1>1, <3>1 DEF Phase, PhaseOf
    <3> QED BY <2>1, <2>4, <3>2 DEF PhaseOf, Again, Merging, Syncing
  <2>6. new.pc \in Shared \cup Syncing /\ new.pc # "sync" BY <2>4 DEF Shared
  <2> QED BY <1>1, <1>2, <2>1, <2>3, <2>4, <2>5, <2>6, QuietStep
<1> QED BY <1>3, <1>4

LEMMA TruncStep == ASSUME IInv, NEW p \in Expirers, Trunc(p) PROVE IInv'
<1> USE DEF IInv
<1>1. PICK r \in ExpirerRec(scene.size) : r = x[p] BY Stays
<1>2. PICK new : new = [r EXCEPT !.pc = "write"] OBVIOUS
<1>3. /\ x[p].pc = "trunc" /\ UNCHANGED <<scene, now, col, dir, shm, books, lock, raced>>
      /\ statfile' = Empty /\ Go(p, new)
  BY <1>1, <1>2 DEF Trunc, AtPC, colVars
<1>4. x[p].pc \in Working BY <1>3 DEF Working, Shared
<1>5. /\ new \in ExpirerRec(scene.size) /\ new.pc = "write" /\ new.ds = r.ds /\ new.mode = r.mode
      /\ new.again = r.again /\ new.noFiles = r.noFiles /\ new.seg = r.seg
  BY <1>2, Moved DEF Working, Shared
<1>6. ASSUME Core
      PROVE  /\ PhaseOf(new, books', dir', InFlight, Ended, shm, RecordOK') /\ ~Clean(new)
             /\ col.pc = "down" => books'.numfiles = 0
  <2>1. Phase(p) BY <1>6 DEF Core
  <2>2. Good(x[p].ds, books, dir, InFlight, Ended) BY <1>3, <2>1 DEF Phase, PhaseOf
  <2>3. PhaseOf(new, books, dir, InFlight, Ended, shm, RecordOK')
    BY <1>1, <1>5, <2>2 DEF PhaseOf, Again, Merging, Syncing
  <2> QED BY <1>3, <1>5, <1>6, <2>3 DEF Core, Clean
<1>7. /\ new.pc \in Working /\ new.pc \in Shared /\ new.pc \notin {"scan", "wipe"}
      /\ dir' \in Directory(scene.size) /\ books' \in BookRec /\ BooksShape(books')
      /\ statfile' \in StatFile /\ statfile'.state # "none"
  BY <1>3, <1>5, Stays, StatFiles DEF Working, Shared
<1>8. p = "launcher" => ~new.again /\ ~new.noFiles /\ new.seg # "removed" BY <1>1, <1>4, <1>5, Holding
<1> HIDE DEF IInv
<1> QED BY <1>1, <1>3, <1>4, <1>5, <1>6, <1>7, <1>8, HoldStep DEF IInv

LEMMA WriteStep == ASSUME IInv, NEW p \in Expirers, Write(p) PROVE IInv'
<1>1. /\ x[p].pc = "write" /\ UNCHANGED <<scene, now, col, dir, shm, books, raced>>
      /\ statfile' = Full(x[p].ds) /\ lock' = Nobody
      /\ Go(p, IF x[p].again THEN [x[p] EXCEPT !.pc = "reopen", !.again = FALSE] ELSE Idle)
  BY DEF Write, AtPC, colVars
<1>2. x[p].pc \in Working BY <1>1 DEF Working, Shared
<1>3. PICK r \in ExpirerRec(scene.size) : r = x[p] BY Stays DEF IInv
<1>4. p = "launcher" => ~x[p].again BY <1>2, Holding DEF IInv
<1>5. PICK new \in ExpirerRec(scene.size) :
         /\ Go(p, new) /\ new.pc \in {"idle", "reopen"} /\ new.mode \in {"none", x[p].mode}
         /\ p = "launcher" => new.pc = "idle" /\ ~new.again
         /\ new.pc = "idle" => new.seg = "none" /\ ~new.noFiles
         /\ new.pc = "reopen" => new.ds = x[p].ds
  <2>1. CASE x[p].again
    <3>1. PICK new : new = [r EXCEPT !.pc = "reopen", !.again = FALSE] OBVIOUS
    <3>2. Go(p, new) BY <1>1, <1>3, <2>1, <3>1
    <3>3. new \in ExpirerRec(scene.size) /\ new.pc = "reopen" /\ new.ds = r.ds /\ new.mode = r.mode
      BY <3>1 DEF ExpirerRec, Again
    <3> QED BY <1>3, <1>4, <2>1, <3>2, <3>3
  <2>2. CASE ~x[p].again
    <3>1. Go(p, Idle) BY <1>1, <2>2
    <3> QED BY <3>1, IdleType, Scene DEF IInv
  <2> QED BY <2>1, <2>2
<1>6. /\ x[p].ds \in StatRec /\ statfile' \in StatFile /\ statfile'.state # "none"
      /\ statfile'.rec = x[p].ds
  BY <1>1, <1>3, ExpirerFields, StatFiles
<1>7. ASSUME Core
      PROVE  /\ PhaseOf(new, books, dir, InFlight, Ended, shm, RecordOK')
             /\ RecordOK' => Good(statfile'.rec, books, dir, InFlight, Ended)
  <2>1. Phase(p) BY <1>7 DEF Core
  <2>2. Good(x[p].ds, books, dir, InFlight, Ended) BY <1>1, <2>1 DEF Phase, PhaseOf
  <2>3. CASE new.pc = "idle" BY <1>6, <2>2, <2>3, PhaseBefore DEF Before
  <2>4. CASE new.pc = "reopen"
    BY <1>5, <1>6, <2>2, <2>4 DEF PhaseOf, Again, Merging, Syncing
  <2> QED BY <1>5, <2>3, <2>4
<1>8. new.pc \in {"idle"} \cup Again BY <1>5 DEF Again
<1> QED BY <1>1, <1>2, <1>5, <1>6, <1>7, <1>8, ReleaseStep

\* -u writes a second time.
LEMMA ReopenStep == ASSUME IInv, NEW p \in Expirers, Reopen(p) PROVE IInv'
<1> USE DEF IInv
<1>1. PICK r \in ExpirerRec(scene.size) : r = x[p] BY Stays
<1>2. PICK new : new = [r EXCEPT !.pc = "relock"] OBVIOUS
<1>3. /\ x[p].pc = "reopen" /\ UNCHANGED <<scene, now, col, dir, shm, books, lock, raced>>
      /\ statfile' = Empty /\ Go(p, new)
  BY <1>1, <1>2 DEF Reopen, AtPC, colVars
<1>4. /\ new \in ExpirerRec(scene.size) /\ new.pc = "relock" /\ new.ds = r.ds /\ new.mode = r.mode
      /\ new.again = r.again /\ new.noFiles = r.noFiles /\ new.seg = r.seg
  BY <1>2, Moved DEF Again
<1>5. lock # p /\ PlaceIs(p, new, lock, statfile'.state)
  BY <1>1, <1>3, <1>4, Stays, StatFiles
     DEF PlaceIs, Before, Again, Working, Shared, Merging, Syncing
<1>6. Typed' /\ Times' /\ Places' BY <1>3, <1>4, <1>5, Stays, StatFiles, FrameTyped DEF LockMoves
<1>7. ASSUME Core PROVE Core'
  <2>1. Phase(p) BY <1>7 DEF Core
  <2>2. Good(x[p].ds, books, dir, InFlight, Ended) BY <1>3, <2>1 DEF Phase, PhaseOf, Again
  <2>3. PhaseOf(new, books, dir, InFlight, Ended, shm, RecordOK')
    BY <1>1, <1>4, <2>2 DEF PhaseOf, Again, Merging, Syncing
  <2>4. ~RecordOK' BY <1>3, StatFiles DEF RecordOK
  <2>5. Rewriting BY <1>3 DEF Rewriting
  <2>6. lock = Nobody BY <1>7, <2>5 DEF Core
  <2>7. col.pc = "down" => books.numfiles = 0 BY <1>7 DEF Core
  <2> QED BY <1>3, <1>4, <1>5, <1>7, <2>3, <2>4, <2>6, <2>7, FrameCore DEF LockMoves
<1> QED BY <1>3, <1>6, <1>7

LEMMA RelockStep == ASSUME IInv, NEW p \in Expirers, Relock(p) PROVE IInv'
<1> USE DEF IInv
<1>1. PICK r \in ExpirerRec(scene.size) : r = x[p] BY Stays
<1>2. PICK new : new = [r EXCEPT !.pc = "write"] OBVIOUS
<1>3. /\ x[p].pc = "relock" /\ UNCHANGED <<scene, now, col, dir, shm, books, statfile, raced>>
      /\ lock = Nobody /\ lock' = p /\ Go(p, new)
  BY <1>1, <1>2 DEF Relock, AtPC, colVars
<1>4. /\ new \in ExpirerRec(scene.size) /\ new.pc = "write" /\ new.ds = r.ds /\ new.mode = r.mode
      /\ new.again = r.again /\ new.noFiles = r.noFiles /\ new.seg = r.seg
  BY <1>2, Moved DEF Working, Shared
<1>5. p # "launcher" /\ PlaceIs(p, new, p, statfile.state)
  BY <1>1, <1>3, <1>4, Stays DEF PlaceIs, Before, Again, Working, Shared, Merging, Syncing
<1>6. Typed' /\ Times' /\ Places' BY <1>3, <1>4, <1>5, Stays, FrameTyped DEF LockMoves
<1>7. ASSUME Core PROVE Core'
  <2>1. Phase(p) BY <1>7 DEF Core
  <2>2. Good(x[p].ds, books, dir, InFlight, Ended) BY <1>3, <2>1 DEF Phase, PhaseOf, Again
  <2>3. PhaseOf(new, books, dir, InFlight, Ended, shm, RecordOK)
    BY <1>1, <1>4, <2>2 DEF PhaseOf, Again, Merging, Syncing
  <2>4. RecordOK' = RecordOK BY <1>3 DEF RecordOK
  <2>5. ~Clean(new) /\ new.pc \notin Again /\ x[p].pc \in Again BY <1>3, <1>4 DEF Clean, Again
  <2>6. col.pc = "down" => books.numfiles = 0 BY <1>7 DEF Core
  <2> QED BY <1>3, <1>4, <1>5, <1>7, <2>3, <2>4, <2>5, <2>6, FrameCore DEF LockMoves
<1> QED BY <1>3, <1>6, <1>7

-----------------------------------------------------------------------------
(* ExpireDir                                                               *)

LEMMA BeginStep == ASSUME IInv, NEW p \in Expirers, Begin(p) PROVE IInv'
<1> USE DEF IInv
<1>1. PICK r \in ExpirerRec(scene.size) : r = x[p] BY Stays
<1>2. /\ r.ds \in StatRec /\ r.arg \in Nat /\ SizeFits(scene.size)
      /\ dir \in Directory(scene.size) /\ now \in Nat
  <2>1. now \in Nat BY DEF Typed
  <2> QED BY <2>1, ExpirerFields, Stays, Scene
<1>3. PICK max \in Nat : max = IF r.arg # 0 THEN r.arg ELSE r.ds.max_size
  BY <1>2, StatFields
<1>4. PICK e \in LoopRec : e = ExpireBegin(r.ds, dir, max, 0, now) BY <1>2, BeginType
<1>5. PICK low \in 1..100 : low = LowWater(r.ds) BY <1>2, LowWaterType
<1>6. PICK ds : ds = [r.ds EXCEPT !.max_size = max, !.low_water = low] OBVIOUS
<1>7. PICK new : new = [r EXCEPT !.e = e, !.listed = dir, !.ds = ds, !.pc = "loop"] OBVIOUS
<1>8. /\ x[p].pc = "begin" /\ Go(p, new)
      /\ UNCHANGED <<scene, now, col, dir, shm, books, statfile, lock, raced>>
  <2>1. Go(p, [r EXCEPT !.e = e, !.listed = dir, !.ds.max_size = max,
                        !.ds.low_water = low, !.pc = "loop"])
    BY <1>1, <1>3, <1>4, <1>5 DEF Begin
  <2>2. [r EXCEPT !.e = e, !.listed = dir, !.ds.max_size = max,
                  !.ds.low_water = low, !.pc = "loop"] = new
    BY <1>6, <1>7 DEF ExpirerRec
  <2> QED BY <2>1, <2>2 DEF Begin, AtPC, colVars, fileVars
<1>9. ds \in StatRec
  <2>1. PICK s \in StatRec : s = r.ds BY <1>2
  <2>2. ds = [s EXCEPT !.max_size = max, !.low_water = low] BY <1>6, <2>1
  <2>3. max \in Nat /\ low \in 0..100 OBVIOUS
  <2> QED BY <2>2, <2>3 DEF StatRec
<1>10. /\ new \in ExpirerRec(scene.size) /\ new.pc = "loop" /\ new.ds = ds /\ new.mode = r.mode
       /\ new.again = r.again /\ new.noFiles = r.noFiles /\ new.seg = r.seg
       /\ new.listed = dir /\ new.e = e
  <2>1. "loop" \in Before \cup Again \cup Working BY DEF Working, Shared
  <2>2. ds \in StatRec /\ e \in LoopRec /\ dir \in Directory(scene.size) BY <1>2, <1>9
  <2> QED BY <1>7, <2>1, <2>2 DEF ExpirerRec
<1>11. x[p].pc \in Working BY <1>8 DEF Working, Shared
<1>12. ASSUME Core
       PROVE  PhaseOf(new, books, dir, InFlight, Ended, shm, RecordOK) /\ ~Clean(new)
  <2>1. Phase(p) BY <1>12 DEF Core
  <2>2. /\ Good(r.ds, books, dir, InFlight, Ended) /\ Modest(r.ds, dir)
        /\ r.noFiles => ~RecordOK
    BY <1>1, <1>8, <2>1 DEF Phase, PhaseOf
  <2>3. LoopGood(new, books, dir, InFlight, Ended)
    <3>1. new.listed = dir /\ new.e = ExpireBegin(r.ds, dir, max, 0, now) BY <1>4, <1>10
    <3>2. new.ds = [r.ds EXCEPT !.max_size = max, !.low_water = LowWater(r.ds)]
      BY <1>5, <1>6, <1>10
    <3> QED BY <1>2, <2>2, <3>1, <3>2, BeginGood
  <2> QED BY <1>10, <2>2, <2>3 DEF PhaseOf, Again, Merging, Syncing, Clean
<1>13. RecordOK' = RecordOK BY <1>8 DEF RecordOK
<1>14. /\ new.pc \in Working /\ new.pc \in Shared /\ new.pc \notin {"scan", "wipe"}
       /\ statfile \in StatFile /\ statfile.state # "none" /\ books \in BookRec /\ BooksShape(books)
  BY <1>10, <1>11, Holding, Stays DEF Working, Shared
<1>15. p = "launcher" => ~new.again /\ ~new.noFiles /\ new.seg # "removed"
  BY <1>1, <1>10, <1>11, Holding
<1>16. Core => (col.pc = "down" => books.numfiles = 0) BY DEF Core
<1> HIDE DEF IInv
<1> QED BY <1>1, <1>2, <1>8, <1>10, <1>11, <1>12, <1>13, <1>14, <1>15, <1>16, HoldStep DEF IInv

\* A step of the loop.
LEMMA InLoop == ASSUME IInv, NEW p \in Expirers, x[p].pc = "loop"
                PROVE  /\ x[p].pc \in Working /\ lock = p
                       /\ x[p] \in ExpirerRec(scene.size) /\ x[p].ds \in StatRec
                       /\ x[p].e \in LoopRec /\ x[p].listed \in Directory(scene.size)
                       /\ SizeFits(scene.size) /\ dir \in Directory(scene.size)
                       /\ p = "launcher" => ~x[p].again /\ ~x[p].noFiles /\ x[p].seg # "removed"
                       /\ Core => /\ LoopGood(x[p], books, dir, InFlight, Ended)
                                  /\ x[p].noFiles => ~RecordOK
<1>1. x[p].pc \in Working BY DEF Working, Shared
<1>2. Core => /\ LoopGood(x[p], books, dir, InFlight, Ended)
              /\ x[p].noFiles => ~RecordOK
  BY DEF Core, Phase, PhaseOf
<1>3. x[p] \in ExpirerRec(scene.size) BY Stays DEF IInv
<1>4. x[p].ds \in StatRec /\ x[p].e \in LoopRec /\ x[p].listed \in Directory(scene.size)
  BY <1>3, ExpirerFields
<1> QED BY <1>1, <1>2, <1>3, <1>4, Holding DEF IInv

LEMMA LoopStep ==
    ASSUME IInv, NEW p \in Expirers, x[p].pc = "loop", NEW new \in ExpirerRec(scene.size), Go(p, new),
           UNCHANGED <<scene, now, col, shm, books, statfile, lock, raced>>,
           dir' \in Directory(scene.size), Files(dir') \subseteq Files(dir),
           new.mode = x[p].mode, new.again = x[p].again, new.noFiles = x[p].noFiles,
           new.seg = x[p].seg,
           new.pc \in {"loop", "trunc"} \cup (IF p = "launcher" THEN {} ELSE {"finish"}),
           Core => IF new.pc = "loop" THEN LoopGood(new, books, dir', InFlight, Ended)
                   ELSE Good(new.ds, books, dir', InFlight, Ended)
    PROVE  IInv'
<1>1. ASSUME Core
      PROVE  PhaseOf(new, books, dir', InFlight, Ended, shm, RecordOK) /\ ~Clean(new)
  <2>1. x[p].noFiles => ~RecordOK BY <1>1, InLoop
  <2>2. CASE new.pc = "loop"
    BY <1>1, <2>1, <2>2 DEF PhaseOf, Again, Merging, Syncing, Clean
  <2>3. CASE new.pc # "loop"
    BY <1>1, <2>1, <2>3 DEF PhaseOf, Again, Merging, Syncing, Clean
  <2> QED BY <2>2, <2>3
<1>2. RecordOK' = RecordOK BY DEF RecordOK
<1>3. /\ new.pc \in Working /\ new.pc \notin {"scan", "wipe"}
      /\ p = "launcher" => new.pc \in Shared \cup Merging
      /\ p # "launcher" => new.pc \in Shared \cup Syncing
  BY DEF Working, Shared, Syncing
<1>4. /\ statfile' \in StatFile /\ statfile'.state # "none"
      /\ books' \in BookRec /\ BooksShape(books')
      /\ x[p].pc \in Working
      /\ p = "launcher" => ~new.again /\ ~new.noFiles /\ new.seg # "removed"
  BY InLoop, Holding, Stays DEF IInv
<1>5. ASSUME Core, raced' = {}
      PROVE  /\ PhaseOf(new, books', dir', InFlight, Ended, shm, RecordOK') /\ ~Clean(new)
             /\ col.pc = "down" => books'.numfiles = 0
  <2>1. col.pc = "down" => books.numfiles = 0 BY <1>5 DEF Core
  <2> QED BY <1>1, <1>2, <1>5, <2>1
<1> QED BY <1>3, <1>4, <1>5, HoldStep

LEMMA KeepStep == ASSUME IInv, NEW p \in Expirers, KeepFile(p) PROVE IInv'
<1>1. PICK r \in ExpirerRec(scene.size) : r = x[p] BY Stays DEF IInv
<1>2. /\ x[p].pc = "loop" /\ ~r.e.done /\ r.e.todo # {} /\ ~Victim(r.e, r.ds)
  BY <1>1 DEF KeepFile, Looping, AtPC
<1>3. PICK ds : ds = ExpireStat(r.e, r.ds, 0, FALSE) OBVIOUS
<1>4. PICK e : e = ExpireLoop(r.e, r.ds, FALSE, FALSE) OBVIOUS
<1>5. PICK new : new = [r EXCEPT !.ds = ds, !.e = e] OBVIOUS
<1>6. Go(p, new) /\ UNCHANGED <<scene, now, col, dir, shm, books, statfile, lock, raced>>
  BY <1>1, <1>3, <1>4, <1>5 DEF KeepFile, colVars, fileVars
<1>7. ds \in StatRec /\ e \in LoopRec
  BY <1>1, <1>2, <1>3, <1>4, InLoop, ExpireStatType, LoopType
<1>8. /\ new \in ExpirerRec(scene.size) /\ new.pc = r.pc /\ new.ds = ds /\ new.e = e
      /\ new.mode = r.mode /\ new.again = r.again /\ new.noFiles = r.noFiles
      /\ new.seg = r.seg /\ new.listed = r.listed
  <2>1. ds \in StatRec /\ e \in LoopRec BY <1>7
  <2> QED BY <1>5, <2>1 DEF ExpirerRec
<1>9. ASSUME Core PROVE LoopGood(new, books, dir, InFlight, Ended)
  <2>1. LoopGood(r, books, dir, InFlight, Ended) BY <1>1, <1>2, <1>9, InLoop
  <2>2. r.ds \in StatRec /\ r.e \in LoopRec BY ExpirerFields
  <2>3. new.listed = r.listed /\ new.ds = ExpireStat(r.e, r.ds, 0, FALSE)
        /\ new.e = ExpireLoop(r.e, r.ds, FALSE, FALSE)
    BY <1>3, <1>4, <1>8
  <2> QED BY <1>2, <2>1, <2>2, <2>3, KeepGood
<1>10. dir' \in Directory(scene.size) /\ dir' = dir BY <1>2, <1>6, InLoop
<1> QED BY <1>1, <1>2, <1>6, <1>8, <1>9, <1>10, LoopStep

LEMMA UnlinkStep == ASSUME IInv, NEW p \in Expirers, UnlinkFile(p) PROVE IInv'
<1>1. PICK r \in ExpirerRec(scene.size) : r = x[p] BY Stays DEF IInv
<1>2. /\ x[p].pc = "loop" /\ ~r.e.done /\ r.e.todo # {} /\ Victim(r.e, r.ds)
  BY <1>1 DEF UnlinkFile, Looping, AtPC
<1>3. /\ r.ds \in StatRec /\ r.e \in LoopRec /\ r.listed \in Directory(scene.size)
      /\ SizeFits(scene.size) /\ dir \in Directory(scene.size)
  BY <1>1, <1>2, InLoop
<1>4. PICK f \in Slot : f = NextFile(r.e)
  <2>1. r.e.todo \in SUBSET Slot BY <1>3, LoopFields
  <2> QED BY <1>2, <2>1, Oldest DEF NextFile
<1>5. r.listed[f] \in Nat BY <1>3 DEF Directory, SizeFits
<1>6. PICK ds \in StatRec : ds = ExpireStat(r.e, r.ds, r.listed[f], TRUE)
  BY <1>2, <1>3, <1>5, ExpireStatType
<1>7. PICK e \in LoopRec : e = ExpireLoop(r.e, r.ds, TRUE, FALSE) BY <1>3, LoopType
<1>8. PICK listed \in Directory(scene.size) : listed = [r.listed EXCEPT ![f] = 0]
  BY <1>3 DEF Directory
<1>9. PICK new : new = [r EXCEPT !.ds = ds, !.e = e, !.listed = listed] OBVIOUS
<1>10. /\ Go(p, new) /\ dir' = [dir EXCEPT ![f] = 0]
       /\ UNCHANGED <<scene, now, col, shm, books, statfile, lock, raced>>
  <2>1. [r EXCEPT !.ds = ds, !.e = e, !.listed[f] = 0] = new
    BY <1>8, <1>9 DEF ExpirerRec
  <2>2. Go(p, [r EXCEPT !.ds = ds, !.e = e, !.listed[f] = 0])
    BY <1>1, <1>4, <1>6, <1>7 DEF UnlinkFile
  <2>3. /\ dir' = [dir EXCEPT ![f] = 0]
        /\ UNCHANGED <<scene, now, col, shm, books, statfile, lock, raced>>
    BY <1>1, <1>4 DEF UnlinkFile, colVars, fileVars
  <2> QED BY <2>1, <2>2, <2>3
<1>11. /\ new \in ExpirerRec(scene.size) /\ new.pc = r.pc /\ new.ds = ds /\ new.e = e
       /\ new.mode = r.mode /\ new.again = r.again /\ new.noFiles = r.noFiles
       /\ new.seg = r.seg /\ new.listed = listed
  BY <1>9 DEF ExpirerRec
<1>12. dir' \in Directory(scene.size) /\ Files(dir') \subseteq Files(dir)
  BY <1>3, <1>10 DEF Directory, Files
<1>13. ASSUME Core PROVE LoopGood(new, books, dir', InFlight, Ended)
  <2>1. LoopGood(r, books, dir, InFlight, Ended) BY <1>1, <1>2, <1>13, InLoop
  <2>2. new.listed = Without(r.listed, f) /\ new.ds = ExpireStat(r.e, r.ds, r.listed[f], TRUE)
        /\ new.e = ExpireLoop(r.e, r.ds, TRUE, FALSE)
    BY <1>6, <1>7, <1>8, <1>11 DEF Without
  <2>3. PICK g : g = dir' OBVIOUS
  <2>4. g = Without(dir, f) BY <1>10, <2>3 DEF Without
  <2>5. LoopGood(new, books, g, InFlight, Ended)
    BY <1>2, <1>3, <1>4, <2>1, <2>2, <2>4, UnlinkGood
  <2> QED BY <2>3, <2>5
<1>14. new.pc = "loop" BY <1>1, <1>2, <1>11
<1> QED BY <1>1, <1>2, <1>10, <1>11, <1>12, <1>13, <1>14, LoopStep

LEMMA EndLoopStep == ASSUME IInv, NEW p \in Expirers, EndLoop(p) PROVE IInv'
<1>1. PICK r \in ExpirerRec(scene.size) : r = x[p] BY Stays DEF IInv
<1>2. /\ x[p].pc = "loop" /\ (r.e.done \/ r.e.todo = {})
      /\ UNCHANGED <<scene, now, col, dir, shm, books, statfile, lock, raced>>
  BY <1>1 DEF EndLoop, AtPC, colVars, fileVars
<1>3. /\ r.ds \in StatRec /\ r.e \in LoopRec /\ r.listed \in Directory(scene.size)
      /\ SizeFits(scene.size) /\ dir \in Directory(scene.size) /\ now \in Nat
  BY <1>1, <1>2, InLoop DEF IInv, Typed
<1>4. PICK ds \in StatRec : ds = ExpireEnd(r.e, r.ds, now) BY <1>3, ExpireEndType
<1>5. PICK e \in LoopRec, listed \in Directory(scene.size) : e = Idle.e /\ listed = Idle.listed
  BY <1>3, IdleType
<1>6. PICK pc : pc = IF x[p].mode = "auto" THEN "trunc" ELSE "finish" OBVIOUS
<1>7. pc \in {"trunc"} \cup (IF p = "launcher" THEN {} ELSE {"finish"})
  <2>1. p = "launcher" => x[p].mode = "auto" BY <1>2, InLoop, Holding DEF IInv
  <2> QED BY <1>6, <2>1
<1>8. PICK new : new = [r EXCEPT !.ds = ds, !.e = e, !.listed = listed, !.pc = pc] OBVIOUS
<1>9. Go(p, new) BY <1>1, <1>4, <1>5, <1>6, <1>8 DEF EndLoop
<1>10. /\ new \in ExpirerRec(scene.size) /\ new.pc = pc /\ new.ds = ds
       /\ new.mode = r.mode /\ new.again = r.again /\ new.noFiles = r.noFiles
       /\ new.seg = r.seg
  <2>1. pc \in Before \cup Again \cup Working BY <1>7 DEF Working, Shared, Syncing
  <2> QED BY <1>8, <2>1 DEF ExpirerRec
<1>11. ASSUME Core PROVE Good(new.ds, books, dir', InFlight, Ended)
  <2>1. LoopGood(r, books, dir, InFlight, Ended) BY <1>1, <1>2, <1>11, InLoop
  <2>2. Good(ExpireEnd(r.e, r.ds, now), books, dir, InFlight, Ended)
    BY <1>2, <1>3, <2>1, EndGood
  <2> QED BY <1>2, <1>4, <1>10, <2>2
<1>12. dir' \in Directory(scene.size) /\ Files(dir') \subseteq Files(dir) BY <1>2, <1>3
<1>13. new.pc \in {"loop", "trunc"} \cup (IF p = "launcher" THEN {} ELSE {"finish"})
       /\ new.pc # "loop"
  BY <1>7, <1>10
<1>14. /\ new.mode = x[p].mode /\ new.again = x[p].again /\ new.noFiles = x[p].noFiles
       /\ new.seg = x[p].seg
  BY <1>1, <1>10
<1> QED BY <1>2, <1>9, <1>10, <1>11, <1>12, <1>13, <1>14, LoopStep

-----------------------------------------------------------------------------
(* An expirer is killed                                                    *)

LEMMA KillStep == ASSUME IInv, NEW p \in Expirers, Kill(p) PROVE IInv'
<1> USE DEF IInv
<1>1. /\ x[p].pc # "idle" /\ UNCHANGED <<scene, now, col, dir, shm, books, statfile>>
      /\ Go(p, Idle) /\ lock' = IF lock = p THEN Nobody ELSE lock
      /\ raced \subseteq raced'
      /\ raced' = {} /\ lock = p /\ RecordOK => Clean(x[p])
  <2>1. raced' = {} /\ lock = p /\ RecordOK => Clean(x[p])
    <3> SUFFICES ASSUME raced' = {}, lock = p, RecordOK PROVE Clean(x[p]) OBVIOUS
    <3>1. ~(x[p].pc \notin {"scan", "wipe", "sync"} /\ (AtPC(p, "merge") => x[p].rescan))
      BY DEF Kill, Note
    <3> QED BY <3>1 DEF Clean, AtPC
  <2>2. raced \subseteq raced' BY DEF Kill
  <2> QED BY <2>1, <2>2 DEF Kill, AtPC, colVars
<1>2. PICK new \in ExpirerRec(scene.size) :
         /\ new = Idle /\ new.pc = "idle" /\ new.mode = "none" /\ new.seg = "none"
         /\ ~new.noFiles /\ ~new.again
  BY IdleType, Scene
<1>3. Go(p, new) BY <1>1, <1>2
<1>4. statfile \in StatFile /\ RecordOK' = RecordOK BY <1>1, Stays DEF RecordOK
<1>5. CASE x[p].pc \in Working
  <2>1. lock = p /\ statfile.state # "none" BY <1>5, Holding
  <2>2. ASSUME Core, raced' = {}
        PROVE  /\ PhaseOf(new, books, dir, InFlight, Ended, shm, RecordOK')
               /\ RecordOK' => Good(statfile'.rec, books, dir, InFlight, Ended)
    <3>1. PhaseOf(new, books, dir, InFlight, Ended, shm, RecordOK')
      BY <1>2, PhaseBefore DEF Before
    <3>2. ASSUME RecordOK PROVE Good(statfile.rec, books, dir, InFlight, Ended)
      <4>1. Untouched BY <1>1, <2>1, <2>2, <3>2 DEF Untouched
      <4>2. FileGood BY <2>2 DEF Core
      <4> QED BY <3>2, <4>1, <4>2 DEF FileGood
    <3> QED BY <1>1, <1>4, <3>1, <3>2
  <2>3. lock' = Nobody /\ statfile' \in StatFile /\ statfile'.state # "none"
    BY <1>1, <1>4, <2>1
  <2> HIDE DEF IInv
  <2> QED BY <1>1, <1>2, <1>3, <1>5, <2>2, <2>3, ReleaseStep
<1>6. CASE x[p].pc \notin Working
  <2>1. lock # p /\ lock' = lock BY <1>1, <1>6, Stays DEF PlaceIs
  <2>2. PlaceIs(p, new, lock', statfile'.state)
    BY <1>1, <1>2, <2>1 DEF PlaceIs, Before, Working, Shared, Merging, Syncing
  <2>3. Typed' /\ Times' /\ Places' BY <1>1, <1>3, <2>1, <2>2, Stays, FrameTyped DEF LockMoves
  <2>4. ASSUME Core PROVE Core'
    <3>1. PhaseOf(new, books, dir, InFlight, Ended, shm, RecordOK')
      BY <1>2, PhaseBefore DEF Before
    <3>2. new.pc \notin Again BY <1>2 DEF Again
    <3>3. /\ col.pc = "down" => books.numfiles = 0
          /\ Rewriting => lock = Nobody
      BY <2>4 DEF Core
    <3> QED BY <1>1, <1>3, <1>4, <2>1, <2>4, <3>1, <3>2, <3>3, FrameCore DEF LockMoves
  <2>5. raced' = {} => raced = {} BY <1>1
  <2> QED BY <2>3, <2>4, <2>5
<1> QED BY <1>5, <1>6

-----------------------------------------------------------------------------
(* The rotations of the collector                                          *)

\* The file that is finished is the newest.
LEMMA SlotOf == ASSUME Typed, Times, col.pc = "renamed" \/ RotationDue
                PROVE  /\ col.t_start \in Slot /\ col.t_start \in Nat /\ now \in Nat
                       /\ Files(dir) \subseteq 1..col.t_start
                       /\ ~col.done => col.t_start < now
<1>1. /\ col.t_start \in 1..now /\ col.t_start \in Nat /\ scene.slots \in 1..MaxSlot
      /\ now \in Nat /\ col.done \in BOOLEAN
  BY Scene DEF Times, Typed, CollectorRec
<1>2. col.t_start <= scene.slots /\ col.pc # "down" /\ (~col.done => col.t_start < now)
  <2>1. CASE col.pc = "renamed" BY <2>1 DEF Times
  <2>2. CASE RotationDue BY <1>1, <2>2 DEF RotationDue
  <2> QED BY <2>1, <2>2
<1>3. col.t_start \in Slot BY <1>1, <1>2, Bounds DEF Slot
<1> QED BY <1>1, <1>2, <1>3 DEF Times

\* After a rotation the collector goes on, or ends.
LEMMA GoesOn ==
    ASSUME Typed, Times, col.pc = "renamed" \/ RotationDue, NEW c, c = AfterRotation
    PROVE  /\ c \in CollectorRec /\ c.pc \in {"run", "fold", "destroy"}
           /\ c.pc = "fold" => Launchers = {}
           /\ c.pc = "destroy" => Launchers # {}
           /\ c.t_start \in 1..now /\ Files(dir) \subseteq 1..c.t_start
<1>1. PICK o \in CollectorRec : o = col BY DEF Typed
<1>2. CASE ~col.done
  <2>1. PICK t \in Nat : t = col.t_start + 1 BY SlotOf
  <2>2. c = [o EXCEPT !.pc = "run", !.t_start = t] BY <1>1, <1>2, <2>1 DEF AfterRotation
  <2>3. c \in CollectorRec /\ c.pc = "run" /\ c.t_start = t
    BY <2>2 DEF CollectorRec, CollectorPCs
  <2>4. t \in 1..now BY <1>2, <2>1, SlotOf
  <2>5. Files(dir) \subseteq 1..t BY <2>1, SlotOf
  <2> QED BY <2>3, <2>4, <2>5
<1>3. CASE col.done
  <2>1. PICK pc \in {"fold", "destroy"} : pc = IF Launchers = {} THEN "fold" ELSE "destroy"
    OBVIOUS
  <2>2. c = [o EXCEPT !.pc = pc] BY <1>1, <1>3, <2>1 DEF AfterRotation
  <2>3. c \in CollectorRec /\ c.pc = pc /\ c.t_start = o.t_start
    BY <2>2 DEF CollectorRec, CollectorPCs
  <2>4. o.t_start \in 1..now BY <1>1 DEF Times
  <2> QED BY <1>1, <2>1, <2>3, <2>4, SlotOf
<1> QED BY <1>2, <1>3

\* The collector is in its loop: it does not hold the lock, and has not ended.
LEMMA Collecting == ASSUME Places, col.pc \in {"run", "renamed"}
                    PROVE  lock # Collector /\ shm /\ ~Ended
BY DEF Places, Ended

\* What a step of the collector leaves alone.
LEMMA ColPlaces ==
    ASSUME Typed, Places, UNCHANGED <<scene, x>>, statfile'.state = "none" => statfile.state = "none",
           \/ lock' = lock
           \/ {lock, lock'} \subseteq {Nobody, Collector},
           col'.pc \in {"foldTrunc", "foldWrite"} => lock' = Collector,
           lock' = Collector => col'.pc \in {"foldTrunc", "foldWrite", "destroy"},
           col'.pc \in {"fold", "foldTrunc", "foldWrite"} \/ lock' = Collector => Launchers = {},
           ~shm' => col'.pc = "down", BooksShape(books')
    PROVE  Places'
<1>1. Expirers' = Expirers /\ Launchers' = Launchers BY DEF Expirers, Launchers
<1>2. ASSUME NEW p \in Expirers PROVE PlaceIs(p, x'[p], lock', statfile'.state)
  <2>1. PlaceIs(p, x[p], lock, statfile.state) BY DEF Places
  <2>2. lock' = p <=> lock = p BY Scene
  <2> QED BY <2>1, <2>2 DEF PlaceIs
<1> QED BY <1>1, <1>2 DEF Places

LEMMA ColCore ==
    ASSUME Typed, UNCHANGED <<scene, x, lock>>,
           lock # Collector, col'.pc \notin {"foldTrunc", "foldWrite"},
           Core, UNCHANGED statfile, col'.pc = "down" => books'.numfiles = 0,
           Good(statfile.rec, books, dir, InFlight, Ended)
               => Good(statfile.rec, books', dir', InFlight', Ended'),
           \A p \in Expirers : PhaseOf(x[p], books', dir', InFlight', Ended', shm', RecordOK)
    PROVE  Core'
<1>1. Expirers' = Expirers BY DEF Expirers, Launchers
<1>2. RecordOK' = RecordOK BY DEF RecordOK
<1>3. Rewriting' = Rewriting BY <1>1 DEF Rewriting
<1>4. \A p \in Expirers : Phase(p)' BY <1>2 DEF Phase
<1>5. FileGood'
  <2>1. Untouched' => Untouched BY <1>1 DEF Untouched
  <2>2. FileGood BY DEF Core
  <2> QED BY <1>2, <2>1, <2>2 DEF FileGood
<1>6. FoldGood' BY DEF FoldGood
<1> QED BY <1>1, <1>3, <1>4, <1>5, <1>6 DEF Core

LEMMA TickStep == ASSUME IInv, Tick PROVE IInv'
<1> USE DEF IInv
<1>1. /\ now <= scene.slots /\ now' = now + 1
      /\ UNCHANGED <<scene, dir, col, shm, books, statfile, lock, x, raced>>
  BY DEF Tick, fileVars
<1>2. Expirers' = Expirers /\ Launchers' = Launchers BY <1>1 DEF Expirers, Launchers
<1>3. now \in Nat /\ now' \in Nat BY <1>1 DEF Typed
<1>4. Typed' BY <1>1, <1>2, <1>3 DEF Typed
<1>5. Times'
  <2>1. 1..now \subseteq 1..now' /\ now' \in 1..(scene.slots + 1) BY <1>1, <1>3, Scene DEF Times
  <2>2. col.t_start \in Nat /\ (col.t_start < now => col.t_start < now')
    BY <1>1, <1>3 DEF Typed, CollectorRec
  <2> QED BY <1>1, <2>1, <2>2 DEF Times
<1>6. Places' BY <1>1, <1>2 DEF Places
<1>7. RecordOK' = RecordOK /\ InFlight' = InFlight /\ Ended' = Ended /\ Rewriting' = Rewriting
      /\ Untouched' = Untouched
  BY <1>1, <1>2 DEF RecordOK, InFlight, Ended, Rewriting, Untouched
<1>8. ASSUME Core PROVE Core'
  <2>1. \A p \in Expirers : Phase(p)' BY <1>1, <1>7, <1>8 DEF Core, Phase
  <2>2. FileGood' BY <1>1, <1>7, <1>8 DEF Core, FileGood
  <2>3. FoldGood' BY <1>1, <1>8 DEF Core, FoldGood
  <2> QED BY <1>1, <1>2, <1>7, <1>8, <2>1, <2>2, <2>3 DEF Core
<1> QED BY <1>1, <1>4, <1>5, <1>6, <1>8

LEMMA SignalStep == ASSUME IInv, Signal PROVE IInv'
<1> USE DEF IInv
<1>1. /\ col.pc = "run" /\ col' = [col EXCEPT !.done = TRUE]
      /\ UNCHANGED <<scene, now, dir, shm, books, statfile, lock, x, raced>>
  BY DEF Signal, fileVars
<1>2. col' \in CollectorRec /\ col'.pc = "run" /\ col'.t_start = col.t_start
  <2>1. PICK o \in CollectorRec : o = col BY DEF Typed
  <2>2. col' = [o EXCEPT !.done = TRUE] /\ o.pc = "run" BY <1>1, <2>1
  <2>3. col' \in CollectorRec /\ col'.pc = o.pc /\ col'.t_start = o.t_start
    BY <2>2 DEF CollectorRec
  <2> QED BY <2>1, <2>2, <2>3
<1>3. Expirers' = Expirers BY <1>1 DEF Expirers, Launchers
<1>4. Typed' BY <1>1, <1>2, <1>3 DEF Typed
<1>5. Times' BY <1>1, <1>2 DEF Times
<1>6. lock # Collector /\ shm /\ BooksShape(books') BY <1>1, Collecting, Stays
<1>7. Places' BY <1>1, <1>2, <1>6, ColPlaces
<1>8. ASSUME Core PROVE Core'
  <2>1. InFlight' = InFlight /\ Ended' = Ended BY <1>1, <1>2 DEF InFlight, Ended
  <2>2. \A p \in Expirers : PhaseOf(x[p], books', dir', InFlight', Ended', shm', RecordOK)
    BY <1>1, <1>8, <2>1 DEF Core, Phase
  <2> QED BY <1>1, <1>2, <1>6, <1>8, <2>1, <2>2, ColCore
<1> QED BY <1>1, <1>4, <1>5, <1>7, <1>8

LEMMA RenameFailsStep == ASSUME IInv, RenameFails PROVE IInv'
<1> USE DEF IInv
<1>1. /\ RotationDue /\ col.pc = "run" /\ col' = AfterRotation
      /\ UNCHANGED <<scene, now, dir, shm, books, statfile, lock, x, raced>>
  BY DEF RenameFails, RotationDue, fileVars
<1>2. PICK c : c = AfterRotation OBVIOUS
<1>3. /\ c \in CollectorRec /\ c.pc \in {"run", "fold", "destroy"}
      /\ c.pc = "fold" => Launchers = {}
      /\ c.pc = "destroy" => Launchers # {}
      /\ c.t_start \in 1..now /\ Files(dir) \subseteq 1..c.t_start
  BY <1>1, <1>2, GoesOn
<1>4. col' = c BY <1>1, <1>2
<1>5. Expirers' = Expirers /\ Launchers' = Launchers BY <1>1 DEF Expirers, Launchers
<1>6. Typed' BY <1>1, <1>3, <1>4, <1>5 DEF Typed
<1>7. Times' BY <1>1, <1>3, <1>4 DEF Times
<1>8. lock # Collector /\ shm /\ ~Ended /\ BooksShape(books') BY <1>1, Collecting, Stays
<1>9. Places' BY <1>1, <1>3, <1>4, <1>8, ColPlaces
<1>10. ASSUME Core PROVE Core'
  <2>1. InFlight' = InFlight BY <1>1, <1>3, <1>4 DEF InFlight
  <2>2. Ended' = FALSE /\ Ended = FALSE BY <1>3, <1>4, <1>5, <1>8 DEF Ended
  <2>3. \A p \in Expirers : PhaseOf(x[p], books', dir', InFlight', Ended', shm', RecordOK)
    BY <1>1, <1>10, <2>1, <2>2 DEF Core, Phase
  <2> QED BY <1>1, <1>3, <1>4, <1>8, <1>10, <2>1, <2>2, <2>3, ColCore
<1> QED BY <1>1, <1>6, <1>7, <1>9, <1>10

LEMMA RenameStep == ASSUME IInv, Rename PROVE IInv'
<1> USE DEF IInv
<1>1. /\ RotationDue /\ col.pc = "run" /\ col' = [col EXCEPT !.pc = "renamed"]
      /\ UNCHANGED <<scene, now, shm, books, statfile, lock, x>>
      /\ raced \subseteq raced'
      /\ raced' = {} => dir[col.t_start] = 0 /\ ~\E p \in Expirers : Scanning(p)
  <2>1. raced' = raced \cup Note("overwrite", dir[col.t_start] # 0)
                       \cup Note("rescan", \E p \in Expirers : Scanning(p))
    BY DEF Rename
  <2>2. raced' = {} => dir[col.t_start] = 0 /\ ~\E p \in Expirers : Scanning(p)
    BY <2>1 DEF Note
  <2> QED BY <2>1, <2>2 DEF Rename, RotationDue, fileVars
<1>2. PICK t \in Slot : t = col.t_start BY <1>1, SlotOf
<1>3. PICK g : g = [dir EXCEPT ![t] = scene.size] OBVIOUS
<1>4. dir' = g BY <1>2, <1>3 DEF Rename
<1>5. /\ dir \in Directory(scene.size) /\ g \in Directory(scene.size)
      /\ Files(g) \subseteq Files(dir) \cup {t} /\ Files(dir) \subseteq 1..t
  <2>1. dir \in Directory(scene.size) BY Stays
  <2> QED BY <1>1, <1>2, <1>3, <2>1, SlotOf DEF Directory, Files
<1>6. col' \in CollectorRec /\ col'.pc = "renamed" /\ col'.t_start = t /\ col'.done = col.done
  <2>1. PICK o \in CollectorRec : o = col BY DEF Typed
  <2>2. col' = [o EXCEPT !.pc = "renamed"] BY <1>1, <2>1
  <2>3. col' \in CollectorRec /\ col'.pc = "renamed" /\ col'.t_start = o.t_start
        /\ col'.done = o.done
    BY <2>2 DEF CollectorRec, CollectorPCs
  <2> QED BY <1>2, <2>1, <2>3
<1>7. Expirers' = Expirers BY <1>1 DEF Expirers, Launchers
<1>8. Typed' BY <1>1, <1>4, <1>5, <1>6, <1>7 DEF Typed
<1>9. Times'
  <2>1. t \in 1..now /\ t <= scene.slots /\ (~col.done => t < now) /\ now \in 1..(scene.slots + 1)
    BY <1>1, <1>2, SlotOf DEF RotationDue, Times
  <2>2. t \in 1..t BY Bounds
  <2>3. Files(dir') \subseteq 1..t /\ Files(dir') \subseteq 1..now
    BY <1>4, <1>5, <2>1, <2>2 DEF Times
  <2> QED BY <1>1, <1>6, <2>1, <2>3 DEF Times
<1>10. lock # Collector /\ shm /\ ~Ended /\ BooksShape(books') BY <1>1, Collecting, Stays
<1>11. Places' BY <1>1, <1>6, <1>10, ColPlaces
<1>12. ASSUME Core, raced' = {} PROVE Core'
  <2>1. InFlight' = {t} /\ InFlight = {} BY <1>1, <1>6 DEF InFlight
  <2>2. Ended' = FALSE /\ Ended = FALSE BY <1>6, <1>10 DEF Ended
  <2>3. /\ dir[t] = 0 /\ SizeFits(scene.size) /\ books \in BookRec /\ BooksShape(books)
        /\ statfile.rec \in StatRec
    BY <1>1, <1>2, <1>12, Stays, Scene DEF StatFile
  <2>4. Good(statfile.rec, books, dir, {}, FALSE) => Good(statfile.rec, books, g, {t}, FALSE)
    <3>1. PICK ds \in StatRec : ds = statfile.rec BY <2>3
    <3>2. /\ SizeFits(scene.size) /\ dir \in Directory(scene.size) /\ books \in BookRec
          /\ BooksShape(books) /\ dir[t] = 0 /\ Files(dir) \subseteq 1..t
      BY <1>5, <2>3
    <3>3. Good(ds, books, dir, {}, FALSE) => Good(ds, books, g, {t}, FALSE)
      BY <1>3, <3>2, GoodRenamed, ZenonT(60)
    <3> QED BY <3>1, <3>3
  <2>5. ASSUME NEW p \in Expirers
        PROVE  PhaseOf(x[p], books, g, {t}, FALSE, shm, RecordOK)
    <3>1. PhaseOf(x[p], books, dir, {}, FALSE, shm, RecordOK)
      BY <1>12, <2>1, <2>2 DEF Core, Phase
    <3>2. x[p].pc \notin {"wipe", "seq1", "seq2", "nwipe"} BY <1>1, <1>12 DEF Scanning
    <3>3. x[p] \in ExpirerRec(scene.size) BY Stays
    <3> QED BY <1>3, <1>5, <2>3, <3>1, <3>2, <3>3, PhaseRenamed
  <2>6. \A p \in Expirers : PhaseOf(x[p], books', dir', InFlight', Ended', shm', RecordOK)
    BY <1>1, <1>4, <2>1, <2>2, <2>5
  <2>7. Good(statfile.rec, books, dir, InFlight, Ended)
            => Good(statfile.rec, books', dir', InFlight', Ended')
    BY <1>1, <1>4, <2>1, <2>2, <2>4
  <2> QED BY <1>1, <1>6, <1>10, <1>12, <2>6, <2>7, ColCore
<1> QED BY <1>1, <1>8, <1>9, <1>11, <1>12

LEMMA BookStep == ASSUME IInv, Book PROVE IInv'
<1> USE DEF IInv
<1>1. /\ col.pc = "renamed" /\ col' = AfterRotation
      /\ UNCHANGED <<scene, now, dir, shm, statfile, lock, x>>
      /\ raced \subseteq raced'
      /\ raced' = {} => ~\E p \in Expirers : Scanning(p)
  BY DEF Book, fileVars, Note
<1>2. PICK t \in Slot : t = col.t_start BY <1>1, SlotOf
<1>3. PICK size \in IF dir[t] # 0 THEN {dir[t]} ELSE {scene.size, 0} :
         books' = UpdateBooks(books, t, size)
  BY <1>2 DEF Book
<1>4. /\ dir \in Directory(scene.size) /\ SizeFits(scene.size) /\ books \in BookRec /\ BooksShape(books)
      /\ statfile.rec \in StatRec
  BY Stays, Scene DEF StatFile
<1>5. size \in Nat
  <2>1. dir[t] \in Nat /\ scene.size \in Nat BY <1>4, Scene, Single
  <2> QED BY <2>1
<1>6. books' \in BookRec /\ BooksShape(books')
  <2>1. t \in Nat /\ t # 0 BY Bounds
  <2>2. books' \in BookRec BY <1>3, <1>4, <1>5, <2>1, BookTypes
  <2>3. books'.numfiles = books.numfiles + 1 /\ books'.first = IF books.first = 0 THEN t ELSE books.first
    BY <1>3 DEF UpdateBooks
  <2>4. books.numfiles \in Nat BY <1>4 DEF BookRec
  <2> QED BY <2>1, <2>2, <2>3, <2>4 DEF BooksShape
<1>7. PICK c : c = AfterRotation OBVIOUS
<1>8. /\ c \in CollectorRec /\ c.pc \in {"run", "fold", "destroy"}
      /\ c.pc = "fold" => Launchers = {}
      /\ c.pc = "destroy" => Launchers # {}
      /\ c.t_start \in 1..now /\ Files(dir) \subseteq 1..c.t_start
  BY <1>1, <1>7, GoesOn
<1>9. col' = c BY <1>1, <1>7
<1>10. Expirers' = Expirers /\ Launchers' = Launchers BY <1>1 DEF Expirers, Launchers
<1>11. Typed' BY <1>1, <1>6, <1>8, <1>9, <1>10 DEF Typed
<1>12. Times' BY <1>1, <1>8, <1>9 DEF Times
<1>13. lock # Collector /\ shm /\ ~Ended BY <1>1, Collecting
<1>14. Places' BY <1>1, <1>6, <1>8, <1>9, <1>13, ColPlaces
<1>15. ASSUME Core, raced' = {} PROVE Core'
  <2>1. InFlight' = {} /\ InFlight = {t} BY <1>1, <1>2, <1>8, <1>9 DEF InFlight
  <2>2. Ended' = FALSE /\ Ended = FALSE BY <1>8, <1>9, <1>10, <1>13 DEF Ended
  <2>3. PICK b : b = UpdateBooks(books, t, size) OBVIOUS
  <2>4. Good(statfile.rec, books, dir, {t}, FALSE) => Good(statfile.rec, b, dir, {}, FALSE)
    BY <1>4, <2>3, GoodAdded
  <2>5. ASSUME NEW p \in Expirers
        PROVE  PhaseOf(x[p], b, dir, {}, FALSE, shm, RecordOK)
    <3>1. PhaseOf(x[p], books, dir, {t}, FALSE, shm, RecordOK)
      BY <1>15, <2>1, <2>2 DEF Core, Phase
    <3>2. x[p].pc \notin {"wipe", "seq1", "seq2", "nwipe"} BY <1>1, <1>15 DEF Scanning
    <3>3. PICK r \in ExpirerRec(scene.size) : r = x[p] BY Stays
    <3>4. PhaseOf(r, books, dir, {t}, FALSE, shm, RecordOK) /\ r.pc \notin {"wipe", "seq1", "seq2", "nwipe"}
      BY <3>1, <3>2, <3>3
    <3>5. PhaseOf(r, UpdateBooks(books, t, size), dir, {}, FALSE, shm, RecordOK)
      BY <1>4, <3>4, PhaseBooked
    <3> QED BY <2>3, <3>3, <3>5
  <2>6. \A p \in Expirers : PhaseOf(x[p], books', dir', InFlight', Ended', shm', RecordOK)
    BY <1>1, <1>3, <2>1, <2>2, <2>3, <2>5
  <2>7. Good(statfile.rec, books, dir, InFlight, Ended)
            => Good(statfile.rec, books', dir', InFlight', Ended')
    BY <1>1, <1>3, <2>1, <2>2, <2>3, <2>4
  <2> QED BY <1>1, <1>8, <1>9, <1>13, <1>15, <2>6, <2>7, ColCore
<1> QED BY <1>1, <1>11, <1>12, <1>14, <1>15

-----------------------------------------------------------------------------
(* The collector ends                                                      *)

\* When nobody works and nobody is to write again, nobody has anything in his hands.
LEMMA AllBefore == ASSUME Typed, Places, Core, lock \notin Expirers, ~Rewriting
                   PROVE  \A p \in Expirers : x[p].pc \in Before
<1> SUFFICES ASSUME NEW p \in Expirers PROVE x[p].pc \in Before OBVIOUS
<1>1. x[p].pc \in Before \cup Again \cup Working BY ExpirerFields DEF Typed
<1>2. x[p].pc \notin Working BY DEF Places, PlaceIs
<1>3. x[p].pc \notin Again BY DEF Rewriting, Again
<1> QED BY <1>1, <1>2, <1>3

\* The steps of FoldRead and FoldTrunc and FoldWrite: all expirers are before the lock.
LEMMA FoldCore ==
    ASSUME Typed, Places, Core, UNCHANGED <<scene, x, dir, shm, books>>,
           \A p \in Expirers : x[p].pc \in Before,
           col'.pc # "down", lock' \in {Nobody, Collector},
           lock' = Nobody \/ col'.pc = "foldTrunc" =>
               (RecordOK' => Good(statfile'.rec, books, dir, InFlight', Ended')),
           lock' = Collector /\ col'.pc # "foldTrunc" => ~RecordOK',
           FoldGood'
    PROVE  Core'
<1>1. Expirers' = Expirers BY DEF Expirers, Launchers
<1>2. \A p \in Expirers : Phase(p)' BY PhaseBefore DEF Phase
<1>3. Rewriting' = FALSE BY <1>1 DEF Rewriting, Before
<1>4. FileGood'
  <2>1. \A p \in Expirers : lock' # p BY Scene
  <2>2. Untouched' => lock' = Nobody \/ col'.pc = "foldTrunc" BY <1>1, <2>1 DEF Untouched
  <2> QED BY <2>2 DEF FileGood
<1> QED BY <1>1, <1>2, <1>3, <1>4 DEF Core

\* What the collector reads.
LEMMA FoldRecord ==
    ASSUME Typed, Core, statfile.state # "none", lock = Nobody, col.pc = "fold",
           NEW ds, ds = VerifyStatInfo(IF statfile.state = "empty" THEN TmplStat ELSE statfile.rec)
    PROVE  /\ ds \in StatRec
           /\ ds.status = "OK" <=> RecordOK
           /\ ds.status = "OK" => ds = statfile.rec /\ Good(ds, books, dir, {}, FALSE)
<1>1. /\ statfile \in StatFile /\ statfile.rec \in StatRec
      /\ statfile.state \in {"empty", "full"}
  BY DEF Typed, StatFile
<1>2. CASE statfile.state = "empty"
  <2>1. ds = VerifyStatInfo(TmplStat) /\ TmplStat \in StatRec BY <1>2, Constants
  <2>2. TmplStat.status # "OK" BY DEF TmplStat, ZeroStat
  <2>3. ds.status # "OK" /\ ds \in StatRec BY <2>1, <2>2, Verified, VerifyType
  <2> QED BY <1>2, <2>3 DEF RecordOK
<1>3. CASE statfile.state = "full"
  <2>1. PICK rec \in StatRec : rec = statfile.rec BY <1>1
  <2>2. ds = VerifyStatInfo(rec) /\ ds \in StatRec BY <1>3, <2>1, VerifyType
  <2>3. ASSUME RecordOK PROVE Good(rec, books, dir, {}, FALSE) /\ rec.status = "OK"
    <3>1. Untouched BY DEF Untouched
    <3>2. FileGood BY DEF Core
    <3>3. InFlight = {} /\ Ended = FALSE BY DEF InFlight, Ended
    <3> QED BY <2>1, <2>3, <3>1, <3>2, <3>3 DEF FileGood, RecordOK
  <2>4. RecordOK => ds = rec /\ ds.status = "OK" BY <2>2, <2>3, GoodVerified
  <2>5. ds.status = "OK" => ds = rec /\ RecordOK BY <1>3, <2>1, <2>2, Verified DEF RecordOK
  <2> QED BY <2>1, <2>2, <2>3, <2>4, <2>5
<1> QED BY <1>1, <1>2, <1>3

\* The collector's place in the record of its variables.
LEMMA ColMoves == ASSUME Typed, NEW pc \in CollectorPCs, NEW ds \in StatRec
                  PROVE  /\ [col EXCEPT !.pc = pc, !.ds = ds] \in CollectorRec
                         /\ [col EXCEPT !.pc = pc, !.ds = ds].pc = pc
                         /\ [col EXCEPT !.pc = pc, !.ds = ds].ds = ds
                         /\ [col EXCEPT !.pc = pc, !.ds = ds].t_start = col.t_start
                         /\ [col EXCEPT !.pc = pc] = [col EXCEPT !.pc = pc, !.ds = col.ds]
                         /\ col.ds \in StatRec
<1>1. PICK o \in CollectorRec : o = col BY DEF Typed
<1>2. /\ [o EXCEPT !.pc = pc, !.ds = ds] \in CollectorRec
      /\ [o EXCEPT !.pc = pc, !.ds = ds].pc = pc
      /\ [o EXCEPT !.pc = pc, !.ds = ds].ds = ds
      /\ [o EXCEPT !.pc = pc, !.ds = ds].t_start = o.t_start
      /\ [o EXCEPT !.pc = pc] = [o EXCEPT !.pc = pc, !.ds = o.ds]
      /\ o.ds \in StatRec
  BY DEF CollectorRec
<1> QED BY <1>1, <1>2

\* A step of the collector when it ends, that moves its place only.
LEMMA FoldMoves ==
    ASSUME Typed, Times, Places, UNCHANGED <<scene, now, dir, shm, books, x>>, col.pc # "renamed",
           NEW pc \in CollectorPCs, NEW ds \in StatRec, col' = [col EXCEPT !.pc = pc, !.ds = ds],
           pc \notin {"renamed", "down"}, col.pc # "down",
           statfile' \in StatFile, statfile'.state = "none" => statfile.state = "none",
           {lock, lock'} \subseteq {Nobody, Collector} \/ lock' = lock,
           pc \in {"foldTrunc", "foldWrite"} => lock' = Collector,
           lock' = Collector => pc \in {"foldTrunc", "foldWrite", "destroy"},
           Launchers = {}
    PROVE  Typed' /\ Times' /\ Places' /\ col'.pc = pc /\ col'.ds = ds
<1>1. col' \in CollectorRec /\ col'.pc = pc /\ col'.ds = ds /\ col'.t_start = col.t_start
  BY ColMoves
<1>2. Expirers' = Expirers /\ Launchers' = Launchers BY DEF Expirers, Launchers
<1>3. lock' \in Expirers \cup {Nobody, Collector} BY DEF Typed
<1>4. Typed' BY <1>1, <1>2, <1>3 DEF Typed
<1>5. Times' BY <1>1 DEF Times
<1>6. ~shm' => col'.pc = "down" BY DEF Places
<1>7. BooksShape(books') BY DEF Places
<1>8. Places' BY <1>1, <1>6, <1>7, ColPlaces
<1> QED BY <1>1, <1>4, <1>5, <1>8

LEMMA FoldReadStep == ASSUME IInv, FoldRead PROVE IInv'
<1> USE DEF IInv
<1>1. /\ col.pc = "fold" /\ UNCHANGED <<scene, now, dir, shm, books, statfile, x>>
      /\ raced \subseteq raced'
      /\ raced' = {} => ~(lock' = Collector /\ Rewriting)
  BY DEF FoldRead, Note
<1>2. Launchers = {} /\ lock # Collector BY <1>1 DEF Places
<1>3. statfile' \in StatFile BY <1>1, Stays
<1>4. CASE statfile.state = "none" /\ col' = [col EXCEPT !.pc = "destroy"] /\ lock' = lock
  <2>1. col' = [col EXCEPT !.pc = "destroy", !.ds = col.ds] /\ col.ds \in StatRec
        /\ "destroy" \in CollectorPCs
    BY <1>4, ColMoves, Constants DEF CollectorPCs
  <2>2. Typed' /\ Times' /\ Places' /\ col'.pc = "destroy"
    BY <1>1, <1>2, <1>3, <1>4, <2>1, FoldMoves
  <2>3. ASSUME NEW p \in Expirers PROVE x[p].pc \in {"idle", "open", "create"} /\ lock # p
    BY <1>4, Stays DEF PlaceIs, Working, Shared, Merging, Syncing
  <2>4. ASSUME Core PROVE Core'
    <3>1. lock' \in {Nobody, Collector} BY <1>2, <1>4, <2>3, Stays
    <3>2. \A p \in Expirers : x[p].pc \in Before BY <2>3 DEF Before
    <3>3. ~RecordOK' BY <1>1, <1>4 DEF RecordOK
    <3>4. FoldGood' BY <2>2 DEF FoldGood
    <3> QED BY <1>1, <2>2, <2>4, <3>1, <3>2, <3>3, <3>4, FoldCore
  <2> QED BY <1>1, <2>2, <2>4
<1>5. CASE /\ statfile.state # "none" /\ lock = Nobody /\ lock' = Collector
           /\ LET ds == VerifyStatInfo(IF statfile.state = "empty" THEN TmplStat ELSE statfile.rec)
              IN IF ds.status = "OK"
                 THEN col' = [col EXCEPT !.pc = "foldTrunc", !.ds = UpdateBookStat(ds, books)]
                 ELSE col' = [col EXCEPT !.pc = "destroy"]
  <2>1. PICK ds : ds = VerifyStatInfo(IF statfile.state = "empty" THEN TmplStat ELSE statfile.rec)
    OBVIOUS
  <2>2. ds \in StatRec
    <3>1. TmplStat \in StatRec /\ statfile.rec \in StatRec BY Constants, Stays DEF StatFile
    <3> QED BY <2>1, <3>1, VerifyType
  <2>3. RecordOK' = RecordOK BY <1>1 DEF RecordOK
  <2>4. CASE ds.status = "OK"
    <3>1. PICK new \in StatRec : new = UpdateBookStat(ds, books)
      BY <2>2, Stays, UpdateStatType
    <3>2. col' = [col EXCEPT !.pc = "foldTrunc", !.ds = new] /\ "foldTrunc" \in CollectorPCs
      BY <1>5, <2>1, <2>4, <3>1 DEF CollectorPCs
    <3>3. Typed' /\ Times' /\ Places' /\ col'.pc = "foldTrunc" /\ col'.ds = new
      BY <1>1, <1>2, <1>3, <1>5, <3>2, FoldMoves
    <3>4. ASSUME Core, raced' = {} PROVE Core'
      <4>1. ds = statfile.rec /\ Good(ds, books, dir, {}, FALSE)
        BY <1>1, <1>5, <2>1, <2>4, <3>4, FoldRecord
      <4>2. Good(new, books, dir, {}, TRUE) /\ new.status = "OK"
        BY <2>2, <2>4, <3>1, <4>1, Stays, Scene, FoldMerged
      <4>3. FoldGood' BY <1>1, <3>3, <4>2 DEF FoldGood
      <4>4. \A p \in Expirers : x[p].pc \in Before
        <5>1. ~Rewriting BY <1>1, <1>5, <3>4
        <5> QED BY <1>5, <3>4, <5>1, Scene, AllBefore
      <4>5. InFlight' = {} /\ Ended' = FALSE BY <3>3 DEF InFlight, Ended
      <4>6. Good(statfile'.rec, books, dir, InFlight', Ended') BY <1>1, <4>1, <4>5
      <4> QED BY <1>1, <1>5, <3>3, <3>4, <4>3, <4>4, <4>6, FoldCore DEF Collector, Nobody
    <3> QED BY <1>1, <3>3, <3>4
  <2>5. CASE ds.status # "OK"
    <3>1. col' = [col EXCEPT !.pc = "destroy", !.ds = col.ds] /\ col.ds \in StatRec
          /\ "destroy" \in CollectorPCs
      BY <1>5, <2>1, <2>5, ColMoves, Constants DEF CollectorPCs
    <3>2. Typed' /\ Times' /\ Places' /\ col'.pc = "destroy"
      BY <1>1, <1>2, <1>3, <1>5, <3>1, FoldMoves
    <3>3. ASSUME Core, raced' = {} PROVE Core'
      <4>1. ~RecordOK' BY <1>1, <1>5, <2>1, <2>3, <2>5, <3>3, FoldRecord
      <4>2. FoldGood' BY <3>2 DEF FoldGood
      <4>3. \A p \in Expirers : x[p].pc \in Before
        <5>1. ~Rewriting BY <1>1, <1>5, <3>3
        <5> QED BY <1>5, <3>3, <5>1, Scene, AllBefore
      <4> QED BY <1>1, <1>5, <3>2, <3>3, <4>1, <4>2, <4>3, FoldCore DEF Collector, Nobody
    <3> QED BY <1>1, <3>2, <3>3
  <2> QED BY <2>4, <2>5
<1> QED BY <1>4, <1>5 DEF FoldRead

LEMMA FoldTruncStep == ASSUME IInv, FoldTrunc PROVE IInv'
<1> USE DEF IInv
<1>1. /\ col.pc = "foldTrunc" /\ statfile' = Empty /\ col' = [col EXCEPT !.pc = "foldWrite"]
      /\ UNCHANGED <<scene, now, dir, shm, books, lock, x, raced>>
  BY DEF FoldTrunc
<1>2. Launchers = {} /\ lock = Collector BY <1>1 DEF Places
<1>3. col' = [col EXCEPT !.pc = "foldWrite", !.ds = col.ds] /\ col.ds \in StatRec
      /\ "foldWrite" \in CollectorPCs
  BY <1>1, ColMoves, Constants DEF CollectorPCs
<1>4. statfile' \in StatFile /\ statfile'.state # "none" /\ ~RecordOK'
  BY <1>1, StatFiles DEF RecordOK
<1>5. Typed' /\ Times' /\ Places' /\ col'.pc = "foldWrite" /\ col'.ds = col.ds
  BY <1>1, <1>2, <1>3, <1>4, FoldMoves
<1>6. ASSUME Core PROVE Core'
  <2>1. ~Rewriting BY <1>2, <1>6 DEF Core, Collector, Nobody
  <2>2. \A p \in Expirers : x[p].pc \in Before BY <1>2, <1>6, <2>1, Scene, AllBefore
  <2>3. FoldGood' BY <1>1, <1>5, <1>6 DEF Core, FoldGood
  <2> QED BY <1>1, <1>2, <1>4, <1>5, <1>6, <2>2, <2>3, FoldCore
<1> QED BY <1>1, <1>5, <1>6

LEMMA FoldWriteStep == ASSUME IInv, FoldWrite PROVE IInv'
<1> USE DEF IInv
<1>1. /\ col.pc = "foldWrite" /\ statfile' = Full(col.ds) /\ lock' = Nobody
      /\ col' = [col EXCEPT !.pc = "destroy", !.ds = ZeroStat]
      /\ UNCHANGED <<scene, now, dir, shm, books, x, raced>>
  BY DEF FoldWrite
<1>2. Launchers = {} /\ lock = Collector BY <1>1 DEF Places
<1>3. ZeroStat \in StatRec /\ "destroy" \in CollectorPCs /\ col.ds \in StatRec
  BY ColMoves, Constants DEF CollectorPCs
<1>4. statfile' \in StatFile /\ statfile'.state # "none" /\ statfile'.rec = col.ds
  BY <1>1, <1>3, StatFiles
<1>5. Typed' /\ Times' /\ Places' /\ col'.pc = "destroy"
  BY <1>1, <1>2, <1>3, <1>4, FoldMoves
<1>6. ASSUME Core PROVE Core'
  <2>1. ~Rewriting BY <1>2, <1>6 DEF Core, Collector, Nobody
  <2>2. \A p \in Expirers : x[p].pc \in Before BY <1>2, <1>6, <2>1, Scene, AllBefore
  <2>3. FoldGood' BY <1>5 DEF FoldGood
  <2>4. Good(col.ds, books, dir, {}, TRUE) BY <1>1, <1>6 DEF Core, FoldGood
  <2>5. Launchers' = Launchers BY <1>1 DEF Launchers
  <2>6. InFlight' = {} /\ Ended' = TRUE BY <1>2, <1>5, <2>5 DEF InFlight, Ended
  <2>7. Good(statfile'.rec, books, dir, InFlight', Ended') BY <1>4, <2>4, <2>6
  <2> QED BY <1>1, <1>5, <1>6, <2>2, <2>3, <2>7, FoldCore DEF Collector, Nobody
<1> QED BY <1>1, <1>5, <1>6

-----------------------------------------------------------------------------
(* The collector goes down and comes back                                  *)

LEMMA DestroyStep == ASSUME IInv, Destroy PROVE IInv'
<1> USE DEF IInv
<1>1. /\ col.pc = "destroy" /\ (\A p \in Launchers : x[p].pc = "idle")
      /\ shm' = FALSE /\ books' = NoBooks /\ col' = [col EXCEPT !.pc = "down"]
      /\ lock' = IF lock = Collector THEN Nobody ELSE lock
      /\ UNCHANGED <<scene, now, dir, statfile>>
      /\ raced \subseteq raced'
      /\ raced' = {} => Launchers = {} \/ books.numfiles = 0
  BY DEF Destroy, Note
<1>2. PICK y : y = [p \in Expirers |->
                      IF x[p].seg = "live" THEN [x[p] EXCEPT !.seg = "removed", !.copy = books]
                      ELSE x[p]]
  OBVIOUS
<1>3. x' = y BY <1>2 DEF Destroy
<1>4. Expirers' = Expirers /\ Launchers' = Launchers BY <1>1 DEF Expirers, Launchers
<1>5. ASSUME NEW p \in Expirers
      PROVE  /\ y[p] \in ExpirerRec(scene.size) /\ y[p].pc = x[p].pc /\ y[p].rescan = x[p].rescan
             /\ PlaceIs(p, y[p], lock', statfile'.state)
             /\ y[p] = x[p] \/ (x[p].seg = "live" /\ y[p] = [x[p] EXCEPT !.seg = "removed", !.copy = books])
  <2>1. PICK r \in ExpirerRec(scene.size) : r = x[p] BY Stays
  <2>2. PlaceIs(p, r, lock, statfile.state) BY <2>1, Stays
  <2>3. lock' = p <=> lock = p BY <1>1, Scene
  <2>4. y[p] = IF r.seg = "live" THEN [r EXCEPT !.seg = "removed", !.copy = books] ELSE r
    BY <1>2, <2>1
  <2>5. CASE r.seg # "live" BY <1>1, <2>1, <2>2, <2>3, <2>4, <2>5 DEF PlaceIs
  <2>6. CASE r.seg = "live"
    <3>1. PICK b \in BookRec : b = books BY Stays
    <3>2. y[p] = [r EXCEPT !.seg = "removed", !.copy = b] BY <2>4, <2>6, <3>1
    <3>3. /\ y[p] \in ExpirerRec(scene.size) /\ y[p].pc = r.pc /\ y[p].rescan = r.rescan
          /\ y[p].mode = r.mode /\ y[p].again = r.again /\ y[p].noFiles = r.noFiles
      BY <3>2 DEF ExpirerRec
    <3>4. p # "launcher"
      <4>1. ASSUME p = "launcher" PROVE FALSE
        <5>1. r.pc \in Before BY <1>1, <2>1, <4>1, Scene DEF Before
        <5> QED BY <2>2, <2>6, <5>1 DEF PlaceIs
      <4> QED BY <4>1
    <3>5. r.pc \notin Before BY <2>2, <2>6 DEF PlaceIs
    <3>6. PlaceIs(p, y[p], lock', statfile'.state)
      BY <1>1, <2>2, <2>3, <3>3, <3>4, <3>5 DEF PlaceIs
    <3> QED BY <2>1, <2>6, <3>1, <3>2, <3>3, <3>6
  <2> QED BY <2>5, <2>6
<1>6. col' \in CollectorRec /\ col'.pc = "down" /\ col'.t_start = col.t_start
  <2>1. "down" \in CollectorPCs BY DEF CollectorPCs
  <2>2. col' = [col EXCEPT !.pc = "down", !.ds = col.ds] /\ col.ds \in StatRec
    BY <1>1, <2>1, ColMoves, Constants
  <2> QED BY <2>1, <2>2, ColMoves
<1>7. books' \in BookRec /\ BooksShape(books') /\ NothingIn(books')
  BY <1>1, Constants DEF NothingIn, NoBooks
<1>8. Typed'
  <2>1. x' \in [Expirers -> ExpirerRec(scene.size)] BY <1>2, <1>3, <1>5
  <2>2. lock' \in Expirers \cup {Collector, Nobody} BY <1>1 DEF Typed
  <2> QED BY <1>1, <1>4, <1>6, <1>7, <2>1, <2>2 DEF Typed
<1>9. Times' BY <1>1, <1>6 DEF Times
<1>10. Places'
  <2>1. lock' # Collector BY <1>1 DEF Collector, Nobody
  <2> QED BY <1>1, <1>3, <1>4, <1>5, <1>6, <1>7, <2>1 DEF Places
<1>11. ASSUME Core, raced' = {} PROVE Core'
  <2>1. InFlight' = {} /\ InFlight = {} /\ Ended' = FALSE /\ (~Ended => books.numfiles = 0)
    BY <1>1, <1>6, <1>11 DEF InFlight, Ended
  <2>2. RecordOK' = RecordOK BY <1>1 DEF RecordOK
  <2>3. ASSUME NEW p \in Expirers PROVE Phase(p)'
    <3>1. PICK r, new : r \in ExpirerRec(scene.size) /\ r = x[p] /\ new = y[p]
      BY Stays
    <3>6. r \in ExpirerRec(scene.size) BY <3>1
    <3>2. PhaseOf(r, books, dir, {}, Ended, shm, RecordOK) BY <1>11, <2>1, <3>1 DEF Core, Phase
    <3>3. new = r \/ (r.seg = "live" /\ new = [r EXCEPT !.seg = "removed", !.copy = books])
      BY <1>5, <3>1
    <3>4. r.pc = "merge" => ~Ended
      <4>1. r.pc = "merge" => p = "launcher"
        BY <3>1, Stays DEF PlaceIs, Before, Again, Shared, Syncing
      <4> QED BY <4>1, Scene DEF Ended
    <3>5. PhaseOf(new, books', dir, {}, FALSE, FALSE, RecordOK)
      BY <1>7, <2>1, <3>2, <3>3, <3>4, <3>6, Stays, Scene, PhaseEmptied
    <3> QED BY <1>1, <1>3, <2>1, <2>2, <3>1, <3>5 DEF Phase
  <2>4. FileGood'
    <3>1. ASSUME Untouched', RecordOK PROVE Good(statfile.rec, books', dir, {}, FALSE)
      <4>1. Untouched
        <5>1. CASE lock = Collector
          <6>1. ~RecordOK BY <1>1, <1>11, <5>1 DEF Core, FileGood
          <6> QED BY <3>1, <6>1
        <5>2. CASE lock # Collector
          BY <1>1, <1>3, <1>4, <1>5, <3>1, <5>2 DEF Untouched, Clean
        <5> QED BY <5>1, <5>2
      <4>2. Good(statfile.rec, books, dir, {}, Ended)
        BY <1>11, <2>1, <3>1, <4>1 DEF Core, FileGood
      <4> QED BY <1>7, <2>1, <4>2, Stays, Scene, GoodCleared DEF NothingIn
    <3>2. lock' # Collector BY <1>1 DEF Collector, Nobody
    <3> QED BY <1>1, <2>1, <2>2, <3>1, <3>2 DEF FileGood
  <2>5. FoldGood' BY <1>6 DEF FoldGood
  <2>6. Rewriting' => lock' = Nobody
    <3>1. Rewriting' => Rewriting BY <1>3, <1>4, <1>5 DEF Rewriting
    <3> QED BY <1>1, <1>11, <3>1 DEF Core
  <2>7. books'.numfiles = 0 BY <1>7 DEF NothingIn
  <2> QED BY <1>4, <2>3, <2>4, <2>5, <2>6, <2>7 DEF Core
<1> QED BY <1>1, <1>8, <1>9, <1>10, <1>11

\* The collector is gone, or back, and its books count nothing.
LEMMA EmptiedCore ==
    ASSUME Typed, Times, Places, Core, UNCHANGED <<scene, dir, statfile, x>>, col.pc # "renamed",
           col'.pc \in {"run", "down"}, ~Ended => books.numfiles = 0,
           NothingIn(books'), lock' = IF lock = Collector THEN Nobody ELSE lock,
           shm' = shm \/ lock = Nobody
    PROVE  Core'
<1>1. Expirers' = Expirers /\ Launchers' = Launchers BY DEF Expirers, Launchers
<1>2. InFlight' = {} /\ InFlight = {} /\ Ended' = FALSE BY DEF InFlight, Ended
<1>3. RecordOK' = RecordOK BY DEF RecordOK
<1>4. ASSUME NEW p \in Expirers PROVE Phase(p)'
  <2>1. PICK r \in ExpirerRec(scene.size) : r = x[p] BY Stays
  <2>2. PhaseOf(r, books, dir, {}, Ended, shm, RecordOK) BY <1>2, <2>1 DEF Core, Phase
  <2>3. r.pc = "merge" => ~Ended
    <3>1. r.pc = "merge" => p = "launcher"
      BY <2>1, Stays DEF PlaceIs, Before, Again, Shared, Syncing
    <3> QED BY <3>1, Scene DEF Ended
  <2>4. r.pc \in (Merging \cup Syncing) \ {"param", "finish"} /\ r.seg # "live" => ~shm'
    <3>1. CASE shm' = shm BY <2>2, <3>1 DEF PhaseOf
    <3>2. CASE lock = Nobody
      <4>1. r.pc \notin Working BY <2>1, <3>2, Stays, Scene DEF PlaceIs
      <4> QED BY <4>1 DEF Working
    <3> QED BY <3>1, <3>2
  <2>5. PhaseOf(r, books', dir, {}, FALSE, shm', RecordOK)
    BY <2>2, <2>3, <2>4, Stays, Scene, PhaseEmptied
  <2> QED BY <1>2, <1>3, <2>1, <2>5 DEF Phase
<1>5. FileGood'
  <2>1. ASSUME Untouched', RecordOK PROVE Good(statfile.rec, books', dir, {}, FALSE)
    <3>1. Untouched
      <4>1. CASE lock = Collector
        <5>1. col.pc = "foldTrunc" BY <2>1, <4>1 DEF Core, FileGood
        <5> QED BY <4>1, <5>1 DEF Untouched
      <4>2. CASE lock # Collector
        BY <1>1, <2>1, <4>2 DEF Untouched
      <4> QED BY <4>1, <4>2
    <3>2. Good(statfile.rec, books, dir, {}, Ended)
      BY <1>2, <2>1, <3>1 DEF Core, FileGood
    <3> QED BY <3>2, Stays, Scene, GoodCleared DEF NothingIn
  <2>2. lock' # Collector BY DEF Collector, Nobody
  <2> QED BY <1>2, <1>3, <2>1, <2>2 DEF FileGood
<1>6. FoldGood' BY DEF FoldGood
<1>7. Rewriting' => lock' = Nobody
  <2>1. Rewriting' => Rewriting BY <1>1 DEF Rewriting
  <2> QED BY <2>1 DEF Core
<1>8. books'.numfiles = 0 BY DEF NothingIn
<1> QED BY <1>1, <1>4, <1>5, <1>6, <1>7, <1>8 DEF Core

\* The lock of a collector that is down is free.
LEMMA DownPlaces ==
    ASSUME Typed, Places, UNCHANGED <<scene, statfile, x>>,
           lock' = IF lock = Collector THEN Nobody ELSE lock,
           col'.pc \in {"run", "down"}, ~shm' => col'.pc = "down", BooksShape(books')
    PROVE  Places'
<1>1. lock' = lock \/ {lock, lock'} \subseteq {Nobody, Collector} OBVIOUS
<1>2. lock' # Collector BY DEF Collector, Nobody
<1> QED BY <1>1, <1>2, ColPlaces

LEMMA CrashStep == ASSUME IInv, Crash PROVE IInv'
<1> USE DEF IInv
<1>1. /\ col.pc # "down" /\ col' = [col EXCEPT !.pc = "down", !.ds = ZeroStat]
      /\ lock' = IF lock = Collector THEN Nobody ELSE lock
      /\ UNCHANGED <<scene, now, dir, shm, books, statfile, x>>
      /\ raced \subseteq raced'
      /\ raced' = {} => books.numfiles = 0 /\ col.pc # "renamed"
  BY DEF Crash, Note
<1>2. col' \in CollectorRec /\ col'.pc = "down" /\ col'.t_start = col.t_start
  <2>1. "down" \in CollectorPCs /\ ZeroStat \in StatRec BY Constants DEF CollectorPCs
  <2> QED BY <1>1, <2>1, ColMoves
<1>3. Expirers' = Expirers BY <1>1 DEF Expirers, Launchers
<1>4. Typed'
  <2>1. lock' \in Expirers \cup {Collector, Nobody} BY <1>1 DEF Typed
  <2> QED BY <1>1, <1>2, <1>3, <2>1 DEF Typed
<1>5. Times' BY <1>1, <1>2 DEF Times
<1>6. BooksShape(books) BY Stays
<1>7. Places' BY <1>1, <1>2, <1>6, DownPlaces
<1>8. ASSUME Core, raced' = {} PROVE Core'
  <2>1. NothingIn(books') BY <1>1, <1>6, <1>8 DEF BooksShape, NothingIn
  <2> QED BY <1>1, <1>2, <1>8, <2>1, EmptiedCore
<1> QED BY <1>1, <1>4, <1>5, <1>7, <1>8

LEMMA RestartStep == ASSUME IInv, Restart PROVE IInv'
<1> USE DEF IInv
<1>1. /\ col.pc = "down" /\ shm' = TRUE
      /\ col' = [pc |-> "run", t_start |-> now, done |-> FALSE, ds |-> ZeroStat]
      /\ books' = [NoBooks EXCEPT !.sequence = 1]
      /\ UNCHANGED <<scene, now, dir, statfile, lock, x>>
      /\ raced \subseteq raced'
      /\ raced' = {} => lock \notin Expirers
  BY DEF Restart, Note, fileVars
<1>2. now \in Nat BY DEF Typed
<1>3. col' \in CollectorRec /\ col'.pc = "run" /\ col'.t_start = now
  BY <1>1, <1>2, Constants DEF CollectorRec, CollectorPCs
<1>4. books' \in BookRec /\ BooksShape(books') /\ NothingIn(books')
  <2>1. 0 \in 0..(Wrap - 1) BY Bounds
  <2> QED BY <1>1, <2>1 DEF NoBooks, BookRec, BooksShape, NothingIn
<1>5. lock # Collector BY <1>1 DEF Places
<1>6. Expirers' = Expirers BY <1>1 DEF Expirers, Launchers
<1>7. Typed' BY <1>1, <1>3, <1>4, <1>6 DEF Typed
<1>8. Times'
  <2>1. now \in 1..now BY <1>2 DEF Times
  <2> QED BY <1>1, <1>3, <2>1 DEF Times
<1>9. Places' BY <1>1, <1>3, <1>4, <1>5, DownPlaces
<1>10. ASSUME Core, raced' = {} PROVE Core'
  <2>1. lock = Nobody BY <1>1, <1>5, <1>10, Stays
  <2>2. books.numfiles = 0 BY <1>1, <1>10 DEF Core
  <2> QED BY <1>1, <1>3, <1>4, <1>5, <1>10, <2>1, <2>2, EmptiedCore
<1> QED BY <1>1, <1>7, <1>8, <1>9, <1>10

-----------------------------------------------------------------------------
(* The invariant                                                           *)

LEMMA InitInv == Init => IInv
<1> SUFFICES ASSUME Init PROVE IInv OBVIOUS
<1>1. /\ scene \in Scenes /\ now = 1 /\ dir = [s \in Slot |-> 0]
      /\ col = [pc |-> "run", t_start |-> 1, done |-> FALSE, ds |-> ZeroStat]
      /\ shm = TRUE /\ books = [NoBooks EXCEPT !.sequence = 1]
      /\ statfile = IF scene.stat = "none" THEN NoFile ELSE Full(FirstStat)
      /\ lock = Nobody /\ x = [p \in Expirers |-> Idle]
  BY DEF Init
<1>2. /\ scene.limit \in Nat /\ scene.slots \in 1..MaxSlot /\ SizeFits(scene.size)
  BY <1>1, ScenesAssumption DEF SizeFits
<1>3. /\ books \in BookRec /\ BooksShape(books)
  <2>1. 0 \in 0..(Wrap - 1) BY Bounds
  <2> QED BY <1>1, <2>1 DEF NoBooks, BookRec, BooksShape
<1>4. statfile \in StatFile /\ ~RecordOK
  <2>1. PICK zero \in StatRec : zero = ZeroStat BY Constants
  <2>2. "FORCE_REBUILD" \in {"OK", "FORCE_REBUILD"} OBVIOUS
  <2>3. PICK l \in Nat, w \in 0..100 : l = scene.limit /\ w = LowWaterMark
    BY <1>2, LowWaterAssumption
  <2>4. PICK first : first = [zero EXCEPT !.max_size = l, !.low_water = w, !.status = "FORCE_REBUILD"]
    OBVIOUS
  <2>5. first \in StatRec /\ first.status = "FORCE_REBUILD" BY <2>2, <2>4 DEF StatRec
  <2>6. FirstStat = first BY <2>1, <2>3, <2>4 DEF FirstStat
  <2>7. statfile = [state |-> "none", rec |-> zero] \/ statfile = [state |-> "full", rec |-> first]
    BY <1>1, <2>1, <2>6 DEF NoFile, Full
  <2> QED BY <2>1, <2>5, <2>7 DEF StatFile, RecordOK
<1>5. dir \in Directory(scene.size) /\ Files(dir) = {} BY <1>1 DEF Directory, Files
<1>6. /\ Idle \in ExpirerRec(scene.size) /\ Idle.pc = "idle" /\ Idle.seg = "none"
      /\ Idle.noFiles = FALSE /\ Idle.again = FALSE /\ Idle.mode = "none"
  BY <1>2, IdleType
<1>7. x \in [Expirers -> ExpirerRec(scene.size)] /\ \A p \in Expirers : x[p] = Idle
  BY <1>1, <1>6
<1>8. col \in CollectorRec /\ col.pc = "run" /\ col.t_start = 1
  BY <1>1, Constants DEF CollectorRec, CollectorPCs
<1>9. Typed BY <1>1, <1>3, <1>4, <1>5, <1>7, <1>8 DEF Typed
<1>10. Times BY <1>1, <1>2, <1>5, <1>8, Bounds DEF Times
<1>11. Places
  <2>1. \A p \in Expirers : PlaceIs(p, x[p], lock, statfile.state)
    BY <1>1, <1>6, <1>7, <1>9, Scene
       DEF PlaceIs, Before, Working, Shared, Merging, Syncing
  <2>2. lock # Collector BY <1>1 DEF Nobody, Collector
  <2> QED BY <1>1, <1>3, <1>8, <2>1, <2>2 DEF Places
<1>12. Core
  <2>1. \A p \in Expirers : Phase(p) BY <1>6, <1>7, PhaseBefore DEF Phase, Before
  <2>2. FileGood /\ FoldGood BY <1>1, <1>4, <1>8 DEF FileGood, FoldGood, Nobody, Collector
  <2>3. ~Rewriting BY <1>6, <1>7 DEF Rewriting
  <2> QED BY <1>8, <2>1, <2>2, <2>3 DEF Core
<1> QED BY <1>9, <1>10, <1>11, <1>12 DEF IInv

LEMMA NextInv == IInv /\ [Next]_vars => IInv'
<1> SUFFICES ASSUME IInv, [Next]_vars PROVE IInv' OBVIOUS
<1>1. CASE CollectorNext
  BY <1>1, TickStep, SignalStep, RenameStep, RenameFailsStep, BookStep, FoldReadStep,
     FoldTruncStep, FoldWriteStep, DestroyStep, RestartStep
     DEF CollectorNext
<1>2. CASE Crash BY <1>2, CrashStep
<1>3. ASSUME NEW p \in Expirers, Start(p) \/ Kill(p) PROVE IInv'
  BY <1>3, StartStep, KillStep
<1>4. ASSUME NEW p \in Expirers, ExpirerNext(p) PROVE IInv'
  BY <1>4, OpenStep, CreateStep, LockNewStep, LockStep, ScanStep, WipeStep, MergeStep, SyncStep,
     Seq0Step, NScanStep, Seq1Step, Seq2Step, NWipeStep, ParamStep, FinishStep, BeginStep,
     KeepStep, UnlinkStep, EndLoopStep, TruncStep, WriteStep, ReopenStep, RelockStep
     DEF ExpirerNext
<1>5. CASE UNCHANGED vars
  <2>1. Typed' /\ Times' /\ Places'
    <3>1. Expirers' = Expirers /\ Launchers' = Launchers BY <1>5 DEF vars, Expirers, Launchers
    <3>2. Typed' BY <1>5, <3>1 DEF IInv, Typed, vars
    <3>3. Times' BY <1>5 DEF IInv, Times, vars
    <3>4. Places' BY <1>5, <3>1 DEF IInv, Places, vars
    <3> QED BY <3>2, <3>3, <3>4
  <2>2. Expirers' = Expirers BY <1>5 DEF vars, Expirers, Launchers
  <2>3. RecordOK' = RecordOK /\ InFlight' = InFlight /\ Ended' = Ended /\ Rewriting' = Rewriting
        /\ Untouched' = Untouched
    BY <1>5, <2>2 DEF vars, RecordOK, InFlight, Ended, Rewriting, Untouched, Launchers
  <2>4. ASSUME Core PROVE Core'
    <3>1. \A p \in Expirers : Phase(p)' BY <1>5, <2>3, <2>4 DEF Core, Phase, vars
    <3>2. FileGood' BY <1>5, <2>3, <2>4 DEF Core, FileGood, vars
    <3>3. FoldGood' BY <1>5, <2>4 DEF Core, FoldGood, vars
    <3> QED BY <1>5, <2>2, <2>3, <2>4, <3>1, <3>2, <3>3 DEF Core, vars
  <2> QED BY <1>5, <2>1, <2>4 DEF IInv, vars
<1> QED BY <1>1, <1>2, <1>3, <1>4, <1>5 DEF Next

-----------------------------------------------------------------------------
(* What the steps leave alone                                              *)

\* A step of an expirer changes the variables of no other.
LEMMA OneGoes == ASSUME NEW q \in Expirers, Start(q) \/ ExpirerNext(q) \/ Kill(q)
                 PROVE  \E rec : Go(q, rec)
<1>1. CASE Start(q) BY <1>1 DEF Start
<1>2. CASE Kill(q) BY <1>2 DEF Kill
<1>3. CASE Open(q) \/ Create(q) \/ LockNew(q) \/ Lock(q) \/ Scan(q)
  BY <1>3 DEF Open, Create, LockNew, Lock, Scan
<1>4. CASE Wipe(q) \/ Merge(q) \/ Sync(q) \/ NWipe(q)
  BY <1>4 DEF Wipe, Merge, Sync, NWipe, Clear
<1>5. CASE Seq0(q) \/ NScan(q) \/ Seq1(q) \/ Seq2(q) \/ Param(q) \/ Finish(q)
  BY <1>5 DEF Seq0, NScan, Seq1, Seq2, Param, Finish
<1>6. CASE Begin(q) \/ KeepFile(q) \/ UnlinkFile(q) \/ EndLoop(q)
  BY <1>6 DEF Begin, KeepFile, UnlinkFile, EndLoop
<1>7. CASE Trunc(q) \/ Write(q) \/ Reopen(q) \/ Relock(q)
  BY <1>7 DEF Trunc, Write, Reopen, Relock
<1> QED BY <1>1, <1>2, <1>3, <1>4, <1>5, <1>6, <1>7 DEF ExpirerNext

\* ExpireDir's loop is left by its end only.
LEMMA LeavesLoop ==
    ASSUME IInv, Next, NEW p \in Expirers, x[p].pc = "loop", x'[p].pc \in {"trunc", "finish"}
    PROVE  EndLoop(p)
<1>1. PICK r \in ExpirerRec(scene.size) : r = x[p] BY Stays DEF IInv
<1>2. x'[p] # x[p] BY DEF IInv
<1>3. CASE CollectorNext \/ Crash
  <2>1. UNCHANGED x \/ Destroy
    BY <1>3 DEF CollectorNext, Crash, Tick, Signal, Rename, RenameFails, Book, FoldRead,
                FoldTrunc, FoldWrite, Restart
  <2>2. CASE UNCHANGED x BY <1>2, <2>2
  <2>3. CASE Destroy
    <3>1. x'[p] = r \/ x'[p] = [r EXCEPT !.seg = "removed", !.copy = books]
      BY <1>1, <2>3 DEF Destroy
    <3>2. x'[p].pc = r.pc BY <3>1 DEF ExpirerRec
    <3> QED BY <1>1, <3>2
  <2> QED BY <2>1, <2>2, <2>3
<1>4. ASSUME NEW q \in Expirers, q # p, Start(q) \/ ExpirerNext(q) \/ Kill(q) PROVE FALSE
  <2>1. PICK rec : Go(q, rec) BY <1>4, OneGoes
  <2>2. x'[p] = x[p] BY <1>4, <2>1 DEF Go, IInv, Typed
  <2> QED BY <1>2, <2>2
<1>5. ASSUME Start(p) \/ ExpirerNext(p) \/ Kill(p), ~EndLoop(p) PROVE FALSE
  <2>1. Kill(p) \/ KeepFile(p) \/ UnlinkFile(p)
    BY <1>5 DEF ExpirerNext, Start, Open, Create, LockNew, Lock, Scan, Wipe, Merge, Sync, Seq0,
                NScan, Seq1, Seq2, NWipe, Param, Finish, Begin, Trunc, Write, Reopen, Relock, AtPC
  <2>2. CASE Kill(p)
    <3>1. x'[p] = Idle BY <2>2 DEF Kill, Go, IInv, Typed
    <3> QED BY <3>1 DEF Idle
  <2>3. CASE KeepFile(p)
    <3>1. PICK ds, e : Go(p, [r EXCEPT !.ds = ds, !.e = e]) BY <1>1, <2>3 DEF KeepFile
    <3>2. x'[p] = [r EXCEPT !.ds = ds, !.e = e] BY <3>1 DEF Go, IInv, Typed
    <3>3. x'[p].pc = r.pc BY <3>2 DEF ExpirerRec
    <3> QED BY <1>1, <3>3
  <2>4. CASE UnlinkFile(p)
    <3>1. PICK ds, e, f : Go(p, [r EXCEPT !.ds = ds, !.e = e, !.listed[f] = 0])
      BY <1>1, <2>4 DEF UnlinkFile
    <3>2. x'[p] = [r EXCEPT !.ds = ds, !.e = e, !.listed[f] = 0] BY <3>1 DEF Go, IInv, Typed
    <3>3. x'[p].pc = r.pc BY <3>2 DEF ExpirerRec
    <3> QED BY <1>1, <3>3
  <2> QED BY <2>1, <2>2, <2>3, <2>4
<1> QED BY <1>3, <1>4, <1>5 DEF Next

\* Files leave the directory by unlink only.
LEMMA LeavesDir == ASSUME IInv, Next, NEW s \in Files(dir) \ Files(dir')
                   PROVE  \E p \in Expirers : UnlinkFile(p)
<1>1. dir' # dir OBVIOUS
<1>2. CASE Rename
  <2>1. scene.size # 0 /\ dir \in Directory(scene.size) BY Scene, Stays DEF IInv, SizeFits
  <2>2. dir' = [dir EXCEPT ![col.t_start] = scene.size] BY <1>2 DEF Rename
  <2> QED BY <2>1, <2>2 DEF Directory, Files
<1>3. CASE (CollectorNext /\ ~Rename) \/ Crash
  <2>1. UNCHANGED dir
    BY <1>3 DEF CollectorNext, Crash, Tick, Signal, RenameFails, Book, FoldRead,
                FoldTrunc, FoldWrite, Restart, Destroy
  <2> QED BY <1>1, <2>1
<1>4. ASSUME NEW p \in Expirers, Start(p) \/ ExpirerNext(p) \/ Kill(p), ~UnlinkFile(p) PROVE FALSE
  <2>1. UNCHANGED dir
    BY <1>4 DEF ExpirerNext, Start, Kill, Open, Create, LockNew, Lock, Scan, Wipe, Merge, Sync, Seq0,
                NScan, Seq1, Seq2, NWipe, Param, Finish, Begin, KeepFile, EndLoop, Trunc, Write,
                Reopen, Relock
  <2> QED BY <1>1, <2>1
<1> QED BY <1>2, <1>3, <1>4 DEF Next

-----------------------------------------------------------------------------
(* The theorems                                                            *)

LEMMA CountedIs == ASSUME NEW p, NEW b, NEW F, NEW folded, LoopGood(x[p], b, dir, F, folded)
                   PROVE  /\ Counted(p) = OnList(x[p].listed, x[p].ds)
                          /\ SizeOf(dir, Counted(p)) = SizeOf(x[p].listed, Counted(p))
<1>1. \A s \in Slot : x[p].listed[s] # 0 => dir[s] = x[p].listed[s] BY DEF LoopGood
<1>2. Counted(p) = OnList(x[p].listed, x[p].ds) BY <1>1 DEF Counted, OnList, Files
<1>3. \A s \in Counted(p) : dir[s] = x[p].listed[s] BY <1>1 DEF Counted, Files
<1> QED BY <1>2, <1>3, SameSize

\* Type correctness, and who holds what: the inductive invariant.
THEOREM Inductive == Spec => []IInv
BY InitInv, NextInv, PTL DEF Spec

LEMMA InvExact == IInv => AccountsExact
<1> SUFFICES ASSUME IInv PROVE AccountsExact OBVIOUS
<1>1. TypeOK
  <2>1. dir \in [Slot -> {0, scene.size}] BY DEF IInv, Typed, Directory
  <2>2. lock \in Expirers \cup {Collector, Nobody} BY DEF IInv, Typed
  <2>3. \A p \in Expirers : lock = p => ~AtPC(p, "idle")
    BY DEF IInv, Places, PlaceIs, Working, Shared, Merging, Syncing, AtPC
  <2>4. books.numfiles \in Nat /\ books.filesize \in 0..(Wrap - 1) BY DEF IInv, Typed, BookRec
  <2>5. statfile.rec.numfiles \in Nat /\ statfile.rec.filesize \in 0..(Wrap - 1)
    BY DEF IInv, Typed, StatFile, StatRec
  <2>6. col.t_start \in 1..(MaxSlot + 1)
    <3>1. col.t_start \in 1..now /\ now \in 1..(scene.slots + 1) BY DEF IInv, Times
    <3>2. scene.slots \in 1..MaxSlot BY Scene DEF IInv
    <3> QED BY <3>1, <3>2, Bounds
  <2> QED BY <2>1, <2>2, <2>3, <2>4, <2>5, <2>6 DEF TypeOK
<1>2. ASSUME raced = {}, Quiet, RecordOK PROVE Exact
  <2>1. Ended = FALSE /\ Untouched BY <1>2 DEF Quiet, Ended, Untouched
  <2>2. Good(statfile.rec, books, dir, InFlight, FALSE)
    BY <1>2, <2>1 DEF IInv, Core, FileGood
  <2>3. /\ statfile.rec.numfiles + books.numfiles + Cardinality(InFlight) = Cardinality(Files(dir))
        /\ statfile.rec.filesize + books.filesize + SizeOf(dir, InFlight) = SizeOf(dir, Files(dir))
    <3>1. statfile.rec.status = "OK" BY <1>2 DEF RecordOK
    <3> QED BY <2>2, <3>1, Stays, Scene, GoodExact DEF IInv
  <2> QED BY <2>3 DEF Exact, DirSize
<1> QED BY <1>1, <1>2 DEF AccountsExact

\* As long as nothing races that the books cannot absorb, a stat record that is
\* OK and the books account for every file exactly once, whenever nobody is at
\* work: do_expire, nfexpire, UpdateBooks, UpdateBookStat, ExpireDir and
\* WriteStatInfo together, for any number of slots, sizes and scenes.
THEOREM AccountsStayExact == Spec => []AccountsExact
BY Inductive, InvExact, PTL

\* ExpireDir reaches its goal whatever the collector adds meanwhile.
THEOREM LimitIsKept == Spec => LimitHolds
<1>1. ASSUME IInv, [Next]_vars
      PROVE  [\A p \in Expirers :
                /\ AtPC(p, "loop") /\ x'[p].pc \in {"trunc", "finish"}
                /\ raced = {} /\ x[p].ds.status = "OK" /\ x[p].ds.max_size # 0
                => \/ SizeOf(dir, Counted(p)) < x[p].ds.max_size
                   \/ SizeOf(dir, Counted(p)) = x[p].ds.max_size /\ x[p].ds.low_water = 100]_vars
  <2> SUFFICES ASSUME Next, NEW p \in Expirers, x[p].pc = "loop", x'[p].pc \in {"trunc", "finish"},
                      raced = {}, x[p].ds.status = "OK", x[p].ds.max_size # 0
               PROVE  \/ SizeOf(dir, Counted(p)) < x[p].ds.max_size
                      \/ SizeOf(dir, Counted(p)) = x[p].ds.max_size /\ x[p].ds.low_water = 100
    BY <1>1 DEF AtPC
  <2>1. LoopGood(x[p], books, dir, InFlight, Ended) /\ x[p].ds \in StatRec
        /\ x[p].listed \in Directory(scene.size)
    BY <1>1, InLoop DEF IInv
  <2>2. PICK ds, C : ds \in StatRec /\ ds = x[p].ds /\ C = Counted(p) BY <2>1
  <2>3. ds.filesize = SizeOf(dir, C) /\ C = OnList(x[p].listed, ds)
    BY <2>1, <2>2, CountedIs DEF LoopGood
  <2>4. ds.max_size \in Nat /\ ds.max_size # 0 /\ ds.filesize \in Nat BY <2>2, StatFields
  <2>5. x[p].e.done \/ x[p].e.todo = {} BY <1>1, LeavesLoop DEF EndLoop
  <2>6. CASE x[p].e.done
    <3>1. \/ ds.filesize < ds.max_size
          \/ ds.filesize <= SizeLimit(ds, ds.max_size)
      BY <2>1, <2>2, <2>4, <2>6 DEF LoopGood
    <3>2. ds.low_water \in 1..100 BY <2>1, <2>2 DEF LoopGood
    <3>3. PICK w \in 1..100, m \in Nat : w = ds.low_water /\ m = ds.max_size BY <2>4, <3>2
    <3>4. SizeLimit(ds, m) = (w * m) \div 100 BY <3>3 DEF SizeLimit, LowWater
    <3>5. PICK l \in Nat : l = (w * m) \div 100 /\ l <= m /\ (w < 100 /\ m # 0 => l < m)
      BY Percentages
    <3> QED BY <2>2, <2>3, <2>4, <3>1, <3>3, <3>4, <3>5
  <2>7. CASE ~x[p].e.done
    <3>1. Files(x[p].listed) = {} BY <2>1, <2>5, <2>7 DEF LoopGood
    <3>2. C = {} BY <2>3, <3>1 DEF OnList
    <3> QED BY <2>2, <2>3, <2>4, <3>2, EmptySum
  <2> QED BY <2>6, <2>7
<1> QED BY <1>1, Inductive, PTL DEF Spec, LimitHolds

\* Nothing the record does not count is ever removed.
THEOREM OnlyCountedGo == Spec => OnlyCounted
<1>1. ASSUME IInv, [Next]_vars
      PROVE  [raced = {} => \A s \in Files(dir) \ Files(dir') : \E p \in Expirers : s \in Counted(p)]_vars
  <2> SUFFICES ASSUME Next, raced = {}, NEW s \in Files(dir) \ Files(dir')
               PROVE  \E p \in Expirers : s \in Counted(p)
    BY <1>1
  <2>1. PICK p \in Expirers : UnlinkFile(p) BY <1>1, LeavesDir
  <2>2. x[p].pc = "loop" /\ ~x[p].e.done /\ x[p].e.todo # {} /\ Victim(x[p].e, x[p].ds)
        /\ dir' = [dir EXCEPT ![NextFile(x[p].e)] = 0]
    BY <2>1 DEF UnlinkFile, Looping, AtPC
  <2>3. /\ LoopGood(x[p], books, dir, InFlight, Ended) /\ x[p].ds \in StatRec
        /\ x[p].e \in LoopRec /\ x[p].listed \in Directory(scene.size)
        /\ SizeFits(scene.size) /\ dir \in Directory(scene.size)
    BY <1>1, <2>2, InLoop DEF IInv
  <2>4. NextFile(x[p].e) \in OnList(x[p].listed, x[p].ds) BY <2>2, <2>3, VictimCounted
  <2>5. s = NextFile(x[p].e) BY <2>2, <2>3 DEF Files, Directory
  <2> QED BY <2>3, <2>4, <2>5, CountedIs
<1> QED BY <1>1, Inductive, PTL DEF Spec, OnlyCounted
=============================================================================
