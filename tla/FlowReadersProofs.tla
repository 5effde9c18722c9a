-------------------------- MODULE FlowReadersProofs --------------------------
(***************************************************************************)
(* What the readers of the collector's files find, for any number of       *)
(* exporters, maps, samplers, files and restarts: the reader of one file,  *)
(* the one of all files, and the copies of a source.  FlowSourcesProofs    *)
(* says what a packet does to a source; here each operation is given by    *)
(* what it writes into a file, and every reader follows.                   *)
(***************************************************************************)
EXTENDS FlowSourcesProofs

-----------------------------------------------------------------------------
(* Maps as they are read                                                   *)

\* Records mean the same map by both lists, whatever their number.
SameMeaning(m, n) == \A id : Resolves(n, id) = Resolves(m, id)

\* The copy means the same maps as the files it was copied from, and who reads a
\* file finds every map that is listed, as it was written last.
Findable(fs, t) == LET map == fs.heap[t] IN
    /\ map.mapId \in Nat /\ Begins(map.ex, map.out)
    /\ Finds(fs.one.maps, map.mapId, map.out) /\ Finds(fs.all.maps, map.mapId, map.out)
FindsListed(fs, t) == t # 0 => t \in DOMAIN fs.heap /\ Findable(fs, t)
ListedFound(fs) == \A n \in DOMAIN fs.list : FindsListed(fs, fs.list[n])
Readable(fs, all) == SameMeaning(fs.all.maps, fs.copy.maps) /\ (all => ListedFound(fs))

\* What leaves a map readable: nothing new is listed, and no map has changed.
SameMap(t, u) == u.mapId = t.mapId /\ u.ex = t.ex /\ u.out = t.out
MapsSame(fs, g) ==
    /\ \A n \in DOMAIN g.list : g.list[n] # 0 => n \in DOMAIN fs.list /\ g.list[n] = fs.list[n]
    /\ \A t \in DOMAIN fs.heap : t \in DOMAIN g.heap /\ SameMap(fs.heap[t], g.heap[t])
    /\ SameMeaning(fs.one.maps, g.one.maps) /\ SameMeaning(fs.all.maps, g.all.maps)
    /\ SameMeaning(fs.copy.maps, g.copy.maps)

LEMMA KeptSame == ASSUME NEW fs, NEW g, MapsKept(fs, g) PROVE MapsSame(fs, g)
BY DEF MapsKept, MapsSame, SameMap, SameMeaning

LEMMA MapsSameChain == ASSUME NEW a, NEW b, NEW c, MapsSame(a, b), MapsSame(b, c)
                       PROVE  MapsSame(a, c)
BY Zenon DEF MapsSame, SameMap, SameMeaning

LEMMA FindableSame == ASSUME NEW fs, NEW g, MapsSame(fs, g), NEW t \in DOMAIN fs.heap,
                             Findable(fs, t)
                      PROVE  Findable(g, t)
BY Zenon DEF MapsSame, SameMap, SameMeaning, Findable, Finds

LEMMA ReadableSame == ASSUME NEW fs, NEW g, NEW all, MapsSame(fs, g), Readable(fs, all)
                      PROVE  Readable(g, all)
<1>1. SameMeaning(g.all.maps, g.copy.maps) BY Zenon DEF MapsSame, Readable, SameMeaning
<1>2. ASSUME all, NEW n \in DOMAIN g.list, g.list[n] # 0
      PROVE  g.list[n] \in DOMAIN g.heap /\ Findable(g, g.list[n])
  <2>1. n \in DOMAIN fs.list /\ g.list[n] = fs.list[n] BY Zenon, <1>2 DEF MapsSame
  <2>2. g.list[n] \in DOMAIN fs.heap /\ Findable(fs, g.list[n])
    BY Zenon, <1>2, <2>1 DEF Readable, ListedFound, FindsListed
  <2> QED BY Zenon, <2>2, FindableSame DEF MapsSame
<1> QED BY Zenon, <1>1, <1>2 DEF Readable, ListedFound, FindsListed

LEMMA BeginsItself == ASSUME NEW a \in Layout PROVE Begins(a, a)
BY DEF Begins

LEMMA BeginsChain == ASSUME NEW a \in Layout, NEW b \in Layout, NEW c \in Layout,
                            Begins(a, b), Begins(b, c)
                     PROVE  Begins(a, c)
BY DEF Begins, Layout

LEMMA SlotMeaning == ASSUME NEW maps, NEW id, NEW ex
    PROVE  ~MapIsNew(maps, id, ex) <=>
              \E e \in Resolves(maps, id) : MapSize(e) = MapSize(ex) /\ Begins(e, ex)
BY Zenon DEF MapIsNew, SameInSlot, Resolves

LEMMA InsertMeaning ==
    ASSUME NEW maps \in MapsType, NEW id \in Nat, NEW ex \in Layout,
           NEW new, new = InsertExtensionMap(maps, id, ex)
    PROVE  /\ \A o : o # id => Resolves(new, o) = Resolves(maps, o)
           /\ MapIsNew(maps, id, ex) => Resolves(new, id) = {ex}
           /\ ~MapIsNew(maps, id, ex) => new = maps
           /\ Finds(new, id, ex)
<1>1. WellFormed(maps) BY Zenon, MapsWellFormed
<1>2. ex \in SUBSET Nat BY DEF Layout
<1>3. \E e : /\ Resolves(new, id) = {e}
             /\ e = ex \/ (Begins(e, ex) /\ MapSize(e) = MapSize(ex))
  BY <1>1, <1>2, InsertResolves
<1>4. Finds(new, id, ex) BY Zenon, <1>3 DEF Finds
<1> QED BY <1>1, <1>2, <1>4, InsertResolves

LEMMA ReferMeaning == ASSUME NEW maps \in MapsType, NEW id \in Nat
                      PROVE  SameMeaning(maps, Refer(maps, id))
<1>1. CASE id \notin DOMAIN maps.slot BY <1>1 DEF Refer, SameMeaning
<1>2. CASE id \in DOMAIN maps.slot
  <2>1. PICK l : l = maps.slot[id] BY Zenon
  <2>2. PICK page : page = [maps.page EXCEPT ![l].refs = TRUE] BY Zenon
  <2>3. WellFormed(maps) BY Zenon, MapsWellFormed
  <2>4. maps = [page |-> maps.page, slot |-> maps.slot] BY Zenon, <2>3 DEF WellFormed
  <2>5. Refer(maps, id) = [page |-> page, slot |-> maps.slot]
    BY Zenon, <1>2, <2>1, <2>2, <2>4 DEF Refer
  <2>6. l \in DOMAIN maps.page /\ maps.page[l] \in MapType
    <3>1. l \in DOMAIN maps.page BY Zenon, <1>2, <2>1, <2>3 DEF WellFormed
    <3>2. maps.page \in Seq(MapType) BY Zenon, <2>3 DEF WellFormed, MapType, Layout
    <3> QED BY Zenon, <3>1, <3>2, ElementOf
  <2>7. \A k \in DOMAIN maps.page : page[k].ex = maps.page[k].ex
    BY <2>2, <2>6 DEF MapType
  <2>8. \A o \in DOMAIN maps.slot : page[maps.slot[o]].ex = maps.page[maps.slot[o]].ex
    BY Zenon, <2>3, <2>7 DEF WellFormed
  <2>9. /\ Refer(maps, id).slot = maps.slot
        /\ \A o \in DOMAIN maps.slot : Refer(maps, id).page[maps.slot[o]].ex
                                       = maps.page[maps.slot[o]].ex
    BY <2>5, <2>8
  <2> QED BY Zenon, <2>9 DEF SameMeaning, Resolves
<1> QED BY Zenon, <1>1, <1>2

\* A map is written: it is found, and others with a number of their own still are.
LEMMA WrittenFound ==
    ASSUME NEW fs \in SourceType, NEW t \in DOMAIN fs.heap, fs.heap[t].mapId \in Nat,
           NEW g, MapWritten(fs, g, t), SameMeaning(fs.all.maps, fs.copy.maps)
    PROVE  /\ SameMeaning(g.all.maps, g.copy.maps) /\ Findable(g, t)
           /\ \A u \in DOMAIN fs.heap : /\ u # t /\ fs.heap[u].mapId # fs.heap[t].mapId
                                        /\ Findable(fs, u)
                                        => Findable(g, u)
<1>1. PICK id \in Nat : id = fs.heap[t].mapId OBVIOUS
<1>2. PICK ex \in Layout : ex = fs.heap[t].ex
  <2>1. fs.heap \in Seq(TableType) BY Zenon, Parts
  <2>2. fs.heap[t] \in TableType BY Zenon, <2>1, ElementOf
  <2> QED BY <2>2 DEF TableType
<1>3. fs.one.maps \in MapsType /\ fs.all.maps \in MapsType /\ fs.copy.maps \in MapsType
  BY Zenon, Parts, ReaderParts
<1>4. /\ g.one.maps = InsertExtensionMap(fs.one.maps, id, ex)
      /\ g.all.maps = InsertExtensionMap(fs.all.maps, id, ex)
      /\ g.copy.maps = IF MapIsNew(fs.all.maps, id, ex)
                       THEN InsertExtensionMap(fs.copy.maps, id, ex) ELSE fs.copy.maps
  BY Zenon, <1>1, <1>2 DEF MapWritten
<1>5. /\ \A o : o # id => Resolves(g.one.maps, o) = Resolves(fs.one.maps, o)
      /\ Finds(g.one.maps, id, ex)
  BY <1>3, <1>4, InsertMeaning
<1>6. /\ \A o : o # id => Resolves(g.all.maps, o) = Resolves(fs.all.maps, o)
      /\ MapIsNew(fs.all.maps, id, ex) => Resolves(g.all.maps, id) = {ex}
      /\ ~MapIsNew(fs.all.maps, id, ex) => g.all.maps = fs.all.maps
      /\ Finds(g.all.maps, id, ex)
  BY <1>3, <1>4, InsertMeaning
<1>7. SameMeaning(g.all.maps, g.copy.maps)
  <2>1. CASE ~MapIsNew(fs.all.maps, id, ex)
    <3>1. g.copy.maps = fs.copy.maps BY Zenon, <1>4, <2>1
    <3> QED BY Zenon, <1>6, <2>1, <3>1
  <2>2. CASE MapIsNew(fs.all.maps, id, ex)
    <3>1. g.copy.maps = InsertExtensionMap(fs.copy.maps, id, ex) BY Zenon, <1>4, <2>2
    <3>2. Resolves(fs.copy.maps, id) = Resolves(fs.all.maps, id) BY Zenon DEF SameMeaning
    <3>3. MapIsNew(fs.copy.maps, id, ex) BY Zenon, <2>2, <3>2, SlotMeaning
    <3>4. /\ \A o : o # id => Resolves(g.copy.maps, o) = Resolves(fs.copy.maps, o)
          /\ Resolves(g.copy.maps, id) = {ex}
      BY <1>3, <3>1, <3>3, InsertMeaning
    <3>5. Resolves(g.all.maps, id) = {ex} BY Zenon, <1>6, <2>2
    <3> QED BY Zenon, <1>6, <3>4, <3>5 DEF SameMeaning
  <2> QED BY Zenon, <2>1, <2>2
<1>8. Findable(g, t)
  <2>1. g.heap[t].mapId = id /\ g.heap[t].ex = ex /\ g.heap[t].out = ex
    BY Zenon, <1>1, <1>2 DEF MapWritten
  <2>2. Begins(ex, ex) BY Zenon, BeginsItself
  <2> QED BY Zenon, <1>5, <1>6, <2>1, <2>2 DEF Findable
<1>9. ASSUME NEW u \in DOMAIN fs.heap, u # t, fs.heap[u].mapId # id, Findable(fs, u)
      PROVE  Findable(g, u)
  <2>1. g.heap[u] = fs.heap[u] BY Zenon, <1>9 DEF MapWritten
  <2> QED BY Zenon, <1>5, <1>6, <1>9, <2>1 DEF Findable, Finds
<1> QED BY Zenon, <1>1, <1>7, <1>8, <1>9

LEMMA WrittenReadable ==
    ASSUME NEW fs \in SourceType, NEW t \in DOMAIN fs.heap, fs.heap[t].mapId \in Nat,
           NEW g, MapWritten(fs, g, t), SameMeaning(fs.all.maps, fs.copy.maps), NEW all,
           all => \A n \in DOMAIN fs.list : fs.list[n] = t \/
                     /\ FindsListed(fs, fs.list[n])
                     /\ fs.list[n] # 0 => fs.heap[fs.list[n]].mapId # fs.heap[t].mapId
    PROVE  Readable(g, all)
<1>1. g.list = fs.list /\ DOMAIN g.heap = DOMAIN fs.heap BY Zenon DEF MapWritten, SameRest
<1>2. ASSUME all, NEW n \in DOMAIN g.list PROVE FindsListed(g, g.list[n])
  <2>1. CASE fs.list[n] = t BY Zenon, <1>1, <2>1, WrittenFound DEF FindsListed
  <2>2. CASE fs.list[n] # t BY Zenon, <1>1, <1>2, <2>2, WrittenFound DEF FindsListed
  <2> QED BY Zenon, <2>1, <2>2
<1>3. SameMeaning(g.all.maps, g.copy.maps) BY Zenon, WrittenFound
<1> QED BY Zenon, <1>2, <1>3 DEF Readable, ListedFound

\* A map that gets a number gets one that no listed map has.
LEMMA NewMapReadable ==
    ASSUME NEW fs \in SourceType, NEW t \in DOMAIN fs.heap, fs.heap[t].mapId = NoId,
           InPlace(fs), \A n \in DOMAIN fs.list : fs.list[n] # t,
           NEW all, Readable(fs, all), NEW g, g = AddExtensionMap(fs, t)
    PROVE  Readable(g, all)
<1>1. PICK h : MapListed(fs, h, t) /\ MapWritten(h, g, t) BY Zenon, AddMapDoes
<1>2. /\ h \in SourceType /\ h.one = fs.one /\ h.all = fs.all /\ h.copy = fs.copy
      /\ h.list = Append(fs.list, t) /\ DOMAIN h.heap = DOMAIN fs.heap
      /\ \A u \in DOMAIN fs.heap : u # t => h.heap[u] = fs.heap[u]
      /\ h.heap[t].mapId = Len(fs.list)
  BY Zenon, <1>1 DEF MapListed
<1>3. fs.list \in Seq(Nat) BY Zenon, Parts
<1>4. PICK m \in Nat : m = Len(fs.list) /\ DOMAIN fs.list = 1..m BY <1>3
<1>5. t \in Nat
  <2>1. fs.heap \in Seq(TableType) BY Zenon, Parts
  <2> QED BY <2>1
<1>6. /\ DOMAIN h.list = DOMAIN fs.list \cup {m + 1} /\ h.list[m + 1] = t
      /\ \A n \in DOMAIN fs.list : h.list[n] = fs.list[n]
  BY <1>2, <1>3, <1>4, <1>5, AppendedTo
<1>7. ASSUME all, NEW n \in DOMAIN fs.list, fs.list[n] # 0
      PROVE  FindsListed(h, fs.list[n]) /\ h.heap[fs.list[n]].mapId # m
  <2>1. PICK u : u = fs.list[n] OBVIOUS
  <2>2. u # t /\ u \in DOMAIN fs.heap /\ fs.heap[u].mapId = n - 1 /\ n - 1 # m
    BY <1>4, <1>7, <2>1 DEF InPlace
  <2>3. Findable(fs, u) BY Zenon, <1>7, <2>1 DEF Readable, ListedFound, FindsListed
  <2>4. h.heap[u] = fs.heap[u] BY Zenon, <1>2, <2>2
  <2>5. Findable(h, u) BY Zenon, <1>2, <2>3, <2>4 DEF Findable
  <2> QED BY Zenon, <1>2, <2>1, <2>2, <2>4, <2>5 DEF FindsListed
<1>8. ASSUME all, NEW n \in DOMAIN h.list
      PROVE  h.list[n] = t \/ /\ FindsListed(h, h.list[n])
                              /\ h.list[n] # 0 => h.heap[h.list[n]].mapId # h.heap[t].mapId
  <2>1. CASE n = m + 1 BY Zenon, <1>6, <2>1
  <2>2. CASE n \in DOMAIN fs.list
    <3>1. h.list[n] = fs.list[n] BY Zenon, <1>6, <2>2
    <3>2. CASE fs.list[n] = 0 BY Zenon, <3>1, <3>2 DEF FindsListed
    <3>3. CASE fs.list[n] # 0 BY Zenon, <1>2, <1>4, <1>7, <1>8, <2>2, <3>1, <3>3
    <3> QED BY Zenon, <3>2, <3>3
  <2> QED BY Zenon, <1>6, <1>8, <2>1, <2>2
<1>9. SameMeaning(h.all.maps, h.copy.maps) BY Zenon, <1>2 DEF Readable
<1>10. t \in DOMAIN h.heap /\ h.heap[t].mapId \in Nat BY Zenon, <1>2, <1>4
<1> QED BY Zenon, <1>1, <1>2, <1>8, <1>9, <1>10, WrittenReadable

LEMMA AllocatedReadable ==
    ASSUME NEW fs \in SourceType, InPlace(fs), NEW id \in TemplateIds \cup {0}, NEW ex \in Layout,
           NEW a \in SourceType, a.heap = Append(fs.heap, NewTable(id, ex)), a.list = fs.list,
           a.one = fs.one, a.all = fs.all, a.copy = fs.copy, NEW all, Readable(fs, all),
           NEW t, t = Len(fs.heap) + 1, NEW g, g = AddExtensionMap(a, t)
    PROVE  Readable(g, all)
<1>1. PICK v \in TableType : v = NewTable(id, ex) /\ v.mapId = NoId
  <2>1. NewTable(id, ex) \in TableType BY DEF NewTable, TableType, Layout, NoId
  <2>2. NewTable(id, ex).mapId = NoId BY DEF NewTable
  <2> QED BY <2>1, <2>2
<1>2. fs.heap \in Seq(TableType) BY Zenon, Parts
<1>3. /\ DOMAIN a.heap = DOMAIN fs.heap \cup {t} /\ a.heap[t] = v
      /\ \A u \in DOMAIN fs.heap : a.heap[u] = fs.heap[u]
  BY <1>1, <1>2, AppendTyped
<1>4. t \notin DOMAIN fs.heap /\ t # 0 BY <1>2
<1>5. InPlace(a) BY Zenon, <1>3 DEF InPlace
<1>6. \A n \in DOMAIN a.list : a.list[n] # t BY Zenon, <1>4 DEF InPlace
<1>7. MapsSame(fs, a) BY Zenon, <1>3 DEF MapsSame, SameMap, SameMeaning
<1>8. Readable(a, all) BY Zenon, <1>7, ReadableSame
<1>9. t \in DOMAIN a.heap /\ a.heap[t].mapId = NoId BY Zenon, <1>1, <1>3
<1> QED BY Zenon, <1>5, <1>6, <1>8, <1>9, NewMapReadable

LEMMA AddTableReadable ==
    ASSUME NEW fs, Placed(fs), NEW k \in DOMAIN fs.exps, NEW id \in TemplateIds, NEW ex \in Layout,
           Lookup(fs, k, id) = 0, NEW all, Readable(fs, all), NEW g, g = AddTable(fs, k, id, ex)
    PROVE  Readable(g, all)
<1>1. PICK h : h = LookedUp(fs, k, id) OBVIOUS
<1>2. CacheSet(fs, h, k, 0) /\ Placed(h) BY Zenon, <1>1, LookedUpDoes, CachePlaced
<1>3. h \in SourceType /\ InPlace(h) /\ k \in DOMAIN h.exps
  BY Zenon, <1>2 DEF CacheSet, Placed
<1>4. Readable(h, all)
  <2>1. MapsKept(fs, h) BY Zenon, <1>2 DEF CacheSet, MapsKept
  <2> QED BY Zenon, <2>1, KeptSame, ReadableSame
<1>5. PICK t \in Nat : t = Len(h.heap) + 1 BY <1>3, Parts
<1>6. PICK a : a = Allocated(h, k, t, id, ex) OBVIOUS
<1>7. id \in TemplateIds \cup {0} OBVIOUS
<1>8. TableAllocated(h, a, k, t, id, ex) BY Zenon, <1>3, <1>6, <1>7, AllocatedDoes
<1>9. h.heap = fs.heap BY Zenon, <1>2 DEF CacheSet
<1>10. g = AddExtensionMap(a, t) BY <1>1, <1>5, <1>6, <1>9 DEF AddTable, Allocated
<1>11. /\ a \in SourceType /\ a.heap = Append(h.heap, NewTable(id, ex)) /\ a.list = h.list
       /\ a.one = h.one /\ a.all = h.all /\ a.copy = h.copy
  BY Zenon, <1>8 DEF TableAllocated
<1> QED BY Zenon, <1>3, <1>4, <1>5, <1>7, <1>10, <1>11, AllocatedReadable

\* A template that is filled again with less needs no map: what it was written
\* with begins with it.
LEMMA RefreshedReadable ==
    ASSUME NEW fs, Placed(fs), NEW t \in DOMAIN fs.heap, fs.heap[t].mapId \in Nat,
           NEW ex \in Layout, NEW g, Refreshed(fs, g, t, ex),
           NEW all, Readable(fs, all), all => InList(fs, t)
    PROVE  Readable(g, all)
<1>1. PICK h : /\ Filled(fs, h, t, ex)
               /\ (g = h /\ Begins(ex, fs.heap[t].ex)) \/ MapWritten(h, g, t)
  BY Zenon DEF Refreshed
<1>2. fs \in SourceType /\ InPlace(fs) BY Zenon DEF Placed
<1>3. /\ h \in SourceType /\ h.list = fs.list /\ h.one = fs.one /\ h.all = fs.all
      /\ h.copy = fs.copy /\ DOMAIN h.heap = DOMAIN fs.heap
      /\ \A u \in DOMAIN fs.heap : u # t => h.heap[u] = fs.heap[u]
      /\ h.heap[t].mapId = fs.heap[t].mapId /\ h.heap[t].ex = ex
      /\ h.heap[t].out = fs.heap[t].out
  BY Zenon, <1>1 DEF Filled, SameRest
<1>4. SameMeaning(h.all.maps, h.copy.maps) BY Zenon, <1>3 DEF Readable
<1>5. ASSUME all, NEW n \in DOMAIN fs.list, fs.list[n] # 0, fs.list[n] # t
      PROVE  FindsListed(h, fs.list[n]) /\ h.heap[fs.list[n]].mapId # h.heap[t].mapId
  <2>1. PICK u : u = fs.list[n] OBVIOUS
  <2>2. u \in DOMAIN fs.heap /\ Findable(fs, u)
    BY Zenon, <1>5, <2>1 DEF Readable, ListedFound, FindsListed
  <2>3. h.heap[u] = fs.heap[u] BY Zenon, <1>3, <1>5, <2>1, <2>2
  <2>4. Findable(h, u) BY Zenon, <1>3, <2>2, <2>3 DEF Findable
  <2>5. fs.heap[u].mapId # fs.heap[t].mapId
    <3>1. fs.heap[u].mapId = n - 1 BY Zenon, <1>2, <1>5, <2>1 DEF InPlace
    <3>2. fs.list[fs.heap[t].mapId + 1] = t BY Zenon, <1>5 DEF InList
    <3>3. n \in Nat
      <4>1. fs.list \in Seq(Nat) BY Zenon, <1>2, Parts
      <4> QED BY <4>1
    <3>4. PICK m \in Nat : m = fs.heap[t].mapId OBVIOUS
    <3>5. n # m + 1 BY Zenon, <1>5, <3>2, <3>4
    <3>6. n - 1 # m BY <3>3, <3>5
    <3> QED BY Zenon, <3>1, <3>4, <3>6
  <2> QED BY Zenon, <1>3, <2>1, <2>2, <2>3, <2>4, <2>5 DEF FindsListed
<1>6. CASE g = h /\ Begins(ex, fs.heap[t].ex)
  <2>1. ASSUME all, NEW n \in DOMAIN h.list PROVE FindsListed(h, h.list[n])
    <3>1. CASE fs.list[n] = 0 BY Zenon, <1>3, <3>1 DEF FindsListed
    <3>2. CASE fs.list[n] # 0 /\ fs.list[n] # t BY Zenon, <1>3, <1>5, <2>1, <3>2
    <3>3. CASE fs.list[n] # 0 /\ fs.list[n] = t
      <4>1. Findable(fs, t) BY Zenon, <1>3, <2>1, <3>3 DEF Readable, ListedFound, FindsListed
      <4>2. fs.heap[t] \in TableType BY Zenon, <1>2, Parts, ElementOf
      <4>3. fs.heap[t].ex \in Layout /\ fs.heap[t].out \in Layout BY <4>2 DEF TableType
      <4>4. Begins(fs.heap[t].ex, fs.heap[t].out) BY Zenon, <4>1 DEF Findable
      <4>5. Begins(h.heap[t].ex, h.heap[t].out) BY Zenon, <1>3, <1>6, <4>3, <4>4, BeginsChain
      <4>6. Findable(h, t) BY Zenon, <1>3, <4>1, <4>5 DEF Findable
      <4> QED BY Zenon, <1>3, <3>3, <4>6 DEF FindsListed
    <3> QED BY Zenon, <3>1, <3>2, <3>3
  <2> QED BY Zenon, <1>4, <1>6, <2>1 DEF Readable, ListedFound
<1>7. CASE MapWritten(h, g, t)
  <2>1. ASSUME all, NEW n \in DOMAIN h.list
        PROVE  h.list[n] = t \/ /\ FindsListed(h, h.list[n])
                                /\ h.list[n] # 0 => h.heap[h.list[n]].mapId # h.heap[t].mapId
    <3>1. CASE fs.list[n] = 0 BY Zenon, <1>3, <3>1 DEF FindsListed
    <3>2. CASE fs.list[n] # 0 BY Zenon, <1>3, <1>5, <2>1, <3>2
    <3> QED BY Zenon, <3>1, <3>2
  <2>2. t \in DOMAIN h.heap /\ h.heap[t].mapId \in Nat BY Zenon, <1>3
  <2> QED BY Zenon, <1>3, <1>4, <1>7, <2>1, <2>2, WrittenReadable
<1> QED BY Zenon, <1>1, <1>6, <1>7

LEMMA TemplateReadable ==
    ASSUME NEW fs, Placed(fs), NEW k \in DOMAIN fs.exps, NEW id \in TemplateIds, NEW ex \in Layout,
           NEW all, Readable(fs, all), all => Complete(fs), NEW g, g = AddTemplate(fs, k, id, ex)
    PROVE  Readable(g, all)
<1>1. CASE Lookup(fs, k, id) = 0
  <2>1. g = AddTable(fs, k, id, ex) BY Zenon, <1>1 DEF AddTemplate
  <2> QED BY Zenon, <1>1, <2>1, AddTableReadable
<1>2. CASE Lookup(fs, k, id) # 0
  <2>1. PICK h : h = LookedUp(fs, k, id) OBVIOUS
  <2>2. PICK t : t = Lookup(fs, k, id) OBVIOUS
  <2>3. CacheSet(fs, h, k, t) BY <2>1, <2>2, LookedUpDoes
  <2>4. Placed(h) /\ (Complete(fs) => Complete(h)) /\ k \in DOMAIN h.exps
    <3>1. CacheSet(fs, h, k, Lookup(fs, k, id)) BY Zenon, <2>2, <2>3
    <3>2. k \in DOMAIN h.exps BY Zenon, <2>3 DEF CacheSet
    <3> QED BY Zenon, <3>1, <3>2, CachePlaced
  <2>5. t \in Live(h, k) BY <1>2, <2>1, <2>2, FoundInCache
  <2>6. t \in DOMAIN h.heap /\ h.heap[t].mapId \in Nat BY Zenon, <2>4, <2>5 DEF Placed, Sound
  <2>7. all => InList(h, t) BY Zenon, <2>4, <2>5 DEF Complete
  <2>8. Readable(h, all)
    <3>1. MapsKept(fs, h) BY Zenon, <2>3 DEF CacheSet, MapsKept
    <3> QED BY Zenon, <3>1, KeptSame, ReadableSame
  <2>9. Refreshed(h, g, t, ex)
    <3>1. g = RefreshTable(fs, k, id, ex) BY Zenon, <1>2 DEF AddTemplate
    <3> QED BY <1>2, <2>1, <2>2, <3>1, RefreshTableDoes
  <2> QED BY Zenon, <2>4, <2>6, <2>7, <2>8, <2>9, RefreshedReadable
<1> QED BY Zenon, <1>1, <1>2

LEMMA DroppedMaps ==
    ASSUME NEW fs \in SourceType, NEW k \in DOMAIN fs.exps, NEW rest \in Seq(Nat), NEW c \in Nat,
           NEW list \in Seq(Nat), NEW T, NEW g, g = Dropped(fs, k, rest, c, list, T),
           \A n \in DOMAIN list : list[n] # 0 => n \in DOMAIN fs.list /\ list[n] = fs.list[n]
    PROVE  MapsSame(fs, g)
<1>1. /\ g.list = list /\ g.one = fs.one /\ g.all = fs.all /\ g.copy = fs.copy
      /\ DOMAIN g.heap = DOMAIN fs.heap
      /\ \A u \in DOMAIN fs.heap : /\ g.heap[u].mapId = fs.heap[u].mapId
                                   /\ g.heap[u].ex = fs.heap[u].ex
                                   /\ g.heap[u].out = fs.heap[u].out
  BY DroppedDoes
<1> QED BY Zenon, <1>1 DEF MapsSame, SameMap, SameMeaning

LEMMA RemoveMaps ==
    ASSUME NEW fs, Placed(fs), NEW k \in DOMAIN fs.exps, NEW id, NEW g, g = RemoveTable(fs, k, id)
    PROVE  MapsSame(fs, g)
<1>1. CASE InChain(fs, k, id) = {}
  BY <1>1 DEF RemoveTable, MapsSame, SameMap, SameMeaning
<1>2. CASE InChain(fs, k, id) # {}
  <2> DEFINE l == fs.exps[k].list
  <2>1. PICK i \in DOMAIN l : RemovedAt(fs, k, i, id, g) BY <1>2, RemoveTableDoes
  <2>2. PICK t : t = l[i] OBVIOUS
  <2>3. fs \in SourceType /\ fs.list \in Seq(Nat) /\ fs.exps[k] \in ExporterType
    BY Parts DEF Placed
  <2>4. l \in Seq(Nat) /\ fs.exps[k].cur \in Nat BY <2>3 DEF ExporterType
  <2>5. PICK m \in Nat : m = fs.heap[t].mapId BY Zenon, <2>1, <2>2 DEF RemovedAt
  <2>6. PICK list \in Seq(Nat) : /\ list = Cleared(fs.list, m) /\ DOMAIN list = DOMAIN fs.list
                     /\ \A n \in DOMAIN fs.list : list[n] = IF n = m + 1 THEN 0 ELSE fs.list[n]
    BY Zenon, <2>3, ClearedIs
  <2>7. PICK rest \in Seq(Nat) : rest = Rest(l, i) BY <2>4, RestIs
  <2>8. PICK c \in Nat : c = IF fs.exps[k].cur = t THEN 0 ELSE fs.exps[k].cur BY <2>4
  <2>9. g = Dropped(fs, k, rest, c, list, {t})
    BY Zenon, <2>1, <2>2, <2>5, <2>6, <2>7, <2>8 DEF RemovedAt
  <2>10. \A n \in DOMAIN list : list[n] # 0 => n \in DOMAIN fs.list /\ list[n] = fs.list[n]
    BY <2>6
  <2>11. PICK T : T = {t} OBVIOUS
  <2>12. fs \in SourceType /\ g = Dropped(fs, k, rest, c, list, T) BY <2>3, <2>9, <2>11
  <2> HIDE DEF l
  <2> QED BY <2>10, <2>12, DroppedMaps
<1> QED BY Zenon, <1>1, <1>2

LEMMA RemoveAllMaps ==
    ASSUME NEW fs \in SourceType, NEW k \in DOMAIN fs.exps, NEW g, g = RemoveAllTables(fs, k)
    PROVE  MapsSame(fs, g)
<1>1. PICK T : T = Range(fs.exps[k].list) OBVIOUS
<1>2. g = Dropped(fs, k, <<>>, 0, <<>>, T) BY <1>1, RemoveAllDoes
<1>3. <<>> \in Seq(Nat) /\ DOMAIN <<>> = {} OBVIOUS
<1>4. PICK e \in Seq(Nat) : e = <<>> /\ DOMAIN e = {} BY <1>3
<1>5. g = Dropped(fs, k, e, 0, e, T) BY <1>2, <1>4
<1>6. \A n \in DOMAIN e : e[n] # 0 => n \in DOMAIN fs.list /\ e[n] = fs.list[n] BY <1>4
<1> QED BY <1>5, <1>6, DroppedMaps

LEMMA RecordMaps ==
    ASSUME NEW fs, Placed(fs), NEW k \in DOMAIN fs.exps, NEW t \in Live(fs, k),
           NEW g, g = AddRecord(fs, t)
    PROVE  MapsSame(fs, g)
<1>1. fs \in SourceType /\ t \in DOMAIN fs.heap /\ fs.heap[t].mapId \in Nat
  BY Zenon DEF Placed, Sound
<1>2. RecordAdded(fs, g, t) BY Zenon, <1>1, AddRecordDoes
<1>3. /\ g.list = fs.list /\ g.heap = fs.heap /\ g.one = fs.one /\ g.copy = fs.copy
      /\ g.all.maps = Refer(fs.all.maps, fs.heap[t].mapId)
  BY Zenon, <1>2 DEF RecordAdded, SameRest
<1>4. fs.all.maps \in MapsType BY Zenon, <1>1, Parts, ReaderParts
<1>5. SameMeaning(fs.all.maps, g.all.maps) BY <1>1, <1>3, <1>4, ReferMeaning
<1> QED BY Zenon, <1>3, <1>5 DEF MapsSame, SameMap, SameMeaning

LEMMA LookedUpMaps ==
    ASSUME NEW fs, Placed(fs), NEW k \in DOMAIN fs.exps, NEW id, NEW g, g = LookedUp(fs, k, id)
    PROVE  Placed(g) /\ k \in DOMAIN g.exps /\ g \in SourceType /\ MapsSame(fs, g)
<1>1. CacheSet(fs, g, k, Lookup(fs, k, id)) BY LookedUpDoes
<1>2. Placed(g) BY Zenon, <1>1, CachePlaced
<1>3. MapsKept(fs, g) BY Zenon, <1>1 DEF CacheSet, MapsKept
<1> QED BY Zenon, <1>1, <1>2, <1>3, KeptSame DEF CacheSet

LEMMA DataV9Maps ==
    ASSUME NEW fs, Placed(fs), NEW k \in DOMAIN fs.exps, NEW id, NEW rate \in Rates,
           NEW g, g = DataV9(fs, k, id, rate)
    PROVE  MapsSame(fs, g)
<1>1. PICK h : h = LookedUp(fs, k, id) OBVIOUS
<1>2. Placed(h) /\ k \in DOMAIN h.exps /\ h \in SourceType /\ MapsSame(fs, h)
  BY Zenon, <1>1, LookedUpMaps
<1>3. MapsSame(h, g)
  <2>1. CASE Lookup(fs, k, id) # 0
    <3>1. g = AddRecord(h, Lookup(fs, k, id)) BY <1>1, <2>1 DEF DataV9, Decodable
    <3>2. Lookup(fs, k, id) \in Live(h, k) BY <1>1, <2>1, FoundInCache
    <3> QED BY Zenon, <1>2, <3>1, <3>2, RecordMaps
  <2>2. CASE Lookup(fs, k, id) = 0
    <3>1. g = OptionData(h, k, id, rate) BY <1>1, <2>2 DEF DataV9, Decodable
    <3>2. MapsKept(h, g) BY <1>2, <3>1, OptionsAlike
    <3> QED BY Zenon, <3>2, KeptSame
  <2> QED BY <2>1, <2>2
<1> QED BY Zenon, <1>2, <1>3, MapsSameChain

LEMMA DataIpfixMaps ==
    ASSUME NEW fs, Placed(fs), NEW k \in DOMAIN fs.exps, NEW id, SeqWrap \in Nat \ {0},
           NEW g, g = DataIpfix(fs, k, id)
    PROVE  MapsSame(fs, g)
<1>1. PICK h : h = LookedUp(fs, k, id) OBVIOUS
<1>2. Placed(h) /\ k \in DOMAIN h.exps /\ h \in SourceType /\ MapsSame(fs, h)
  BY Zenon, <1>1, LookedUpMaps
<1>3. CASE Lookup(fs, k, id) # 0
  <2>1. PICK a : a = AddRecord(h, Lookup(fs, k, id)) OBVIOUS
  <2>2. Lookup(fs, k, id) \in Live(h, k) BY <1>1, <1>3, FoundInCache
  <2>3. MapsSame(h, a) BY Zenon, <1>2, <2>1, <2>2, RecordMaps
  <2>4. Alike(h, a) BY <1>2, <2>1, <2>2, RecordTouches
  <2>5. a \in SourceType /\ k \in DOMAIN a.exps BY <1>2, <2>4 DEF Alike
  <2>6. PICK n \in Nat : n = (fs.exps[k].seq + 1) % SeqWrap
    <3>1. fs.exps[k] \in ExporterType BY Parts DEF Placed
    <3>2. fs.exps[k].seq \in Nat BY <3>1 DEF ExporterType
    <3> QED BY <3>2
  <2>7. g = CountRecord(a, k, n)
    BY <1>1, <1>3, <2>1, <2>6 DEF DataIpfix, Decodable, CountRecord
  <2>8. CountsOnly(a, g, k) BY <2>5, <2>7, CountRecordDoes
  <2>9. MapsKept(a, g) BY Zenon, <2>8 DEF CountsOnly, MapsKept
  <2> QED BY Zenon, <1>2, <2>3, <2>9, KeptSame, MapsSameChain
<1>4. CASE Lookup(fs, k, id) = 0
  <2>1. g = h BY <1>1, <1>4 DEF DataIpfix, Decodable
  <2> QED BY <1>2, <2>1
<1> QED BY Zenon, <1>3, <1>4

\* A file begins with all the maps that are listed: whatever it was before, who
\* reads it then finds them.
LEMMA ListedReadable ==
    ASSUME NEW fs, Placed(fs), NEW g \in SourceType, Alike(fs, g),
           SameMeaning(g.all.maps, g.copy.maps),
           NEW r, r = FoldLeft(WriteListed, g, fs.list)
    PROVE  Readable(r, TRUE)
<1>1. fs \in SourceType /\ InPlace(fs) /\ Listed(fs) BY Zenon, PlacedListed DEF Placed
<1>2. PICK q \in Seq(Nat) : q = fs.list BY Zenon, <1>1, Parts
<1>3. PICK N \in Nat : N = Len(q) /\ DOMAIN q = 1..N BY <1>2
<1> DEFINE A == {x \in SourceType : Alike(fs, x) /\ SameMeaning(x.all.maps, x.copy.maps)}
           Found(x, n) == \A m \in 1..n : FindsListed(x, q[m])
           I == [n \in 0..N |-> {x \in A : Found(x, n)}]
<1>4. ASSUME NEW n \in 1..N, NEW a \in A
      PROVE  /\ WriteListed(a, q[n]) \in A
             /\ Found(a, n - 1) => Found(WriteListed(a, q[n]), n)
  <2>1. PICK t : t = q[n] OBVIOUS
  <2>2. CASE t = 0
    <3>1. WriteListed(a, t) = a BY Zenon, <2>2 DEF WriteListed
    <3>2. \A m \in 1..n : m \in 1..(n - 1) \/ m = n BY <1>3
    <3> QED BY Zenon, <2>1, <2>2, <3>1, <3>2 DEF FindsListed
  <2>3. CASE t # 0
    <3>1. a \in SourceType /\ Alike(fs, a) /\ SameMeaning(a.all.maps, a.copy.maps) OBVIOUS
    <3>2. t \in DOMAIN fs.heap /\ fs.heap[t].mapId = n - 1
      BY Zenon, <1>1, <1>2, <1>3, <2>1, <2>3 DEF InPlace
    <3>3. /\ DOMAIN a.heap = DOMAIN fs.heap
          /\ \A u \in DOMAIN fs.heap : a.heap[u].mapId = fs.heap[u].mapId
      BY Zenon, <3>1 DEF Alike, SameTable
    <3>4. n - 1 \in Nat BY <1>3
    <3>5. PICK b : b = WriteMap(a, t) /\ WriteListed(a, t) = b BY Zenon, <2>3 DEF WriteListed
    <3>6. t \in DOMAIN a.heap /\ a.heap[t].mapId \in Nat BY Zenon, <3>2, <3>3, <3>4
    <3>7. MapWritten(a, b, t) BY Zenon, <3>1, <3>5, <3>6, WriteMapDoes
    <3>8. b \in SourceType BY Zenon, <3>7 DEF MapWritten
    <3>9. Alike(fs, b) BY <3>1, <3>5, <3>6, MapAlike, AlikeChain
    <3>10. /\ SameMeaning(b.all.maps, b.copy.maps) /\ Findable(b, t)
           /\ \A u \in DOMAIN a.heap : /\ u # t /\ a.heap[u].mapId # a.heap[t].mapId
                                       /\ Findable(a, u)
                                       => Findable(b, u)
      BY Zenon, <3>1, <3>6, <3>7, WrittenFound
    <3>11. b \in A BY <3>8, <3>9, <3>10
    <3>12. DOMAIN b.heap = DOMAIN a.heap BY Zenon, <3>7 DEF MapWritten
    <3>13. ASSUME Found(a, n - 1), NEW m \in 1..n PROVE FindsListed(b, q[m])
      <4>1. CASE q[m] = 0 BY Zenon, <4>1 DEF FindsListed
      <4>2. CASE m = n BY Zenon, <2>1, <3>6, <3>10, <3>12, <4>2 DEF FindsListed
      <4>3. CASE q[m] # 0 /\ m # n
        <5>1. PICK u : u = q[m] OBVIOUS
        <5>2. m \in 1..(n - 1) /\ m \in 1..N /\ m - 1 # n - 1 BY <1>3, <4>3
        <5>3. FindsListed(a, u) BY Zenon, <3>13, <5>1, <5>2
        <5>4. u \in DOMAIN a.heap /\ Findable(a, u) BY Zenon, <4>3, <5>1, <5>3 DEF FindsListed
        <5>5. fs.heap[u].mapId = m - 1 BY Zenon, <1>1, <1>2, <1>3, <4>3, <5>1, <5>2 DEF InPlace
        <5>6. a.heap[u].mapId # a.heap[t].mapId BY Zenon, <3>2, <3>3, <5>2, <5>4, <5>5
        <5>7. u # t BY Zenon, <5>6
        <5>8. Findable(b, u) BY Zenon, <3>10, <5>4, <5>6, <5>7
        <5> QED BY Zenon, <3>12, <5>1, <5>4, <5>8 DEF FindsListed
      <4> QED BY Zenon, <4>1, <4>2, <4>3
    <3> QED BY Zenon, <2>1, <3>5, <3>11, <3>13
  <2> QED BY Zenon, <2>2, <2>3
<1>5. g \in A /\ g \in I[0]
  <2>1. g \in A OBVIOUS
  <2>2. Found(g, 0) OBVIOUS
  <2>3. 0 \in 0..N BY <1>3
  <2> QED BY <2>1, <2>2, <2>3
<1>6. \A n \in 1..Len(q) : \A a \in A : WriteListed(a, q[n]) \in A BY Zenon, <1>3, <1>4
<1>7. \A n \in 1..Len(q) : \A a \in A : a \in I[n - 1] => WriteListed(a, q[n]) \in I[n]
  <2> SUFFICES ASSUME NEW n \in 1..N, NEW a \in A, a \in I[n - 1]
               PROVE  WriteListed(a, q[n]) \in I[n]
    BY Zenon, <1>3
  <2>1. n - 1 \in 0..N /\ n \in 0..N BY <1>3
  <2>2. I[n - 1] = {x \in A : Found(x, n - 1)} /\ I[n] = {x \in A : Found(x, n)}
    BY Zenon, <2>1
  <2>3. Found(a, n - 1) BY Zenon, <2>2
  <2>4. WriteListed(a, q[n]) \in A /\ Found(WriteListed(a, q[n]), n) BY Zenon, <1>4, <2>3
  <2> QED BY Zenon, <2>2, <2>4
<1>8. N \in 0..N /\ I[N] = {x \in A : Found(x, N)} BY <1>3
<1>9. \A x \in A : Alike(fs, x) /\ SameMeaning(x.all.maps, x.copy.maps) OBVIOUS
<1>10. \A x \in I[N] : x \in A /\ Found(x, N) BY Zenon, <1>8
<1> HIDE DEF A, I
<1>11. r \in I[N] BY Zenon, <1>2, <1>3, <1>5, <1>6, <1>7, FoldListed
<1>12. r \in A /\ Found(r, N) BY Zenon, <1>10, <1>11
<1>13. r.list = q BY Zenon, <1>2, <1>9, <1>12 DEF Alike
<1>14. ListedFound(r) BY Zenon, <1>3, <1>12, <1>13 DEF ListedFound
<1> QED BY Zenon, <1>9, <1>12, <1>14 DEF Readable

LEMMA FlushReadable ==
    ASSUME NEW fs, Placed(fs), MaxExporters \in Nat, SameMeaning(fs.all.maps, fs.copy.maps)
    PROVE  Readable(FlushStdRecords(fs), TRUE)
<1>1. fs \in SourceType /\ fs.exps \in Seq(ExporterType) BY Parts DEF Placed
<1> DEFINE A == {x \in SourceType : Alike(fs, x) /\ MapsKept(fs, x)}
<1>2. fs \in A BY <1>1, AlikeSelf DEF MapsKept
<1>3. \A n \in 1..Len(fs.exps) : \A a \in A : WriteExporterInfos(a, fs.exps[n]) \in A
  <2> SUFFICES ASSUME NEW n \in 1..Len(fs.exps), NEW a \in A
               PROVE  WriteExporterInfos(a, fs.exps[n]) \in A
    OBVIOUS
  <2>1. fs.exps[n] \in ExporterType BY <1>1
  <2>2. PICK b : b = WriteExporterInfos(a, fs.exps[n]) OBVIOUS
  <2>3. Alike(a, b) /\ MapsKept(a, b) BY <2>1, <2>2, InfosAlike
  <2>4. MapsKept(fs, b) BY Zenon, <2>3 DEF MapsKept
  <2> QED BY Zenon, <2>2, <2>3, <2>4, AlikeChain DEF Alike
<1>4. \A x \in A : x \in SourceType /\ Alike(fs, x) /\ MapsKept(fs, x) OBVIOUS
<1> HIDE DEF A
<1>5. PICK g : g = FoldLeft(WriteExporterInfos, fs, fs.exps) OBVIOUS
<1>6. g \in A BY Zenon, <1>1, <1>2, <1>3, <1>5, FoldInfosWithin
<1>7. g \in SourceType /\ Alike(fs, g) /\ MapsKept(fs, g) BY Zenon, <1>4, <1>6
<1>8. SameMeaning(g.all.maps, g.copy.maps) BY Zenon, <1>7 DEF MapsKept
<1>9. PICK r : r = FoldLeft(WriteListed, g, fs.list) OBVIOUS
<1>10. Readable(r, TRUE) BY Zenon, <1>7, <1>8, <1>9, ListedReadable
<1>11. FlushStdRecords(fs) = r BY <1>5, <1>9 DEF FlushStdRecords
<1> QED BY Zenon, <1>10, <1>11

LEMMA NextFileReadable ==
    ASSUME NEW fs, Placed(fs), MaxExporters \in Nat, NEW all, Readable(fs, all)
    PROVE  Readable(NextFile(fs), TRUE)
<1>1. PICK g : g = Begun(fs) OBVIOUS
<1>2. fs \in SourceType BY DEF Placed
<1>3. Alike(fs, g) /\ g.all.maps = fs.all.maps /\ g.copy = fs.copy BY <1>1, <1>2, BegunDoes
<1>4. Placed(g) BY Zenon, <1>3, AlikeSimilar, SimilarPlaced
<1>5. SameMeaning(g.all.maps, g.copy.maps) BY Zenon, <1>3 DEF Readable
<1>6. NextFile(fs) = FlushStdRecords(g) BY <1>1 DEF NextFile, Begun
<1> QED BY Zenon, <1>4, <1>5, <1>6, FlushReadable

\* What reads all files goes on, when nothing is listed yet.
LEMMA StartReadable ==
    ASSUME NEW r, NEW c, SameMeaning(r.maps, c.maps), NEW all
    PROVE  Readable(Source(r, c), all)
<1>1. PICK fs : fs = Source(r, c) OBVIOUS
<1>2. fs.all = r /\ fs.copy = c /\ fs.list = <<>> BY <1>1 DEF Source
<1>3. DOMAIN fs.list = {} BY <1>2
<1>4. ListedFound(fs) BY Zenon, <1>3 DEF ListedFound
<1> QED BY Zenon, <1>1, <1>2, <1>4 DEF Readable

LEMMA NewExporterReadable ==
    ASSUME NEW fs, Placed(fs), NEW dev \in Dev, ~Has(fs, dev), NEW n \in Nat,
           V5Layout \in Layout, MaxExporters \in Nat, NEW all, Readable(fs, all),
           NEW g, g = NewExporterOf(fs, dev, n)
    PROVE  Readable(g, all)
<1>1. fs \in SourceType /\ fs.exps \in Seq(ExporterType) /\ fs.heap \in Seq(TableType)
  BY Parts DEF Placed
<1>2. PICK e : e = [dev |-> dev, sysid |-> n, list |-> <<>>, cur |-> 0, samplers |-> {},
                    seq |-> 0, started |-> FALSE, failures |-> 0]
  BY Zenon
<1>3. IsFiniteSet({}) BY FS_EmptySet
<1>4. e \in ExporterType /\ e.dev = dev /\ e.sysid = n /\ e.list = <<>> /\ e.cur = 0
  <2>1. <<>> \in Seq(Nat) OBVIOUS
  <2>2. {} \in {S \in SUBSET Samplers : IsFiniteSet(S)} BY <1>3
  <2> QED BY <1>2, <2>1, <2>2 DEF ExporterType
<1>5. CASE dev \notin V5
  <2>1. PICK f : f = Join(fs, e) OBVIOUS
  <2>2. Joined(fs, f, e) BY <1>1, <1>4, <2>1, JoinDoes
  <2>3. f \in SourceType /\ MapsKept(fs, f) BY Zenon, <2>2 DEF Joined, MapsKept
  <2>4. g = WriteExporter(f, e) BY <1>2, <1>5, <2>1 DEF NewExporterOf, Join
  <2>5. MapsKept(f, g) BY <1>4, <2>3, <2>4, ExporterAlike
  <2> QED BY Zenon, <2>3, <2>5, KeptSame, ReadableSame
<1>6. CASE dev \in V5
  <2>1. PICK t \in Nat : t = Len(fs.heap) + 1 BY <1>1
  <2>2. PICK m : m = WithV5Map(fs, t) OBVIOUS
  <2>3. MapJoined(fs, m, t) BY <1>1, <2>1, <2>2, V5MapDoes
  <2>4. m \in SourceType BY Zenon, <2>3 DEF MapJoined
  <2>5. Readable(m, all)
    <3>1. PICK h \in Seq(TableType) : h = Append(fs.heap, NewTable(0, V5Layout))
      <4>1. NewTable(0, V5Layout) \in TableType BY DEF NewTable, TableType, Layout, NoId
      <4> QED BY Zenon, <1>1, <4>1, AppendTyped
    <3>2. PICK a : a = [fs EXCEPT !.heap = h] BY Zenon
    <3>3. /\ a \in SourceType /\ a.heap = h /\ a.list = fs.list
          /\ a.one = fs.one /\ a.all = fs.all /\ a.copy = fs.copy
      BY Zenon, <1>1, <3>1, <3>2 DEF SourceType
    <3>4. m = AddExtensionMap(a, t) BY <2>2, <3>1, <3>2 DEF WithV5Map
    <3>5. InPlace(fs) BY Zenon DEF Placed
    <3>6. 0 \in TemplateIds \cup {0} OBVIOUS
    <3> QED BY Zenon, <1>1, <2>1, <3>1, <3>3, <3>4, <3>5, <3>6, AllocatedReadable
  <2>6. PICK s \in Samplers : s = [id |-> NoId, rate |-> 1]
    <3>1. [id |-> NoId, rate |-> 1] \in Samplers BY DEF Samplers
    <3> QED BY <3>1
  <2>7. PICK w : w = [e EXCEPT !.list = <<t>>, !.samplers = {s}] OBVIOUS
  <2>8. w \in ExporterType /\ w.dev = dev /\ w.sysid = n
    <3>1. <<t>> \in Seq(Nat) BY <2>1
    <3>2. {s} \in {S \in SUBSET Samplers : IsFiniteSet(S)} BY Zenon, FS_Singleton
    <3> QED BY Zenon, <1>4, <2>7, <3>1, <3>2 DEF ExporterType
  <2>9. PICK f : f = Join(m, w) OBVIOUS
  <2>10. Joined(m, f, w) BY <2>4, <2>8, <2>9, JoinDoes
  <2>11. f \in SourceType /\ MapsKept(m, f) BY Zenon, <2>10 DEF Joined, MapsKept
  <2>12. PICK h : h = WriteExporter(f, w) OBVIOUS
  <2>13. Alike(f, h) /\ MapsKept(f, h) BY <2>8, <2>11, <2>12, ExporterAlike
  <2>14. g = WriteSampler(h, w, s)
    <3>1. [WithV5Map(fs, t) EXCEPT !.exps = Append(@, w), !.count = @ + 1] = f
      BY <2>2, <2>9 DEF Join
    <3> QED BY <1>2, <1>6, <2>1, <2>6, <2>7, <2>12, <3>1 DEF NewExporterOf, WithV5Map
  <2>15. MapsKept(h, g)
    <3>1. h \in SourceType BY <2>13 DEF Alike
    <3> QED BY <2>8, <2>14, <3>1, SamplerAlike
  <2>16. MapsSame(m, f) /\ MapsSame(f, h) /\ MapsSame(h, g)
    BY Zenon, <2>11, <2>13, <2>15, KeptSame
  <2> QED BY Zenon, <2>5, <2>16, ReadableSame
<1> QED BY <1>5, <1>6

LEMMA CheckedReadable ==
    ASSUME TablesInv, NEW d \in Devices, NEW all, Readable(src[SourceOf(d)], all)
    PROVE  Readable(Checked(d), all)
<1> DEFINE s == SourceOf(d)
<1>1. Typed /\ Holds(s) /\ s \in Sources /\ d \in Dev
  BY Surroundings DEF TablesInv, Typed
<1>2. PICK a : a = Opened(d)[s] OBVIOUS
<1>3. Alike(src[s], a) /\ MapsKept(src[s], a) BY <1>1, <1>2, OpenedDoes
<1>4. Placed(a) BY <1>1, <1>3, AlikeSimilar, SimilarPlaced DEF Holds
<1>5. PICK n \in Nat : n = sysid BY <1>1, Constants DEF Typed
<1>6. PICK b : b = GetExporter(a, d, n) OBVIOUS
<1>7. Placed(b) /\ Index(b, d) \in DOMAIN b.exps
  BY <1>1, <1>4, <1>6, Constants, GetExporterDoes
<1>8. PICK k : k = Index(b, d) OBVIOUS
<1>9. PICK number \in Nat : number = sent[d]
  <2>1. sent[d] \in 0..(SeqWrap - 1) BY <1>1 DEF Typed
  <2> QED BY <2>1, Constants
<1>10. PICK c : c = IF d \in Ipfix THEN SyncSequence(b, k, number)
                    ELSE NextInSequence(b, k, number)
  OBVIOUS
<1>11. c = Checked(d) BY <1>2, <1>5, <1>6, <1>8, <1>9, <1>10 DEF Checked
<1>12. CountsOnly(b, c, k)
  <2>1. b \in SourceType BY <1>7 DEF Placed
  <2> QED BY <1>7, <1>8, <1>10, <2>1, SyncCounts, NextCounts
<1>13. MapsKept(b, c) BY Zenon, <1>12 DEF CountsOnly, MapsKept
<1>14. Readable(a, all) BY Zenon, <1>3, KeptSame, ReadableSame
<1>15. Readable(b, all)
  <2>1. CASE Has(a, d)
    <3>1. b = a BY Zenon, <1>6, <2>1 DEF GetExporter
    <3> QED BY Zenon, <1>14, <3>1
  <2>2. CASE ~Has(a, d)
    <3>1. PICK i \in Nat : i = AssignExporterID(n) BY DEF AssignExporterID
    <3>2. b = NewExporterOf(a, d, i) BY Zenon, <1>6, <2>2, <3>1 DEF GetExporter
    <3> QED BY Zenon, <1>1, <1>4, <1>14, <2>2, <3>2, Constants, NewExporterReadable
  <2> QED BY Zenon, <2>1, <2>2
<1> QED BY Zenon, <1>11, <1>13, <1>15, KeptSame, ReadableSame

-----------------------------------------------------------------------------
(* The maps of a collector                                                 *)

MapsInv == TablesInv /\ \A s \in Sources : Readable(src[s], "reset" \notin raced)

LEMMA ReadableLess == ASSUME NEW fs, NEW all, NEW b, Readable(fs, all), b => all
                      PROVE  Readable(fs, b)
BY DEF Readable

\* A packet is handled in one source; the first record of a new source is an
\* addition to the file of another one, but no map.
LEMMA PacketMaps ==
    ASSUME Typed, NEW d \in Devices, NEW g, GotPacket(d, g)
    PROVE  /\ src'[SourceOf(d)] = g
           /\ \A s \in Sources : s # SourceOf(d) => MapsSame(src[s], src'[s])
<1>1. PICK o : o = Opened(d) OBVIOUS
<1>2. o \in [Sources -> SourceType] /\ \A s \in Sources : MapsKept(src[s], o[s])
  BY <1>1, OpenedDoes
<1>3. PICK x : x = SourceOf(d) OBVIOUS
<1>4. x \in Sources BY <1>3, Surroundings DEF Typed
<1>5. src' = [o EXCEPT ![x] = g] BY <1>1, <1>3 DEF GotPacket
<1>6. src'[x] = g /\ \A s \in Sources : s # x => src'[s] = o[s] BY <1>2, <1>4, <1>5
<1>7. \A s \in Sources : MapsSame(src[s], o[s]) BY <1>2, KeptSame
<1> QED BY <1>3, <1>6, <1>7

LEMMA PacketReadable ==
    ASSUME MapsInv, TablesInv', NEW d \in Devices, NEW g, GotPacket(d, g),
           raced \subseteq raced', Readable(g, "reset" \notin raced')
    PROVE  MapsInv'
<1>1. Typed BY DEF MapsInv, TablesInv
<1>2. /\ src'[SourceOf(d)] = g
      /\ \A s \in Sources : s # SourceOf(d) => MapsSame(src[s], src'[s])
  BY <1>1, PacketMaps
<1>3. Sources' = Sources BY SameNet DEF GotPacket
<1>4. ASSUME NEW s \in Sources PROVE Readable(src'[s], "reset" \notin raced')
  <2>1. CASE s = SourceOf(d) BY <1>2, <2>1
  <2>2. CASE s # SourceOf(d)
    <3>1. PICK a : a = src[s] OBVIOUS
    <3>2. PICK b : b = src'[s] OBVIOUS
    <3>3. MapsSame(a, b) BY <1>2, <2>2, <3>1, <3>2
    <3>4. Readable(a, "reset" \notin raced) BY <3>1 DEF MapsInv
    <3>5. Readable(b, "reset" \notin raced) BY <3>3, <3>4, ReadableSame
    <3>6. Readable(b, "reset" \notin raced') BY <3>5, ReadableLess
    <3> QED BY <3>2, <3>6
  <2> QED BY <2>1, <2>2
<1> QED BY <1>3, <1>4 DEF MapsInv

\* What the handler of a packet begins with.
LEMMA PacketBegins ==
    ASSUME MapsInv, NEW d \in Devices, NEW f, f = Checked(d), NEW k, k = Index(f, d)
    PROVE  /\ Placed(f) /\ k \in DOMAIN f.exps /\ f.exps[k].dev = d
           /\ MembersOf(f, SourceOf(d))
           /\ "reset" \notin raced => Complete(f)
           /\ Readable(f, "reset" \notin raced)
<1>1. TablesInv BY DEF MapsInv
<1>2. Ready(f, SourceOf(d), d) BY <1>1, CheckedDoes
<1>3. SourceOf(d) \in Sources BY <1>1, Surroundings DEF TablesInv, Typed
<1>4. Readable(src[SourceOf(d)], "reset" \notin raced) BY <1>3 DEF MapsInv
<1>5. Readable(f, "reset" \notin raced) BY <1>1, <1>4, CheckedReadable
<1> QED BY <1>2, <1>5 DEF Ready

LEMMA V5Maps == ASSUME MapsInv, TablesInv', NEW d \in V5 \cap Devices, V5Packet(d) PROVE MapsInv'
<1>1. PICK f : f = Checked(d) OBVIOUS
<1>2. PICK k : k = Index(f, d) OBVIOUS
<1>3. /\ Placed(f) /\ k \in DOMAIN f.exps /\ f.exps[k].dev = d /\ MembersOf(f, SourceOf(d))
      /\ Readable(f, "reset" \notin raced)
  BY <1>1, <1>2, PacketBegins
<1>4. PICK t : t = f.exps[k].list[1] OBVIOUS
<1>5. t \in Live(f, k)
  <2>1. 1 \in DOMAIN f.exps[k].list BY <1>3 DEF MembersOf, Member
  <2> QED BY <1>4, <2>1, LiveIs
<1>6. PICK g : g = AddRecord(f, t) OBVIOUS
<1>7. GotPacket(d, g)
  BY <1>1, <1>2, <1>4, <1>6 DEF V5Packet, Packet, GotPacket
<1>8. raced' = raced BY Zenon DEF V5Packet
<1>9. MapsSame(f, g) BY <1>3, <1>5, <1>6, RecordMaps
<1>10. Readable(g, "reset" \notin raced) BY <1>3, <1>9, ReadableSame
<1> QED BY <1>7, <1>8, <1>10, PacketReadable

LEMMA TemplateMaps ==
    ASSUME MapsInv, TablesInv', NEW d \in Devices \ V5, NEW id \in net.ids,
           NEW ex \in net.layouts, Template(d, id, ex)
    PROVE  MapsInv'
<1>1. PICK f : f = Checked(d) OBVIOUS
<1>2. PICK k : k = Index(f, d) OBVIOUS
<1>3. /\ Placed(f) /\ k \in DOMAIN f.exps /\ ("reset" \notin raced => Complete(f))
      /\ Readable(f, "reset" \notin raced)
  BY <1>1, <1>2, PacketBegins
<1>4. TablesInv BY DEF MapsInv
<1>5. PICK i \in TemplateIds : i = id BY <1>4, Surroundings DEF TablesInv, Typed
<1>6. PICK x \in Layout : x = Stored(d, ex)
  <2>1. Stored(d, ex) \in Layout
    BY <1>4, Constants, Surroundings DEF Stored, Layout, TablesInv, Typed
  <2> QED BY <2>1
<1>7. PICK g : g = AddTemplate(f, k, i, x) OBVIOUS
<1>8. GotPacket(d, g)
  BY Zenon, <1>1, <1>2, <1>5, <1>6, <1>7 DEF Template, Packet, GotPacket
<1>9. raced' = raced BY Zenon DEF Template
<1>10. Readable(g, "reset" \notin raced) BY <1>3, <1>7, TemplateReadable
<1> QED BY <1>8, <1>9, <1>10, PacketReadable

LEMMA OptionTemplateMaps ==
    ASSUME MapsInv, TablesInv', NEW d \in Devices \ V5, NEW id \in net.ids,
           NEW kind \in net.kinds, OptionTemplate(d, id, kind)
    PROVE  MapsInv'
<1>1. PICK f : f = Checked(d) OBVIOUS
<1>2. PICK k : k = Index(f, d) OBVIOUS
<1>3. Placed(f) /\ Readable(f, "reset" \notin raced) BY <1>1, <1>2, PacketBegins
<1>4. TablesInv BY DEF MapsInv
<1>5. PICK i \in TemplateIds : i = id BY <1>4, Surroundings DEF TablesInv, Typed
<1>6. PICK x \in Kinds : x = kind BY <1>4, Surroundings DEF TablesInv, Typed
<1>7. PICK g : g = IF d \in V9 THEN InsertOffset(f, i, x) ELSE f OBVIOUS
<1>8. GotPacket(d, g)
  BY Zenon, <1>1, <1>2, <1>5, <1>6, <1>7 DEF OptionTemplate, Packet, GotPacket
<1>9. raced' = raced BY Zenon DEF OptionTemplate
<1>10. MapsKept(f, g)
  <2>1. f \in SourceType BY <1>3 DEF Placed
  <2>2. CASE d \in V9
    <3>1. g = InsertOffset(f, i, x) BY <1>7, <2>2
    <3> QED BY <2>1, <3>1, OffsetAlike
  <2>3. CASE d \notin V9 BY <1>7, <2>3 DEF MapsKept
  <2> QED BY <2>2, <2>3
<1>11. Readable(g, "reset" \notin raced) BY <1>3, <1>10, KeptSame, ReadableSame
<1> QED BY <1>8, <1>9, <1>11, PacketReadable

LEMMA DataSetV9Maps ==
    ASSUME MapsInv, TablesInv', NEW d \in V9 \cap Devices, NEW id \in net.ids, NEW rate \in Rates,
           DataSetV9(d, id, rate)
    PROVE  MapsInv'
<1>1. PICK f : f = Checked(d) OBVIOUS
<1>2. PICK k : k = Index(f, d) OBVIOUS
<1>3. Placed(f) /\ k \in DOMAIN f.exps /\ Readable(f, "reset" \notin raced)
  BY <1>1, <1>2, PacketBegins
<1>4. PICK g : g = DataV9(f, k, id, rate) OBVIOUS
<1>5. GotPacket(d, g) BY <1>1, <1>2, <1>4 DEF DataSetV9, Packet, GotPacket
<1>6. raced \subseteq raced' /\ ("reset" \notin raced' => "reset" \notin raced) BY Zenon DEF DataSetV9
<1>7. MapsSame(f, g) BY <1>3, <1>4, DataV9Maps
<1>8. Readable(g, "reset" \notin raced) BY <1>3, <1>7, ReadableSame
<1>9. Readable(g, "reset" \notin raced') BY <1>6, <1>8, ReadableLess
<1> QED BY <1>5, <1>6, <1>9, PacketReadable

LEMMA DataSetIpfixMaps ==
    ASSUME MapsInv, TablesInv', NEW d \in Ipfix \cap Devices, NEW id \in net.ids,
           DataSetIpfix(d, id)
    PROVE  MapsInv'
<1>1. PICK f : f = Checked(d) OBVIOUS
<1>2. PICK k : k = Index(f, d) OBVIOUS
<1>3. Placed(f) /\ k \in DOMAIN f.exps /\ Readable(f, "reset" \notin raced)
  BY <1>1, <1>2, PacketBegins
<1>4. PICK g : g = DataIpfix(f, k, id) OBVIOUS
<1>5. GotPacket(d, g) BY <1>1, <1>2, <1>4 DEF DataSetIpfix, Packet, GotPacket
<1>6. raced' = raced BY Zenon DEF DataSetIpfix
<1>7. MapsSame(f, g) BY <1>3, <1>4, Constants, DataIpfixMaps
<1>8. Readable(g, "reset" \notin raced) BY <1>3, <1>7, ReadableSame
<1> QED BY <1>5, <1>6, <1>8, PacketReadable

LEMMA WithdrawMaps ==
    ASSUME MapsInv, TablesInv', NEW d \in Ipfix \cap Devices, NEW id \in net.ids, Withdraw(d, id)
    PROVE  MapsInv'
<1>1. PICK f : f = Checked(d) OBVIOUS
<1>2. PICK k : k = Index(f, d) OBVIOUS
<1>3. Placed(f) /\ k \in DOMAIN f.exps /\ Readable(f, "reset" \notin raced)
  BY <1>1, <1>2, PacketBegins
<1>4. PICK g : g = RemoveTable(f, k, id) OBVIOUS
<1>5. GotPacket(d, g) BY <1>1, <1>2, <1>4 DEF Withdraw, Packet, GotPacket
<1>6. raced' = raced BY Zenon DEF Withdraw
<1>7. MapsSame(f, g) BY <1>3, <1>4, RemoveMaps
<1>8. Readable(g, "reset" \notin raced) BY <1>3, <1>7, ReadableSame
<1> QED BY <1>5, <1>6, <1>8, PacketReadable

LEMMA WithdrawAllMaps ==
    ASSUME MapsInv, TablesInv', NEW d \in Ipfix \cap Devices, WithdrawAll(d)
    PROVE  MapsInv'
<1>1. PICK f : f = Checked(d) OBVIOUS
<1>2. PICK k : k = Index(f, d) OBVIOUS
<1>3. Placed(f) /\ k \in DOMAIN f.exps /\ Readable(f, "reset" \notin raced)
  BY <1>1, <1>2, PacketBegins
<1>4. PICK g : g = RemoveAllTables(f, k) OBVIOUS
<1>5. GotPacket(d, g) BY <1>1, <1>2, <1>4 DEF WithdrawAll, Packet, GotPacket
<1>6. raced \subseteq raced' /\ ("reset" \notin raced' => "reset" \notin raced) BY Zenon DEF WithdrawAll
<1>7. MapsSame(f, g) BY <1>3, <1>4, RemoveAllMaps DEF Placed
<1>8. Readable(g, "reset" \notin raced) BY <1>3, <1>7, ReadableSame
<1>9. Readable(g, "reset" \notin raced') BY <1>6, <1>8, ReadableLess
<1> QED BY <1>5, <1>6, <1>9, PacketReadable

\* Every file begins with the maps that are listed, and they mean in it what
\* they mean to the collector.
LEMMA RotateMaps == ASSUME MapsInv, TablesInv', Rotate PROVE MapsInv'
<1>1. /\ src' = [s \in Sources |-> IF s \in Range(created) THEN NextFile(src[s]) ELSE src[s]]
      /\ net' = net /\ raced' = raced
  BY DEF Rotate
<1>2. Sources' = Sources BY <1>1, SameNet
<1>3. ASSUME NEW s \in Sources PROVE Readable(src'[s], "reset" \notin raced)
  <2>1. PICK a : a = src[s] OBVIOUS
  <2>2. Placed(a) /\ Readable(a, "reset" \notin raced) BY <2>1 DEF MapsInv, TablesInv, Holds
  <2>3. Readable(NextFile(a), TRUE) BY <2>2, Constants, NextFileReadable
  <2>4. Readable(NextFile(a), "reset" \notin raced) BY <2>3, ReadableLess
  <2>5. PICK b : b = IF s \in Range(created) THEN NextFile(a) ELSE a OBVIOUS
  <2>6. Readable(b, "reset" \notin raced) BY <2>2, <2>4, <2>5
  <2>7. src'[s] = b BY <1>1, <2>1, <2>5
  <2> QED BY <2>6, <2>7
<1> QED BY <1>1, <1>2, <1>3 DEF MapsInv

LEMMA RestartMaps == ASSUME MapsInv, TablesInv', Restart PROVE MapsInv'
<1>1. /\ src' = [s \in Sources |-> LET closed == FlushExporterStats(src[s])
                                   IN Source(closed.all, closed.copy)]
      /\ net' = net
  BY DEF Restart
<1>2. Sources' = Sources BY <1>1, SameNet
<1>3. ASSUME NEW s \in Sources PROVE Readable(src'[s], "reset" \notin raced')
  <2>1. PICK a : a = src[s] OBVIOUS
  <2>2. a \in SourceType /\ Readable(a, "reset" \notin raced)
    BY <2>1 DEF MapsInv, TablesInv, Holds, Placed
  <2>3. PICK c : c = FlushExporterStats(a) OBVIOUS
  <2>4. c.all.maps = a.all.maps /\ c.copy = a.copy BY <2>2, <2>3, FlushStatsDoes DEF StatsFlushed
  <2>5. SameMeaning(c.all.maps, c.copy.maps) BY <2>2, <2>4 DEF Readable
  <2>6. Readable(Source(c.all, c.copy), "reset" \notin raced') BY <2>5, StartReadable
  <2>7. src'[s] = Source(c.all, c.copy) BY <1>1, <2>1, <2>3
  <2> QED BY <2>6, <2>7
<1> QED BY <1>2, <1>3 DEF MapsInv

LEMMA InitMaps == ASSUME Init PROVE MapsInv
<1>1. TablesInv BY InitTables
<1>2. src = [s \in Sources |-> Source(NoReader, NoReader)] BY DEF Init
<1>3. SameMeaning(NoReader.maps, NoReader.maps) BY DEF SameMeaning
<1>4. Readable(Source(NoReader, NoReader), "reset" \notin raced) BY <1>3, StartReadable
<1> QED BY <1>1, <1>2, <1>4 DEF MapsInv

LEMMA MapsStep == ASSUME MapsInv, [Next]_vars PROVE MapsInv'
<1> TablesInv' BY TablesStep DEF MapsInv
<1>1. ASSUME NEW d \in V5 \cap Devices, V5Packet(d) PROVE MapsInv'
  BY <1>1, V5Maps
<1>2. ASSUME NEW d \in Devices \ V5, NEW id \in net.ids,
             NEW ex \in net.layouts, Template(d, id, ex)
      PROVE  MapsInv'
  BY <1>2, TemplateMaps
<1>3. ASSUME NEW d \in Devices \ V5, NEW id \in net.ids, NEW kind \in net.kinds,
             OptionTemplate(d, id, kind)
      PROVE  MapsInv'
  BY <1>3, OptionTemplateMaps
<1>4. ASSUME NEW d \in V9 \cap Devices, NEW id \in net.ids, NEW rate \in Rates,
             DataSetV9(d, id, rate)
      PROVE  MapsInv'
  BY <1>4, DataSetV9Maps
<1>5. ASSUME NEW d \in Ipfix \cap Devices, NEW id \in net.ids, DataSetIpfix(d, id)
      PROVE  MapsInv'
  BY <1>5, DataSetIpfixMaps
<1>6. ASSUME NEW d \in Ipfix \cap Devices, NEW id \in net.ids, Withdraw(d, id)
      PROVE  MapsInv'
  BY <1>6, WithdrawMaps
<1>7. ASSUME NEW d \in Ipfix \cap Devices, WithdrawAll(d) PROVE MapsInv'
  BY <1>7, WithdrawAllMaps
<1>8. ASSUME NEW d \in Devices, Lose(d) PROVE MapsInv'
  <2>1. net' = net /\ src' = src /\ raced' = raced BY <1>8 DEF Lose
  <2>2. Sources' = Sources BY <2>1, SameNet
  <2> QED BY <2>1, <2>2 DEF MapsInv
<1>9. ASSUME UNCHANGED vars PROVE MapsInv'
  <2>1. net' = net /\ src' = src /\ raced' = raced BY <1>9 DEF vars, hist
  <2>2. Sources' = Sources BY <2>1, SameNet
  <2> QED BY <2>1, <2>2 DEF MapsInv
<1> QED
  BY <1>1, <1>2, <1>3, <1>4, <1>5, <1>6, <1>7, <1>8, <1>9, RotateMaps, RestartMaps DEF Next

\* A table in use is listed, and what is listed is found by both readers; the
\* reader of the copies finds the same.
LEMMA MapsSafe == ASSUME MapsInv PROVE MapsResolve
<1>1. Typed /\ \A s \in Sources : Holds(s) BY DEF MapsInv, TablesInv
<1>2. Open \subseteq Sources
  <2>1. created \in Seq(Sources) BY <1>1 DEF Typed
  <2>2. \A i \in DOMAIN created : created[i] \in Sources BY <2>1
  <2> QED BY <2>2 DEF Open, Range
<1>3. ASSUME NEW s \in Sources, "reset" \notin raced, NEW t \in AllLive(s)
      PROVE  LET map == src[s].heap[t] IN
             /\ Finds(src[s].one.maps, map.mapId, map.out)
             /\ Finds(src[s].all.maps, map.mapId, map.out)
             /\ Finds(src[s].copy.maps, map.mapId, map.out)
             /\ map.out # map.ex => Begins(map.ex, map.out)
  <2>1. PICK f : f = src[s] OBVIOUS
  <2>2. Placed(f) /\ Complete(f) /\ Readable(f, TRUE)
    BY <1>1, <1>3, <2>1 DEF Holds, MapsInv
  <2>3. PICK k \in DOMAIN f.exps : t \in Live(f, k) BY <1>3, <2>1 DEF AllLive
  <2>4. t \in DOMAIN f.heap BY <2>2, <2>3 DEF Placed, Sound
  <2>5. t # 0
    <3>1. f.heap \in Seq(TableType) BY <2>2, Parts DEF Placed
    <3> QED BY <2>4, <3>1
  <2>6. PICK n \in DOMAIN f.list : f.list[n] = t BY <2>2, <2>3 DEF Complete, InList
  <2>7. Findable(f, t) BY <2>2, <2>5, <2>6 DEF Readable, ListedFound, FindsListed
  <2>8. PICK map : map = f.heap[t] OBVIOUS
  <2>9. /\ Begins(map.ex, map.out) /\ Finds(f.one.maps, map.mapId, map.out)
        /\ Finds(f.all.maps, map.mapId, map.out)
    BY <2>7, <2>8 DEF Findable
  <2>10. Finds(f.copy.maps, map.mapId, map.out)
    BY <2>2, <2>9 DEF Readable, SameMeaning, Finds
  <2> QED BY <2>1, <2>8, <2>9, <2>10
<1>4. ASSUME NEW s \in Sources PROVE OutputMapsApart(src[s].all.maps)
  <2>1. src[s].all.maps \in MapsType BY <1>1 DEF Typed, SourceType, ReaderType
  <2>2. WellFormed(src[s].all.maps) BY <2>1, MapsWellFormed
  <2> QED BY <2>2, PackResolves
<1> QED BY <1>2, <1>3, <1>4 DEF MapsResolve

\* Every record in a file is read with the map it was written with: as long as no
\* exporter of the source withdrew all its templates beside others that have some,
\* the number of a map in use means its layout to the reader of one file, of all
\* files and of the copies, the layout it is written with begins with that of its
\* template, and in an output file of all of them no two maps in use share a
\* number.
THEOREM MapsStayResolved == Spec => []MapsResolve
<1>1. Init => MapsInv BY InitMaps
<1>2. MapsInv /\ [Next]_vars => MapsInv' BY MapsStep
<1>3. MapsInv => MapsResolve BY MapsSafe
<1> QED BY <1>1, <1>2, <1>3, PTL DEF Spec

-----------------------------------------------------------------------------
(* Exporters as they are read                                              *)

\* A reader has the exporter, and of each of its samplers one with its id.
Present(list, e) == /\ e.sysid \in DOMAIN list /\ list[e.sysid].dev = e.dev
                    /\ \A s \in e.samplers : \E x \in list[e.sysid].samplers : x.sampler.id = s.id

LEMMA Slot == ASSUME NEW list \in ExpsType, NEW i \in DOMAIN list
              PROVE  /\ i \in Nat /\ list[i] \in InfoType
                     /\ list[i].sysid \in Nat
<1>1. DOMAIN list \in SUBSET Nat /\ list[i] \in InfoType BY PartialIs DEF ExpsType
<1>2. list[i].sysid \in Nat BY <1>1 DEF InfoType
<1> QED BY <1>1, <1>2

\* AddExporterInfo, for the exporters a reader has.
LEMMA ExporterPresent ==
    ASSUME NEW list, NEW id \in Nat, NEW dev, MaxExporters \in Nat,
           NEW new, new = AddExporterInfo(list, id, dev)
    PROVE  /\ DOMAIN list \subseteq DOMAIN new
           /\ id < MaxExporters /\ FreeBehind(list, id) # {} => Known(new, id, dev)
           /\ id < MaxExporters /\ id \notin DOMAIN list => TakesFree(list, id, dev, new)
           /\ Known(list, id, dev) => new = list
           /\ \A e : Present(list, e) /\ (e.sysid = id => e.dev = dev) => Present(new, e)
<1>1. \/ new = list /\ Kept(list, id, dev)
      \/ TakesFree(list, id, dev, new)
      \/ \E i : TakesUsed(list, id, dev, new, i)
  BY AddExporterPlaces
<1>2. CASE new = list /\ Kept(list, id, dev)
  <2>1. id < MaxExporters => Known(list, id, dev) \/ (id \in DOMAIN list /\ FreeBehind(list, id) = {})
    BY <1>2 DEF Kept
  <2> QED BY <1>2, <2>1 DEF Known
<1>3. CASE TakesFree(list, id, dev, new)
  <2>1. /\ id \notin DOMAIN list /\ DOMAIN new = DOMAIN list \cup {id} /\ new[id].dev = dev
        /\ \A j \in DOMAIN list : new[j] = list[j]
    BY Zenon, <1>3 DEF TakesFree
  <2>2. Known(new, id, dev) /\ ~Known(list, id, dev) BY <2>1 DEF Known
  <2>3. \A e : Present(list, e) => Present(new, e) BY <2>1 DEF Present
  <2> QED BY Zenon, <1>3, <2>1, <2>2, <2>3
<1>4. CASE \E i : TakesUsed(list, id, dev, new, i)
  <2>1. PICK i : /\ id \in DOMAIN list /\ DOMAIN new = DOMAIN list \cup {i}
                 /\ new[id].dev = dev
                 /\ \A j \in DOMAIN list : j # id => new[j] = list[j]
    BY Zenon, <1>4 DEF TakesUsed
  <2>2. Known(new, id, dev) BY <2>1 DEF Known
  <2>3. Known(list, id, dev) => new = list BY DEF AddExporterInfo
  <2>4. ASSUME NEW e, Present(list, e), e.sysid = id => e.dev = dev PROVE Present(new, e)
    <3>1. CASE e.sysid = id
      <4>1. Known(list, id, dev) BY <2>4, <3>1 DEF Known, Present
      <4> QED BY <2>3, <2>4, <4>1
    <3>2. CASE e.sysid # id BY <2>1, <2>4, <3>2 DEF Present
    <3> QED BY <3>1, <3>2
  <2> QED BY Zenon, <2>1, <2>2, <2>3, <2>4
<1> QED BY Zenon, <1>1, <1>2, <1>3, <1>4

\* AddSamplerInfo: samplers are added to one exporter.
SamplerInfo(list, new, id, s) ==
    /\ DOMAIN new = DOMAIN list
    /\ \A i \in DOMAIN list : /\ new[i].dev = list[i].dev /\ new[i].sysid = list[i].sysid
                              /\ list[i].samplers \subseteq new[i].samplers
                              /\ i # id => new[i] = list[i]
    /\ id \in DOMAIN list => \A x \in new[id].samplers \ list[id].samplers : x.sampler = s
    /\ id \in DOMAIN list => \E x \in new[id].samplers : x.sampler = s

LEMMA SamplerInfoDoes ==
    ASSUME NEW list \in ExpsType, NEW id, NEW s, NEW new, new = AddSamplerInfo(list, id, s)
    PROVE  SamplerInfo(list, new, id, s) /\ (id \notin DOMAIN list => new = list)
<1>1. CASE id \notin DOMAIN list
  <2>1. new = list BY <1>1 DEF AddSamplerInfo
  <2> QED BY <1>1, <2>1 DEF SamplerInfo
<1>2. CASE id \in DOMAIN list /\ SamplerKnown(list, id, s)
  <2>1. new = list BY <1>2 DEF AddSamplerInfo
  <2>2. PICK x \in list[id].samplers : x = [sysid |-> id, sampler |-> s]
    BY <1>2 DEF SamplerKnown
  <2>3. x.sampler = s BY <2>2
  <2> QED BY <1>2, <2>1, <2>3 DEF SamplerInfo
<1>3. CASE id \in DOMAIN list /\ ~SamplerKnown(list, id, s)
  <2>1. list[id] \in InfoType BY <1>3, Slot
  <2>2. PICK x : x = [sysid |-> list[id].sysid, sampler |-> s] BY Zenon
  <2>3. PICK v : v = [list[id] EXCEPT !.samplers = @ \cup {x}] BY Zenon
  <2>4. /\ v.dev = list[id].dev /\ v.sysid = list[id].sysid
        /\ v.samplers = list[id].samplers \cup {x}
    BY <2>1, <2>3 DEF InfoType
  <2>5. new = [list EXCEPT ![id] = v] BY <1>3, <2>2, <2>3 DEF AddSamplerInfo
  <2>6. list \in [DOMAIN list -> InfoType] BY PartialIs DEF ExpsType
  <2>7. /\ DOMAIN new = DOMAIN list /\ new[id] = v
        /\ \A i \in DOMAIN list : i # id => new[i] = list[i]
    BY <1>3, <2>5, <2>6
  <2>8. x.sampler = s BY <2>2
  <2> QED BY <1>3, <2>4, <2>7, <2>8 DEF SamplerInfo
<1> QED BY <1>1, <1>2, <1>3

LEMMA SamplerPresent ==
    ASSUME NEW list, NEW new, NEW id, NEW s, SamplerInfo(list, new, id, s)
    PROVE  \A e : Present(list, e) => Present(new, e)
BY DEF SamplerInfo, Present

LEMMA NumberedSame ==
    ASSUME NEW list, NEW new, DOMAIN new = DOMAIN list, Numbered(list),
           \A i \in DOMAIN list : new[i].sysid = list[i].sysid
    PROVE  Numbered(new)
<1>1. {new[i].sysid : i \in DOMAIN new} = {list[i].sysid : i \in DOMAIN list} OBVIOUS
<1> QED BY <1>1 DEF Numbered

\* The reader of the copies has every exporter, under the number that the reader
\* of all files gives it, with all its samplers.
Copied(all, copy) ==
    /\ DOMAIN copy = DOMAIN all
    /\ \A i \in DOMAIN all :
          /\ copy[all[i].sysid].dev = all[i].dev
          /\ \A x \in all[i].samplers : \E y \in copy[all[i].sysid].samplers : y.sampler = x.sampler

LEMMA CopiedByExporter ==
    ASSUME NEW all, NEW copy, Copied(all, copy), Numbered(all), NEW id \in Nat, NEW dev,
           MaxExporters \in Nat,
           NEW new, new = AddExporterInfo(all, id, dev), NEW out,
           out = IF ExporterIsNew(all, id, dev) THEN AddExporterInfo(copy, new[id].sysid, dev)
                 ELSE copy
    PROVE  Copied(new, out)
<1>1. CASE new = all
  <2>1. out = copy BY <1>1 DEF ExporterIsNew
  <2> QED BY <1>1, <2>1
<1>2. CASE TakesFree(all, id, dev, new) /\ new # all
  <2>1. /\ id \notin DOMAIN all /\ DOMAIN new = DOMAIN all \cup {id} /\ new[id].sysid = id
        /\ new[id].dev = dev /\ new[id].samplers = {}
        /\ \A j \in DOMAIN all : new[j] = all[j]
    BY Zenon, <1>2 DEF TakesFree
  <2>2. out = AddExporterInfo(copy, id, dev) BY <1>2, <2>1 DEF ExporterIsNew
  <2>3. id < MaxExporters BY <1>2 DEF AddExporterInfo
  <2>4. DOMAIN copy = DOMAIN all BY DEF Copied
  <2>5. TakesFree(copy, id, dev, out) BY <2>1, <2>2, <2>3, <2>4, ExporterPresent
  <2>6. /\ DOMAIN out = DOMAIN copy \cup {id} /\ out[id].dev = dev
        /\ \A j \in DOMAIN copy : out[j] = copy[j]
    BY Zenon, <2>5 DEF TakesFree
  <2>7. ASSUME NEW i \in DOMAIN all
        PROVE  /\ out[new[i].sysid].dev = new[i].dev
               /\ \A x \in new[i].samplers : \E y \in out[new[i].sysid].samplers : y.sampler = x.sampler
    <3>1. all[i].sysid \in DOMAIN copy BY <2>4 DEF Numbered
    <3>2. out[new[i].sysid] = copy[all[i].sysid] BY <2>1, <2>6, <3>1
    <3> QED BY <2>1, <3>2 DEF Copied
  <2> QED BY <2>1, <2>4, <2>6, <2>7 DEF Copied
<1>3. ASSUME NEW k, TakesUsed(all, id, dev, new, k), new # all PROVE Copied(new, out)
  <2>1. /\ id \in DOMAIN all /\ k \notin DOMAIN all /\ DOMAIN new = DOMAIN all \cup {k}
        /\ k \in Nat /\ k < MaxExporters
        /\ new[id].sysid = k /\ new[id].dev = dev /\ new[id].samplers = {} /\ new[k] = all[id]
        /\ \A j \in DOMAIN all : j # id => new[j] = all[j]
    BY Zenon, <1>3 DEF TakesUsed
  <2>2. out = AddExporterInfo(copy, k, dev) BY <1>3, <2>1 DEF ExporterIsNew
  <2>4. DOMAIN copy = DOMAIN all BY DEF Copied
  <2>5. TakesFree(copy, k, dev, out) BY <2>1, <2>2, <2>4, ExporterPresent
  <2>6. /\ DOMAIN out = DOMAIN copy \cup {k} /\ out[k].dev = dev
        /\ \A j \in DOMAIN copy : out[j] = copy[j]
    BY Zenon, <2>5 DEF TakesFree
  <2>7. ASSUME NEW i \in DOMAIN all, NEW j, new[j] = all[i]
        PROVE  /\ out[new[j].sysid].dev = new[j].dev
               /\ \A x \in new[j].samplers : \E y \in out[new[j].sysid].samplers : y.sampler = x.sampler
    <3>1. all[i].sysid \in DOMAIN copy BY <2>4 DEF Numbered
    <3>2. out[new[j].sysid] = copy[all[i].sysid] BY <2>6, <2>7, <3>1
    <3> QED BY <2>7, <3>2 DEF Copied
  <2>8. ASSUME NEW j \in DOMAIN new
        PROVE  /\ out[new[j].sysid].dev = new[j].dev
               /\ \A x \in new[j].samplers : \E y \in out[new[j].sysid].samplers : y.sampler = x.sampler
    <3>1. CASE j = id BY <2>1, <2>6, <3>1
    <3>2. CASE j = k BY <2>1, <2>7, <3>2
    <3>3. CASE j \in DOMAIN all /\ j # id BY <2>1, <2>7, <3>3
    <3> QED BY <2>1, <3>1, <3>2, <3>3
  <2> QED BY <2>1, <2>4, <2>6, <2>8 DEF Copied
<1> QED BY <1>1, <1>2, <1>3, AddExporterPlaces

LEMMA CopiedBySampler ==
    ASSUME NEW all \in ExpsType, NEW copy \in ExpsType, Copied(all, copy), Numbered(all),
           NEW id, NEW s, NEW new, new = AddSamplerInfo(all, id, s), NEW out,
           out = IF new # all THEN AddSamplerInfo(copy, all[id].sysid, s) ELSE copy
    PROVE  Copied(new, out)
<1>1. CASE new = all BY <1>1
<1>2. CASE new # all
  <2>1. id \in DOMAIN all /\ SamplerInfo(all, new, id, s) BY <1>2, SamplerInfoDoes
  <2>2. PICK n : n = all[id].sysid OBVIOUS
  <2>3. SamplerInfo(copy, out, n, s) BY <1>2, <2>2, SamplerInfoDoes
  <2>4. DOMAIN copy = DOMAIN all BY DEF Copied
  <2>5. DOMAIN out = DOMAIN new BY <2>1, <2>3, <2>4 DEF SamplerInfo
  <2>6. ASSUME NEW i \in DOMAIN all
        PROVE  /\ out[new[i].sysid].dev = new[i].dev
               /\ \A x \in new[i].samplers : \E y \in out[new[i].sysid].samplers : y.sampler = x.sampler
    <3>1. PICK m : m = all[i].sysid OBVIOUS
    <3>2. m \in DOMAIN copy BY <2>4, <3>1 DEF Numbered
    <3>3. new[i].sysid = m /\ new[i].dev = all[i].dev BY <2>1, <3>1 DEF SamplerInfo
    <3>4. out[m].dev = copy[m].dev /\ copy[m].samplers \subseteq out[m].samplers
      BY <2>3, <3>2 DEF SamplerInfo
    <3>5. copy[m].dev = all[i].dev
          /\ \A x \in all[i].samplers : \E y \in copy[m].samplers : y.sampler = x.sampler
      BY <3>1 DEF Copied
    <3>6. ASSUME NEW x \in new[i].samplers PROVE \E y \in out[m].samplers : y.sampler = x.sampler
      <4>1. CASE x \in all[i].samplers BY <3>4, <3>5, <4>1
      <4>2. CASE x \notin all[i].samplers
        <5>1. i = id
          <6>1. i # id => new[i] = all[i] BY <2>1 DEF SamplerInfo
          <6> QED BY <4>2, <6>1
        <5>2. x.sampler = s BY <2>1, <4>2, <5>1 DEF SamplerInfo
        <5>3. n = m /\ n \in DOMAIN copy BY <2>2, <3>1, <3>2, <5>1
        <5>4. \E y \in out[n].samplers : y.sampler = s BY <2>3, <5>3 DEF SamplerInfo
        <5> QED BY <5>2, <5>3, <5>4
      <4> QED BY <4>1, <4>2
    <3> QED BY <3>3, <3>4, <3>5, <3>6
  <2> QED BY <2>1, <2>4, <2>5, <2>6 DEF Copied, SamplerInfo
<1> QED BY <1>1, <1>2

\* What is announced about exporters, and what the readers have of them, stays.
SameWho(e, x) == x.dev = e.dev /\ x.sysid = e.sysid
Steady(fs, g) ==
    /\ g.one.exps = fs.one.exps /\ g.all.exps = fs.all.exps /\ g.copy.exps = fs.copy.exps
    /\ g.opts = fs.opts /\ DOMAIN g.exps = DOMAIN fs.exps
    /\ \A k \in DOMAIN fs.exps :
          SameWho(fs.exps[k], g.exps[k]) /\ g.exps[k].samplers = fs.exps[k].samplers

LEMMA SteadySelf == ASSUME NEW fs PROVE Steady(fs, fs)
BY DEF Steady, SameWho

LEMMA SteadyChain == ASSUME NEW a, NEW b, NEW c, Steady(a, b), Steady(b, c) PROVE Steady(a, c)
BY DEF Steady, SameWho

LEMMA CacheSteady ==
    ASSUME NEW fs, NEW g, NEW k \in DOMAIN fs.exps, NEW c, CacheSet(fs, g, k, c)
    PROVE  Steady(fs, g)
<1>1. /\ g.opts = fs.opts /\ g.one = fs.one /\ g.all = fs.all /\ g.copy = fs.copy
      /\ DOMAIN g.exps = DOMAIN fs.exps
      /\ \A j \in DOMAIN fs.exps : j # k => g.exps[j] = fs.exps[j]
      /\ g.exps[k].dev = fs.exps[k].dev /\ g.exps[k].sysid = fs.exps[k].sysid
      /\ g.exps[k].samplers = fs.exps[k].samplers
  BY Zenon DEF CacheSet
<1> QED BY <1>1 DEF Steady, SameWho

LEMMA LookedUpSteady ==
    ASSUME NEW fs, Placed(fs), NEW k \in DOMAIN fs.exps, NEW id, NEW g, g = LookedUp(fs, k, id)
    PROVE  Steady(fs, g)
BY LookedUpDoes, CacheSteady

LEMMA RestSteady ==
    ASSUME NEW fs, NEW g, g.exps = fs.exps, g.opts = fs.opts, g.one.exps = fs.one.exps,
           g.all.exps = fs.all.exps, g.copy.exps = fs.copy.exps
    PROVE  Steady(fs, g)
BY DEF Steady, SameWho

LEMMA CountsSteady ==
    ASSUME NEW fs, NEW g, NEW k \in DOMAIN fs.exps, CountsOnly(fs, g, k)
    PROVE  Steady(fs, g)
<1>1. /\ g.opts = fs.opts /\ g.one = fs.one /\ g.all = fs.all /\ g.copy = fs.copy
      /\ DOMAIN g.exps = DOMAIN fs.exps
      /\ \A j \in DOMAIN fs.exps : j # k => g.exps[j] = fs.exps[j]
      /\ g.exps[k].dev = fs.exps[k].dev /\ g.exps[k].sysid = fs.exps[k].sysid
      /\ g.exps[k].samplers = fs.exps[k].samplers
  BY Zenon DEF CountsOnly, SameChain
<1> QED BY <1>1 DEF Steady, SameWho

LEMMA RecordSteady ==
    ASSUME NEW fs, Placed(fs), NEW k \in DOMAIN fs.exps, NEW t \in Live(fs, k),
           NEW g, g = AddRecord(fs, t)
    PROVE  Steady(fs, g)
<1>1. fs \in SourceType /\ t \in DOMAIN fs.heap /\ fs.heap[t].mapId \in Nat
  BY Zenon DEF Placed, Sound
<1>2. RecordAdded(fs, g, t) BY Zenon, <1>1, AddRecordDoes
<1>3. /\ g.exps = fs.exps /\ g.opts = fs.opts
      /\ g.one = fs.one /\ g.copy = fs.copy /\ g.all.exps = fs.all.exps
  BY Zenon, <1>2 DEF RecordAdded, SameRest
<1> QED BY <1>3, RestSteady

LEMMA MapSteady ==
    ASSUME NEW fs, NEW g, NEW t, MapWritten(fs, g, t) PROVE Steady(fs, g)
<1>1. /\ g.exps = fs.exps /\ g.opts = fs.opts
      /\ g.one.exps = fs.one.exps /\ g.all.exps = fs.all.exps /\ g.copy.exps = fs.copy.exps
  BY Zenon DEF MapWritten, SameRest
<1> QED BY <1>1, RestSteady

LEMMA AddMapSteady ==
    ASSUME NEW fs \in SourceType, NEW t \in DOMAIN fs.heap, NEW g, g = AddExtensionMap(fs, t)
    PROVE  Steady(fs, g)
<1>1. CASE MapWritten(fs, g, t) BY <1>1, MapSteady
<1>2. ASSUME NEW h, MapListed(fs, h, t), MapWritten(h, g, t) PROVE Steady(fs, g)
  <2>1. /\ h.exps = fs.exps /\ h.opts = fs.opts
        /\ h.one = fs.one /\ h.all = fs.all /\ h.copy = fs.copy
    BY Zenon, <1>2 DEF MapListed
  <2>2. Steady(fs, h) BY <2>1, RestSteady
  <2> QED BY <1>2, <2>2, MapSteady, SteadyChain
<1> QED BY <1>1, <1>2, AddMapDoes

LEMMA AllocatedSteady ==
    ASSUME NEW fs, NEW g, NEW k \in DOMAIN fs.exps, NEW t, NEW id, NEW ex,
           TableAllocated(fs, g, k, t, id, ex)
    PROVE  Steady(fs, g)
<1>1. /\ g.opts = fs.opts /\ g.one = fs.one /\ g.all = fs.all /\ g.copy = fs.copy
      /\ DOMAIN g.exps = DOMAIN fs.exps
      /\ \A j \in DOMAIN fs.exps : j # k => g.exps[j] = fs.exps[j]
      /\ g.exps[k].dev = fs.exps[k].dev /\ g.exps[k].sysid = fs.exps[k].sysid
      /\ g.exps[k].samplers = fs.exps[k].samplers
  BY Zenon DEF TableAllocated
<1> QED BY <1>1 DEF Steady, SameWho

LEMMA TemplateSteady ==
    ASSUME NEW fs, Placed(fs), NEW k \in DOMAIN fs.exps, NEW id \in TemplateIds, NEW ex \in Layout,
           NEW g, g = AddTemplate(fs, k, id, ex)
    PROVE  Steady(fs, g)
<1>1. PICK h : h = LookedUp(fs, k, id) OBVIOUS
<1>2. CacheSet(fs, h, k, Lookup(fs, k, id)) BY <1>1, LookedUpDoes
<1>3. h \in SourceType /\ h.heap = fs.heap /\ k \in DOMAIN h.exps BY Zenon, <1>2 DEF CacheSet
<1>4. Steady(fs, h) BY <1>2, CacheSteady
<1>5. CASE Lookup(fs, k, id) = 0
  <2>1. h.heap \in Seq(TableType) /\ NewTable(id, ex) \in TableType
    <3>1. NewTable(id, ex) \in TableType BY DEF NewTable, TableType, Layout, NoId
    <3> QED BY <1>3, <3>1, Parts
  <2>2. PICK t \in Nat : t = Len(h.heap) + 1 BY <2>1
  <2>3. PICK a : a = Allocated(h, k, t, id, ex) OBVIOUS
  <2>4. TableAllocated(h, a, k, t, id, ex)
    <3>1. id \in TemplateIds \cup {0} OBVIOUS
    <3> QED BY <1>3, <2>3, <3>1, AllocatedDoes
  <2>5. a \in SourceType /\ a.heap = Append(h.heap, NewTable(id, ex))
    BY Zenon, <2>4 DEF TableAllocated
  <2>6. t \in DOMAIN a.heap BY <2>1, <2>2, <2>5, AppendTyped
  <2>7. g = AddExtensionMap(a, t)
    BY <1>1, <1>3, <1>5, <2>2, <2>3 DEF AddTemplate, AddTable, Allocated
  <2>8. Steady(a, g) BY <2>5, <2>6, <2>7, AddMapSteady
  <2>9. Steady(h, a) BY <1>3, <2>4, AllocatedSteady
  <2> QED BY <1>4, <2>8, <2>9, SteadyChain
<1>6. CASE Lookup(fs, k, id) # 0
  <2>1. g = RefreshTable(fs, k, id, ex) BY <1>6 DEF AddTemplate
  <2>2. Refreshed(h, g, Lookup(fs, k, id), ex) BY <1>1, <1>6, <2>1, RefreshTableDoes
  <2>3. PICK f : Filled(h, f, Lookup(fs, k, id), ex) /\ (g = f \/ MapWritten(f, g, Lookup(fs, k, id)))
    BY Zenon, <2>2 DEF Refreshed
  <2>4. /\ f.exps = h.exps /\ f.opts = h.opts
        /\ f.one = h.one /\ f.all = h.all /\ f.copy = h.copy
    BY Zenon, <2>3 DEF Filled, SameRest
  <2>5. Steady(h, f) BY <2>4, RestSteady
  <2>6. Steady(f, g) BY <2>3, MapSteady, SteadySelf
  <2> QED BY <1>4, <2>5, <2>6, SteadyChain
<1> QED BY <1>5, <1>6

LEMMA DroppedSteady ==
    ASSUME NEW fs \in SourceType, NEW k \in DOMAIN fs.exps, NEW rest \in Seq(Nat), NEW c \in Nat,
           NEW list \in Seq(Nat), NEW T, NEW g, g = Dropped(fs, k, rest, c, list, T)
    PROVE  Steady(fs, g)
<1>1. /\ g.opts = fs.opts /\ g.one = fs.one /\ g.all = fs.all /\ g.copy = fs.copy
      /\ DOMAIN g.exps = DOMAIN fs.exps
      /\ \A j \in DOMAIN fs.exps : j # k => g.exps[j] = fs.exps[j]
      /\ g.exps[k].dev = fs.exps[k].dev /\ g.exps[k].sysid = fs.exps[k].sysid
      /\ g.exps[k].samplers = fs.exps[k].samplers
  BY DroppedDoes
<1> QED BY <1>1 DEF Steady, SameWho

LEMMA RemoveSteady ==
    ASSUME NEW fs, Placed(fs), NEW k \in DOMAIN fs.exps, NEW id, NEW g, g = RemoveTable(fs, k, id)
    PROVE  Steady(fs, g)
<1>1. CASE InChain(fs, k, id) = {}
  <2>1. g = fs BY <1>1 DEF RemoveTable
  <2> QED BY <2>1, SteadySelf
<1>2. CASE InChain(fs, k, id) # {}
  <2> DEFINE l == fs.exps[k].list
  <2>1. PICK i \in DOMAIN l : RemovedAt(fs, k, i, id, g) BY <1>2, RemoveTableDoes
  <2>2. PICK t : t = l[i] OBVIOUS
  <2>3. fs \in SourceType /\ fs.list \in Seq(Nat) /\ fs.exps[k] \in ExporterType
    BY Parts DEF Placed
  <2>4. l \in Seq(Nat) /\ fs.exps[k].cur \in Nat BY <2>3 DEF ExporterType
  <2>5. PICK m \in Nat : m = fs.heap[t].mapId BY Zenon, <2>1, <2>2 DEF RemovedAt
  <2>6. PICK list \in Seq(Nat) : list = Cleared(fs.list, m) BY Zenon, <2>3, ClearedIs
  <2>7. PICK rest \in Seq(Nat) : rest = Rest(l, i) BY <2>4, RestIs
  <2>8. PICK c \in Nat : c = IF fs.exps[k].cur = t THEN 0 ELSE fs.exps[k].cur BY <2>4
  <2>9. g = Dropped(fs, k, rest, c, list, {t})
    BY Zenon, <2>1, <2>2, <2>5, <2>6, <2>7, <2>8 DEF RemovedAt
  <2>10. PICK T : T = {t} OBVIOUS
  <2>11. fs \in SourceType /\ g = Dropped(fs, k, rest, c, list, T) BY <2>3, <2>9, <2>10
  <2> HIDE DEF l
  <2> QED BY <2>11, DroppedSteady
<1> QED BY <1>1, <1>2

LEMMA RemoveAllSteady ==
    ASSUME NEW fs \in SourceType, NEW k \in DOMAIN fs.exps, NEW g, g = RemoveAllTables(fs, k)
    PROVE  Steady(fs, g)
<1>1. PICK T : T = Range(fs.exps[k].list) OBVIOUS
<1>2. g = Dropped(fs, k, <<>>, 0, <<>>, T) BY <1>1, RemoveAllDoes
<1>3. <<>> \in Seq(Nat) /\ DOMAIN <<>> = {} OBVIOUS
<1>4. PICK e \in Seq(Nat) : e = <<>> /\ DOMAIN e = {} BY <1>3
<1>5. g = Dropped(fs, k, e, 0, e, T) BY <1>2, <1>4
<1> QED BY <1>5, DroppedSteady

LEMMA DataIpfixSteady ==
    ASSUME NEW fs, Placed(fs), NEW k \in DOMAIN fs.exps, NEW id, SeqWrap \in Nat \ {0},
           NEW g, g = DataIpfix(fs, k, id)
    PROVE  Steady(fs, g)
<1>1. PICK h : h = LookedUp(fs, k, id) OBVIOUS
<1>2. Placed(h) /\ k \in DOMAIN h.exps BY Zenon, <1>1, LookedUpMaps
<1>3. Steady(fs, h) BY <1>1, LookedUpSteady
<1>4. CASE Lookup(fs, k, id) # 0
  <2>1. PICK a : a = AddRecord(h, Lookup(fs, k, id)) OBVIOUS
  <2>2. Lookup(fs, k, id) \in Live(h, k) BY <1>1, <1>4, FoundInCache
  <2>3. Steady(h, a) BY Zenon, <1>2, <2>1, <2>2, RecordSteady
  <2>4. Alike(h, a) BY <1>2, <2>1, <2>2, RecordTouches DEF Placed
  <2>5. a \in SourceType /\ k \in DOMAIN a.exps BY <1>2, <2>4 DEF Alike
  <2>6. PICK n \in Nat : n = (fs.exps[k].seq + 1) % SeqWrap
    <3>1. fs.exps[k] \in ExporterType BY Parts DEF Placed
    <3>2. fs.exps[k].seq \in Nat BY <3>1 DEF ExporterType
    <3> QED BY <3>2
  <2>7. g = CountRecord(a, k, n)
    BY <1>1, <1>4, <2>1, <2>6 DEF DataIpfix, Decodable, CountRecord
  <2>8. Steady(a, g) BY <2>5, <2>7, CountRecordDoes, CountsSteady
  <2> QED BY <1>3, <2>3, <2>8, SteadyChain
<1>5. CASE Lookup(fs, k, id) = 0
  <2>1. g = h BY <1>1, <1>5 DEF DataIpfix, Decodable
  <2> QED BY <1>3, <2>1
<1> QED BY <1>4, <1>5

\* What readers know of the exporters of a source is in order, and an option
\* table has flags for the kind that came last.
OptsOk(fs) == \A id \in DOMAIN fs.opts : fs.opts[id].last \in fs.opts[id].flags
Lists(fs) == /\ Numbered(fs.one.exps) /\ Numbered(fs.all.exps)
             /\ Copied(fs.all.exps, fs.copy.exps) /\ OptsOk(fs)
In(fs, k) == Present(fs.one.exps, fs.exps[k]) /\ Present(fs.all.exps, fs.exps[k])

\* A step keeps the exporters, and what readers know of them.
SameSamplers(fs, g, k) == g.exps[k].samplers = fs.exps[k].samplers
Carries(fs, g) ==
    /\ DOMAIN g.exps = DOMAIN fs.exps /\ \A k \in DOMAIN fs.exps : SameWho(fs.exps[k], g.exps[k])
    /\ DOMAIN g.one.exps = DOMAIN fs.one.exps /\ DOMAIN g.all.exps = DOMAIN fs.all.exps
    /\ Lists(fs) => Lists(g)
    /\ \A k \in DOMAIN fs.exps : In(fs, k) => In(g, k)
OnlyAt(fs, g, k) == \A j \in DOMAIN fs.exps : j # k => SameSamplers(fs, g, j)

LEMMA CarriesChain ==
    ASSUME NEW a, NEW b, NEW c, Carries(a, b), Carries(b, c) PROVE Carries(a, c)
BY DEF Carries, SameWho

LEMMA PresentSame ==
    ASSUME NEW list, NEW e, NEW x, SameWho(e, x), x.samplers = e.samplers, Present(list, e)
    PROVE  Present(list, x)
BY DEF Present, SameWho

LEMMA SteadyCarries == ASSUME NEW fs, NEW g, Steady(fs, g)
                       PROVE  Carries(fs, g) /\ \A k \in DOMAIN fs.exps : SameSamplers(fs, g, k)
<1>1. /\ DOMAIN g.exps = DOMAIN fs.exps /\ g.opts = fs.opts
      /\ g.one.exps = fs.one.exps /\ g.all.exps = fs.all.exps /\ g.copy.exps = fs.copy.exps
      /\ \A k \in DOMAIN fs.exps :
            SameWho(fs.exps[k], g.exps[k]) /\ g.exps[k].samplers = fs.exps[k].samplers
  BY DEF Steady
<1>2. Lists(fs) => Lists(g) BY <1>1 DEF Lists, OptsOk
<1>3. \A k \in DOMAIN fs.exps : In(fs, k) => In(g, k) BY <1>1, PresentSame DEF In
<1> QED BY <1>1, <1>2, <1>3 DEF Carries, SameSamplers

LEMMA SamplerCarries ==
    ASSUME NEW fs \in SourceType, NEW e, NEW s, NEW g, SamplerWritten(fs, g, e, s)
    PROVE  /\ Carries(fs, g) /\ g.exps = fs.exps /\ g.opts = fs.opts
           /\ e.sysid \in DOMAIN fs.one.exps
                 => \E x \in g.one.exps[e.sysid].samplers : x.sampler = s
           /\ e.sysid \in DOMAIN fs.all.exps
                 => \E x \in g.all.exps[e.sysid].samplers : x.sampler = s
           /\ \A x : Present(fs.one.exps, x) => Present(g.one.exps, x)
           /\ \A x : Present(fs.all.exps, x) => Present(g.all.exps, x)
<1>1. /\ fs.one.exps \in ExpsType /\ fs.all.exps \in ExpsType /\ fs.copy.exps \in ExpsType
  BY Parts, ReaderParts
<1>2. g.exps = fs.exps /\ g.opts = fs.opts
  BY Zenon DEF SamplerWritten, ListsWritten, SameRest
<1>3. PICK n : n = e.sysid OBVIOUS
<1>4. PICK one, all, copy : one = fs.one.exps /\ all = fs.all.exps /\ copy = fs.copy.exps
  OBVIOUS
<1>5. /\ g.one.exps = AddSamplerInfo(one, n, s) /\ g.all.exps = AddSamplerInfo(all, n, s)
      /\ g.copy.exps = IF g.all.exps # all THEN AddSamplerInfo(copy, all[n].sysid, s) ELSE copy
  BY <1>3, <1>4 DEF SamplerWritten
<1>6. SamplerInfo(one, g.one.exps, n, s) BY <1>1, <1>4, <1>5, SamplerInfoDoes
<1>7. SamplerInfo(all, g.all.exps, n, s) BY <1>1, <1>4, <1>5, SamplerInfoDoes
<1>8. Numbered(one) => Numbered(g.one.exps) BY <1>6, NumberedSame DEF SamplerInfo
<1>9. Numbered(all) => Numbered(g.all.exps) BY <1>7, NumberedSame DEF SamplerInfo
<1>10. Copied(all, copy) /\ Numbered(all) => Copied(g.all.exps, g.copy.exps)
  BY <1>1, <1>4, <1>5, CopiedBySampler
<1>11. Lists(fs) => Lists(g) BY <1>2, <1>4, <1>8, <1>9, <1>10 DEF Lists, OptsOk
<1>15. /\ \A x : Present(one, x) => Present(g.one.exps, x)
       /\ \A x : Present(all, x) => Present(g.all.exps, x)
  BY <1>6, <1>7, SamplerPresent
<1>12. \A k \in DOMAIN fs.exps : In(fs, k) => In(g, k) BY <1>2, <1>4, <1>15 DEF In
<1>13. DOMAIN g.one.exps = DOMAIN fs.one.exps /\ DOMAIN g.all.exps = DOMAIN fs.all.exps
  BY <1>4, <1>6, <1>7 DEF SamplerInfo
<1>14. Carries(fs, g) BY <1>2, <1>11, <1>12, <1>13 DEF Carries, SameWho
<1> QED BY <1>2, <1>3, <1>4, <1>6, <1>7, <1>14, <1>15 DEF SamplerInfo

\* The samplers of one exporter are others.
Resampled(fs, g, k, S) ==
    /\ DOMAIN g.exps = DOMAIN fs.exps /\ g.opts = fs.opts
    /\ g.one.exps = fs.one.exps /\ g.all.exps = fs.all.exps /\ g.copy.exps = fs.copy.exps
    /\ \A j \in DOMAIN fs.exps : j # k => g.exps[j] = fs.exps[j]
    /\ g.exps[k].dev = fs.exps[k].dev /\ g.exps[k].sysid = fs.exps[k].sysid
    /\ g.exps[k].samplers = S
HasId(list, id, s) == \E x \in list[id].samplers : x.sampler.id = s.id

LEMMA ResampledCarries ==
    ASSUME NEW fs, NEW k \in DOMAIN fs.exps, NEW S, NEW g, Resampled(fs, g, k, S),
           In(fs, k) => \A s \in S : /\ HasId(fs.one.exps, fs.exps[k].sysid, s)
                                     /\ HasId(fs.all.exps, fs.exps[k].sysid, s)
    PROVE  Carries(fs, g) /\ OnlyAt(fs, g, k) /\ g.exps[k].samplers = S /\ g.opts = fs.opts
<1>1. /\ DOMAIN g.exps = DOMAIN fs.exps /\ g.opts = fs.opts
      /\ g.one.exps = fs.one.exps /\ g.all.exps = fs.all.exps /\ g.copy.exps = fs.copy.exps
      /\ \A j \in DOMAIN fs.exps : j # k => g.exps[j] = fs.exps[j]
      /\ g.exps[k].dev = fs.exps[k].dev /\ g.exps[k].sysid = fs.exps[k].sysid
      /\ g.exps[k].samplers = S
  BY Zenon DEF Resampled
<1>2. Lists(fs) => Lists(g) BY <1>1 DEF Lists, OptsOk
<1>3. In(fs, k) => In(g, k) BY <1>1 DEF In, Present, HasId
<1>4. \A j \in DOMAIN fs.exps : j # k /\ In(fs, j) => In(g, j) BY <1>1 DEF In
<1>5. \A j \in DOMAIN fs.exps : SameWho(fs.exps[j], g.exps[j]) BY <1>1 DEF SameWho
<1>6. Carries(fs, g) BY <1>1, <1>3, <1>4, <1>2, <1>5 DEF Carries
<1> QED BY <1>1, <1>6 DEF OnlyAt, SameSamplers

\* A sampler with the id is replaced.
Retold(S, id, rate) == {x \in S : x.id # id} \cup {[id |-> id, rate |-> rate]}
SaidOne(S) == \A x, y \in S : x.id = y.id => x = y

LEMMA RetoldOne == ASSUME NEW S, NEW id, NEW rate, SaidOne(S) PROVE SaidOne(Retold(S, id, rate))
<1>1. PICK s : s = [id |-> id, rate |-> rate] BY Zenon
<1>2. s.id = id BY <1>1
<1> QED BY <1>1, <1>2 DEF SaidOne, Retold

SamplerRead(fs, g, k) == g \in SourceType /\ Carries(fs, g) /\ OnlyAt(fs, g, k) /\ g.opts = fs.opts

LEMMA ReadSelf == ASSUME NEW fs \in SourceType, NEW k PROVE SamplerRead(fs, fs, k)
BY DEF SamplerRead, Carries, OnlyAt, SameWho, SameSamplers

LEMMA ReadChain == ASSUME NEW a, NEW b, NEW c, NEW k, SamplerRead(a, b, k), SamplerRead(b, c, k)
                   PROVE  SamplerRead(a, c, k)
<1>1. Carries(a, c) BY CarriesChain DEF SamplerRead
<1>2. OnlyAt(a, c, k) BY DEF SamplerRead, Carries, OnlyAt, SameSamplers
<1> QED BY <1>1, <1>2 DEF SamplerRead

LEMMA InsertReads ==
    ASSUME NEW fs \in SourceType, NEW k \in DOMAIN fs.exps,
           NEW id \in {NoId, 0, 1}, NEW rate \in Rates \cup {Junk},
           NEW g, g = InsertSampler(fs, k, id, rate)
    PROVE  /\ SamplerRead(fs, g, k)
           /\ SaidOne(fs.exps[k].samplers)
                 => g.exps[k].samplers = Retold(fs.exps[k].samplers, id, rate)
<1> DEFINE e == fs.exps[k]
           old == {x \in e.samplers : x.id = id}
<1>0. g \in SourceType BY InsertSamplerAlike DEF Alike
<1>1. PICK s : s = [id |-> id, rate |-> rate] BY Zenon
<1>2. s \in Samplers /\ s.id = id BY <1>1 DEF Samplers
<1>3. fs.exps[k] \in ExporterType BY Parts
<1>4. /\ e.sysid \in Nat /\ e.samplers \in SUBSET Samplers /\ IsFiniteSet(e.samplers)
  BY <1>3 DEF ExporterType
<1>5. PICK T : T = e.samplers \cup {s} BY Zenon
<1>6. T \in SUBSET Samplers /\ IsFiniteSet(T) BY <1>2, <1>4, <1>5, FS_AddElement
<1>7. CASE old = {}
  <2>1. PICK h : h = SamplersSet(fs, k, T) OBVIOUS
  <2>2. SamplersOnly(fs, h, k, T) BY <1>6, <2>1, SamplersSetDoes
  <2>3. /\ h \in SourceType /\ h.one = fs.one /\ h.all = fs.all /\ h.copy = fs.copy
        /\ h.opts = fs.opts /\ DOMAIN h.exps = DOMAIN fs.exps
        /\ \A j \in DOMAIN fs.exps : j # k => h.exps[j] = fs.exps[j]
        /\ h.exps[k].dev = fs.exps[k].dev /\ h.exps[k].sysid = fs.exps[k].sysid
        /\ h.exps[k].samplers = T
    BY Zenon, <2>2 DEF SamplersOnly, SameChain
  <2>4. g = WriteSampler(h, e, s) BY <1>1, <1>5, <1>7, <2>1 DEF InsertSampler, SamplersSet
  <2>5. PICK u : u = WriteSampler(fs, e, s) OBVIOUS
  <2>6. SamplerWritten(fs, u, e, s) /\ u \in SourceType
    BY <1>2, <1>4, <2>5, WriteSamplerDoes DEF SamplerWritten, ListsWritten
  <2>7. SamplerWritten(h, g, e, s) BY <1>2, <1>4, <2>3, <2>4, WriteSamplerDoes
  <2>8. g.exps = h.exps /\ g.opts = h.opts /\ u.exps = fs.exps /\ u.opts = fs.opts
    BY Zenon, <2>6, <2>7 DEF SamplerWritten, ListsWritten, SameRest
  <2>9. g.one.exps = u.one.exps /\ g.all.exps = u.all.exps /\ g.copy.exps = u.copy.exps
    BY <2>3, <2>6, <2>7 DEF SamplerWritten
  <2>10. Resampled(u, g, k, T) BY <2>3, <2>8, <2>9 DEF Resampled
  <2>11. /\ Carries(fs, u)
         /\ e.sysid \in DOMAIN fs.one.exps => HasId(u.one.exps, e.sysid, s)
         /\ e.sysid \in DOMAIN fs.all.exps => HasId(u.all.exps, e.sysid, s)
    BY <2>6, SamplerCarries DEF HasId
  <2>12. ASSUME In(u, k), NEW x \in T
         PROVE  /\ HasId(u.one.exps, u.exps[k].sysid, x)
                /\ HasId(u.all.exps, u.exps[k].sysid, x)
    <3>1. CASE x = s
      <4>1. e.sysid \in DOMAIN u.one.exps /\ e.sysid \in DOMAIN u.all.exps
        BY <2>8, <2>12 DEF In, Present
      <4> QED BY <2>8, <2>11, <3>1, <4>1 DEF Carries
    <3>2. CASE x \in e.samplers BY <2>8, <2>12, <3>2 DEF In, Present, HasId
    <3> QED BY <1>5, <3>1, <3>2
  <2>13. /\ Carries(u, g) /\ OnlyAt(u, g, k) /\ g.exps[k].samplers = T
         /\ k \in DOMAIN u.exps
    BY <2>8, <2>10, <2>12, ResampledCarries
  <2>14. Carries(fs, g) /\ OnlyAt(fs, g, k)
    BY <2>8, <2>11, <2>13, CarriesChain DEF OnlyAt, SameSamplers
  <2>15. g.opts = fs.opts BY <2>3, <2>8
  <2>16. T = Retold(e.samplers, id, rate)
    <3>1. e.samplers = {x \in e.samplers : x.id # id} BY <1>7
    <3> QED BY <1>1, <1>5, <3>1 DEF Retold
  <2> QED BY <1>0, <2>13, <2>14, <2>15, <2>16 DEF SamplerRead
<1>8. CASE s \in old
  <2>1. g = fs BY <1>1, <1>8 DEF InsertSampler
  <2>2. SaidOne(e.samplers) => e.samplers = Retold(e.samplers, id, rate)
    BY <1>1, <1>2, <1>8 DEF SaidOne, Retold
  <2> QED BY <2>1, <2>2, ReadSelf
<1>9. CASE old # {} /\ s \notin old
  <2>1. PICK o \in old : o = CHOOSE x \in old : TRUE BY <1>9
  <2>2. PICK u : u = WriteSampler(fs, e, o) OBVIOUS
  <2>3. SamplerWritten(fs, u, e, o) /\ u \in SourceType
    <3>1. o \in Samplers BY <1>4
    <3> QED BY <1>4, <2>2, <3>1, WriteSamplerDoes DEF SamplerWritten, ListsWritten
  <2>4. Carries(fs, u) /\ u.exps = fs.exps /\ u.opts = fs.opts BY <2>3, SamplerCarries
  <2>5. PICK U : U = (e.samplers \ old) \cup {s} BY Zenon
  <2>6. U \in SUBSET Samplers /\ IsFiniteSet(U)
    <3>1. U \subseteq T BY <1>5, <2>5
    <3> QED BY <1>6, <3>1, FS_Subset
  <2>7. g = SamplersSet(u, k, U)
    <3>1. g = [u EXCEPT !.exps[k].samplers = (u.exps[k].samplers \ old) \cup {s}]
      BY Zenon, <1>1, <1>9, <2>1, <2>2 DEF InsertSampler
    <3> QED BY <2>4, <2>5, <3>1 DEF SamplersSet
  <2>8. SamplersOnly(u, g, k, U) BY <2>3, <2>4, <2>6, <2>7, SamplersSetDoes
  <2>9. Resampled(u, g, k, U) BY Zenon, <2>8 DEF SamplersOnly, SameChain, Resampled
  <2>10. ASSUME In(u, k), NEW x \in U
         PROVE  /\ HasId(u.one.exps, u.exps[k].sysid, x)
                /\ HasId(u.all.exps, u.exps[k].sysid, x)
    <3>1. PICK y \in e.samplers : y.id = x.id BY <1>2, <2>1, <2>5
    <3> QED BY <2>4, <2>10, <3>1 DEF In, Present, HasId
  <2>11. Carries(u, g) /\ OnlyAt(u, g, k) /\ g.exps[k].samplers = U /\ g.opts = fs.opts
    BY <2>4, <2>9, <2>10, ResampledCarries
  <2>12. Carries(fs, g) /\ OnlyAt(fs, g, k)
    BY <2>4, <2>11, CarriesChain DEF OnlyAt, SameSamplers
  <2>13. U = Retold(e.samplers, id, rate) BY <1>1, <2>5 DEF Retold
  <2> QED BY <1>0, <2>11, <2>12, <2>13 DEF SamplerRead
<1> QED BY <1>7, <1>8, <1>9

LEMMA ReadReads ==
    ASSUME NEW fs \in SourceType, NEW k \in DOMAIN fs.exps, NEW id, NEW kind \in Kinds,
           NEW rate \in Rates, NEW g, g = ReadSampler(fs, k, id, kind, rate)
    PROVE  /\ SamplerRead(fs, g, k)
           /\ kind \notin OptionTable(fs, id) => g = fs
           /\ (kind \in OptionTable(fs, id) /\ fs.opts[id].last = kind
                 /\ SaidOne(fs.exps[k].samplers))
                 => g.exps[k].samplers = Retold(fs.exps[k].samplers, SamplerId(kind), rate)
<1>1. PICK i \in {NoId, 0, 1} : i = SamplerId(kind) BY DEF SamplerId
<1>2. CASE kind \notin OptionTable(fs, id)
  <2>1. g = fs BY <1>2 DEF ReadSampler
  <2>2. SamplerRead(fs, g, k) BY <2>1, ReadSelf
  <2> QED BY <1>2, <2>1, <2>2
<1>3. CASE kind \in OptionTable(fs, id) /\ fs.opts[id].last = kind
  <2>1. g = InsertSampler(fs, k, i, rate) BY <1>1, <1>3 DEF ReadSampler
  <2>2. rate \in Rates \cup {Junk} OBVIOUS
  <2>3. /\ SamplerRead(fs, g, k)
        /\ SaidOne(fs.exps[k].samplers)
              => g.exps[k].samplers = Retold(fs.exps[k].samplers, i, rate)
    BY <2>1, <2>2, InsertReads
  <2> QED BY <1>1, <1>3, <2>3
<1>4. CASE kind \in OptionTable(fs, id) /\ fs.opts[id].last # kind
  <2>1. PICK j \in {NoId, 0, 1} : j = IF kind = "std" THEN NoId ELSE Junk BY DEF Junk
  <2>2. g = InsertSampler(fs, k, j, Junk) BY <1>4, <2>1 DEF ReadSampler
  <2>3. SamplerRead(fs, g, k) BY <2>2, InsertReads
  <2> QED BY <1>4, <2>3
<1> QED BY <1>2, <1>3, <1>4

LEMMA OptionsRead ==
    ASSUME NEW fs \in SourceType, NEW k \in DOMAIN fs.exps, NEW id, NEW rate \in Rates,
           NEW g, g = OptionData(fs, k, id, rate)
    PROVE  /\ SamplerRead(fs, g, k)
           /\ OptionTable(fs, id) = {} => g = fs
           /\ \A kind \in Kinds :
                 OptionTable(fs, id) = {kind} /\ OptsOk(fs) /\ SaidOne(fs.exps[k].samplers)
                    => g.exps[k].samplers = Retold(fs.exps[k].samplers, SamplerId(kind), rate)
<1>1. PICK h : h = ReadSampler(fs, k, id, "sampler", rate) OBVIOUS
<1>2. "sampler" \in Kinds /\ "std" \in Kinds BY DEF Kinds
<1>3. /\ SamplerRead(fs, h, k)
      /\ "sampler" \notin OptionTable(fs, id) => h = fs
      /\ ("sampler" \in OptionTable(fs, id) /\ fs.opts[id].last = "sampler"
            /\ SaidOne(fs.exps[k].samplers))
            => h.exps[k].samplers = Retold(fs.exps[k].samplers, SamplerId("sampler"), rate)
  BY <1>1, <1>2, ReadReads
<1>4. h \in SourceType /\ k \in DOMAIN h.exps BY <1>3 DEF SamplerRead, Carries
<1>5. h.opts = fs.opts /\ OptionTable(h, id) = OptionTable(fs, id)
  BY <1>3 DEF SamplerRead, OptionTable
<1>6. g = ReadSampler(h, k, id, "std", rate) BY <1>1 DEF OptionData
<1>7. /\ SamplerRead(h, g, k)
      /\ "std" \notin OptionTable(h, id) => g = h
      /\ ("std" \in OptionTable(h, id) /\ h.opts[id].last = "std"
            /\ SaidOne(h.exps[k].samplers))
            => g.exps[k].samplers = Retold(h.exps[k].samplers, SamplerId("std"), rate)
  BY <1>2, <1>4, <1>6, ReadReads
<1>8. SamplerRead(fs, g, k) BY <1>3, <1>7, ReadChain
<1>9. ASSUME NEW kind \in Kinds, OptionTable(fs, id) = {kind}, OptsOk(fs),
             SaidOne(fs.exps[k].samplers)
      PROVE  g.exps[k].samplers = Retold(fs.exps[k].samplers, SamplerId(kind), rate)
  <2>1. fs.opts[id].last = kind BY <1>9 DEF OptionTable, OptsOk
  <2>2. CASE kind = "sampler" BY <1>3, <1>5, <1>7, <1>9, <2>1, <2>2
  <2>3. CASE kind = "std" BY <1>3, <1>5, <1>7, <1>9, <2>1, <2>3
  <2> QED BY <2>2, <2>3 DEF Kinds
<1> QED BY <1>3, <1>5, <1>7, <1>8, <1>9

LEMMA OffsetCarries ==
    ASSUME NEW fs \in SourceType, NEW id \in TemplateIds, NEW kind \in Kinds,
           NEW g, g = InsertOffset(fs, id, kind)
    PROVE  Carries(fs, g) /\ g.exps = fs.exps
<1>1. PICK v : v = [flags |-> OptionTable(fs, id) \cup {kind}, last |-> kind] BY Zenon
<1>2. PICK o : o = Put(fs.opts, id, v) BY Zenon
<1>3. g = [fs EXCEPT !.opts = o] BY <1>1, <1>2 DEF InsertOffset
<1>4. /\ g.exps = fs.exps /\ g.one = fs.one /\ g.all = fs.all /\ g.copy = fs.copy /\ g.opts = o
  BY Zenon, <1>3 DEF SourceType
<1>5. v.last \in v.flags BY <1>1
<1>6. OptsOk(fs) => OptsOk(g) BY <1>2, <1>4, <1>5 DEF OptsOk, Put
<1>7. Lists(fs) => Lists(g) BY <1>4, <1>6 DEF Lists
<1> QED BY <1>4, <1>7 DEF Carries, SameWho, In

\* What a data set of v9 does to the samplers of its exporter.
LEMMA DataV9Carries ==
    ASSUME NEW fs, Placed(fs), NEW k \in DOMAIN fs.exps, NEW id, NEW rate \in Rates,
           NEW g, g = DataV9(fs, k, id, rate)
    PROVE  /\ Carries(fs, g) /\ OnlyAt(fs, g, k)
           /\ Lookup(fs, k, id) # 0 \/ OptionTable(fs, id) = {} => SameSamplers(fs, g, k)
           /\ \A kind \in Kinds :
                 (Lookup(fs, k, id) = 0 /\ OptionTable(fs, id) = {kind} /\ OptsOk(fs)
                    /\ SaidOne(fs.exps[k].samplers))
                 => g.exps[k].samplers = Retold(fs.exps[k].samplers, SamplerId(kind), rate)
<1>1. PICK h : h = LookedUp(fs, k, id) OBVIOUS
<1>2. Placed(h) /\ k \in DOMAIN h.exps BY Zenon, <1>1, LookedUpMaps
<1>3. Steady(fs, h) BY <1>1, LookedUpSteady
<1>4. CASE Lookup(fs, k, id) # 0
  <2>1. g = AddRecord(h, Lookup(fs, k, id)) BY <1>1, <1>4 DEF DataV9, Decodable
  <2>2. Lookup(fs, k, id) \in Live(h, k) BY <1>1, <1>4, FoundInCache
  <2>3. Steady(h, g) BY Zenon, <1>2, <2>1, <2>2, RecordSteady
  <2>4. Steady(fs, g) BY <1>3, <2>3, SteadyChain
  <2> QED BY <1>4, <2>4, SteadyCarries DEF OnlyAt
<1>5. CASE Lookup(fs, k, id) = 0
  <2>1. g = OptionData(h, k, id, rate) BY <1>1, <1>5 DEF DataV9, Decodable
  <2>2. h \in SourceType BY <1>2 DEF Placed
  <2>3. h.opts = fs.opts /\ SameSamplers(fs, h, k) /\ \A j \in DOMAIN fs.exps : SameSamplers(fs, h, j)
    BY <1>3, SteadyCarries DEF Steady
  <2>4. OptionTable(h, id) = OptionTable(fs, id) /\ (OptsOk(fs) => OptsOk(h))
    BY <2>3 DEF OptionTable, OptsOk
  <2>5. /\ SamplerRead(h, g, k)
        /\ OptionTable(h, id) = {} => g = h
        /\ \A kind \in Kinds :
              OptionTable(h, id) = {kind} /\ OptsOk(h) /\ SaidOne(h.exps[k].samplers)
                 => g.exps[k].samplers = Retold(h.exps[k].samplers, SamplerId(kind), rate)
    BY <1>2, <2>1, <2>2, OptionsRead
  <2>6. Carries(fs, g) BY <1>3, <2>5, SteadyCarries, CarriesChain DEF SamplerRead
  <2>7. OnlyAt(fs, g, k)
    BY <1>3, <2>3, <2>5, SteadyCarries DEF SamplerRead, Carries, OnlyAt, SameSamplers
  <2>8. OptionTable(fs, id) = {} => SameSamplers(fs, g, k) BY <2>3, <2>4, <2>5 DEF SameSamplers
  <2>9. ASSUME NEW kind \in Kinds, OptionTable(fs, id) = {kind}, OptsOk(fs),
               SaidOne(fs.exps[k].samplers)
        PROVE  g.exps[k].samplers = Retold(fs.exps[k].samplers, SamplerId(kind), rate)
    <3>1. h.exps[k].samplers = fs.exps[k].samplers BY <2>3 DEF SameSamplers
    <3> QED BY <2>4, <2>5, <2>9, <3>1
  <2> QED BY <1>5, <2>6, <2>7, <2>8, <2>9
<1> QED BY <1>4, <1>5

LEMMA ExporterLists ==
    ASSUME NEW fs \in SourceType, NEW e, e.sysid \in Nat, MaxExporters \in Nat,
           NEW g, ExporterWritten(fs, g, e)
    PROVE  /\ g.exps = fs.exps /\ g.opts = fs.opts /\ (Lists(fs) => Lists(g))
           /\ DOMAIN fs.all.exps \subseteq DOMAIN g.all.exps
           /\ g.one.exps = AddExporterInfo(fs.one.exps, e.sysid, e.dev)
           /\ g.all.exps = AddExporterInfo(fs.all.exps, e.sysid, e.dev)
<1>1. g.exps = fs.exps /\ g.opts = fs.opts
  BY Zenon DEF ExporterWritten, ListsWritten, SameRest
<1>2. PICK n \in Nat : n = e.sysid OBVIOUS
<1>3. PICK d : d = e.dev OBVIOUS
<1>4. PICK one, all, copy : one = fs.one.exps /\ all = fs.all.exps /\ copy = fs.copy.exps
  OBVIOUS
<1>5. /\ g.one.exps = AddExporterInfo(one, n, d) /\ g.all.exps = AddExporterInfo(all, n, d)
      /\ g.copy.exps = IF ExporterIsNew(all, n, d)
                       THEN AddExporterInfo(copy, g.all.exps[n].sysid, d) ELSE copy
  BY <1>2, <1>3, <1>4 DEF ExporterWritten
<1>6. PICK x : x = g.all.exps OBVIOUS
<1>7. x = AddExporterInfo(all, n, d) BY <1>5, <1>6
<1>8. PICK y : y = IF ExporterIsNew(all, n, d) THEN AddExporterInfo(copy, x[n].sysid, d) ELSE copy
  OBVIOUS
<1>9. g.copy.exps = y BY <1>5, <1>6, <1>8
<1>10. Numbered(one) => Numbered(g.one.exps) BY <1>5, NumberedStays
<1>11. Numbered(all) => Numbered(x) BY <1>7, NumberedStays
<1>12. Numbered(all) /\ Copied(all, copy) => Copied(x, y) BY <1>7, <1>8, CopiedByExporter
<1>13. Lists(fs) => Lists(g)
  BY <1>1, <1>4, <1>6, <1>9, <1>10, <1>11, <1>12 DEF Lists, OptsOk
<1>14. DOMAIN all \subseteq DOMAIN x BY <1>7, ExporterPresent
<1> QED BY <1>1, <1>2, <1>3, <1>4, <1>5, <1>6, <1>13, <1>14

\* Room for an exporter with number n, in a file that has no other with it.
HasRoom(fs, n) == /\ n < MaxExporters /\ FreeBehind(fs.all.exps, n) # {}
                  /\ n \notin DOMAIN fs.one.exps

\* Exporter dev was added at k, with number n.
First == [id |-> NoId, rate |-> 1]
Admits(fs, g, k, dev, n) ==
    /\ k \notin DOMAIN fs.exps /\ DOMAIN g.exps = DOMAIN fs.exps \cup {k}
    /\ \A j \in DOMAIN fs.exps : SameWho(fs.exps[j], g.exps[j]) /\ SameSamplers(fs, g, j)
    /\ g.exps[k].dev = dev /\ g.exps[k].sysid = n
    /\ g.exps[k].samplers = IF dev \in V5 THEN {First} ELSE {}
    /\ g.opts = fs.opts /\ (Lists(fs) => Lists(g))
    /\ DOMAIN fs.all.exps \subseteq DOMAIN g.all.exps
    /\ HasRoom(fs, n) => /\ DOMAIN g.one.exps = DOMAIN fs.one.exps \cup {n} /\ In(g, k)
                         /\ \A j \in DOMAIN fs.exps : In(fs, j) => In(g, j)

LEMMA AdmitsSteady ==
    ASSUME NEW fs, NEW g, NEW h, NEW k, NEW dev, NEW n, Admits(fs, g, k, dev, n), Steady(g, h)
    PROVE  Admits(fs, h, k, dev, n)
<1>1. /\ h.one.exps = g.one.exps /\ h.all.exps = g.all.exps /\ h.opts = g.opts
      /\ DOMAIN h.exps = DOMAIN g.exps
      /\ \A j \in DOMAIN g.exps : SameWho(g.exps[j], h.exps[j]) /\ SameSamplers(g, h, j)
  BY DEF Steady, SameSamplers
<1>2. Carries(g, h) BY SteadyCarries
<1>3. /\ k \notin DOMAIN fs.exps /\ DOMAIN g.exps = DOMAIN fs.exps \cup {k}
      /\ \A j \in DOMAIN fs.exps : SameWho(fs.exps[j], g.exps[j]) /\ SameSamplers(fs, g, j)
      /\ g.exps[k].dev = dev /\ g.exps[k].sysid = n
      /\ g.exps[k].samplers = IF dev \in V5 THEN {First} ELSE {}
      /\ g.opts = fs.opts /\ (Lists(fs) => Lists(g))
      /\ DOMAIN fs.all.exps \subseteq DOMAIN g.all.exps
  BY Zenon DEF Admits
<1>4. \A j \in DOMAIN fs.exps : SameWho(fs.exps[j], h.exps[j]) /\ SameSamplers(fs, h, j)
  BY <1>1, <1>3 DEF SameWho, SameSamplers
<1>5. /\ h.exps[k].dev = dev /\ h.exps[k].sysid = n
      /\ h.exps[k].samplers = IF dev \in V5 THEN {First} ELSE {}
  BY <1>1, <1>3 DEF SameWho, SameSamplers
<1>6. HasRoom(fs, n) => /\ DOMAIN h.one.exps = DOMAIN fs.one.exps \cup {n} /\ In(h, k)
                        /\ \A j \in DOMAIN fs.exps : In(fs, j) => In(h, j)
  BY <1>1, <1>2, <1>3 DEF Admits, Carries
<1> QED BY <1>1, <1>2, <1>3, <1>4, <1>5, <1>6 DEF Admits, Carries

LEMMA SteadyAdmits ==
    ASSUME NEW fs, NEW g, NEW h, NEW k, NEW dev, NEW n, Steady(fs, g), Admits(g, h, k, dev, n)
    PROVE  Admits(fs, h, k, dev, n)
<1>1. /\ g.one.exps = fs.one.exps /\ g.all.exps = fs.all.exps /\ g.opts = fs.opts
      /\ DOMAIN g.exps = DOMAIN fs.exps
      /\ \A j \in DOMAIN fs.exps : SameWho(fs.exps[j], g.exps[j]) /\ SameSamplers(fs, g, j)
  BY DEF Steady, SameSamplers
<1>2. Carries(fs, g) BY SteadyCarries
<1>3. HasRoom(fs, n) => HasRoom(g, n) BY <1>1 DEF HasRoom
<1>4. /\ k \notin DOMAIN g.exps /\ DOMAIN h.exps = DOMAIN g.exps \cup {k}
      /\ \A j \in DOMAIN g.exps : SameWho(g.exps[j], h.exps[j]) /\ SameSamplers(g, h, j)
      /\ h.exps[k].dev = dev /\ h.exps[k].sysid = n
      /\ h.exps[k].samplers = IF dev \in V5 THEN {First} ELSE {}
      /\ h.opts = g.opts /\ (Lists(g) => Lists(h))
      /\ DOMAIN g.all.exps \subseteq DOMAIN h.all.exps
  BY Zenon DEF Admits
<1>5. \A j \in DOMAIN fs.exps : SameWho(fs.exps[j], h.exps[j]) /\ SameSamplers(fs, h, j)
  BY <1>1, <1>4 DEF SameWho, SameSamplers
<1>6. HasRoom(fs, n) => /\ DOMAIN h.one.exps = DOMAIN fs.one.exps \cup {n} /\ In(h, k)
                        /\ \A j \in DOMAIN fs.exps : In(fs, j) => In(h, j)
  BY <1>1, <1>2, <1>3 DEF Admits, Carries
<1> QED BY <1>1, <1>2, <1>4, <1>5, <1>6 DEF Admits, Carries

\* An exporter is appended, and written to the file.
Enlisted(fs, f, e, k) ==
    /\ k \notin DOMAIN fs.exps /\ DOMAIN f.exps = DOMAIN fs.exps \cup {k} /\ f.exps[k] = e
    /\ \A j \in DOMAIN fs.exps : f.exps[j] = fs.exps[j]
    /\ f.opts = fs.opts
    /\ f.one.exps = fs.one.exps /\ f.all.exps = fs.all.exps /\ f.copy.exps = fs.copy.exps

LEMMA ExporterAdmitted ==
    ASSUME NEW fs, NEW f \in SourceType, NEW e \in ExporterType, NEW k, Enlisted(fs, f, e, k),
           MaxExporters \in Nat, NEW g, ExporterWritten(f, g, e)
    PROVE  /\ g.exps = f.exps /\ g.opts = fs.opts /\ (Lists(fs) => Lists(g))
           /\ DOMAIN fs.all.exps \subseteq DOMAIN g.all.exps
           /\ HasRoom(fs, e.sysid) =>
                 /\ DOMAIN g.one.exps = DOMAIN fs.one.exps \cup {e.sysid}
                 /\ Known(g.one.exps, e.sysid, e.dev) /\ Known(g.all.exps, e.sysid, e.dev)
                 /\ \A j \in DOMAIN fs.exps : In(fs, j) => In(g, j)
<1>1. PICK n \in Nat : n = e.sysid BY DEF ExporterType
<1>2. PICK d : d = e.dev OBVIOUS
<1>3. /\ g.exps = f.exps /\ g.opts = f.opts /\ (Lists(f) => Lists(g))
      /\ DOMAIN f.all.exps \subseteq DOMAIN g.all.exps
      /\ g.one.exps = AddExporterInfo(f.one.exps, n, d)
      /\ g.all.exps = AddExporterInfo(f.all.exps, n, d)
  BY <1>1, <1>2, ExporterLists
<1>4. /\ f.opts = fs.opts /\ \A j \in DOMAIN fs.exps : f.exps[j] = fs.exps[j]
      /\ f.one.exps = fs.one.exps /\ f.all.exps = fs.all.exps /\ f.copy.exps = fs.copy.exps
  BY Zenon DEF Enlisted
<1>5. Lists(fs) => Lists(f) BY <1>4 DEF Lists, OptsOk
<1>6. PICK one, all : one = fs.one.exps /\ all = fs.all.exps OBVIOUS
<1>7. PICK x, y : x = g.one.exps /\ y = g.all.exps OBVIOUS
<1>8. x = AddExporterInfo(one, n, d) /\ y = AddExporterInfo(all, n, d)
  BY <1>3, <1>4, <1>6, <1>7
<1>9. ASSUME HasRoom(fs, n)
      PROVE  /\ DOMAIN x = DOMAIN one \cup {n} /\ Known(x, n, d) /\ Known(y, n, d)
             /\ \A j \in DOMAIN fs.exps : In(fs, j) => In(g, j)
  <2>1. n < MaxExporters /\ FreeBehind(all, n) # {} /\ n \notin DOMAIN one
    BY <1>6, <1>9 DEF HasRoom
  <2>2. TakesFree(one, n, d, x) BY <1>8, <2>1, ExporterPresent
  <2>3. DOMAIN x = DOMAIN one \cup {n} /\ x[n].dev = d /\ \A j \in DOMAIN one : x[j] = one[j]
    BY Zenon, <2>2 DEF TakesFree
  <2>4. Known(x, n, d) BY <2>3 DEF Known
  <2>5. /\ Known(y, n, d)
        /\ \A o : Present(all, o) /\ (o.sysid = n => o.dev = d) => Present(y, o)
    BY <1>8, <2>1, ExporterPresent
  <2>6. ASSUME NEW j \in DOMAIN fs.exps, In(fs, j) PROVE In(g, j)
    <3>1. PICK o : o = fs.exps[j] OBVIOUS
    <3>2. Present(one, o) /\ Present(all, o) BY <1>6, <2>6, <3>1 DEF In
    <3>3. o.sysid # n BY <2>1, <3>2 DEF Present
    <3>4. Present(x, o) BY <2>3, <3>2 DEF Present
    <3>5. Present(y, o) BY <2>5, <3>2, <3>3
    <3>6. g.exps[j] = o BY <1>3, <1>4, <3>1
    <3> QED BY <1>7, <3>4, <3>5, <3>6 DEF In
  <2> QED BY <2>3, <2>4, <2>5, <2>6
<1> QED BY <1>1, <1>2, <1>3, <1>4, <1>5, <1>6, <1>7, <1>9

LEMMA JoinedEnlisted ==
    ASSUME NEW fs \in SourceType, NEW m \in SourceType, NEW e \in ExporterType, NEW f,
           Joined(m, f, e), Steady(fs, m), m.exps = fs.exps,
           NEW k, k = Len(fs.exps) + 1
    PROVE  f \in SourceType /\ Enlisted(fs, f, e, k)
<1>1. /\ f \in SourceType /\ f.exps = Append(fs.exps, e) /\ f.opts = m.opts
      /\ f.one = m.one /\ f.all = m.all /\ f.copy = m.copy
  BY Zenon DEF Joined
<1>2. fs.exps \in Seq(ExporterType) BY Parts
<1>3. /\ k \notin DOMAIN fs.exps /\ DOMAIN f.exps = DOMAIN fs.exps \cup {k} /\ f.exps[k] = e
      /\ \A j \in DOMAIN fs.exps : f.exps[j] = fs.exps[j]
  BY <1>1, <1>2, AppendTyped
<1>4. /\ m.opts = fs.opts /\ m.one.exps = fs.one.exps /\ m.all.exps = fs.all.exps
      /\ m.copy.exps = fs.copy.exps
  BY DEF Steady
<1> QED BY <1>1, <1>3, <1>4 DEF Enlisted

LEMMA V5MapSteady ==
    ASSUME NEW fs \in SourceType, NEW t, t = Len(fs.heap) + 1, V5Layout \in Layout
    PROVE  Steady(fs, WithV5Map(fs, t))
<1>1. fs.heap \in Seq(TableType) BY Parts
<1>2. NewTable(0, V5Layout) \in TableType BY DEF NewTable, TableType, Layout, NoId
<1>3. PICK h \in Seq(TableType) : h = Append(fs.heap, NewTable(0, V5Layout))
  BY Zenon, <1>1, <1>2, AppendTyped
<1>4. DOMAIN h = DOMAIN fs.heap \cup {t} BY <1>1, <1>2, <1>3, AppendTyped
<1>5. PICK a : a = [fs EXCEPT !.heap = h] BY Zenon
<1>6. /\ a \in SourceType /\ a.heap = h /\ a.exps = fs.exps /\ a.opts = fs.opts
      /\ a.one = fs.one /\ a.all = fs.all /\ a.copy = fs.copy
  BY Zenon, <1>5 DEF SourceType
<1>7. Steady(fs, a) BY <1>6, RestSteady
<1>8. t \in DOMAIN a.heap BY <1>4, <1>6
<1>9. PICK g : g = AddExtensionMap(a, t) OBVIOUS
<1>10. Steady(a, g) BY <1>6, <1>8, <1>9, AddMapSteady
<1>11. WithV5Map(fs, t) = g BY <1>3, <1>5, <1>9 DEF WithV5Map
<1> QED BY <1>7, <1>10, <1>11, SteadyChain

LEMMA NewExporterAdmitted ==
    ASSUME NEW fs, Placed(fs), NEW dev \in Dev, ~Has(fs, dev), NEW n \in Nat,
           V5Layout \in Layout, MaxExporters \in Nat, NEW g, g = NewExporterOf(fs, dev, n)
    PROVE  \E k : Admits(fs, g, k, dev, n)
<1>1. fs \in SourceType BY DEF Placed
<1>2. PICK e : e = [dev |-> dev, sysid |-> n, list |-> <<>>, cur |-> 0, samplers |-> {},
                    seq |-> 0, started |-> FALSE, failures |-> 0]
  BY Zenon
<1>3. IsFiniteSet({}) BY FS_EmptySet
<1>4. e \in ExporterType /\ e.dev = dev /\ e.sysid = n /\ e.samplers = {}
  <2>1. <<>> \in Seq(Nat) OBVIOUS
  <2>2. {} \in {S \in SUBSET Samplers : IsFiniteSet(S)} BY <1>3
  <2> QED BY <1>2, <2>1, <2>2 DEF ExporterType
<1>5. PICK k : k = Len(fs.exps) + 1 OBVIOUS
<1>6. CASE dev \notin V5
  <2>1. PICK f : f = Join(fs, e) OBVIOUS
  <2>2. Joined(fs, f, e) BY <1>1, <1>4, <2>1, JoinDoes
  <2>3. f \in SourceType /\ Enlisted(fs, f, e, k) BY <1>1, <1>4, <1>5, <2>2, SteadySelf, JoinedEnlisted
  <2>4. g = WriteExporter(f, e) BY <1>2, <1>6, <2>1 DEF NewExporterOf, Join
  <2>5. ExporterWritten(f, g, e) BY <1>4, <2>3, <2>4, WriteExporterDoes
  <2>6. /\ g.exps = f.exps /\ g.opts = fs.opts /\ (Lists(fs) => Lists(g))
        /\ DOMAIN fs.all.exps \subseteq DOMAIN g.all.exps
        /\ HasRoom(fs, n) =>
              /\ DOMAIN g.one.exps = DOMAIN fs.one.exps \cup {n}
              /\ Known(g.one.exps, n, dev) /\ Known(g.all.exps, n, dev)
              /\ \A j \in DOMAIN fs.exps : In(fs, j) => In(g, j)
    BY <1>4, <2>3, <2>5, ExporterAdmitted
  <2>7. /\ k \notin DOMAIN fs.exps /\ DOMAIN g.exps = DOMAIN fs.exps \cup {k} /\ g.exps[k] = e
        /\ \A j \in DOMAIN fs.exps : g.exps[j] = fs.exps[j]
    BY <2>3, <2>6 DEF Enlisted
  <2>8. Known(g.one.exps, n, dev) /\ Known(g.all.exps, n, dev) => In(g, k)
    BY <1>4, <2>7 DEF Known, In, Present
  <2>9. \A j \in DOMAIN fs.exps : SameWho(fs.exps[j], g.exps[j]) /\ SameSamplers(fs, g, j)
    BY <2>7 DEF SameWho, SameSamplers
  <2>10. Admits(fs, g, k, dev, n) BY <1>4, <1>6, <2>6, <2>7, <2>8, <2>9 DEF Admits
  <2> QED BY <2>10
<1>7. CASE dev \in V5
  <2>1. PICK t : t = Len(fs.heap) + 1 OBVIOUS
  <2>2. PICK m : m = WithV5Map(fs, t) OBVIOUS
  <2>3. MapJoined(fs, m, t) BY <1>1, <2>1, <2>2, V5MapDoes
  <2>4. m \in SourceType /\ m.exps = fs.exps BY <2>3 DEF MapJoined
  <2>5. Steady(fs, m) BY <1>1, <2>1, <2>2, V5MapSteady
  <2>6. PICK s \in Samplers : s = First
    <3>1. First \in Samplers BY DEF Samplers, First
    <3> QED BY <3>1
  <2>7. PICK w : w = [e EXCEPT !.list = <<t>>, !.samplers = {s}] OBVIOUS
  <2>8. w \in ExporterType /\ w.dev = dev /\ w.sysid = n /\ w.samplers = {s}
    <3>1. t \in Nat
      <4>1. fs.heap \in Seq(TableType) BY <1>1, Parts
      <4> QED BY <2>1, <4>1
    <3>2. <<t>> \in Seq(Nat) BY <3>1
    <3>3. {s} \in {S \in SUBSET Samplers : IsFiniteSet(S)} BY Zenon, FS_Singleton
    <3> QED BY Zenon, <1>4, <2>7, <3>2, <3>3 DEF ExporterType
  <2>9. PICK f : f = Join(m, w) OBVIOUS
  <2>10. Joined(m, f, w) BY <2>4, <2>8, <2>9, JoinDoes
  <2>11. f \in SourceType /\ Enlisted(fs, f, w, k)
    BY <1>1, <1>5, <2>4, <2>5, <2>8, <2>10, JoinedEnlisted
  <2>12. PICK h : h = WriteExporter(f, w) OBVIOUS
  <2>13. ExporterWritten(f, h, w) BY <2>8, <2>11, <2>12, WriteExporterDoes
  <2>14. /\ h.exps = f.exps /\ h.opts = fs.opts /\ (Lists(fs) => Lists(h))
         /\ DOMAIN fs.all.exps \subseteq DOMAIN h.all.exps
         /\ HasRoom(fs, n) =>
               /\ DOMAIN h.one.exps = DOMAIN fs.one.exps \cup {n}
               /\ Known(h.one.exps, n, dev) /\ Known(h.all.exps, n, dev)
               /\ \A j \in DOMAIN fs.exps : In(fs, j) => In(h, j)
    BY <2>8, <2>11, <2>13, ExporterAdmitted
  <2>15. g = WriteSampler(h, w, s)
    <3>1. [WithV5Map(fs, t) EXCEPT !.exps = Append(@, w), !.count = @ + 1] = f
      BY <2>2, <2>9 DEF Join
    <3> QED BY <1>2, <1>7, <2>1, <2>6, <2>7, <2>12, <3>1 DEF NewExporterOf, WithV5Map, First
  <2>16. h \in SourceType BY <2>13 DEF ExporterWritten, ListsWritten
  <2>17. SamplerWritten(h, g, w, s) BY <2>8, <2>15, <2>16, WriteSamplerDoes
  <2>18. /\ Carries(h, g) /\ g.exps = h.exps /\ g.opts = h.opts
         /\ n \in DOMAIN h.one.exps => \E x \in g.one.exps[n].samplers : x.sampler = s
         /\ n \in DOMAIN h.all.exps => \E x \in g.all.exps[n].samplers : x.sampler = s
         /\ \A x : Present(h.one.exps, x) => Present(g.one.exps, x)
         /\ \A x : Present(h.all.exps, x) => Present(g.all.exps, x)
    BY <2>8, <2>16, <2>17, SamplerCarries
  <2>19. /\ k \notin DOMAIN fs.exps /\ DOMAIN g.exps = DOMAIN fs.exps \cup {k} /\ g.exps[k] = w
         /\ \A j \in DOMAIN fs.exps : g.exps[j] = fs.exps[j]
    BY <2>11, <2>14, <2>18 DEF Enlisted
  <2>20. Known(h.one.exps, n, dev) /\ Known(h.all.exps, n, dev) => In(g, k)
    <3>1. ASSUME Known(h.one.exps, n, dev), Known(h.all.exps, n, dev)
          PROVE  Present(g.one.exps, w) /\ Present(g.all.exps, w)
      <4>1. Present(h.one.exps, e) /\ Present(h.all.exps, e)
        BY <1>4, <3>1 DEF Known, Present
      <4>2. Present(g.one.exps, e) /\ Present(g.all.exps, e) BY <2>18, <4>1
      <4>3. /\ \E x \in g.one.exps[n].samplers : x.sampler = s
            /\ \E x \in g.all.exps[n].samplers : x.sampler = s
        BY <2>18, <3>1 DEF Known
      <4> QED BY <1>4, <2>8, <4>2, <4>3 DEF Present
    <3> QED BY <2>19, <3>1 DEF In
  <2>21. \A j \in DOMAIN fs.exps : SameWho(fs.exps[j], g.exps[j]) /\ SameSamplers(fs, g, j)
    BY <2>19 DEF SameWho, SameSamplers
  <2>22. \A j \in DOMAIN fs.exps : In(h, j) => In(g, j) BY <2>14, <2>18, <2>19 DEF Carries
  <2>23. /\ g.opts = fs.opts /\ (Lists(fs) => Lists(g))
         /\ DOMAIN fs.all.exps \subseteq DOMAIN g.all.exps
         /\ DOMAIN g.one.exps = DOMAIN h.one.exps
    BY <2>14, <2>18 DEF Carries
  <2>24. HasRoom(fs, n) => /\ DOMAIN g.one.exps = DOMAIN fs.one.exps \cup {n} /\ In(g, k)
                           /\ \A j \in DOMAIN fs.exps : In(fs, j) => In(g, j)
    BY <2>14, <2>20, <2>22, <2>23
  <2>25. g.exps[k].dev = dev /\ g.exps[k].sysid = n /\ g.exps[k].samplers = {First}
    BY <2>6, <2>8, <2>19
  <2>26. Admits(fs, g, k, dev, n) BY <1>7, <2>19, <2>21, <2>23, <2>24, <2>25 DEF Admits
  <2> QED BY <2>26
<1> QED BY <1>6, <1>7

LEMMA OpenedSteady ==
    ASSUME Typed, NEW d \in Devices, NEW s \in Sources PROVE Steady(src[s], Opened(d)[s])
<1>1. src \in [Sources -> SourceType] BY DEF Typed
<1>2. CASE Opened(d) = src BY <1>2, SteadySelf
<1>3. CASE Opened(d) # src
  <2>1. PICK first : first = Head(Append(created, SourceOf(d))) OBVIOUS
  <2>2. Opened(d) = [src EXCEPT ![first].count = 0] BY Zenon, <1>3, <2>1 DEF Opened
  <2>3. PICK fs \in SourceType : fs = src[s] BY <1>1
  <2>4. PICK f : f = [fs EXCEPT !.count = 0] BY Zenon
  <2>5. /\ f.exps = fs.exps /\ f.opts = fs.opts
        /\ f.one = fs.one /\ f.all = fs.all /\ f.copy = fs.copy
    BY Zenon, <2>4 DEF SourceType
  <2>6. Steady(fs, f) BY <2>5, RestSteady
  <2>7. Opened(d)[s] = fs \/ Opened(d)[s] = f
    <3>1. Opened(d)[s] = IF s = first THEN [src[first] EXCEPT !.count = 0] ELSE src[s]
      BY <1>1, <2>2
    <3> QED BY <2>3, <2>4, <3>1
  <2> QED BY <2>3, <2>6, <2>7, SteadySelf
<1> QED BY <1>2, <1>3

\* What the handler of a packet begins with: the exporter was there, or is added.
LEMMA CheckedAdmits ==
    ASSUME TablesInv, NEW d \in Devices, NEW fs, fs = src[SourceOf(d)], NEW c, c = Checked(d)
    PROVE  /\ ~New(d) => Steady(fs, c)
           /\ New(d) => \E k : Admits(fs, c, k, d, AssignExporterID(sysid))
<1> DEFINE s == SourceOf(d)
<1>1. Typed /\ Holds(s) /\ s \in Sources /\ d \in Dev
  BY Surroundings DEF TablesInv, Typed
<1>2. PICK a : a = Opened(d)[s] OBVIOUS
<1>3. Alike(fs, a) /\ Steady(fs, a) BY <1>1, <1>2, OpenedDoes, OpenedSteady
<1>4. Placed(a) BY <1>1, <1>3, AlikeSimilar, SimilarPlaced DEF Holds
<1>5. PICK n \in Nat : n = sysid BY <1>1, Constants DEF Typed
<1>6. PICK b : b = GetExporter(a, d, n) OBVIOUS
<1>7. Placed(b) /\ Index(b, d) \in DOMAIN b.exps
  BY <1>1, <1>4, <1>6, Constants, GetExporterDoes
<1>8. PICK k : k = Index(b, d) OBVIOUS
<1>9. PICK number \in Nat : number = sent[d]
  <2>1. sent[d] \in 0..(SeqWrap - 1) BY <1>1 DEF Typed
  <2> QED BY <2>1, Constants
<1>10. PICK u : u = IF d \in Ipfix THEN SyncSequence(b, k, number)
                    ELSE NextInSequence(b, k, number)
  OBVIOUS
<1>11. u = c BY <1>2, <1>5, <1>6, <1>8, <1>9, <1>10 DEF Checked
<1>12. CountsOnly(b, u, k)
  <2>1. b \in SourceType BY <1>7 DEF Placed
  <2> QED BY <1>7, <1>8, <1>10, <2>1, SyncCounts, NextCounts
<1>13. Steady(b, u) BY <1>7, <1>8, <1>12, CountsSteady
<1>14. New(d) <=> ~Has(a, d) BY <1>3 DEF New, Has, Steady, SameWho
<1>15. CASE ~New(d)
  <2>1. b = a BY <1>6, <1>14, <1>15 DEF GetExporter
  <2>2. Steady(fs, c) BY <1>3, <1>11, <1>13, <2>1, SteadyChain
  <2> QED BY <1>15, <2>2
<1>16. CASE New(d)
  <2>1. PICK i \in Nat : i = AssignExporterID(n) BY DEF AssignExporterID
  <2>2. b = NewExporterOf(a, d, i) BY <1>6, <1>14, <1>16, <2>1 DEF GetExporter
  <2>3. PICK l : Admits(a, b, l, d, i)
    BY <1>1, <1>4, <1>14, <1>16, <2>2, Constants, NewExporterAdmitted
  <2>4. Admits(fs, b, l, d, i) BY <1>3, <2>3, SteadyAdmits
  <2>5. Admits(fs, c, l, d, i) BY <1>11, <1>13, <2>4, AdmitsSteady
  <2> QED BY <1>5, <1>16, <2>1, <2>5
<1> QED BY <1>15, <1>16

\* The begin of the next file: only the counters of failures have changed.
LEMMA CopiedSame ==
    ASSUME NEW l, NEW m, NEW copy, SameInfo(l, m), Copied(l, copy) PROVE Copied(m, copy)
<1>1. /\ DOMAIN m = DOMAIN l
      /\ \A i \in DOMAIN l : /\ m[i].dev = l[i].dev /\ m[i].sysid = l[i].sysid
                             /\ m[i].samplers = l[i].samplers
  BY DEF SameInfo
<1> QED BY <1>1 DEF Copied

LEMMA SameInfoPresent ==
    ASSUME NEW l, NEW m, SameInfo(l, m)
    PROVE  /\ Numbered(l) => Numbered(m)
           /\ \A e : Present(l, e) => Present(m, e)
<1>1. /\ DOMAIN m = DOMAIN l
      /\ \A i \in DOMAIN l : /\ m[i].dev = l[i].dev /\ m[i].sysid = l[i].sysid
                             /\ m[i].samplers = l[i].samplers
  BY DEF SameInfo
<1> QED BY <1>1, NumberedSame DEF Present

LEMMA NoneNumbered == Numbered(NoReader.exps) /\ DOMAIN NoReader.exps = {}
<1>1. PICK l : l = NoExporters OBVIOUS
<1>2. l = <<>> BY <1>1 DEF NoExporters
<1>3. DOMAIN l = {} BY <1>2
<1>4. NoReader.exps = l BY <1>1 DEF NoReader
<1> QED BY <1>3, <1>4 DEF Numbered

LEMMA BegunLists ==
    ASSUME NEW fs \in SourceType, NEW g, g = Begun(fs)
    PROVE  /\ g \in SourceType /\ DOMAIN g.exps = DOMAIN fs.exps
           /\ \A k \in DOMAIN fs.exps : SameWho(fs.exps[k], g.exps[k]) /\ SameSamplers(fs, g, k)
           /\ g.opts = fs.opts /\ (Lists(fs) => Lists(g))
           /\ DOMAIN g.one.exps = {} /\ DOMAIN g.all.exps = DOMAIN fs.all.exps
           /\ \A e : Present(fs.all.exps, e) => Present(g.all.exps, e)
<1>1. /\ Alike(fs, g) /\ g.opts = fs.opts /\ g.one = NoReader /\ g.copy = fs.copy
      /\ SameInfo(fs.all.exps, g.all.exps)
      /\ \A k \in DOMAIN fs.exps : g.exps[k].samplers = fs.exps[k].samplers
  BY BegunDoes
<1>2. /\ g \in SourceType /\ DOMAIN g.exps = DOMAIN fs.exps
      /\ \A k \in DOMAIN fs.exps : SameWho(fs.exps[k], g.exps[k])
  BY Zenon, <1>1 DEF Alike, SameChain, SameWho
<1>3. Numbered(g.one.exps) /\ DOMAIN g.one.exps = {} BY <1>1, NoneNumbered
<1>4. DOMAIN g.all.exps = DOMAIN fs.all.exps BY <1>1 DEF SameInfo
<1>5. PICK l, m, c : l = fs.all.exps /\ m = g.all.exps /\ c = g.copy.exps OBVIOUS
<1>6. SameInfo(l, m) /\ c = fs.copy.exps BY <1>1, <1>5
<1>7. Lists(fs) => Copied(l, c) /\ Numbered(l) BY <1>5, <1>6 DEF Lists
<1>8. Lists(fs) => Copied(m, c) /\ Numbered(m) BY <1>6, <1>7, CopiedSame, SameInfoPresent
<1>9. Lists(fs) => Lists(g) BY <1>1, <1>3, <1>5, <1>8 DEF Lists, OptsOk
<1> QED BY <1>1, <1>2, <1>3, <1>4, <1>5, <1>6, <1>9, SameInfoPresent DEF SameSamplers

-----------------------------------------------------------------------------
(* An exporter and its samplers are written to a new file                  *)

\* An exporter with some of its samplers.
With(e, S) == [sysid |-> e.sysid, dev |-> e.dev, samplers |-> S]

LEMMA PresentWith ==
    ASSUME NEW list, NEW e
    PROVE  /\ \A S : With(e, S).sysid = e.sysid /\ With(e, S).dev = e.dev /\ With(e, S).samplers = S
           /\ Known(list, e.sysid, e.dev) <=> Present(list, With(e, {}))
           /\ \A S, s : Present(list, With(e, S)) /\ (\E x \in list[e.sysid].samplers : x.sampler = s)
                           => Present(list, With(e, S \cup {s}))
           /\ Present(list, With(e, e.samplers)) <=> Present(list, e)
<1>1. \A S : With(e, S).sysid = e.sysid /\ With(e, S).dev = e.dev /\ With(e, S).samplers = S
  BY DEF With
<1> QED BY <1>1 DEF Present, Known

\* What the readers have stays, and the exporters with it.
Extends(a, b) ==
    /\ b \in SourceType /\ b.exps = a.exps /\ b.opts = a.opts /\ (Lists(a) => Lists(b))
    /\ DOMAIN a.all.exps \subseteq DOMAIN b.all.exps

LEMMA ExtendsChain == ASSUME NEW a, NEW b, NEW c, Extends(a, b), Extends(b, c) PROVE Extends(a, c)
BY DEF Extends

LEMMA SamplersWritten ==
    ASSUME NEW h \in SourceType, NEW e \in ExporterType,
           NEW r, r = WriteSamplers(h, e)
    PROVE  /\ Extends(h, r) /\ DOMAIN r.one.exps = DOMAIN h.one.exps
           /\ \A x : Present(h.one.exps, x) => Present(r.one.exps, x)
           /\ \A x : Present(h.all.exps, x) => Present(r.all.exps, x)
           /\ (/\ Known(h.one.exps, e.sysid, e.dev)
               /\ Known(h.all.exps, e.sysid, e.dev))
              => Present(r.one.exps, e) /\ Present(r.all.exps, e)
<1>1. e.sysid \in Nat /\ e.samplers \in SUBSET Samplers /\ IsFiniteSet(e.samplers)
  BY DEF ExporterType
<1>2. PICK q \in Seq(e.samplers) : q = SetToSeq(e.samplers) BY <1>1, SetAsSeq
<1>3. PICK N \in Nat : N = Len(q) /\ DOMAIN q = 1..N BY <1>2
<1>4. \A s \in e.samplers : \E n \in 1..N : q[n] = s BY <1>1, <1>2, <1>3, SetAsSeq
<1>5. PICK both \in BOOLEAN : both <=> Known(h.one.exps, e.sysid, e.dev) /\ Known(h.all.exps, e.sysid, e.dev)
  OBVIOUS
<1> DEFINE Upto(n) == With(e, {q[m] : m \in 1..n})
           Keeps(x) == /\ Extends(h, x) /\ DOMAIN x.one.exps = DOMAIN h.one.exps
                       /\ \A y : Present(h.one.exps, y) => Present(x.one.exps, y)
                       /\ \A y : Present(h.all.exps, y) => Present(x.all.exps, y)
           Has2(x, n) == both => Present(x.one.exps, Upto(n)) /\ Present(x.all.exps, Upto(n))
           A == {x \in SourceType : Keeps(x)}
           I == [n \in 0..N |-> {x \in A : Has2(x, n)}]
<1>6. h \in A BY DEF Extends
<1>7. Has2(h, 0)
  <2>1. {q[m] : m \in 1..0} = {} OBVIOUS
  <2>2. Upto(0) = With(e, {}) BY <2>1
  <2> QED BY <1>5, <2>2, PresentWith
<1>8. ASSUME NEW n \in 1..N, NEW a \in A
      PROVE  /\ WriteSampler(a, e, q[n]) \in A
             /\ Has2(a, n - 1) => Has2(WriteSampler(a, e, q[n]), n)
  <2>1. PICK s \in Samplers : s = q[n] BY <1>1, <1>2, <1>3
  <2>2. PICK b : b = WriteSampler(a, e, s) OBVIOUS
  <2>3. SamplerWritten(a, b, e, s) BY <1>1, <2>2, WriteSamplerDoes
  <2>4. b \in SourceType BY <2>3 DEF SamplerWritten, ListsWritten
  <2>5. /\ Carries(a, b) /\ b.exps = a.exps /\ b.opts = a.opts
        /\ e.sysid \in DOMAIN a.one.exps => \E x \in b.one.exps[e.sysid].samplers : x.sampler = s
        /\ e.sysid \in DOMAIN a.all.exps => \E x \in b.all.exps[e.sysid].samplers : x.sampler = s
        /\ \A x : Present(a.one.exps, x) => Present(b.one.exps, x)
        /\ \A x : Present(a.all.exps, x) => Present(b.all.exps, x)
    BY <2>3, SamplerCarries
  <2>6. Extends(a, b) /\ DOMAIN b.one.exps = DOMAIN a.one.exps
    BY <2>4, <2>5 DEF Carries, Extends
  <2>7. Extends(h, b) BY <2>6, ExtendsChain
  <2>8. b \in A BY <2>4, <2>5, <2>6, <2>7
  <2>9. ASSUME Has2(a, n - 1), both
        PROVE  Present(b.one.exps, Upto(n)) /\ Present(b.all.exps, Upto(n))
    <3>1. PICK S : S = {q[m] : m \in 1..(n - 1)} BY Zenon
    <3>2. {q[m] : m \in 1..n} = S \cup {s} BY <1>3, <2>1, <3>1
    <3>3. Present(a.one.exps, With(e, S)) /\ Present(a.all.exps, With(e, S)) BY <2>9, <3>1
    <3>4. e.sysid \in DOMAIN a.one.exps /\ e.sysid \in DOMAIN a.all.exps
      <4>1. PICK w : w = With(e, S) OBVIOUS
      <4>2. w.sysid = e.sysid BY <4>1, PresentWith
      <4> QED BY <3>3, <4>1, <4>2 DEF Present
    <3>5. Present(b.one.exps, With(e, S)) /\ Present(b.all.exps, With(e, S)) BY <2>5, <3>3
    <3>6. /\ \E x \in b.one.exps[e.sysid].samplers : x.sampler = s
          /\ \E x \in b.all.exps[e.sysid].samplers : x.sampler = s
      BY <2>5, <3>4
    <3>7. Present(b.one.exps, With(e, S \cup {s})) BY <3>5, <3>6, PresentWith
    <3>8. Present(b.all.exps, With(e, S \cup {s})) BY <3>5, <3>6, PresentWith
    <3> QED BY <3>2, <3>7, <3>8
  <2> QED BY <2>1, <2>2, <2>8, <2>9
<1>9. \A x \in A : Keeps(x) /\ x \in SourceType OBVIOUS
<1>10. h \in I[0]
  <2>1. 0 \in 0..N OBVIOUS
  <2> QED BY <1>6, <1>7, <2>1
<1>11. \A n \in 1..Len(q) : \A a \in A : a \in I[n - 1] => WriteSampler(a, e, q[n]) \in I[n]
  <2> SUFFICES ASSUME NEW n \in 1..N, NEW a \in A, a \in I[n - 1]
               PROVE  WriteSampler(a, e, q[n]) \in I[n]
    BY Zenon, <1>3
  <2>1. n - 1 \in 0..N /\ n \in 0..N OBVIOUS
  <2>2. I[n - 1] = {x \in A : Has2(x, n - 1)} /\ I[n] = {x \in A : Has2(x, n)} BY Zenon, <2>1
  <2>3. Has2(a, n - 1) BY Zenon, <2>2
  <2>4. WriteSampler(a, e, q[n]) \in A /\ Has2(WriteSampler(a, e, q[n]), n) BY Zenon, <1>8, <2>3
  <2> QED BY Zenon, <2>2, <2>4
<1>12. \A n \in 1..Len(q) : \A a \in A : WriteSampler(a, e, q[n]) \in A BY Zenon, <1>3, <1>8
<1>13. \A x \in I[N] : Has2(x, N)
  <2>1. N \in 0..N OBVIOUS
  <2> QED BY Zenon, <2>1
<1>14. {q[m] : m \in 1..N} = e.samplers BY <1>2, <1>3, <1>4
<1> HIDE DEF A, I
<1>15. r = SamplersFrom(h, e, q) BY <1>2 DEF WriteSamplers, SamplersFrom
<1>16. r \in A /\ r \in I[Len(q)] BY <1>6, <1>10, <1>11, <1>12, <1>15, FoldSamplers
<1>17. Keeps(r) /\ Has2(r, N) BY <1>3, <1>9, <1>13, <1>16
<1>18. both => Present(r.one.exps, e) /\ Present(r.all.exps, e)
  BY <1>14, <1>17, PresentWith
<1> QED BY <1>5, <1>17, <1>18

\* Of exporters that readers of all files have: the new file has those that were
\* written, and no others.
LEMMA InfosWritten ==
    ASSUME NEW a \in SourceType, NEW e \in ExporterType, MaxExporters \in Nat,
           NEW b, b = WriteExporterInfos(a, e)
    PROVE  /\ Extends(a, b)
           /\ (/\ e.sysid < MaxExporters /\ Present(a.all.exps, e)
               /\ e.sysid \notin DOMAIN a.one.exps)
              => /\ Present(b.one.exps, e) /\ DOMAIN b.one.exps = DOMAIN a.one.exps \cup {e.sysid}
                 /\ \A x : Present(a.one.exps, x) => Present(b.one.exps, x)
                 /\ \A x : Present(a.all.exps, x) => Present(b.all.exps, x)
<1>1. PICK n \in Nat : n = e.sysid BY DEF ExporterType
<1>2. PICK d \in Dev : d = e.dev BY DEF ExporterType
<1>3. PICK h : h = WriteExporter(a, e) OBVIOUS
<1>4. ExporterWritten(a, h, e) BY <1>1, <1>2, <1>3, WriteExporterDoes
<1>5. h \in SourceType BY <1>4 DEF ExporterWritten, ListsWritten
<1>6. /\ h.exps = a.exps /\ h.opts = a.opts /\ (Lists(a) => Lists(h))
      /\ DOMAIN a.all.exps \subseteq DOMAIN h.all.exps
      /\ h.one.exps = AddExporterInfo(a.one.exps, n, d)
      /\ h.all.exps = AddExporterInfo(a.all.exps, n, d)
  BY <1>1, <1>2, <1>4, ExporterLists
<1>7. Extends(a, h) BY <1>5, <1>6 DEF Extends
<1>8. b = WriteSamplers(h, e) BY <1>3 DEF WriteExporterInfos
<1>9. /\ Extends(h, b) /\ DOMAIN b.one.exps = DOMAIN h.one.exps
      /\ \A x : Present(h.one.exps, x) => Present(b.one.exps, x)
      /\ \A x : Present(h.all.exps, x) => Present(b.all.exps, x)
      /\ (Known(h.one.exps, n, d) /\ Known(h.all.exps, n, d))
         => Present(b.one.exps, e) /\ Present(b.all.exps, e)
  BY <1>1, <1>2, <1>5, <1>8, SamplersWritten
<1>10. Extends(a, b) BY <1>7, <1>9, ExtendsChain
<1>11. ASSUME n < MaxExporters, Present(a.all.exps, e), n \notin DOMAIN a.one.exps
       PROVE  /\ Present(b.one.exps, e) /\ DOMAIN b.one.exps = DOMAIN a.one.exps \cup {n}
              /\ \A x : Present(a.one.exps, x) => Present(b.one.exps, x)
              /\ \A x : Present(a.all.exps, x) => Present(b.all.exps, x)
  <2>1. PICK one, two : one = a.one.exps /\ two = h.one.exps OBVIOUS
  <2>2. TakesFree(one, n, d, two) BY <1>6, <1>11, <2>1, ExporterPresent
  <2>3. DOMAIN two = DOMAIN one \cup {n} /\ two[n].dev = d /\ \A j \in DOMAIN one : two[j] = one[j]
    BY Zenon, <2>2 DEF TakesFree
  <2>4. Known(two, n, d) BY <2>3 DEF Known
  <2>5. \A x : Present(one, x) => Present(two, x) BY <2>3 DEF Present
  <2>6. Known(a.all.exps, n, d) BY <1>1, <1>2, <1>11 DEF Known, Present
  <2>7. h.all.exps = a.all.exps BY <1>6, <2>6 DEF AddExporterInfo
  <2>8. Present(b.one.exps, e) /\ Present(b.all.exps, e) BY <1>9, <2>1, <2>4, <2>6, <2>7
  <2> QED BY <1>9, <2>1, <2>3, <2>5, <2>7, <2>8
<1> QED BY <1>1, <1>10, <1>11

\* All of them have numbers of their own, there is room for them, and who reads
\* all files has them.
Listable(fs) ==
    /\ \A k \in DOMAIN fs.exps : /\ fs.exps[k].sysid < MaxExporters
                                  /\ Present(fs.all.exps, fs.exps[k])
    /\ \A k, l \in DOMAIN fs.exps : fs.exps[k].sysid = fs.exps[l].sysid => k = l
OnlyThose(fs) == DOMAIN fs.one.exps = {fs.exps[k].sysid : k \in DOMAIN fs.exps}

LEMMA ExportersWritten ==
    ASSUME NEW g \in SourceType, DOMAIN g.one.exps = {}, MaxExporters \in Nat,
           NEW r, r = FoldLeft(WriteExporterInfos, g, g.exps)
    PROVE  /\ Extends(g, r)
           /\ Listable(g) => OnlyThose(r) /\ \A k \in DOMAIN r.exps : In(r, k)
<1>1. PICK q \in Seq(ExporterType) : q = g.exps BY Parts
<1>2. PICK N \in Nat : N = Len(q) /\ DOMAIN q = 1..N BY <1>1
<1>3. PICK fit \in BOOLEAN : fit <=> Listable(g) OBVIOUS
<1>4. fit => /\ \A k \in 1..N : q[k].sysid < MaxExporters /\ Present(g.all.exps, q[k])
             /\ \A k, l \in 1..N : q[k].sysid = q[l].sysid => k = l
  BY <1>1, <1>2, <1>3 DEF Listable
<1> DEFINE Upto(x, n) ==
              fit => /\ DOMAIN x.one.exps = {q[m].sysid : m \in 1..n}
                     /\ \A m \in 1..n : Present(x.one.exps, q[m])
                     /\ \A m \in 1..N : Present(x.all.exps, q[m])
           A == {x \in SourceType : Extends(g, x)}
           I == [n \in 0..N |-> {x \in A : Upto(x, n)}]
<1>5. g \in A BY DEF Extends
<1>6. Upto(g, 0)
  <2>1. {q[m].sysid : m \in 1..0} = {} OBVIOUS
  <2>2. \A m \in 1..0 : FALSE OBVIOUS
  <2> QED BY <1>4, <2>1, <2>2
<1>7. ASSUME NEW n \in 1..N, NEW a \in A
      PROVE  /\ WriteExporterInfos(a, q[n]) \in A
             /\ Upto(a, n - 1) => Upto(WriteExporterInfos(a, q[n]), n)
  <2>1. PICK e \in ExporterType : e = q[n] BY <1>1, <1>2
  <2>2. PICK b : b = WriteExporterInfos(a, e) OBVIOUS
  <2>3. /\ Extends(a, b)
        /\ (/\ e.sysid < MaxExporters /\ Present(a.all.exps, e)
            /\ e.sysid \notin DOMAIN a.one.exps)
           => /\ Present(b.one.exps, e) /\ DOMAIN b.one.exps = DOMAIN a.one.exps \cup {e.sysid}
              /\ \A x : Present(a.one.exps, x) => Present(b.one.exps, x)
              /\ \A x : Present(a.all.exps, x) => Present(b.all.exps, x)
    BY <2>2, InfosWritten
  <2>4. b \in A
    <3>1. b \in SourceType BY <2>3 DEF Extends
    <3> QED BY <2>3, <3>1, ExtendsChain
  <2>5. ASSUME Upto(a, n - 1), fit PROVE Upto(b, n)
    <3>1. DOMAIN a.one.exps = {q[m].sysid : m \in 1..(n - 1)} BY <2>5
    <3>2. e.sysid \notin DOMAIN a.one.exps
      <4>1. \A m \in 1..(n - 1) : m \in 1..N /\ m # n BY <1>2
      <4> QED BY <1>4, <2>1, <2>5, <3>1, <4>1
    <3>3. e.sysid < MaxExporters /\ Present(a.all.exps, e) BY <1>4, <2>1, <2>5
    <3>4. /\ Present(b.one.exps, e) /\ DOMAIN b.one.exps = DOMAIN a.one.exps \cup {e.sysid}
          /\ \A x : Present(a.one.exps, x) => Present(b.one.exps, x)
          /\ \A x : Present(a.all.exps, x) => Present(b.all.exps, x)
      BY <2>3, <3>2, <3>3
    <3>5. \A m \in 1..n : m \in 1..(n - 1) \/ m = n BY <1>2
    <3>6. {q[m].sysid : m \in 1..n} = {q[m].sysid : m \in 1..(n - 1)} \cup {q[n].sysid}
      BY <1>2
    <3>7. \A m \in 1..n : Present(b.one.exps, q[m]) BY <2>1, <2>5, <3>4, <3>5
    <3>8. \A m \in 1..N : Present(b.all.exps, q[m]) BY <2>5, <3>4
    <3>9. DOMAIN b.one.exps = {q[m].sysid : m \in 1..n} BY <2>1, <3>1, <3>4, <3>6
    <3> QED BY <3>7, <3>8, <3>9
  <2> QED BY <2>1, <2>2, <2>4, <2>5
<1>8. \A x \in A : Extends(g, x) OBVIOUS
<1>9. g \in I[0]
  <2>1. 0 \in 0..N OBVIOUS
  <2> QED BY <1>5, <1>6, <2>1
<1>10. \A n \in 1..Len(q) : \A a \in A : a \in I[n - 1] => WriteExporterInfos(a, q[n]) \in I[n]
  <2> SUFFICES ASSUME NEW n \in 1..N, NEW a \in A, a \in I[n - 1]
               PROVE  WriteExporterInfos(a, q[n]) \in I[n]
    BY Zenon, <1>2
  <2>1. n - 1 \in 0..N /\ n \in 0..N OBVIOUS
  <2>2. I[n - 1] = {x \in A : Upto(x, n - 1)} /\ I[n] = {x \in A : Upto(x, n)} BY Zenon, <2>1
  <2>3. Upto(a, n - 1) BY Zenon, <2>2
  <2>4. WriteExporterInfos(a, q[n]) \in A /\ Upto(WriteExporterInfos(a, q[n]), n)
    BY Zenon, <1>7, <2>3
  <2> QED BY Zenon, <2>2, <2>4
<1>11. \A n \in 1..Len(q) : \A a \in A : WriteExporterInfos(a, q[n]) \in A BY Zenon, <1>2, <1>7
<1>12. \A x \in I[N] : Upto(x, N)
  <2>1. N \in 0..N OBVIOUS
  <2> QED BY Zenon, <2>1
<1> HIDE DEF A, I
<1>13. r \in A /\ r \in I[Len(q)] BY <1>1, <1>5, <1>9, <1>10, <1>11, FoldInfos
<1>14. Extends(g, r) /\ Upto(r, N) BY <1>2, <1>8, <1>12, <1>13
<1>15. r.exps = q BY <1>1, <1>14 DEF Extends
<1>16. ASSUME fit PROVE OnlyThose(r) /\ \A k \in DOMAIN r.exps : In(r, k)
  <2>1. /\ DOMAIN r.one.exps = {q[m].sysid : m \in 1..N}
        /\ \A m \in 1..N : Present(r.one.exps, q[m]) /\ Present(r.all.exps, q[m])
    BY <1>14, <1>16
  <2>2. OnlyThose(r) BY <1>2, <1>15, <2>1 DEF OnlyThose
  <2>3. \A k \in DOMAIN r.exps : In(r, k) BY <1>2, <1>15, <2>1 DEF In
  <2> QED BY <2>2, <2>3
<1> QED BY <1>3, <1>14, <1>16

LEMMA MapsSteady ==
    ASSUME NEW fs, Placed(fs), NEW g \in SourceType, Alike(fs, g),
           NEW r, r = FoldLeft(WriteListed, g, fs.list)
    PROVE  Steady(g, r)
<1>1. fs \in SourceType /\ Listed(fs) BY Zenon, PlacedListed DEF Placed
<1>2. PICK q \in Seq(Nat) : q = fs.list BY Zenon, <1>1, Parts
<1> DEFINE A == {x \in SourceType : Alike(fs, x) /\ Steady(g, x)}
<1>3. g \in A BY SteadySelf
<1>4. \A n \in 1..Len(q) : \A a \in A : WriteListed(a, q[n]) \in A
  <2> SUFFICES ASSUME NEW n \in 1..Len(q), NEW a \in A PROVE WriteListed(a, q[n]) \in A
    OBVIOUS
  <2>1. PICK t \in Nat : t = q[n] BY <1>2
  <2>2. CASE t = 0 BY <2>1, <2>2 DEF WriteListed
  <2>3. CASE t # 0
    <3>1. t \in DOMAIN a.heap /\ a.heap[t].mapId \in Nat
      BY <1>1, <1>2, <2>1, <2>3 DEF Listed, Alike, SameTable
    <3>2. PICK b : b = WriteMap(a, t) OBVIOUS
    <3>3. MapWritten(a, b, t) BY <3>1, <3>2, WriteMapDoes
    <3>4. b \in SourceType BY Zenon, <3>3 DEF MapWritten
    <3>5. Alike(fs, b) BY <3>1, <3>2, MapAlike, AlikeChain
    <3>6. Steady(g, b) BY <3>3, MapSteady, SteadyChain
    <3>7. WriteListed(a, t) = b BY <2>3, <3>2 DEF WriteListed
    <3> QED BY <2>1, <3>4, <3>5, <3>6, <3>7
  <2> QED BY <2>2, <2>3
<1>5. \A x \in A : Steady(g, x) OBVIOUS
<1> HIDE DEF A
<1>6. r \in A BY <1>2, <1>3, <1>4, FoldListedWithin
<1> QED BY <1>5, <1>6

\* What the next file of a source begins with.
Refills(fs, g) ==
    /\ DOMAIN g.exps = DOMAIN fs.exps
    /\ \A k \in DOMAIN fs.exps : SameWho(fs.exps[k], g.exps[k]) /\ SameSamplers(fs, g, k)
    /\ g.opts = fs.opts /\ (Lists(fs) => Lists(g))
    /\ DOMAIN fs.all.exps \subseteq DOMAIN g.all.exps
    /\ Listable(fs) => OnlyThose(g) /\ \A k \in DOMAIN g.exps : In(g, k)

LEMMA NextFileRefills ==
    ASSUME NEW fs, Placed(fs), MaxExporters \in Nat, NEW r, r = NextFile(fs)
    PROVE  Refills(fs, r)
<1>1. fs \in SourceType BY DEF Placed
<1>2. PICK g : g = Begun(fs) OBVIOUS
<1>3. /\ g \in SourceType /\ DOMAIN g.exps = DOMAIN fs.exps
      /\ \A k \in DOMAIN fs.exps : SameWho(fs.exps[k], g.exps[k]) /\ SameSamplers(fs, g, k)
      /\ g.opts = fs.opts /\ (Lists(fs) => Lists(g))
      /\ DOMAIN g.one.exps = {} /\ DOMAIN g.all.exps = DOMAIN fs.all.exps
      /\ \A e : Present(fs.all.exps, e) => Present(g.all.exps, e)
  BY <1>1, <1>2, BegunLists
<1>4. Alike(fs, g) BY <1>1, <1>2, BegunDoes
<1>5. PICK h : h = FoldLeft(WriteExporterInfos, g, g.exps) OBVIOUS
<1>6. /\ Extends(g, h)
      /\ Listable(g) => OnlyThose(h) /\ \A k \in DOMAIN h.exps : In(h, k)
  BY <1>3, <1>5, ExportersWritten
<1>7. Alike(fs, h)
  <2> DEFINE A == {x \in SourceType : Alike(fs, x)}
  <2>1. g \in A BY <1>3, <1>4
  <2>2. g.exps \in Seq(ExporterType) BY <1>3, Parts
  <2>3. \A n \in 1..Len(g.exps) : \A a \in A : WriteExporterInfos(a, g.exps[n]) \in A
    <3> SUFFICES ASSUME NEW n \in 1..Len(g.exps), NEW a \in A
                 PROVE  WriteExporterInfos(a, g.exps[n]) \in A
      OBVIOUS
    <3>1. PICK e \in ExporterType : e = g.exps[n] BY <2>2
    <3>2. Alike(a, WriteExporterInfos(a, e)) BY <3>1, InfosAlike
    <3> QED BY <3>1, <3>2, AlikeChain DEF Alike
  <2>4. \A x \in A : Alike(fs, x) OBVIOUS
  <2> HIDE DEF A
  <2>5. h \in A BY <1>5, <2>1, <2>2, <2>3, FoldInfosWithin
  <2> QED BY <2>4, <2>5
<1>8. r = FoldLeft(WriteListed, h, fs.list)
  <2>1. r = FlushStdRecords(g) BY <1>2 DEF NextFile, Begun
  <2>2. g.list = fs.list BY Zenon, <1>4 DEF Alike
  <2> QED BY <1>5, <2>1, <2>2 DEF FlushStdRecords
<1>9. h \in SourceType /\ h.exps = g.exps /\ h.opts = g.opts /\ (Lists(g) => Lists(h))
      /\ DOMAIN g.all.exps \subseteq DOMAIN h.all.exps
  BY <1>6 DEF Extends
<1>10. Steady(h, r) BY <1>7, <1>8, <1>9, MapsSteady
<1>11. Carries(h, r) /\ \A k \in DOMAIN h.exps : SameSamplers(h, r, k) BY <1>10, SteadyCarries
<1>12. /\ r.opts = h.opts /\ r.one.exps = h.one.exps /\ r.all.exps = h.all.exps
       /\ DOMAIN r.exps = DOMAIN h.exps /\ \A k \in DOMAIN h.exps : SameWho(h.exps[k], r.exps[k])
  BY <1>10 DEF Steady
<1>13. \A k \in DOMAIN fs.exps : SameWho(fs.exps[k], r.exps[k]) /\ SameSamplers(fs, r, k)
  BY <1>3, <1>9, <1>11, <1>12 DEF SameWho, SameSamplers
<1>14. Lists(fs) => Lists(r) BY <1>3, <1>9, <1>11 DEF Carries
<1>15. ASSUME Listable(fs) PROVE OnlyThose(r) /\ \A k \in DOMAIN r.exps : In(r, k)
  <2>1. \A k \in DOMAIN g.exps : Present(g.all.exps, g.exps[k])
    <3> SUFFICES ASSUME NEW k \in DOMAIN g.exps PROVE Present(g.all.exps, g.exps[k])
      OBVIOUS
    <3>1. Present(g.all.exps, fs.exps[k]) BY <1>3, <1>15 DEF Listable
    <3>2. SameWho(fs.exps[k], g.exps[k]) /\ g.exps[k].samplers = fs.exps[k].samplers
      BY <1>3 DEF SameSamplers
    <3> QED BY <3>1, <3>2, PresentSame
  <2>2. Listable(g) BY <1>3, <1>15, <2>1 DEF Listable, SameWho
  <2>3. OnlyThose(h) /\ \A k \in DOMAIN h.exps : In(h, k) BY <1>6, <2>2
  <2>4. \A k \in DOMAIN r.exps : In(r, k) BY <1>11, <1>12, <2>3 DEF Carries
  <2>5. OnlyThose(r)
    <3>1. {r.exps[k].sysid : k \in DOMAIN r.exps} = {h.exps[k].sysid : k \in DOMAIN h.exps}
      BY <1>12 DEF SameWho
    <3> QED BY <1>12, <2>3, <3>1 DEF OnlyThose
  <2> QED BY <2>4, <2>5
<1> QED BY <1>3, <1>9, <1>12, <1>13, <1>14, <1>15 DEF Refills

\* A collector that starts again has no exporters.
LEMMA RestartLists ==
    ASSUME NEW fs \in SourceType, Lists(fs), NEW c, c = FlushExporterStats(fs),
           NEW g, g = Source(c.all, c.copy)
    PROVE  Lists(g) /\ DOMAIN g.exps = {} /\ OnlyThose(g)
<1>1. StatsFlushed(fs, c) BY FlushStatsDoes
<1>2. SameInfo(fs.all.exps, c.all.exps) /\ c.copy = fs.copy BY Zenon, <1>1 DEF StatsFlushed
<1>3. PICK none : none = <<>> BY Zenon
<1>4. DOMAIN none = {} BY <1>3
<1>5. /\ g.exps = none /\ g.opts = none /\ g.one = NoReader /\ g.all = c.all /\ g.copy = c.copy
  BY <1>3 DEF Source
<1>6. PICK l, m, k : l = fs.all.exps /\ m = c.all.exps /\ k = fs.copy.exps OBVIOUS
<1>7. Numbered(l) /\ Copied(l, k) BY <1>6 DEF Lists
<1>8. SameInfo(l, m) BY <1>2, <1>6
<1>9. Numbered(m) /\ Copied(m, k) BY <1>7, <1>8, CopiedSame, SameInfoPresent
<1>10. Numbered(g.one.exps) /\ DOMAIN g.one.exps = {} BY <1>5, NoneNumbered
<1>11. OptsOk(g) BY <1>4, <1>5 DEF OptsOk
<1>12. Lists(g) BY <1>2, <1>5, <1>6, <1>9, <1>10, <1>11 DEF Lists
<1>13. OnlyThose(g) BY <1>4, <1>5, <1>10 DEF OnlyThose
<1> QED BY <1>4, <1>5, <1>12, <1>13

LEMMA StartLists == ASSUME NEW g, g = Source(NoReader, NoReader)
                    PROVE  Lists(g) /\ DOMAIN g.exps = {} /\ OnlyThose(g)
<1>1. PICK none : none = <<>> BY Zenon
<1>2. DOMAIN none = {} BY <1>1
<1>3. g.exps = none /\ g.opts = none /\ g.one = NoReader /\ g.all = NoReader /\ g.copy = NoReader
  BY <1>1 DEF Source
<1>4. Numbered(g.one.exps) /\ DOMAIN g.one.exps = {} /\ Numbered(g.all.exps) BY <1>3, NoneNumbered
<1>5. PICK l : l = NoReader.exps OBVIOUS
<1>6. DOMAIN l = {} BY <1>5, NoneNumbered
<1>7. Copied(l, l) BY <1>6 DEF Copied
<1>8. OptsOk(g) BY <1>2, <1>3 DEF OptsOk
<1>9. Lists(g) BY <1>3, <1>4, <1>5, <1>7, <1>8 DEF Lists
<1>10. OnlyThose(g) BY <1>2, <1>3, <1>4 DEF OnlyThose
<1> QED BY <1>2, <1>3, <1>9, <1>10

-----------------------------------------------------------------------------
(* Exporters of all sources                                                *)

\* No exporter of a source is without a number, and a reader of all its files has
\* a free slot behind the last number given.
Room(fs, n) == /\ \A k \in DOMAIN fs.exps : fs.exps[k].sysid # 0
               /\ FreeBehind(fs.all.exps, n) # {}
Apart(S, f) == \A s, t \in S : \A k \in DOMAIN f[s].exps, l \in DOMAIN f[t].exps :
                  f[s].exps[k].sysid = f[t].exps[l].sysid => s = t /\ k = l
AllIn(fs) == OnlyThose(fs) /\ \A k \in DOMAIN fs.exps : In(fs, k)

\* What is so of the sources f, when n is the last number that was given.
ListsIn(S, f, n) ==
    /\ \A s \in S : Lists(f[s]) /\ \A k \in DOMAIN f[s].exps : f[s].exps[k].sysid <= n
    /\ (\A s \in S : Room(f[s], n)) => Apart(S, f) /\ \A s \in S : AllIn(f[s])

\* No exporter is added.
Continues(fs, g) ==
    /\ DOMAIN g.exps = DOMAIN fs.exps /\ \A k \in DOMAIN fs.exps : SameWho(fs.exps[k], g.exps[k])
    /\ (Lists(fs) => Lists(g)) /\ DOMAIN fs.all.exps \subseteq DOMAIN g.all.exps
    /\ Listable(fs) /\ AllIn(fs) => AllIn(g)

LEMMA CarriesContinues == ASSUME NEW fs, NEW g, Carries(fs, g) PROVE Continues(fs, g)
<1>1. /\ DOMAIN g.exps = DOMAIN fs.exps /\ \A k \in DOMAIN fs.exps : SameWho(fs.exps[k], g.exps[k])
      /\ DOMAIN g.one.exps = DOMAIN fs.one.exps /\ DOMAIN g.all.exps = DOMAIN fs.all.exps
      /\ (Lists(fs) => Lists(g))
      /\ \A k \in DOMAIN fs.exps : In(fs, k) => In(g, k)
  BY DEF Carries
<1>2. {g.exps[k].sysid : k \in DOMAIN g.exps} = {fs.exps[k].sysid : k \in DOMAIN fs.exps}
  BY <1>1 DEF SameWho
<1>3. AllIn(fs) => AllIn(g) BY <1>1, <1>2 DEF AllIn, OnlyThose
<1> QED BY <1>1, <1>3 DEF Continues

LEMMA RefillsContinues == ASSUME NEW fs, NEW g, Refills(fs, g) PROVE Continues(fs, g)
BY DEF Refills, Continues, AllIn

LEMMA RoomBefore ==
    ASSUME NEW a, NEW b, NEW m \in Nat, NEW n \in Nat, m <= n, DOMAIN a \subseteq DOMAIN b,
           MaxExporters \in Nat, FreeBehind(b, n) # {}
    PROVE  FreeBehind(a, m) # {} /\ n < MaxExporters
<1>1. PICK i \in n + 1 .. MaxExporters - 1 : i \notin DOMAIN b BY DEF FreeBehind
<1>2. i \in m + 1 .. MaxExporters - 1 /\ i \notin DOMAIN a BY <1>1
<1> QED BY <1>1, <1>2 DEF FreeBehind

LEMMA SysidNat == ASSUME NEW fs \in SourceType, NEW k \in DOMAIN fs.exps PROVE fs.exps[k].sysid \in Nat
<1>1. fs.exps[k] \in ExporterType BY Parts
<1> QED BY <1>1 DEF ExporterType

LEMMA RoomListable ==
    ASSUME NEW S, NEW f, NEW n \in Nat, ListsIn(S, f, n), MaxExporters \in Nat,
           \A s \in S : f[s] \in SourceType, \A s \in S : Room(f[s], n), NEW s \in S
    PROVE  Listable(f[s]) /\ AllIn(f[s])
<1>1. PICK fs \in SourceType : fs = f[s] OBVIOUS
<1>2. Apart(S, f) /\ AllIn(f[s]) BY DEF ListsIn
<1>3. \A k, l \in DOMAIN fs.exps : fs.exps[k].sysid = fs.exps[l].sysid => k = l
  BY <1>1, <1>2 DEF Apart
<1>4. FreeBehind(fs.all.exps, n) # {} BY <1>1 DEF Room
<1>5. n < MaxExporters BY <1>4, RoomBefore
<1>6. \A k \in DOMAIN fs.exps : fs.exps[k].sysid <= n /\ fs.exps[k].sysid \in Nat
  BY <1>1, SysidNat DEF ListsIn
<1>7. \A k \in DOMAIN fs.exps : fs.exps[k].sysid < MaxExporters BY <1>5, <1>6
<1>8. \A k \in DOMAIN fs.exps : Present(fs.all.exps, fs.exps[k]) BY <1>1, <1>2 DEF AllIn, In
<1> QED BY <1>1, <1>2, <1>3, <1>7, <1>8 DEF Listable

LEMMA ContinuesKeep ==
    ASSUME NEW S, NEW f, NEW g, NEW n \in Nat, ListsIn(S, f, n), MaxExporters \in Nat,
           \A s \in S : f[s] \in SourceType, \A s \in S : Continues(f[s], g[s])
    PROVE  ListsIn(S, g, n)
<1>1. ASSUME NEW s \in S
      PROVE  /\ DOMAIN g[s].exps = DOMAIN f[s].exps
             /\ \A k \in DOMAIN f[s].exps : SameWho(f[s].exps[k], g[s].exps[k])
             /\ Lists(g[s])
             /\ DOMAIN f[s].all.exps \subseteq DOMAIN g[s].all.exps
             /\ Listable(f[s]) /\ AllIn(f[s]) => AllIn(g[s])
  BY DEF ListsIn, Continues
<1>2. \A s \in S : \A k \in DOMAIN g[s].exps : g[s].exps[k].sysid <= n
  BY <1>1 DEF ListsIn, SameWho
<1>3. ASSUME \A s \in S : Room(g[s], n)
      PROVE  Apart(S, g) /\ \A s \in S : AllIn(g[s])
  <2>1. ASSUME NEW s \in S PROVE Room(f[s], n)
    <3>1. PICK a, b : a = f[s].all.exps /\ b = g[s].all.exps OBVIOUS
    <3>2. DOMAIN a \subseteq DOMAIN b /\ FreeBehind(b, n) # {} BY <1>1, <1>3, <3>1 DEF Room
    <3>3. FreeBehind(a, n) # {} BY <3>2, RoomBefore
    <3>4. \A k \in DOMAIN f[s].exps : f[s].exps[k].sysid # 0 BY <1>1, <1>3 DEF Room, SameWho
    <3> QED BY <3>1, <3>3, <3>4 DEF Room
  <2>2. \A s \in S : AllIn(g[s]) BY <1>1, <2>1, RoomListable
  <2>3. Apart(S, f) BY <2>1 DEF ListsIn
  <2>4. Apart(S, g) BY <1>1, <2>3 DEF Apart, SameWho
  <2> QED BY <2>2, <2>4
<1> QED BY <1>1, <1>2, <1>3 DEF ListsIn

\* One source has a new exporter at k, with number m.
Joins(fs, g, k, m) ==
    /\ k \notin DOMAIN fs.exps /\ DOMAIN g.exps = DOMAIN fs.exps \cup {k}
    /\ \A j \in DOMAIN fs.exps : SameWho(fs.exps[j], g.exps[j])
    /\ g.exps[k].sysid = m
    /\ (Lists(fs) => Lists(g)) /\ DOMAIN fs.all.exps \subseteq DOMAIN g.all.exps
    /\ HasRoom(fs, m) => /\ DOMAIN g.one.exps = DOMAIN fs.one.exps \cup {m} /\ In(g, k)
                         /\ \A j \in DOMAIN fs.exps : In(fs, j) => In(g, j)

LEMMA AdmitsJoins ==
    ASSUME NEW fs, NEW c, NEW g, NEW k, NEW dev, NEW m, Admits(fs, c, k, dev, m), Carries(c, g)
    PROVE  Joins(fs, g, k, m)
<1>1. /\ DOMAIN g.exps = DOMAIN c.exps /\ \A j \in DOMAIN c.exps : SameWho(c.exps[j], g.exps[j])
      /\ DOMAIN g.one.exps = DOMAIN c.one.exps /\ DOMAIN g.all.exps = DOMAIN c.all.exps
      /\ (Lists(c) => Lists(g))
      /\ \A j \in DOMAIN c.exps : In(c, j) => In(g, j)
  BY DEF Carries
<1>2. /\ k \notin DOMAIN fs.exps /\ DOMAIN c.exps = DOMAIN fs.exps \cup {k}
      /\ \A j \in DOMAIN fs.exps : SameWho(fs.exps[j], c.exps[j])
      /\ c.exps[k].sysid = m
      /\ (Lists(fs) => Lists(c)) /\ DOMAIN fs.all.exps \subseteq DOMAIN c.all.exps
  BY DEF Admits
<1>3. HasRoom(fs, m) => /\ DOMAIN c.one.exps = DOMAIN fs.one.exps \cup {m} /\ In(c, k)
                        /\ \A j \in DOMAIN fs.exps : In(fs, j) => In(c, j)
  BY DEF Admits
<1>4. \A j \in DOMAIN fs.exps : SameWho(fs.exps[j], g.exps[j]) BY <1>1, <1>2 DEF SameWho
<1>5. g.exps[k].sysid = m BY <1>1, <1>2 DEF SameWho
<1>6. HasRoom(fs, m) => /\ DOMAIN g.one.exps = DOMAIN fs.one.exps \cup {m} /\ In(g, k)
                        /\ \A j \in DOMAIN fs.exps : In(fs, j) => In(g, j)
  BY <1>1, <1>2, <1>3
<1> QED BY <1>1, <1>2, <1>4, <1>5, <1>6 DEF Joins

LEMMA JoinsKeep ==
    ASSUME NEW S, NEW f, NEW g, NEW n \in Nat, ListsIn(S, f, n), MaxExporters \in Nat,
           \A s \in S : f[s] \in SourceType, NEW x \in S, NEW k, NEW m \in {0, n + 1},
           Joins(f[x], g[x], k, m), \A s \in S : s # x => Continues(f[s], g[s]),
           NEW last, last = IF n >= m THEN n ELSE m
    PROVE  ListsIn(S, g, last)
<1>0. last \in Nat /\ n <= last /\ m <= last /\ (m # 0 => last = m /\ m = n + 1) OBVIOUS
<1>1. /\ k \notin DOMAIN f[x].exps /\ DOMAIN g[x].exps = DOMAIN f[x].exps \cup {k}
      /\ \A j \in DOMAIN f[x].exps : SameWho(f[x].exps[j], g[x].exps[j])
      /\ g[x].exps[k].sysid = m /\ Lists(g[x])
      /\ DOMAIN f[x].all.exps \subseteq DOMAIN g[x].all.exps
  BY DEF Joins, ListsIn
<1>2. ASSUME NEW s \in S, s # x
      PROVE  /\ DOMAIN g[s].exps = DOMAIN f[s].exps
             /\ \A j \in DOMAIN f[s].exps : SameWho(f[s].exps[j], g[s].exps[j])
             /\ Lists(g[s]) /\ DOMAIN f[s].all.exps \subseteq DOMAIN g[s].all.exps
             /\ Listable(f[s]) /\ AllIn(f[s]) => AllIn(g[s])
  BY <1>2 DEF Continues, ListsIn
<1>3. \A s \in S : \A j \in DOMAIN f[s].exps : f[s].exps[j].sysid <= n /\ f[s].exps[j].sysid \in Nat
  BY SysidNat DEF ListsIn
<1>4. ASSUME NEW s \in S, NEW j \in DOMAIN g[s].exps, s # x \/ j # k
      PROVE  j \in DOMAIN f[s].exps /\ g[s].exps[j].sysid = f[s].exps[j].sysid
  BY <1>1, <1>2, <1>4 DEF SameWho
<1>5. \A s \in S : \A j \in DOMAIN g[s].exps : g[s].exps[j].sysid <= last
  <2> SUFFICES ASSUME NEW s \in S, NEW j \in DOMAIN g[s].exps PROVE g[s].exps[j].sysid <= last
    OBVIOUS
  <2>1. CASE s = x /\ j = k BY <1>0, <1>1, <2>1
  <2>2. CASE s # x \/ j # k
    <3>1. PICK i \in Nat : i = f[s].exps[j].sysid /\ i <= n BY <1>3, <1>4, <2>2
    <3> QED BY <1>0, <1>4, <2>2, <3>1
  <2> QED BY <2>1, <2>2
<1>6. \A s \in S : Lists(g[s]) BY <1>1, <1>2
<1>7. ASSUME \A s \in S : Room(g[s], last)
      PROVE  Apart(S, g) /\ \A s \in S : AllIn(g[s])
  <2>1. m # 0 /\ last = m /\ m = n + 1
    <3>1. k \in DOMAIN g[x].exps BY <1>1
    <3>2. m # 0 BY <1>1, <1>7, <3>1 DEF Room
    <3> QED BY <1>0, <3>2
  <2>2. ASSUME NEW s \in S PROVE Room(f[s], n) /\ FreeBehind(f[s].all.exps, m) # {} /\ m < MaxExporters
    <3>1. PICK a, b : a = f[s].all.exps /\ b = g[s].all.exps OBVIOUS
    <3>2. DOMAIN a \subseteq DOMAIN b BY <1>1, <1>2, <3>1
    <3>3. FreeBehind(b, m) # {} BY <1>7, <2>1, <3>1 DEF Room
    <3>4. FreeBehind(a, n) # {} /\ FreeBehind(a, m) # {} /\ m < MaxExporters
      BY <2>1, <3>2, <3>3, RoomBefore
    <3>5. \A j \in DOMAIN f[s].exps : f[s].exps[j].sysid # 0
      <4>1. \A j \in DOMAIN f[s].exps : j \in DOMAIN g[s].exps /\ (s # x \/ j # k)
        BY <1>1, <1>2
      <4> QED BY <1>4, <1>7, <4>1 DEF Room
    <3> QED BY <3>1, <3>4, <3>5 DEF Room
  <2>3. Apart(S, f) BY <2>2 DEF ListsIn
  <2>4. \A s \in S : Listable(f[s]) /\ AllIn(f[s]) BY <2>2, RoomListable
  <2>5. Apart(S, g)
    <3> SUFFICES ASSUME NEW s \in S, NEW t \in S, NEW j \in DOMAIN g[s].exps,
                        NEW l \in DOMAIN g[t].exps, g[s].exps[j].sysid = g[t].exps[l].sysid
                 PROVE  s = t /\ j = l
      BY DEF Apart
    <3>1. \A i \in Nat : i <= n => i # m BY <2>1
    <3>2. CASE (s # x \/ j # k) /\ (t # x \/ l # k) BY <1>4, <2>3, <3>2 DEF Apart
    <3>3. CASE s = x /\ j = k /\ (t # x \/ l # k)
      <4>1. g[t].exps[l].sysid = m BY <1>1, <3>3
      <4>2. PICK i \in Nat : i = f[t].exps[l].sysid /\ i <= n BY <1>3, <1>4, <3>3
      <4> QED BY <1>4, <3>1, <3>3, <4>1, <4>2
    <3>4. CASE t = x /\ l = k /\ (s # x \/ j # k)
      <4>1. g[s].exps[j].sysid = m BY <1>1, <3>4
      <4>2. PICK i \in Nat : i = f[s].exps[j].sysid /\ i <= n BY <1>3, <1>4, <3>4
      <4> QED BY <1>4, <3>1, <3>4, <4>1, <4>2
    <3> QED BY <3>2, <3>3, <3>4
  <2>6. AllIn(g[x])
    <3>1. PICK a, b : a = f[x] /\ b = g[x] OBVIOUS
    <3>2. m \notin DOMAIN a.one.exps
      <4>1. DOMAIN a.one.exps = {a.exps[j].sysid : j \in DOMAIN a.exps}
        BY <2>4, <3>1 DEF AllIn, OnlyThose
      <4>2. \A j \in DOMAIN a.exps : a.exps[j].sysid # m
        <5>1. \A j \in DOMAIN a.exps : a.exps[j].sysid <= n /\ a.exps[j].sysid \in Nat
          BY <1>3, <3>1
        <5> QED BY <2>1, <5>1
      <4> QED BY <4>1, <4>2
    <3>3. HasRoom(a, m) BY <2>2, <3>1, <3>2 DEF HasRoom
    <3>4. /\ DOMAIN b.one.exps = DOMAIN a.one.exps \cup {m} /\ In(b, k)
          /\ \A j \in DOMAIN a.exps : In(a, j) => In(b, j)
      BY <3>1, <3>3 DEF Joins
    <3>5. \A j \in DOMAIN b.exps : In(b, j) BY <1>1, <2>4, <3>1, <3>4 DEF AllIn
    <3>6. {b.exps[j].sysid : j \in DOMAIN b.exps} = {a.exps[j].sysid : j \in DOMAIN a.exps} \cup {m}
      BY <1>1, <3>1 DEF SameWho
    <3>7. OnlyThose(b)
      <4>1. DOMAIN a.one.exps = {a.exps[j].sysid : j \in DOMAIN a.exps}
        BY <2>4, <3>1 DEF AllIn, OnlyThose
      <4> QED BY <3>4, <3>6, <4>1 DEF OnlyThose
    <3> QED BY <3>1, <3>5, <3>7 DEF AllIn
  <2>7. \A s \in S : AllIn(g[s]) BY <1>2, <2>4, <2>6
  <2> QED BY <2>5, <2>7
<1> QED BY <1>5, <1>6, <1>7 DEF ListsIn

\* What the collector knows of the samplers of device d, when it has told of S:
\* the same, unless an id stood for different things.
SaidAt(fs, d, S, mixed) ==
    /\ SaidOne(S) /\ (mixed \/ Has(fs, d) \/ S = {})
    /\ \A k \in DOMAIN fs.exps : fs.exps[k].dev = d =>
          /\ d \in V5 => fs.exps[k].samplers = {First}
          /\ mixed \/ fs.exps[k].samplers = S

LEMMA SaidStays ==
    ASSUME NEW fs, NEW g, NEW d, NEW S, NEW mixed \in BOOLEAN, NEW then \in BOOLEAN,
           mixed => then, SaidAt(fs, d, S, mixed),
           \A k \in DOMAIN fs.exps : k \in DOMAIN g.exps /\ SameWho(fs.exps[k], g.exps[k]),
           \A k \in DOMAIN fs.exps : fs.exps[k].dev = d => SameSamplers(fs, g, k),
           \A k \in DOMAIN g.exps : g.exps[k].dev = d => k \in DOMAIN fs.exps
    PROVE  SaidAt(g, d, S, then)
<1>1. Has(fs, d) => Has(g, d) BY DEF Has, SameWho
<1>2. ASSUME NEW k \in DOMAIN g.exps, g.exps[k].dev = d
      PROVE  /\ d \in V5 => g.exps[k].samplers = {First}
             /\ then \/ g.exps[k].samplers = S
  <2>1. k \in DOMAIN fs.exps BY <1>2
  <2>2. fs.exps[k].dev = d BY <1>2, <2>1 DEF SameWho
  <2>3. g.exps[k].samplers = fs.exps[k].samplers BY <2>1, <2>2 DEF SameSamplers
  <2> QED BY <2>1, <2>2, <2>3 DEF SaidAt
<1> QED BY <1>1, <1>2 DEF SaidAt

Mixed == "options" \in raced
SaidInv == /\ DOMAIN said = Devices
           /\ \A d \in Devices \ Ipfix : SaidAt(src[SourceOf(d)], d, said[d], Mixed)

ExportersInv == TablesInv /\ ListsIn(Sources, src, sysid) /\ SaidInv

-----------------------------------------------------------------------------
(* Packets                                                                 *)

\* Of sources other than the one that gets the packet, nothing of this changes.
LEMMA PacketSteady ==
    ASSUME Typed, NEW d \in Devices, NEW g, GotPacket(d, g)
    PROVE  /\ src'[SourceOf(d)] = g
           /\ \A s \in Sources : s # SourceOf(d) => Steady(src[s], src'[s])
<1>1. PICK o : o = Opened(d) OBVIOUS
<1>2. o \in [Sources -> SourceType] BY <1>1, OpenedDoes
<1>3. PICK x : x = SourceOf(d) OBVIOUS
<1>4. x \in Sources BY <1>3, Surroundings DEF Typed
<1>5. src' = [o EXCEPT ![x] = g] BY <1>1, <1>3 DEF GotPacket
<1>6. src'[x] = g /\ \A s \in Sources : s # x => src'[s] = o[s] BY <1>2, <1>4, <1>5
<1>7. \A s \in Sources : Steady(src[s], o[s]) BY <1>1, OpenedSteady
<1> QED BY <1>3, <1>6, <1>7

\* The exporter of a packet when its set is decoded.
LEMMA PacketFrom ==
    ASSUME ExportersInv, NEW d \in Devices, NEW c, c = Checked(d), NEW k, k = Index(c, d)
    PROVE  /\ Placed(c) /\ k \in DOMAIN c.exps /\ c.exps[k].dev = d
           /\ \A j \in DOMAIN c.exps : c.exps[j].dev = d => j = k
           /\ MembersOf(c, SourceOf(d))
           /\ Lists(c) /\ c.opts = src[SourceOf(d)].opts
           /\ d \in V5 => c.exps[k].samplers = {First}
           /\ Mixed \/ d \in V5 \cup Ipfix \/ c.exps[k].samplers = said[d]
<1>1. TablesInv BY DEF ExportersInv
<1>2. Ready(c, SourceOf(d), d) BY <1>1, CheckedDoes
<1>3. Placed(c) /\ k \in DOMAIN c.exps /\ c.exps[k].dev = d /\ MembersOf(c, SourceOf(d))
  BY <1>2 DEF Ready
<1>4. \A j \in DOMAIN c.exps : c.exps[j].dev = d => j = k BY <1>3, IndexIs
<1>5. PICK fs : fs = src[SourceOf(d)] OBVIOUS
<1>6. SourceOf(d) \in Sources BY <1>1, Surroundings DEF TablesInv, Typed
<1>7. Lists(fs) BY <1>5, <1>6 DEF ExportersInv, ListsIn
<1>8. d \notin Ipfix => SaidAt(fs, d, said[d], Mixed) BY <1>5 DEF ExportersInv, SaidInv
<1>9. d \in V5 => d \notin Ipfix BY Constants
<1>10. CASE ~New(d)
  <2>1. Steady(fs, c) BY <1>1, <1>5, <1>10, CheckedAdmits
  <2>2. Lists(c) BY <1>7, <2>1, SteadyCarries DEF Carries
  <2>3. /\ k \in DOMAIN fs.exps /\ fs.exps[k].dev = d /\ c.exps[k].samplers = fs.exps[k].samplers
        /\ c.opts = fs.opts
    BY <1>3, <2>1 DEF Steady, SameWho
  <2>4. d \notin Ipfix => /\ d \in V5 => fs.exps[k].samplers = {First}
                          /\ Mixed \/ fs.exps[k].samplers = said[d]
    BY <1>8, <2>3 DEF SaidAt
  <2> QED BY <1>3, <1>4, <1>5, <1>9, <2>2, <2>3, <2>4
<1>11. CASE New(d)
  <2>1. PICK i : Admits(fs, c, i, d, AssignExporterID(sysid)) BY <1>1, <1>5, <1>11, CheckedAdmits
  <2>2. /\ DOMAIN c.exps = DOMAIN fs.exps \cup {i} /\ c.exps[i].dev = d
        /\ c.exps[i].samplers = IF d \in V5 THEN {First} ELSE {}
        /\ c.opts = fs.opts /\ (Lists(fs) => Lists(c))
    BY Zenon, <2>1 DEF Admits
  <2>3. i = k BY <1>4, <2>2
  <2>4. d \notin Ipfix => Mixed \/ said[d] = {}
    BY <1>5, <1>8, <1>11 DEF SaidAt, New
  <2> QED BY <1>3, <1>4, <1>5, <1>7, <2>2, <2>3, <2>4
<1> QED BY <1>10, <1>11

LEMMA PacketLists ==
    ASSUME ExportersInv, NEW d \in Devices, NEW c, c = Checked(d), NEW g, GotPacket(d, g),
           Carries(c, g)
    PROVE  ListsIn(Sources, src', sysid')
<1>1. TablesInv /\ Typed BY DEF ExportersInv, TablesInv
<1>2. PICK S : S = Sources OBVIOUS
<1>3. PICK x \in S : x = SourceOf(d) BY <1>1, <1>2, Surroundings DEF Typed
<1>4. PICK f, h : f = src /\ h = src' OBVIOUS
<1>5. PICK n \in Nat : n = sysid BY <1>1, Constants DEF Typed
<1>6. h[x] = g /\ \A s \in S : s # x => Steady(f[s], h[s])
  BY <1>1, <1>2, <1>3, <1>4, PacketSteady
<1>7. \A s \in S : s # x => Continues(f[s], h[s]) BY <1>6, SteadyCarries, CarriesContinues
<1>8. ListsIn(S, f, n) BY <1>2, <1>4, <1>5 DEF ExportersInv
<1>9. \A s \in S : f[s] \in SourceType BY <1>1, <1>2, <1>4 DEF Typed
<1>10. CASE ~New(d)
  <2>1. Steady(f[x], c) BY <1>1, <1>3, <1>4, <1>10, CheckedAdmits
  <2>2. Continues(f[x], h[x]) BY <1>6, <2>1, SteadyCarries, CarriesChain, CarriesContinues
  <2>3. ListsIn(S, h, n) BY <1>7, <1>8, <1>9, <2>2, Constants, ContinuesKeep
  <2>4. sysid' = n BY <1>5, <1>10 DEF GotPacket
  <2> QED BY <1>2, <1>4, <2>3, <2>4
<1>11. CASE New(d)
  <2>1. PICK m \in {0, n + 1} : m = AssignExporterID(n) BY DEF AssignExporterID
  <2>2. PICK k : Admits(f[x], c, k, d, m)
    BY <1>1, <1>3, <1>4, <1>5, <1>11, <2>1, CheckedAdmits
  <2>3. Joins(f[x], h[x], k, m) BY <1>6, <2>2, AdmitsJoins
  <2>4. PICK last : last = IF n >= m THEN n ELSE m OBVIOUS
  <2>5. ListsIn(S, h, last) BY <1>7, <1>8, <1>9, <2>3, <2>4, Constants, JoinsKeep
  <2>6. sysid' = last
    <3>1. sysid' = Max({n, m}) BY <1>5, <1>11, <2>1 DEF GotPacket
    <3>2. Max({n, m}) = IF n >= m THEN n ELSE m BY MaxOfTwo
    <3> QED BY <2>4, <3>1, <3>2
  <2> QED BY <1>2, <1>4, <2>5, <2>6
<1> QED BY <1>10, <1>11

LEMMA PacketSaid ==
    ASSUME ExportersInv, NEW d \in Devices, NEW c, c = Checked(d), NEW k, k = Index(c, d),
           NEW g, GotPacket(d, g), Carries(c, g), OnlyAt(c, g, k), raced \subseteq raced',
           DOMAIN said' = DOMAIN said, \A e \in Devices : e # d => said'[e] = said[e],
           d \notin Ipfix => /\ SaidOne(said'[d])
                             /\ d \in V5 => g.exps[k].samplers = {First}
                             /\ Mixed' \/ g.exps[k].samplers = said'[d]
    PROVE  SaidInv'
<1>1. TablesInv /\ Typed BY DEF ExportersInv, TablesInv
<1>2. /\ k \in DOMAIN c.exps /\ c.exps[k].dev = d
      /\ \A j \in DOMAIN c.exps : c.exps[j].dev = d => j = k
  BY PacketFrom
<1>3. /\ DOMAIN g.exps = DOMAIN c.exps /\ \A j \in DOMAIN c.exps : SameWho(c.exps[j], g.exps[j])
  BY DEF Carries
<1>4. /\ src'[SourceOf(d)] = g
      /\ \A s \in Sources : s # SourceOf(d) => Steady(src[s], src'[s])
  BY <1>1, PacketSteady
<1>5. Devices' = Devices /\ Sources' = Sources /\ \A e : SourceOf(e)' = SourceOf(e)
  BY SameNet DEF GotPacket
<1>6. PICK mixed \in BOOLEAN : mixed <=> Mixed BY DEF Mixed
<1>7. PICK then \in BOOLEAN : then <=> Mixed' BY DEF Mixed
<1>8. mixed => then BY <1>6, <1>7 DEF Mixed
<1>9. PICK fs : fs = src[SourceOf(d)] OBVIOUS
<1>10. ASSUME NEW e \in Devices \ Ipfix
       PROVE  SaidAt(src'[SourceOf(e)], e, said'[e], then)
  <2>1. CASE e = d
    <3>1. Has(g, d) BY <1>2, <1>3 DEF Has, SameWho
    <3>2. \A j \in DOMAIN g.exps : g.exps[j].dev = d => j = k BY <1>2, <1>3 DEF SameWho
    <3>3. SaidAt(g, d, said'[d], then) BY <1>7, <2>1, <3>1, <3>2 DEF SaidAt
    <3> QED BY <1>4, <2>1, <3>3
  <2>2. CASE e # d /\ SourceOf(e) = SourceOf(d)
    <3>1. SaidAt(fs, e, said[e], mixed)
      BY <1>6, <1>9, <2>2 DEF ExportersInv, SaidInv, SaidAt
    <3>2. SaidAt(c, e, said[e], mixed)
      <4>1. CASE ~New(d)
        <5>1. Steady(fs, c) BY <1>1, <1>9, <4>1, CheckedAdmits
        <5>2. /\ DOMAIN c.exps = DOMAIN fs.exps
              /\ \A j \in DOMAIN fs.exps : SameWho(fs.exps[j], c.exps[j]) /\ SameSamplers(fs, c, j)
          BY <5>1 DEF Steady, SameSamplers
        <5> QED BY <3>1, <5>2, SaidStays
      <4>2. CASE New(d)
        <5>1. PICK i : Admits(fs, c, i, d, AssignExporterID(sysid)) BY <1>1, <1>9, <4>2, CheckedAdmits
        <5>2. /\ DOMAIN c.exps = DOMAIN fs.exps \cup {i} /\ c.exps[i].dev = d
              /\ \A j \in DOMAIN fs.exps : SameWho(fs.exps[j], c.exps[j]) /\ SameSamplers(fs, c, j)
          BY Zenon, <5>1 DEF Admits
        <5> QED BY <2>2, <3>1, <5>2, SaidStays
      <4> QED BY <4>1, <4>2
    <3>3. \A j \in DOMAIN c.exps : c.exps[j].dev = e => SameSamplers(c, g, j)
      BY <1>2, <2>2 DEF OnlyAt
    <3>4. SaidAt(g, e, said[e], then)
      <4>1. PICK S : S = said[e] OBVIOUS
      <4>2. PICK a, b : a = c /\ b = g OBVIOUS
      <4>3. SaidAt(a, e, S, mixed) BY <3>2, <4>1, <4>2
      <4>4. /\ \A j \in DOMAIN a.exps : j \in DOMAIN b.exps /\ SameWho(a.exps[j], b.exps[j])
            /\ \A j \in DOMAIN a.exps : a.exps[j].dev = e => SameSamplers(a, b, j)
            /\ \A j \in DOMAIN b.exps : b.exps[j].dev = e => j \in DOMAIN a.exps
        BY <1>3, <3>3, <4>2
      <4>5. SaidAt(b, e, S, then) BY ONLY <1>6, <1>7, <1>8, <4>3, <4>4, SaidStays
      <4> QED BY <4>1, <4>2, <4>5
    <3> QED BY <1>4, <2>2, <3>4
  <2>3. CASE SourceOf(e) # SourceOf(d)
    <3>1. PICK a, b : a = src[SourceOf(e)] /\ b = src'[SourceOf(e)] OBVIOUS
    <3>2. SourceOf(e) \in Sources BY <1>1, Surroundings DEF Typed
    <3>3. Steady(a, b) BY <1>4, <2>3, <3>1, <3>2
    <3>4. SaidAt(a, e, said[e], mixed) BY <1>6, <3>1 DEF ExportersInv, SaidInv, SaidAt
    <3>5. /\ DOMAIN b.exps = DOMAIN a.exps
          /\ \A j \in DOMAIN a.exps : SameWho(a.exps[j], b.exps[j]) /\ SameSamplers(a, b, j)
      BY <3>3 DEF Steady, SameSamplers
    <3>6. SaidAt(b, e, said[e], then)
      <4>1. PICK S : S = said[e] OBVIOUS
      <4>2. SaidAt(a, e, S, mixed) BY <3>4, <4>1
      <4>3. /\ \A j \in DOMAIN a.exps : j \in DOMAIN b.exps /\ SameWho(a.exps[j], b.exps[j])
            /\ \A j \in DOMAIN a.exps : a.exps[j].dev = e => SameSamplers(a, b, j)
            /\ \A j \in DOMAIN b.exps : b.exps[j].dev = e => j \in DOMAIN a.exps
        BY <3>5
      <4>4. SaidAt(b, e, S, then) BY ONLY <1>6, <1>7, <1>8, <4>2, <4>3, SaidStays
      <4> QED BY <4>1, <4>4
    <3>7. e # d BY <2>3
    <3> QED BY <3>1, <3>6, <3>7
  <2> QED BY <2>1, <2>2, <2>3
<1>11. DOMAIN said' = Devices BY DEF ExportersInv, SaidInv
<1>12. \A e \in Devices \ Ipfix : SaidAt(src'[SourceOf(e)], e, said'[e], Mixed')
  BY <1>7, <1>10 DEF SaidAt
<1> QED BY <1>5, <1>11, <1>12 DEF SaidInv

\* A packet that leaves the samplers alone.
LEMMA PacketSame ==
    ASSUME ExportersInv, TablesInv', NEW d \in Devices \ V5, NEW c, c = Checked(d), NEW g,
           GotPacket(d, g), Carries(c, g), \A j \in DOMAIN c.exps : SameSamplers(c, g, j),
           raced \subseteq raced', said' = said
    PROVE  ExportersInv'
<1>1. PICK k : k = Index(c, d) OBVIOUS
<1>2. k \in DOMAIN c.exps /\ (Mixed \/ d \in Ipfix \/ c.exps[k].samplers = said[d])
  BY <1>1, PacketFrom
<1>3. OnlyAt(c, g, k) BY DEF OnlyAt
<1>4. d \notin Ipfix => SaidOne(said[d]) BY DEF ExportersInv, SaidInv, SaidAt
<1>5. g.exps[k].samplers = c.exps[k].samplers BY <1>2 DEF SameSamplers
<1>6. Mixed => Mixed' BY DEF Mixed
<1>7. SaidInv' BY <1>1, <1>2, <1>3, <1>4, <1>5, <1>6, PacketSaid
<1>8. Sources' = Sources BY SameNet DEF GotPacket
<1>9. ListsIn(Sources, src', sysid') BY PacketLists
<1> QED BY <1>7, <1>8, <1>9 DEF ExportersInv

\* A packet that tells of no sampler changes none.
LEMMA V5Exporters ==
    ASSUME ExportersInv, TablesInv', NEW d \in V5 \cap Devices, V5Packet(d) PROVE ExportersInv'
<1>1. PICK c : c = Checked(d) OBVIOUS
<1>2. PICK k : k = Index(c, d) OBVIOUS
<1>3. /\ Placed(c) /\ k \in DOMAIN c.exps /\ MembersOf(c, SourceOf(d))
      /\ c.exps[k].dev = d /\ c.exps[k].samplers = {First}
  BY <1>1, <1>2, PacketFrom
<1>4. PICK t : t = c.exps[k].list[1] OBVIOUS
<1>5. t \in Live(c, k)
  <2>1. 1 \in DOMAIN c.exps[k].list BY <1>3 DEF MembersOf, Member
  <2> QED BY <1>4, <2>1, LiveIs
<1>6. PICK g : g = AddRecord(c, t) OBVIOUS
<1>7. GotPacket(d, g)
  BY <1>1, <1>2, <1>4, <1>6 DEF V5Packet, Packet, GotPacket
<1>8. raced' = raced BY Zenon DEF V5Packet
<1>9. Carries(c, g) /\ \A j \in DOMAIN c.exps : SameSamplers(c, g, j)
  <2>1. Steady(c, g) BY <1>3, <1>5, <1>6, RecordSteady
  <2> QED BY <2>1, SteadyCarries
<1>10. PICK S : S = {First} OBVIOUS
<1>11. said' = [said EXCEPT ![d] = S] BY <1>10 DEF V5Packet, First
<1>12. DOMAIN said = Devices BY DEF ExportersInv, SaidInv
<1>13. /\ DOMAIN said' = DOMAIN said /\ said'[d] = S
       /\ \A e \in Devices : e # d => said'[e] = said[e]
  BY <1>11, <1>12
<1>14. g.exps[k].samplers = {First} BY <1>3, <1>9 DEF SameSamplers
<1>15. SaidOne(S) BY <1>10 DEF SaidOne
<1>16. OnlyAt(c, g, k) BY <1>9 DEF OnlyAt
<1>17. raced \subseteq raced' BY <1>8
<1>18. /\ SaidOne(said'[d])
       /\ d \in V5 => g.exps[k].samplers = {First}
       /\ Mixed' \/ g.exps[k].samplers = said'[d]
  BY <1>10, <1>13, <1>14, <1>15
<1>19. SaidInv' BY <1>1, <1>2, <1>7, <1>9, <1>13, <1>16, <1>17, <1>18, PacketSaid
<1>20. ListsIn(Sources, src', sysid') BY <1>1, <1>7, <1>9, PacketLists
<1>21. Sources' = Sources BY <1>7, SameNet DEF GotPacket
<1> QED BY <1>19, <1>20, <1>21 DEF ExportersInv

LEMMA TemplateExporters ==
    ASSUME ExportersInv, TablesInv', NEW d \in Devices \ V5, NEW id \in net.ids,
           NEW ex \in net.layouts, Template(d, id, ex)
    PROVE  ExportersInv'
<1>1. PICK c : c = Checked(d) OBVIOUS
<1>2. PICK k : k = Index(c, d) OBVIOUS
<1>3. Placed(c) /\ k \in DOMAIN c.exps BY <1>1, <1>2, PacketFrom
<1>4. TablesInv BY DEF ExportersInv
<1>5. PICK i \in TemplateIds : i = id BY <1>4, Surroundings DEF TablesInv, Typed
<1>6. PICK x \in Layout : x = Stored(d, ex)
  <2>1. Stored(d, ex) \in Layout
    BY <1>4, Constants, Surroundings DEF Stored, Layout, TablesInv, Typed
  <2> QED BY <2>1
<1>7. PICK g : g = AddTemplate(c, k, i, x) OBVIOUS
<1>8. GotPacket(d, g)
  BY Zenon, <1>1, <1>2, <1>5, <1>6, <1>7 DEF Template, Packet, GotPacket
<1>9. raced' = raced /\ said' = said BY Zenon DEF Template
<1>10. Steady(c, g) BY <1>3, <1>7, TemplateSteady
<1>11. Carries(c, g) /\ \A j \in DOMAIN c.exps : SameSamplers(c, g, j)
  BY <1>10, SteadyCarries
<1> QED BY <1>1, <1>8, <1>9, <1>11, PacketSame

LEMMA OptionTemplateExporters ==
    ASSUME ExportersInv, TablesInv', NEW d \in Devices \ V5, NEW id \in net.ids,
           NEW kind \in net.kinds, OptionTemplate(d, id, kind)
    PROVE  ExportersInv'
<1>1. PICK c : c = Checked(d) OBVIOUS
<1>2. PICK k : k = Index(c, d) OBVIOUS
<1>3. Placed(c) BY <1>1, <1>2, PacketFrom
<1>4. TablesInv BY DEF ExportersInv
<1>5. PICK i \in TemplateIds : i = id BY <1>4, Surroundings DEF TablesInv, Typed
<1>6. PICK x \in Kinds : x = kind BY <1>4, Surroundings DEF TablesInv, Typed
<1>7. PICK g : g = IF d \in V9 THEN InsertOffset(c, i, x) ELSE c OBVIOUS
<1>8. GotPacket(d, g)
  BY Zenon, <1>1, <1>2, <1>5, <1>6, <1>7 DEF OptionTemplate, Packet, GotPacket
<1>9. raced' = raced /\ said' = said BY Zenon DEF OptionTemplate
<1>10. Carries(c, g) /\ \A j \in DOMAIN c.exps : SameSamplers(c, g, j)
  <2>1. c \in SourceType BY <1>3 DEF Placed
  <2>2. CASE d \in V9
    <3>1. g = InsertOffset(c, i, x) BY <1>7, <2>2
    <3>2. Carries(c, g) /\ g.exps = c.exps BY <2>1, <3>1, OffsetCarries
    <3> QED BY <3>2 DEF SameSamplers
  <2>3. CASE d \notin V9 BY <1>7, <2>3, SteadySelf, SteadyCarries
  <2> QED BY <2>2, <2>3
<1> QED BY <1>1, <1>8, <1>9, <1>10, PacketSame

LEMMA DataSetIpfixExporters ==
    ASSUME ExportersInv, TablesInv', NEW d \in Ipfix \cap Devices, NEW id \in net.ids,
           DataSetIpfix(d, id)
    PROVE  ExportersInv'
<1>1. PICK c : c = Checked(d) OBVIOUS
<1>2. PICK k : k = Index(c, d) OBVIOUS
<1>3. Placed(c) /\ k \in DOMAIN c.exps BY <1>1, <1>2, PacketFrom
<1>4. PICK g : g = DataIpfix(c, k, id) OBVIOUS
<1>5. GotPacket(d, g) BY <1>1, <1>2, <1>4 DEF DataSetIpfix, Packet, GotPacket
<1>6. raced' = raced /\ said' = said BY Zenon DEF DataSetIpfix
<1>7. Steady(c, g) BY <1>3, <1>4, Constants, DataIpfixSteady
<1>8. Carries(c, g) /\ \A j \in DOMAIN c.exps : SameSamplers(c, g, j)
  BY <1>7, SteadyCarries
<1>9. d \in Devices \ V5 BY Constants
<1> QED BY <1>1, <1>5, <1>6, <1>8, <1>9, PacketSame

LEMMA WithdrawExporters ==
    ASSUME ExportersInv, TablesInv', NEW d \in Ipfix \cap Devices, NEW id \in net.ids,
           Withdraw(d, id)
    PROVE  ExportersInv'
<1>1. PICK c : c = Checked(d) OBVIOUS
<1>2. PICK k : k = Index(c, d) OBVIOUS
<1>3. Placed(c) /\ k \in DOMAIN c.exps BY <1>1, <1>2, PacketFrom
<1>4. PICK g : g = RemoveTable(c, k, id) OBVIOUS
<1>5. GotPacket(d, g) BY <1>1, <1>2, <1>4 DEF Withdraw, Packet, GotPacket
<1>6. raced' = raced /\ said' = said BY Zenon DEF Withdraw
<1>7. Steady(c, g) BY <1>3, <1>4, RemoveSteady
<1>8. Carries(c, g) /\ \A j \in DOMAIN c.exps : SameSamplers(c, g, j)
  BY <1>7, SteadyCarries
<1>9. d \in Devices \ V5 BY Constants
<1> QED BY <1>1, <1>5, <1>6, <1>8, <1>9, PacketSame

LEMMA WithdrawAllExporters ==
    ASSUME ExportersInv, TablesInv', NEW d \in Ipfix \cap Devices, WithdrawAll(d)
    PROVE  ExportersInv'
<1>1. PICK c : c = Checked(d) OBVIOUS
<1>2. PICK k : k = Index(c, d) OBVIOUS
<1>3. Placed(c) /\ k \in DOMAIN c.exps BY <1>1, <1>2, PacketFrom
<1>4. PICK g : g = RemoveAllTables(c, k) OBVIOUS
<1>5. GotPacket(d, g) BY <1>1, <1>2, <1>4 DEF WithdrawAll, Packet, GotPacket
<1>6. raced \subseteq raced' /\ said' = said BY Zenon DEF WithdrawAll
<1>7. Steady(c, g) BY <1>3, <1>4, RemoveAllSteady DEF Placed
<1>8. Carries(c, g) /\ \A j \in DOMAIN c.exps : SameSamplers(c, g, j)
  BY <1>7, SteadyCarries
<1>9. d \in Devices \ V5 BY Constants
<1> QED BY <1>1, <1>5, <1>6, <1>8, <1>9, PacketSame

\* Option data of v9: unless its id stood for something else too, the collector
\* has the sampler as it is told.
LEMMA DataSetV9Exporters ==
    ASSUME ExportersInv, TablesInv', NEW d \in V9 \cap Devices, NEW id \in net.ids,
           NEW rate \in Rates, DataSetV9(d, id, rate)
    PROVE  ExportersInv'
<1>0. d \in Devices \ V5 /\ d \notin Ipfix BY Constants
<1>1. PICK c : c = Checked(d) OBVIOUS
<1>2. PICK k : k = Index(c, d) OBVIOUS
<1>3. Placed(c) /\ k \in DOMAIN c.exps /\ Lists(c) /\ c.opts = src[SourceOf(d)].opts
  BY <1>1, <1>2, PacketFrom
<1>4. TablesInv BY DEF ExportersInv
<1>5. Mixed \/ c.exps[k].samplers = said[d] BY <1>0, <1>1, <1>2, PacketFrom
<1>6. PICK g : g = DataV9(c, k, id, rate) OBVIOUS
<1>7. GotPacket(d, g) BY <1>1, <1>2, <1>6 DEF DataSetV9, Packet, GotPacket
<1>8. raced' = IF Confused(d, id) THEN raced \cup {"options"} ELSE raced
  BY Zenon DEF DataSetV9
<1>9. raced \subseteq raced' /\ (Confused(d, id) => Mixed') /\ (Mixed => Mixed')
  BY <1>8 DEF Mixed
<1>10. /\ Carries(c, g) /\ OnlyAt(c, g, k)
       /\ Lookup(c, k, id) # 0 \/ OptionTable(c, id) = {} => SameSamplers(c, g, k)
       /\ \A kind \in Kinds :
             (Lookup(c, k, id) = 0 /\ OptionTable(c, id) = {kind} /\ OptsOk(c)
                /\ SaidOne(c.exps[k].samplers))
             => g.exps[k].samplers = Retold(c.exps[k].samplers, SamplerId(kind), rate)
  BY <1>3, <1>6, DataV9Carries
<1>11. Table(d, id) = Lookup(c, k, id) BY <1>0, <1>1, <1>2, <1>4, CheckedFinds
<1>12. Options(d, id) = OptionTable(c, id) BY <1>3 DEF Options, OptionTable
<1>13. PICK kind : kind = heard[d][id].kind OBVIOUS
<1>14. PICK S : S = said[d] OBVIOUS
<1>15. DOMAIN said = Devices /\ SaidOne(S) BY <1>0, <1>14 DEF ExportersInv, SaidInv, SaidAt
<1>16. ASSUME kind \in net.kinds PROVE SaidInv'
  <2>1. PICK T : T = Retold(S, SamplerId(kind), rate) OBVIOUS
  <2>2. said' = [said EXCEPT ![d] = T]
    <3>1. said' = [said EXCEPT ![d] = {s \in @ : s.id # SamplerId(kind)}
                                        \cup {[id |-> SamplerId(kind), rate |-> rate]}]
      BY Zenon, <1>13, <1>16 DEF DataSetV9
    <3> QED BY <1>14, <2>1, <3>1 DEF Retold
  <2>3. /\ DOMAIN said' = DOMAIN said /\ said'[d] = T
        /\ \A e \in Devices : e # d => said'[e] = said[e]
    BY <1>15, <2>2
  <2>4. SaidOne(T) BY <1>15, <2>1, RetoldOne
  <2>5. Mixed' \/ g.exps[k].samplers = T
    <3> SUFFICES ASSUME ~Mixed' PROVE g.exps[k].samplers = T
      OBVIOUS
    <3>1. ~Confused(d, id) /\ ~Mixed BY <1>9
    <3>2. Table(d, id) = 0 /\ Options(d, id) = {kind}
      BY <1>13, <1>16, <3>1 DEF Confused
    <3>3. c.exps[k].samplers = S BY <1>5, <1>14, <3>1
    <3>4. kind \in Kinds BY <1>4, <1>16, Surroundings DEF TablesInv, Typed
    <3>5. OptsOk(c) BY <1>3 DEF Lists
    <3>6. SaidOne(c.exps[k].samplers) BY <1>15, <3>3
    <3>7. Lookup(c, k, id) = 0 /\ OptionTable(c, id) = {kind} BY <1>11, <1>12, <3>2
    <3>8. g.exps[k].samplers = Retold(c.exps[k].samplers, SamplerId(kind), rate)
      BY <1>10, <3>4, <3>5, <3>6, <3>7
    <3> QED BY <2>1, <3>3, <3>8
  <2>6. d \notin Ipfix => /\ SaidOne(said'[d])
                          /\ d \in V5 => g.exps[k].samplers = {First}
                          /\ Mixed' \/ g.exps[k].samplers = said'[d]
    BY <1>0, <2>3, <2>4, <2>5
  <2>7. SaidInv' BY <1>0, <1>1, <1>2, <1>7, <1>9, <1>10, <2>3, <2>6, PacketSaid
  <2> QED BY <2>7
<1>17. ASSUME kind \notin net.kinds PROVE SaidInv'
  <2>1. said' = said BY Zenon, <1>13, <1>17 DEF DataSetV9
  <2>2. Mixed' \/ g.exps[k].samplers = S
    <3> SUFFICES ASSUME ~Mixed' PROVE g.exps[k].samplers = S
      OBVIOUS
    <3>1. ~Confused(d, id) /\ ~Mixed BY <1>9
    <3>2. Table(d, id) # 0 \/ Options(d, id) = {}
      BY <1>13, <1>17, <3>1 DEF Confused
    <3>3. c.exps[k].samplers = S BY <1>5, <1>14, <3>1
    <3>4. SameSamplers(c, g, k) BY <1>10, <1>11, <1>12, <3>2
    <3> QED BY <3>3, <3>4 DEF SameSamplers
  <2>3. d \notin Ipfix => /\ SaidOne(said'[d])
                          /\ d \in V5 => g.exps[k].samplers = {First}
                          /\ Mixed' \/ g.exps[k].samplers = said'[d]
    BY <1>0, <1>14, <1>15, <2>1, <2>2
  <2>4. DOMAIN said' = DOMAIN said /\ \A e \in Devices : e # d => said'[e] = said[e]
    BY <2>1
  <2>5. SaidInv' BY <1>0, <1>1, <1>2, <1>7, <1>9, <1>10, <2>3, <2>4, PacketSaid
  <2> QED BY <2>5
<1>18. ListsIn(Sources, src', sysid') BY <1>1, <1>7, <1>10, PacketLists
<1>19. Sources' = Sources BY <1>7, SameNet DEF GotPacket
<1> QED BY <1>16, <1>17, <1>18, <1>19 DEF ExportersInv

-----------------------------------------------------------------------------
(* Files and restarts                                                      *)

LEMMA RotateExporters == ASSUME ExportersInv, TablesInv', Rotate PROVE ExportersInv'
<1>1. /\ src' = [s \in Sources |-> IF s \in Range(created) THEN NextFile(src[s]) ELSE src[s]]
      /\ net' = net /\ raced' = raced /\ said' = said /\ sysid' = sysid
  BY DEF Rotate
<1>2. /\ Devices' = Devices /\ Sources' = Sources /\ \A d : SourceOf(d)' = SourceOf(d)
  BY <1>1, SameNet
<1>3. TablesInv /\ Typed BY DEF ExportersInv, TablesInv
<1>4. PICK S, f, h : S = Sources /\ f = src /\ h = src' OBVIOUS
<1>5. PICK n \in Nat : n = sysid BY <1>3, Constants DEF Typed
<1>6. ASSUME NEW s \in S
      PROVE  /\ Continues(f[s], h[s]) /\ \A k \in DOMAIN f[s].exps : SameSamplers(f[s], h[s], k)
  <2>1. Placed(f[s]) BY <1>3, <1>4, <1>6 DEF TablesInv, Holds
  <2>2. CASE s \in Range(created)
    <3>1. h[s] = NextFile(f[s]) BY <1>1, <1>4, <2>2
    <3>2. Refills(f[s], h[s]) BY <2>1, <3>1, Constants, NextFileRefills
    <3>3. \A k \in DOMAIN f[s].exps : SameSamplers(f[s], h[s], k) BY <3>2 DEF Refills
    <3> QED BY <3>2, <3>3, RefillsContinues
  <2>3. CASE s \notin Range(created)
    <3>1. h[s] = f[s] BY <1>1, <1>4, <2>3
    <3>2. Carries(f[s], h[s]) /\ \A k \in DOMAIN f[s].exps : SameSamplers(f[s], h[s], k)
      BY <3>1, SteadySelf, SteadyCarries
    <3> QED BY <3>2, CarriesContinues
  <2> QED BY <2>2, <2>3
<1>7. ListsIn(S, f, n) BY <1>4, <1>5 DEF ExportersInv
<1>8. \A s \in S : f[s] \in SourceType BY <1>3, <1>4 DEF Typed
<1>9. ListsIn(S, h, n) BY <1>6, <1>7, <1>8, Constants, ContinuesKeep
<1>10. PICK mixed \in BOOLEAN : mixed <=> Mixed BY DEF Mixed
<1>11. ASSUME NEW d \in Devices \ Ipfix PROVE SaidAt(src'[SourceOf(d)], d, said[d], mixed)
  <2>1. SourceOf(d) \in S BY <1>3, <1>4, Surroundings DEF Typed
  <2>2. PICK a, b, T : a = src[SourceOf(d)] /\ b = src'[SourceOf(d)] /\ T = said[d] OBVIOUS
  <2>3. Continues(a, b) /\ \A k \in DOMAIN a.exps : SameSamplers(a, b, k)
    BY <1>4, <1>6, <2>1, <2>2
  <2>4. SaidAt(a, d, T, mixed) BY <1>10, <2>2 DEF ExportersInv, SaidInv, SaidAt
  <2>5. /\ \A k \in DOMAIN a.exps : k \in DOMAIN b.exps /\ SameWho(a.exps[k], b.exps[k])
        /\ \A k \in DOMAIN a.exps : a.exps[k].dev = d => SameSamplers(a, b, k)
        /\ \A k \in DOMAIN b.exps : b.exps[k].dev = d => k \in DOMAIN a.exps
    BY <2>3 DEF Continues
  <2>6. SaidAt(b, d, T, mixed) BY ONLY <1>10, <2>4, <2>5, SaidStays
  <2> QED BY <2>2, <2>6
<1>12. Mixed' <=> mixed BY <1>1, <1>10 DEF Mixed
<1>13. \A d \in Devices \ Ipfix : SaidAt(src'[SourceOf(d)], d, said[d], Mixed')
  BY <1>11, <1>12 DEF SaidAt
<1>14. DOMAIN said = Devices BY DEF ExportersInv, SaidInv
<1>15. SaidInv' BY <1>1, <1>2, <1>13, <1>14 DEF SaidInv
<1> QED BY <1>1, <1>2, <1>4, <1>5, <1>9, <1>15 DEF ExportersInv

\* Sources without an exporter.
LEMMA NoneIn ==
    ASSUME NEW S, NEW f, \A s \in S : Lists(f[s]) /\ DOMAIN f[s].exps = {} /\ OnlyThose(f[s])
    PROVE  ListsIn(S, f, 0)
<1>1. Apart(S, f) BY DEF Apart
<1>2. \A s \in S : AllIn(f[s]) BY DEF AllIn
<1> QED BY <1>1, <1>2 DEF ListsIn

LEMMA NoneSaid ==
    ASSUME DOMAIN said = Devices, \A d \in Devices : said[d] = {} /\ SourceOf(d) \in Sources,
           \A s \in Sources : DOMAIN src[s].exps = {}
    PROVE  SaidInv
BY DEF SaidInv, SaidAt, SaidOne

LEMMA RestartExporters == ASSUME ExportersInv, TablesInv', Restart PROVE ExportersInv'
<1>1. /\ src' = [s \in Sources |-> LET closed == FlushExporterStats(src[s])
                                   IN Source(closed.all, closed.copy)]
      /\ net' = net /\ sysid' = 0 /\ said' = Unsaid
  BY DEF Restart
<1>2. /\ Devices' = Devices /\ Sources' = Sources /\ \A d : SourceOf(d)' = SourceOf(d)
  BY <1>1, SameNet
<1>3. TablesInv /\ Typed BY DEF ExportersInv, TablesInv
<1>4. ASSUME NEW s \in Sources
      PROVE  Lists(src'[s]) /\ DOMAIN src'[s].exps = {} /\ OnlyThose(src'[s])
  <2>1. PICK a : a = src[s] OBVIOUS
  <2>2. a \in SourceType /\ Lists(a) BY <1>3, <2>1 DEF ExportersInv, ListsIn, Typed
  <2>3. PICK c : c = FlushExporterStats(a) OBVIOUS
  <2>4. PICK g : g = Source(c.all, c.copy) OBVIOUS
  <2>5. Lists(g) /\ DOMAIN g.exps = {} /\ OnlyThose(g) BY <2>2, <2>3, <2>4, RestartLists
  <2>6. src'[s] = g BY <1>1, <2>1, <2>3, <2>4
  <2> QED BY <2>5, <2>6
<1>5. PICK S, h : S = Sources /\ h = src' OBVIOUS
<1>6. ListsIn(S, h, 0) BY <1>4, <1>5, NoneIn
<1>7. ListsIn(Sources, src, sysid)' BY <1>1, <1>2, <1>5, <1>6
<1>8. DOMAIN said' = Devices /\ \A d \in Devices : said'[d] = {} /\ SourceOf(d) \in Sources
  BY <1>1, <1>3, Surroundings DEF Unsaid, Typed
<1>9. SaidInv' BY <1>2, <1>4, <1>8 DEF SaidInv, SaidAt, SaidOne
<1> QED BY <1>7, <1>9 DEF ExportersInv

LEMMA InitExporters == ASSUME Init PROVE ExportersInv
<1>1. TablesInv BY InitTables
<1>2. src = [s \in Sources |-> Source(NoReader, NoReader)] /\ said = Unsaid /\ sysid = 0
  BY DEF Init
<1>3. PICK g : g = Source(NoReader, NoReader) OBVIOUS
<1>4. Lists(g) /\ DOMAIN g.exps = {} /\ OnlyThose(g) BY <1>3, StartLists
<1>5. \A s \in Sources : src[s] = g BY <1>2, <1>3
<1>6. PICK S, f : S = Sources /\ f = src OBVIOUS
<1>7. ListsIn(S, f, 0) BY <1>4, <1>5, <1>6, NoneIn
<1>8. DOMAIN said = Devices /\ \A d \in Devices : said[d] = {} /\ SourceOf(d) \in Sources
  BY <1>1, <1>2, Surroundings DEF Unsaid, TablesInv, Typed
<1>9. SaidInv BY <1>4, <1>5, <1>8, NoneSaid
<1> QED BY <1>1, <1>2, <1>6, <1>7, <1>9 DEF ExportersInv

LEMMA ExportersStep == ASSUME ExportersInv, [Next]_vars PROVE ExportersInv'
<1> TablesInv' BY TablesStep DEF ExportersInv
<1>1. ASSUME NEW d \in V5 \cap Devices, V5Packet(d) PROVE ExportersInv'
  BY <1>1, V5Exporters
<1>2. ASSUME NEW d \in Devices \ V5, NEW id \in net.ids,
             NEW ex \in net.layouts, Template(d, id, ex)
      PROVE  ExportersInv'
  BY <1>2, TemplateExporters
<1>3. ASSUME NEW d \in Devices \ V5, NEW id \in net.ids, NEW kind \in net.kinds,
             OptionTemplate(d, id, kind)
      PROVE  ExportersInv'
  BY <1>3, OptionTemplateExporters
<1>4. ASSUME NEW d \in V9 \cap Devices, NEW id \in net.ids, NEW rate \in Rates,
             DataSetV9(d, id, rate)
      PROVE  ExportersInv'
  BY <1>4, DataSetV9Exporters
<1>5. ASSUME NEW d \in Ipfix \cap Devices, NEW id \in net.ids, DataSetIpfix(d, id)
      PROVE  ExportersInv'
  BY <1>5, DataSetIpfixExporters
<1>6. ASSUME NEW d \in Ipfix \cap Devices, NEW id \in net.ids, Withdraw(d, id)
      PROVE  ExportersInv'
  BY <1>6, WithdrawExporters
<1>7. ASSUME NEW d \in Ipfix \cap Devices, WithdrawAll(d) PROVE ExportersInv'
  BY <1>7, WithdrawAllExporters
<1>8. ASSUME net' = net /\ src' = src /\ raced' = raced /\ said' = said /\ sysid' = sysid
      PROVE  ExportersInv'
  <2>1. Devices' = Devices /\ Sources' = Sources /\ \A d : SourceOf(d)' = SourceOf(d)
    BY <1>8, SameNet
  <2>2. ListsIn(Sources, src, sysid)' BY <1>8, <2>1 DEF ExportersInv
  <2>3. Mixed' <=> Mixed BY <1>8 DEF Mixed
  <2>4. \A d \in Devices \ Ipfix : SaidAt(src[SourceOf(d)], d, said[d], Mixed')
    BY <2>3 DEF ExportersInv, SaidInv, SaidAt
  <2>5. SaidInv'
    <3>1. DOMAIN said = Devices BY DEF ExportersInv, SaidInv
    <3> QED BY <1>8, <2>1, <2>4, <3>1 DEF SaidInv
  <2> QED BY <2>2, <2>5 DEF ExportersInv
<1>9. ASSUME NEW d \in Devices, Lose(d) PROVE ExportersInv'
  <2>1. net' = net /\ src' = src /\ raced' = raced /\ said' = said /\ sysid' = sysid
    BY <1>9 DEF Lose
  <2> QED BY <1>8, <2>1
<1>10. ASSUME UNCHANGED vars PROVE ExportersInv'
  <2>1. net' = net /\ src' = src /\ raced' = raced /\ said' = said /\ sysid' = sysid
    BY <1>10 DEF vars, hist
  <2> QED BY <1>8, <2>1
<1> QED
  BY <1>1, <1>2, <1>3, <1>4, <1>5, <1>6, <1>7, <1>9, <1>10, RotateExporters, RestartExporters
  DEF Next

-----------------------------------------------------------------------------
(* What the readers find                                                   *)

\* The ids of exporters are not used up, and neither are the slots a reader of
\* all files moves an exporter to when another one comes with its id.
RoomLeft == \A s \in Sources : Room(src[s], sysid)

\* An exporter of the collector.
LEMMA ExporterAt ==
    ASSUME TablesInv, NEW d \in Devices, ~New(d), NEW fs, fs = src[SourceOf(d)],
           NEW k, k = Index(fs, d)
    PROVE  /\ SourceOf(d) \in Sources /\ k \in DOMAIN fs.exps
           /\ fs.exps[k].dev = d /\ Exporter(d) = fs.exps[k]
<1>1. SourceOf(d) \in Sources BY Surroundings DEF TablesInv, Typed
<1>2. Has(fs, d) BY DEF New
<1>3. k \in DOMAIN fs.exps /\ fs.exps[k].dev = d BY <1>2 DEF Has, Index
<1> QED BY <1>1, <1>3 DEF Exporter

LEMMA ExportersSafe == ASSUME ExportersInv, RoomLeft PROVE ExportersResolve
<1>1. TablesInv /\ Typed BY DEF ExportersInv, TablesInv
<1>2. Apart(Sources, src) /\ \A s \in Sources : AllIn(src[s]) /\ Lists(src[s])
  BY DEF ExportersInv, ListsIn, RoomLeft
<1>3. ASSUME NEW d \in Devices, NEW e \in Devices, ~New(d), ~New(e),
             Exporter(d).sysid = Exporter(e).sysid
      PROVE  d = e
  <2>1. PICK a, b : a = src[SourceOf(d)] /\ b = src[SourceOf(e)] OBVIOUS
  <2>2. PICK k, l : k = Index(a, d) /\ l = Index(b, e) OBVIOUS
  <2>3. /\ SourceOf(d) \in Sources /\ k \in DOMAIN a.exps
        /\ a.exps[k].dev = d /\ Exporter(d) = a.exps[k]
    BY <1>1, <1>3, <2>1, <2>2, ExporterAt
  <2>4. /\ SourceOf(e) \in Sources /\ l \in DOMAIN b.exps
        /\ b.exps[l].dev = e /\ Exporter(e) = b.exps[l]
    BY <1>1, <1>3, <2>1, <2>2, ExporterAt
  <2>5. SourceOf(d) = SourceOf(e) /\ k = l BY <1>2, <1>3, <2>1, <2>3, <2>4 DEF Apart
  <2> QED BY <2>1, <2>3, <2>4, <2>5
<1>4. ASSUME NEW d \in Devices, ~New(d)
      PROVE  LET fs == src[SourceOf(d)]
                 id == Exporter(d).sysid IN
             /\ Means(fs.one.exps, id, d) /\ Means(fs.all.exps, id, d)
             /\ Means(fs.copy.exps, fs.all.exps[id].sysid, d)
  <2>1. PICK fs : fs = src[SourceOf(d)] OBVIOUS
  <2>2. PICK k : k = Index(fs, d) OBVIOUS
  <2>3. /\ SourceOf(d) \in Sources /\ k \in DOMAIN fs.exps
        /\ fs.exps[k].dev = d /\ Exporter(d) = fs.exps[k]
    BY <1>1, <1>4, <2>1, <2>2, ExporterAt
  <2>4. PICK id : id = Exporter(d).sysid OBVIOUS
  <2>5. In(fs, k) /\ Lists(fs) BY <1>2, <2>1, <2>3 DEF AllIn
  <2>6. PICK one, all, copy : one = fs.one.exps /\ all = fs.all.exps /\ copy = fs.copy.exps
    OBVIOUS
  <2>7. Means(one, id, d) /\ Means(all, id, d)
    BY <2>3, <2>4, <2>5, <2>6 DEF In, Present, Means
  <2>8. Numbered(all) /\ Copied(all, copy) BY <2>5, <2>6 DEF Lists
  <2>9. all[id].sysid \in DOMAIN copy
    <3>1. all[id].sysid \in {all[i].sysid : i \in DOMAIN all} BY <2>7 DEF Means
    <3> QED BY <2>8, <3>1 DEF Numbered, Copied
  <2>10. copy[all[id].sysid].dev = d BY <2>7, <2>8 DEF Means, Copied
  <2>11. Means(copy, all[id].sysid, d) BY <2>9, <2>10 DEF Means
  <2> QED BY <2>1, <2>4, <2>6, <2>7, <2>11
<1>5. \A s \in Sources : Numbered(src[s].one.exps) /\ Numbered(src[s].all.exps)
  BY <1>2 DEF Lists
<1> QED BY <1>3, <1>4, <1>5 DEF ExportersResolve

LEMMA SamplersSafe == ASSUME ExportersInv, RoomLeft PROVE SamplersAsTold
<1>1. TablesInv BY DEF ExportersInv
<1>2. \A s \in Sources : AllIn(src[s]) /\ Lists(src[s])
  BY DEF ExportersInv, ListsIn, RoomLeft
<1>3. ASSUME NEW d \in Devices \ Ipfix, ~New(d)
      PROVE  /\ "options" \in raced \/ Exporter(d).samplers = said[d]
             /\ LET fs == src[SourceOf(d)]
                    known(list, id) == {x.sampler.id : x \in list[id].samplers}
                    ids == {x.id : x \in Exporter(d).samplers}
                    id  == Exporter(d).sysid IN
                /\ ids \subseteq known(fs.one.exps, id) /\ ids \subseteq known(fs.all.exps, id)
                /\ ids \subseteq known(fs.copy.exps, fs.all.exps[id].sysid)
  <2>1. PICK fs : fs = src[SourceOf(d)] OBVIOUS
  <2>2. PICK k : k = Index(fs, d) OBVIOUS
  <2>3. /\ SourceOf(d) \in Sources /\ k \in DOMAIN fs.exps
        /\ fs.exps[k].dev = d /\ Exporter(d) = fs.exps[k]
    BY <1>1, <1>3, <2>1, <2>2, ExporterAt
  <2>4. PICK e : e = Exporter(d) OBVIOUS
  <2>5. In(fs, k) /\ Lists(fs) BY <1>2, <2>1, <2>3 DEF AllIn
  <2>6. PICK one, all, copy : one = fs.one.exps /\ all = fs.all.exps /\ copy = fs.copy.exps
    OBVIOUS
  <2>7. Present(one, e) /\ Present(all, e) BY <2>3, <2>4, <2>5, <2>6 DEF In
  <2>8. Copied(all, copy) BY <2>5, <2>6 DEF Lists
  <2>9. SaidAt(fs, d, said[d], Mixed) BY <2>1 DEF ExportersInv, SaidInv
  <2>10. "options" \in raced \/ e.samplers = said[d]
    BY <2>3, <2>4, <2>9 DEF SaidAt, Mixed
  <2>11. PICK S, id : S = e.samplers /\ id = e.sysid OBVIOUS
  <2>12. /\ \A s \in S : \E x \in one[id].samplers : x.sampler.id = s.id
         /\ \A s \in S : \E x \in all[id].samplers : x.sampler.id = s.id
         /\ id \in DOMAIN all
    BY <2>7, <2>11 DEF Present
  <2>13. \A s \in S : \E x \in copy[all[id].sysid].samplers : x.sampler.id = s.id
    BY <2>8, <2>12 DEF Copied
  <2>14. /\ {x.id : x \in S} \subseteq {x.sampler.id : x \in one[id].samplers}
         /\ {x.id : x \in S} \subseteq {x.sampler.id : x \in all[id].samplers}
         /\ {x.id : x \in S} \subseteq {x.sampler.id : x \in copy[all[id].sysid].samplers}
    BY <2>12, <2>13
  <2> QED BY <2>1, <2>4, <2>6, <2>10, <2>11, <2>14
<1> QED BY <1>3 DEF SamplersAsTold

\* The ids of exporters are unique over all sources, and every reader finds the
\* exporter of a record under its id, in spite of other exporters that had it
\* before a restart, as long as the collector has ids left to give and the
\* reader of all files slots to move an exporter to.
THEOREM ExportersStayResolved == Spec => [](RoomLeft => ExportersResolve)
<1>1. Init => ExportersInv BY InitExporters
<1>2. ExportersInv /\ [Next]_vars => ExportersInv' BY ExportersStep
<1>3. ExportersInv => (RoomLeft => ExportersResolve) BY ExportersSafe
<1> QED BY <1>1, <1>2, <1>3, PTL DEF Spec

\* The collector has the samplers an exporter told it of last, unless an id stood
\* for different things in one source, and every reader has each of them, as long
\* as there are ids and slots left.
THEOREM SamplersStayTold == Spec => [](RoomLeft => SamplersAsTold)
<1>1. Init => ExportersInv BY InitExporters
<1>2. ExportersInv /\ [Next]_vars => ExportersInv' BY ExportersStep
<1>3. ExportersInv => (RoomLeft => SamplersAsTold) BY SamplersSafe
<1> QED BY <1>1, <1>2, <1>3, PTL DEF Spec
=============================================================================
