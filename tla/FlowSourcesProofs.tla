------------------------- MODULE FlowSourcesProofs -------------------------
(***************************************************************************)
(* The tables of a reader, and the flow sources of the collector, for any  *)
(* number of exporters, templates and bounds.                              *)
(* Tables: what the tables of a reader promise, operation by operation.    *)
(* Sources: each operation of FlowSource is given by what it changes, and  *)
(* what a packet does to a source is one of them after the others.  The    *)
(* invariants then speak of the tables of one source: which of them are in *)
(* use, where they are in the list of maps, and what was heard of them.    *)
(***************************************************************************)
EXTENDS FlowSources, FiniteSetTheorems, WellFoundedInduction, TLAPS

-----------------------------------------------------------------------------
(* Exporters                                                               *)

\* A set of numbers that is not empty has a least one.
LEMMA LeastExists == ASSUME NEW T \in SUBSET Nat, T # {}
                     PROVE  \E x \in T : \A y \in T : x <= y
<1> DEFINE less == {ss \in Nat \X Nat : ss[1] < ss[2]}
<1>1. IsWellFoundedOn(less, Nat) BY NatLessThanWellFounded DEF OpToRel
<1>2. PICK x \in T : \A y \in T : <<y, x>> \notin less BY Zenon, <1>1, WFMin
<1>3. \A y \in T : ~(y < x) BY Zenon, <1>2
<1> QED BY <1>3

LEMMA FirstFreeIsFree ==
    ASSUME NEW list, NEW id \in Nat, MaxExporters \in Nat, FreeBehind(list, id) # {}
    PROVE  /\ FirstFree(list, id) \in Nat /\ FirstFree(list, id) # id
           /\ FirstFree(list, id) < MaxExporters
           /\ FirstFree(list, id) \notin DOMAIN list
<1>1. FreeBehind(list, id) \in SUBSET Nat BY DEF FreeBehind
<1>2. \E i \in FreeBehind(list, id) : \A j \in FreeBehind(list, id) : i <= j
  BY <1>1, LeastExists
<1>3. FirstFree(list, id) \in FreeBehind(list, id) BY <1>2 DEF FirstFree
<1> QED BY <1>3 DEF FreeBehind

\* The four outcomes of AddExporterInfo.
Kept(list, id, dev) == \/ id >= MaxExporters \/ Known(list, id, dev)
                       \/ id \in DOMAIN list /\ FreeBehind(list, id) = {}

LEMMA AddExporterCases ==
    ASSUME NEW list, NEW id, NEW dev
    PROVE  \/ Kept(list, id, dev) /\ AddExporterInfo(list, id, dev) = list
           \/ /\ ~Kept(list, id, dev) /\ id \notin DOMAIN list
              /\ AddExporterInfo(list, id, dev) = Put(list, id, NewExporter(id, dev))
           \/ /\ ~Kept(list, id, dev) /\ id \in DOMAIN list /\ FreeBehind(list, id) # {}
              /\ AddExporterInfo(list, id, dev)
                   = Put(Put(list, FirstFree(list, id), list[id]), id,
                         NewExporter(FirstFree(list, id), dev))
<1> DEFINE moved == LET i == FirstFree(list, id)
                    IN Put(Put(list, i, list[id]), id, NewExporter(i, dev))
<1>1. moved = Put(Put(list, FirstFree(list, id), list[id]), id,
                  NewExporter(FirstFree(list, id), dev))
  OBVIOUS
<1>2. CASE Kept(list, id, dev) BY <1>2 DEF Kept, AddExporterInfo
<1>3. CASE ~Kept(list, id, dev) /\ id \notin DOMAIN list
  BY <1>3 DEF Kept, AddExporterInfo
<1>4. CASE ~Kept(list, id, dev) /\ id \in DOMAIN list
  BY <1>1, <1>4 DEF Kept, AddExporterInfo
<1> QED BY <1>2, <1>3, <1>4

\* The new exporter is in a slot of its own, or takes the slot of another.
TakesFree(list, id, dev, new) ==
    /\ id \notin DOMAIN list /\ DOMAIN new = DOMAIN list \cup {id}
    /\ new[id].sysid = id /\ new[id].dev = dev /\ new[id].samplers = {}
    /\ \A j \in DOMAIN list : new[j] = list[j]

TakesUsed(list, id, dev, new, i) ==
    /\ id \in DOMAIN list /\ i \notin DOMAIN list /\ DOMAIN new = DOMAIN list \cup {i}
    /\ i \in Nat /\ i < MaxExporters
    /\ new[id].sysid = i /\ new[id].dev = dev /\ new[id].samplers = {} /\ new[i] = list[id]
    /\ \A j \in DOMAIN list : j # id => new[j] = list[j]

LEMMA AddExporterPlaces ==
    ASSUME NEW list, NEW id \in Nat, NEW dev, MaxExporters \in Nat,
           NEW new, new = AddExporterInfo(list, id, dev)
    PROVE  \/ new = list /\ Kept(list, id, dev)
           \/ TakesFree(list, id, dev, new)
           \/ \E i : TakesUsed(list, id, dev, new, i)
<1>1. CASE /\ id \notin DOMAIN list /\ new = Put(list, id, NewExporter(id, dev))
  BY <1>1 DEF TakesFree, Put, NewExporter
<1>2. CASE /\ id \in DOMAIN list /\ FreeBehind(list, id) # {}
           /\ new = Put(Put(list, FirstFree(list, id), list[id]), id,
                        NewExporter(FirstFree(list, id), dev))
  <2>1. PICK i : i = FirstFree(list, id) OBVIOUS
  <2>2. i \notin DOMAIN list /\ i \in Nat /\ i < MaxExporters BY <1>2, <2>1, FirstFreeIsFree
  <2>3. new = Put(Put(list, i, list[id]), id, NewExporter(i, dev)) BY <1>2, <2>1
  <2>4. TakesUsed(list, id, dev, new, i)
    BY <1>2, <2>2, <2>3 DEF TakesUsed, Put, NewExporter
  <2> QED BY <2>4
<1> QED BY <1>1, <1>2, AddExporterCases

LEMMA NumberedInFree ==
    ASSUME NEW list, Numbered(list), NEW id, NEW dev, NEW new, TakesFree(list, id, dev, new)
    PROVE  Numbered(new)
<1>1. /\ id \notin DOMAIN list /\ DOMAIN new = DOMAIN list \cup {id} /\ new[id].sysid = id
      /\ \A j \in DOMAIN list : new[j] = list[j]
  BY DEF TakesFree
<1>2. \A j \in DOMAIN list : list[j].sysid \in DOMAIN list BY DEF Numbered
<1>3. {new[j].sysid : j \in DOMAIN new} = DOMAIN new
  <2>1. \A j \in DOMAIN new : new[j].sysid \in DOMAIN new BY <1>1, <1>2
  <2>2. ASSUME NEW x \in DOMAIN new PROVE \E j \in DOMAIN new : new[j].sysid = x
    <3>1. CASE x = id BY <1>1, <3>1
    <3>2. CASE x \in DOMAIN list
      <4>1. PICK j \in DOMAIN list : list[j].sysid = x BY <3>2 DEF Numbered
      <4> QED BY <1>1, <4>1
    <3> QED BY <1>1, <3>1, <3>2
  <2> QED BY Zenon, <2>1, <2>2
<1>4. ASSUME NEW j \in DOMAIN new, NEW l \in DOMAIN new, new[j].sysid = new[l].sysid
      PROVE  j = l
  <2>1. CASE j \in DOMAIN list /\ l \in DOMAIN list BY <1>1, <1>4, <2>1 DEF Numbered
  <2>2. CASE j = id BY <1>1, <1>2, <1>4, <2>2
  <2>3. CASE l = id BY <1>1, <1>2, <1>4, <2>3
  <2> QED BY <1>1, <2>1, <2>2, <2>3
<1> QED BY <1>3, <1>4 DEF Numbered

LEMMA NumberedInUsed ==
    ASSUME NEW list, Numbered(list), NEW id, NEW dev, NEW new, NEW i,
           TakesUsed(list, id, dev, new, i)
    PROVE  Numbered(new)
<1>1. /\ id \in DOMAIN list /\ i \notin DOMAIN list
      /\ DOMAIN new = DOMAIN list \cup {i} /\ new[id].sysid = i /\ new[i] = list[id]
      /\ \A j \in DOMAIN list : j # id => new[j] = list[j]
  BY DEF TakesUsed
<1>2. \A j \in DOMAIN list : list[j].sysid \in DOMAIN list BY DEF Numbered
<1>3. {new[j].sysid : j \in DOMAIN new} = DOMAIN new
  <2>1. \A j \in DOMAIN new : new[j].sysid \in DOMAIN new
    <3> SUFFICES ASSUME NEW j \in DOMAIN new PROVE new[j].sysid \in DOMAIN new
      OBVIOUS
    <3>1. CASE j = id BY <1>1, <3>1
    <3>2. CASE j = i BY <1>1, <1>2, <3>2
    <3>3. CASE j \in DOMAIN list /\ j # id BY <1>1, <1>2, <3>3
    <3> QED BY <1>1, <3>1, <3>2, <3>3
  <2>2. ASSUME NEW x \in DOMAIN new PROVE \E j \in DOMAIN new : new[j].sysid = x
    <3>1. CASE x = i BY <1>1, <3>1
    <3>2. CASE x \in DOMAIN list
      <4>1. PICK j \in DOMAIN list : list[j].sysid = x BY <3>2 DEF Numbered
      <4>2. CASE j = id BY <1>1, <4>1, <4>2
      <4>3. CASE j # id BY <1>1, <4>1, <4>3
      <4> QED BY <4>2, <4>3
    <3> QED BY <1>1, <3>1, <3>2
  <2> QED BY Zenon, <2>1, <2>2
<1>4. ASSUME NEW j \in DOMAIN new, NEW l \in DOMAIN new, new[j].sysid = new[l].sysid
      PROVE  j = l
  <2>1. \A x \in DOMAIN new : x # id => new[x].sysid \in DOMAIN list
    <3> SUFFICES ASSUME NEW x \in DOMAIN new, x # id PROVE new[x].sysid \in DOMAIN list
      OBVIOUS
    <3>1. CASE x = i BY <1>1, <1>2, <3>1
    <3>2. CASE x # i BY <1>1, <1>2, <3>2
    <3> QED BY <3>1, <3>2
  <2>2. CASE j = id /\ l # id BY <1>1, <1>4, <2>1, <2>2
  <2>3. CASE j # id /\ l = id BY <1>1, <1>4, <2>1, <2>3
  <2>4. CASE j = i /\ l # id /\ l # i BY <1>1, <1>4, <2>4 DEF Numbered
  <2>5. CASE j # id /\ j # i /\ l = i BY <1>1, <1>4, <2>5 DEF Numbered
  <2>6. CASE j # id /\ j # i /\ l # id /\ l # i BY <1>1, <1>4, <2>6 DEF Numbered
  <2> QED BY <2>2, <2>3, <2>4, <2>5, <2>6
<1> QED BY <1>3, <1>4 DEF Numbered

\* AddExporterInfo keeps the numbers of the slots apart: every slot that is used
\* is the number of exactly one exporter, also after an exporter had to move.
THEOREM NumberedStays ==
    ASSUME NEW list, NEW id \in Nat, NEW dev, MaxExporters \in Nat, Numbered(list)
    PROVE  Numbered(AddExporterInfo(list, id, dev))
BY AddExporterPlaces, NumberedInFree, NumberedInUsed

\* AddExporterInfo loses no exporter that it has, with its samplers and its
\* counters, and unless it returns early, the number in the file means the new
\* exporter from now on.
THEOREM ExporterStays ==
    ASSUME NEW list, NEW id \in Nat, NEW dev, MaxExporters \in Nat,
           NEW new, new = AddExporterInfo(list, id, dev)
    PROVE  /\ \A j \in DOMAIN list : \E l \in DOMAIN new : new[l] = list[j]
           /\ ~Kept(list, id, dev) => Known(new, id, dev)
<1>1. CASE Kept(list, id, dev) /\ new = list BY <1>1
<1>2. CASE TakesFree(list, id, dev, new) BY <1>2 DEF TakesFree, Known
<1>3. CASE \E i : TakesUsed(list, id, dev, new, i) BY <1>3 DEF TakesUsed, Known
<1> QED BY <1>1, <1>2, <1>3, AddExporterPlaces

-----------------------------------------------------------------------------
(* Extension maps                                                          *)

\* A list of maps, and slots that point into it; each map a set of numbers.
WellFormed(maps) ==
    /\ maps = [page |-> maps.page, slot |-> maps.slot]
    /\ maps.page \in Seq([ex : SUBSET Nat, id : Nat, refs : BOOLEAN])
    /\ \A id \in DOMAIN maps.slot : maps.slot[id] \in DOMAIN maps.page

LEMMA ElementOf == ASSUME NEW S, NEW q \in Seq(S), NEW l \in DOMAIN q PROVE q[l] \in S
OBVIOUS

LEMMA Appended ==
    ASSUME NEW S, NEW q \in Seq(S), NEW e \in S
    PROVE  /\ Append(q, e) \in Seq(S) /\ DOMAIN q \subseteq DOMAIN Append(q, e)
           /\ \A k \in DOMAIN q : Append(q, e)[k] = q[k]
OBVIOUS

\* Insert_Extension_Map makes the number of a map mean its extensions, unless it
\* means an older map of the same size that is a beginning of it, and it leaves
\* alone what every other number means.
THEOREM InsertResolves ==
    ASSUME NEW maps, WellFormed(maps), NEW id \in Nat, NEW ex \in SUBSET Nat,
           NEW new, new = InsertExtensionMap(maps, id, ex)
    PROVE  /\ \E e : /\ Resolves(new, id) = {e}
                     /\ e = ex \/ (Begins(e, ex) /\ MapSize(e) = MapSize(ex))
           /\ \A o : o # id => Resolves(new, o) = Resolves(maps, o)
           /\ MapIsNew(maps, id, ex) => Resolves(new, id) = {ex}
           /\ ~MapIsNew(maps, id, ex) => new = maps
<1>1. CASE SameInSlot(maps, id, ex)
  <2>1. new = maps BY <1>1 DEF InsertExtensionMap
  <2> QED BY <1>1, <2>1 DEF SameInSlot, Resolves, MapIsNew
<1>2. CASE ~SameInSlot(maps, id, ex)
  <2>1. PICK page : page = IF InPage(maps, ex) = {}
                           THEN Append(maps.page, [ex |-> ex, id |-> id, refs |-> FALSE])
                           ELSE maps.page
    BY Zenon
  <2>2. PICK l : l = IF InPage(maps, ex) = {} THEN Len(page)
                     ELSE CHOOSE i \in InPage(maps, ex) : TRUE
    BY Zenon
  <2>3. PICK out : out = IF id \in DOMAIN maps.slot
                         THEN [page EXCEPT ![maps.slot[id]].id = 0] ELSE page
    BY Zenon
  <2>4. new = [page |-> [out EXCEPT ![l].id = id], slot |-> Put(maps.slot, id, l)]
    BY Zenon, <1>2, <2>1, <2>2, <2>3 DEF InsertExtensionMap
  <2>5. /\ page \in Seq([ex : SUBSET Nat, id : Nat, refs : BOOLEAN])
        /\ DOMAIN maps.page \subseteq DOMAIN page
        /\ \A k \in DOMAIN maps.page : page[k] = maps.page[k]
    <3>1. PICK e : e = [ex |-> ex, id |-> id, refs |-> FALSE] BY Zenon
    <3>2. e \in [ex : SUBSET Nat, id : Nat, refs : BOOLEAN] BY <3>1
    <3>3. page = maps.page \/ page = Append(maps.page, e) BY <2>1, <3>1
    <3>4. maps.page \in Seq([ex : SUBSET Nat, id : Nat, refs : BOOLEAN]) BY DEF WellFormed
    <3>5. CASE page = maps.page BY <3>4, <3>5
    <3>6. CASE page = Append(maps.page, e) BY <3>2, <3>4, <3>6, Appended
    <3> QED BY <3>3, <3>5, <3>6
  <2>6. l \in DOMAIN page /\ page[l].ex = ex
    <3>1. CASE InPage(maps, ex) = {} BY <2>1, <2>2, <3>1 DEF WellFormed
    <3>2. CASE InPage(maps, ex) # {} BY <2>1, <2>2, <3>2 DEF InPage
    <3> QED BY <3>1, <3>2
  <2>7. DOMAIN out = DOMAIN page /\ \A k \in DOMAIN page : out[k].ex = page[k].ex
    BY <2>3, <2>5 DEF WellFormed
  <2>8. /\ DOMAIN new.page = DOMAIN page
        /\ \A k \in DOMAIN page : new.page[k].ex = page[k].ex
    <3>1. new.page = [out EXCEPT ![l].id = id] BY <2>4
    <3>2. page[l] \in [ex : SUBSET Nat, id : Nat, refs : BOOLEAN] BY Zenon, <2>5, <2>6, ElementOf
    <3>3. out[l] \in [ex : SUBSET Nat, id : Nat, refs : BOOLEAN]
      BY Zenon, <2>3, <2>5, <2>6, <3>2 DEF WellFormed
    <3> QED BY <2>6, <2>7, <3>1, <3>3
  <2>9. /\ DOMAIN new.slot = DOMAIN maps.slot \cup {id} /\ new.slot[id] = l
        /\ \A o \in DOMAIN maps.slot : o # id => new.slot[o] = maps.slot[o]
    BY <2>4 DEF Put
  <2>10. Resolves(new, id) = {ex} BY <2>6, <2>8, <2>9 DEF Resolves
  <2>11. \A o : o # id => Resolves(new, o) = Resolves(maps, o)
    BY <2>5, <2>8, <2>9 DEF Resolves, WellFormed
  <2> QED BY <1>2, <2>10, <2>11 DEF MapIsNew
<1> QED BY <1>1, <1>2

LEMMA Replaced ==
    ASSUME NEW S, NEW q \in Seq(S), NEW l, NEW e, l \in DOMAIN q => e \in S
    PROVE  [q EXCEPT ![l] = e] \in Seq(S) /\ DOMAIN [q EXCEPT ![l] = e] = DOMAIN q
<1>1. PICK n \in Nat : DOMAIN q = 1..n OBVIOUS
<1>2. q \in [1..n -> S] BY <1>1
<1>3. [q EXCEPT ![l] = e] \in [1..n -> S] BY Zenon, <1>1, <1>2
<1> QED BY <1>1, <1>3

LEMMA RenumberedMap ==
    ASSUME NEW q \in Seq([ex : SUBSET Nat, id : Nat, refs : BOOLEAN]), NEW l, NEW n \in Nat
    PROVE  /\ [q EXCEPT ![l].id = n] \in Seq([ex : SUBSET Nat, id : Nat, refs : BOOLEAN])
           /\ DOMAIN [q EXCEPT ![l].id = n] = DOMAIN q
<1> DEFINE M == [ex : SUBSET Nat, id : Nat, refs : BOOLEAN]
<1>1. \A r \in M : [r EXCEPT !.id = n] \in M OBVIOUS
<1>2. PICK e : e = [q[l] EXCEPT !.id = n] BY Zenon
<1>3. ASSUME l \in DOMAIN q PROVE e \in M
  <2>1. q[l] \in M BY Zenon, <1>3, ElementOf
  <2> QED BY Zenon, <1>1, <1>2, <2>1
<1>4. [q EXCEPT ![l].id = n] = [q EXCEPT ![l] = e] BY <1>2
<1>5. PICK r : r = [q EXCEPT ![l] = e] BY Zenon
<1>6. r \in Seq(M) /\ DOMAIN r = DOMAIN q BY Zenon, <1>3, <1>5, Replaced
<1> QED BY Zenon, <1>4, <1>5, <1>6

LEMMA ReferredMap ==
    ASSUME NEW q \in Seq([ex : SUBSET Nat, id : Nat, refs : BOOLEAN]), NEW l
    PROVE  /\ [q EXCEPT ![l].refs = TRUE] \in Seq([ex : SUBSET Nat, id : Nat, refs : BOOLEAN])
           /\ DOMAIN [q EXCEPT ![l].refs = TRUE] = DOMAIN q
<1> DEFINE M == [ex : SUBSET Nat, id : Nat, refs : BOOLEAN]
<1>1. \A r \in M : [r EXCEPT !.refs = TRUE] \in M BY Zenon
<1>2. PICK e : e = [q[l] EXCEPT !.refs = TRUE] BY Zenon
<1>3. ASSUME l \in DOMAIN q PROVE e \in M
  <2>1. q[l] \in M BY Zenon, <1>3, ElementOf
  <2> QED BY Zenon, <1>1, <1>2, <2>1
<1>4. [q EXCEPT ![l].refs = TRUE] = [q EXCEPT ![l] = e] BY <1>2
<1>5. PICK r : r = [q EXCEPT ![l] = e] BY Zenon
<1>6. r \in Seq(M) /\ DOMAIN r = DOMAIN q BY Zenon, <1>3, <1>5, Replaced
<1> QED BY Zenon, <1>4, <1>5, <1>6

\* The operations of a reader keep the list well formed, as the theorems ask.
LEMMA WellFormedStays ==
    ASSUME NEW maps, WellFormed(maps), NEW id \in Nat, NEW ex \in SUBSET Nat
    PROVE  /\ WellFormed(NoMaps)
           /\ WellFormed(InsertExtensionMap(maps, id, ex))
           /\ WellFormed(Refer(maps, id))
<1> DEFINE M == [ex : SUBSET Nat, id : Nat, refs : BOOLEAN]
<1>1. WellFormed(NoMaps) BY DEF WellFormed, NoMaps
<1>2. WellFormed(InsertExtensionMap(maps, id, ex))
  <2>1. CASE SameInSlot(maps, id, ex) BY <2>1 DEF InsertExtensionMap
  <2>2. CASE ~SameInSlot(maps, id, ex)
    <3>1. PICK page : page = IF InPage(maps, ex) = {}
                             THEN Append(maps.page, [ex |-> ex, id |-> id, refs |-> FALSE])
                             ELSE maps.page
      BY Zenon
    <3>2. PICK l : l = IF InPage(maps, ex) = {} THEN Len(page)
                       ELSE CHOOSE i \in InPage(maps, ex) : TRUE
      BY Zenon
    <3>3. PICK out : out = IF id \in DOMAIN maps.slot
                           THEN [page EXCEPT ![maps.slot[id]].id = 0] ELSE page
      BY Zenon
    <3>4. PICK all : all = [out EXCEPT ![l].id = id] BY Zenon
    <3>5. InsertExtensionMap(maps, id, ex) = [page |-> all, slot |-> Put(maps.slot, id, l)]
      BY Zenon, <2>2, <3>1, <3>2, <3>3, <3>4 DEF InsertExtensionMap
    <3>6. PICK e : e = [ex |-> ex, id |-> id, refs |-> FALSE] BY Zenon
    <3>7. e \in M BY <3>6
    <3>8. maps.page \in Seq(M) BY DEF WellFormed
    <3>9. page = maps.page \/ page = Append(maps.page, e) BY <3>1, <3>6
    <3>10. page \in Seq(M) /\ DOMAIN maps.page \subseteq DOMAIN page
      <4>1. CASE page = maps.page BY <3>8, <4>1
      <4>2. CASE page = Append(maps.page, e) BY <3>7, <3>8, <4>2, Appended
      <4> QED BY <3>9, <4>1, <4>2
    <3>11. l \in DOMAIN page
      <4>1. CASE InPage(maps, ex) = {} BY <3>1, <3>2, <3>8, <4>1
      <4>2. CASE InPage(maps, ex) # {} BY <3>1, <3>2, <4>2 DEF InPage
      <4> QED BY <4>1, <4>2
    <3>12. out \in Seq(M) /\ DOMAIN out = DOMAIN page
      BY Zenon, <3>3, <3>10, RenumberedMap, 0 \in Nat
    <3>13. all \in Seq(M) /\ DOMAIN all = DOMAIN page BY Zenon, <3>4, <3>12, RenumberedMap
    <3>14. \A o \in DOMAIN Put(maps.slot, id, l) : Put(maps.slot, id, l)[o] \in DOMAIN page
      BY <3>10, <3>11 DEF Put, WellFormed
    <3> QED BY <3>5, <3>13, <3>14 DEF WellFormed
  <2> QED BY <2>1, <2>2
<1>3. WellFormed(Refer(maps, id))
  <2>1. CASE id \notin DOMAIN maps.slot BY <2>1 DEF Refer
  <2>2. CASE id \in DOMAIN maps.slot
    <3>1. PICK page : page = [maps.page EXCEPT ![maps.slot[id]].refs = TRUE] BY Zenon
    <3>2. maps = [page |-> maps.page, slot |-> maps.slot] BY DEF WellFormed
    <3>3. Refer(maps, id) = [page |-> page, slot |-> maps.slot]
      BY Zenon, <2>2, <3>1, <3>2 DEF Refer
    <3>4. maps.page \in Seq(M) BY DEF WellFormed
    <3>5. page \in Seq(M) /\ DOMAIN page = DOMAIN maps.page BY Zenon, <3>1, <3>4, ReferredMap
    <3> QED BY <3>3, <3>5 DEF WellFormed
  <2> QED BY <2>1, <2>2
<1> QED BY <1>1, <1>2, <1>3

\* The maps in use before one of them are fewer than before a later one.
LEMMA PackedGrows ==
    ASSUME NEW maps, WellFormed(maps), NEW k \in InUse(maps), NEW l \in InUse(maps), k < l
    PROVE  /\ Packed(maps, k) \in Nat /\ Packed(maps, l) \in Nat
           /\ Packed(maps, k) < Packed(maps, l)
<1>1. PICK n \in Nat : DOMAIN maps.page = 1..n BY DEF WellFormed
<1>2. IsFiniteSet(1..n) BY <1>1, FS_Interval
<1>3. InUse(maps) \subseteq 1..n BY <1>1 DEF InUse
<1> DEFINE below(x) == {j \in InUse(maps) : j < x}
<1>4. IsFiniteSet(below(k)) /\ IsFiniteSet(below(l)) BY <1>2, <1>3, FS_Subset
<1>5. below(k) \subseteq below(l) /\ k \in below(l) /\ k \notin below(k) BY <1>3
<1>6. /\ Cardinality(below(k)) \in Nat /\ Cardinality(below(l)) \in Nat
      /\ Cardinality(below(k)) <= Cardinality(below(l))
  BY <1>4, <1>5, FS_Subset, FS_CardinalityType
<1>7. Cardinality(below(k)) # Cardinality(below(l)) BY <1>4, <1>5, FS_Subset
<1> QED BY <1>6, <1>7 DEF Packed

\* PackExtensionMapList gives every map in use a number of its own, and the slot
\* of that number: records that are renumbered with it find the map they were
\* read with, in what nfdump writes.
THEOREM PackResolves ==
    ASSUME NEW maps, WellFormed(maps), NEW new, new = PackExtensionMapList(maps)
    PROVE  /\ \A k, l \in InUse(maps) : new.page[k].id = new.page[l].id => k = l
           /\ \A l \in InUse(maps) : Resolves(new, new.page[l].id) = {maps.page[l].ex}
           /\ OutputMapsApart(maps)
<1>1. \A k, l \in InUse(maps) : Packed(maps, k) = Packed(maps, l) => k = l
  <2> SUFFICES ASSUME NEW k \in InUse(maps), NEW l \in InUse(maps),
                      Packed(maps, k) = Packed(maps, l), k # l
               PROVE  FALSE
    OBVIOUS
  <2>1. k \in Nat /\ l \in Nat BY DEF InUse, WellFormed
  <2>2. CASE k < l BY <2>2, PackedGrows
  <2>3. CASE l < k BY <2>3, PackedGrows
  <2> QED BY <2>1, <2>2, <2>3
<1>2. /\ DOMAIN new.page = DOMAIN maps.page
      /\ \A l \in InUse(maps) : /\ new.page[l].id = Packed(maps, l)
                                /\ new.page[l].ex = maps.page[l].ex
  <2>1. new.page = [l \in DOMAIN maps.page |->
                      IF l \in InUse(maps) THEN [maps.page[l] EXCEPT !.id = Packed(maps, l)]
                      ELSE maps.page[l]]
    BY DEF PackExtensionMapList
  <2>2. \A l \in InUse(maps) : maps.page[l] \in [ex : SUBSET Nat, id : Nat, refs : BOOLEAN]
    BY Zenon, ElementOf DEF WellFormed, InUse
  <2>3. InUse(maps) \subseteq DOMAIN maps.page BY DEF InUse
  <2> QED BY <2>1, <2>2, <2>3
<1>3. new.slot = [id \in {Packed(maps, l) : l \in InUse(maps)} |->
                    CHOOSE l \in InUse(maps) : Packed(maps, l) = id]
  BY DEF PackExtensionMapList
<1>4. ASSUME NEW l \in InUse(maps)
      PROVE  Packed(maps, l) \in DOMAIN new.slot /\ new.slot[Packed(maps, l)] = l
  <2>1. Packed(maps, l) \in {Packed(maps, k) : k \in InUse(maps)} OBVIOUS
  <2>2. (CHOOSE k \in InUse(maps) : Packed(maps, k) = Packed(maps, l)) = l BY <1>1
  <2> QED BY <1>3, <2>1, <2>2
<1>5. OutputMapsApart(maps) BY <1>2, <1>4 DEF OutputMapsApart
<1> QED BY <1>1, <1>2, <1>4, <1>5 DEF Resolves

-----------------------------------------------------------------------------
(* Folds over sequences                                                    *)

LEMMA GreatestIn == ASSUME NEW N \in Nat, NEW t \in SUBSET (1..N), t # {}
                    PROVE  Max(t) \in t /\ \A x \in t : x <= Max(t)
<1> DEFINE below == {N - x : x \in t}
<1>1. below \in SUBSET Nat /\ below # {}
  <2>1. \A x \in t : N - x \in Nat OBVIOUS
  <2> QED BY <2>1
<1>2. PICK m \in below : \A y \in below : m <= y BY Zenon, <1>1, LeastExists
<1>3. PICK x \in t : m = N - x BY <1>2
<1>4. \A y \in t : N - x <= N - y BY Zenon, <1>2, <1>3
<1>5. \A y \in t : x >= y BY <1>4
<1>6. \E z \in t : \A y \in t : z >= y BY <1>5
<1>7. Max(t) \in t /\ \A y \in t : Max(t) >= y BY Zenon, <1>6 DEF Max
<1>8. t \subseteq Nat OBVIOUS
<1> QED BY <1>7, <1>8

\* A fold takes the elements in the order of their places.
LEMMA LastOfPrefix == ASSUME NEW n \in Nat, n >= 1
                      PROVE  /\ Max(1..n) = n /\ (1..n) \ {n} = 1..(n - 1)
                             /\ 1..n # {}
<1>1. n \in 1..n OBVIOUS
<1>2. Max(1..n) \in 1..n /\ \A x \in 1..n : x <= Max(1..n) BY Zenon, <1>1, GreatestIn
<1> QED BY <1>1, <1>2

IsFold(g, N, A, base, F) ==
    /\ g \in [SUBSET (1..N) -> A]
    /\ \A t \in SUBSET (1..N) : g[t] = IF t = {} THEN base ELSE F[Max(t)][g[t \ {Max(t)}]]

\* The function that a fold chooses exists, when each step stays in a set.
LEMMA FoldExists ==
    ASSUME NEW N \in Nat, NEW A, NEW base \in A, NEW F \in [1..N -> [A -> A]]
    PROVE  \E g : IsFold(g, N, A, base, F)
<1> DEFINE Upto(n) == \E g : IsFold(g, n, A, base, F)
<1> DEFINE bad == {n \in 0..N : ~Upto(n)}
<1>1. Upto(0)
  <2> DEFINE g == [t \in SUBSET (1..0) |-> base]
  <2>1. \A t \in SUBSET (1..0) : t = {} OBVIOUS
  <2>2. g \in [SUBSET (1..0) -> A] OBVIOUS
  <2>3. \A t \in SUBSET (1..0) : g[t] = base OBVIOUS
  <2>4. IsFold(g, 0, A, base, F) BY <2>1, <2>2, <2>3 DEF IsFold
  <2> QED BY <2>4
<1>2. ASSUME NEW n \in 1..N, Upto(n - 1) PROVE Upto(n)
  <2>0. PICK g : IsFold(g, n - 1, A, base, F) BY <1>2
  <2>1. /\ g \in [SUBSET (1..(n - 1)) -> A]
        /\ \A t \in SUBSET (1..(n - 1)) :
              g[t] = IF t = {} THEN base ELSE F[Max(t)][g[t \ {Max(t)}]]
    BY Zenon, <2>0 DEF IsFold
  <2> DEFINE f == [t \in SUBSET (1..n) |-> IF n \in t THEN F[n][g[t \ {n}]] ELSE g[t]]
  <2>2. \A t \in SUBSET (1..n) : /\ n \notin t => t \in SUBSET (1..(n - 1))
                                 /\ t \ {n} \in SUBSET (1..(n - 1))
    OBVIOUS
  <2>3. \A t \in SUBSET (1..n) : n \in t => Max(t) = n
    <3> SUFFICES ASSUME NEW t \in SUBSET (1..n), n \in t PROVE Max(t) = n
      OBVIOUS
    <3>0. n \in Nat OBVIOUS
    <3>1. Max(t) \in t /\ \A x \in t : x <= Max(t) BY Zenon, <3>0, GreatestIn
    <3>2. PICK m : m = Max(t) OBVIOUS
    <3>3. m \in 1..n /\ n <= m BY Zenon, <3>1, <3>2
    <3>4. m = n BY <3>0, <3>3
    <3> QED BY <3>2, <3>4
  <2>4. f \in [SUBSET (1..n) -> A]
    <3> SUFFICES ASSUME NEW t \in SUBSET (1..n) 
                 PROVE  (IF n \in t THEN F[n][g[t \ {n}]] ELSE g[t]) \in A
      BY Zenon
    <3>1. g[t \ {n}] \in A BY <2>1, <2>2
    <3>2. F[n] \in [A -> A] OBVIOUS
    <3>3. n \notin t => g[t] \in A BY <2>1, <2>2
    <3> QED BY <3>1, <3>2, <3>3
  <2>5. ASSUME NEW t \in SUBSET (1..n)
        PROVE  f[t] = IF t = {} THEN base ELSE F[Max(t)][f[t \ {Max(t)}]]
    <3>1. CASE n \in t
      <4>1. Max(t) = n /\ t # {} BY <2>3, <3>1
      <4>2. f[t] = F[n][g[t \ {n}]] BY <3>1
      <4>3. f[t \ {n}] = g[t \ {n}] BY Zenon
      <4> QED BY Zenon, <4>1, <4>2, <4>3
    <3>2. CASE n \notin t
      <4>1. t \in SUBSET (1..(n - 1)) BY <2>2, <3>2
      <4>2. f[t] = g[t] BY <3>2
      <4>3. CASE t = {} BY Zenon, <2>1, <4>1, <4>2, <4>3
      <4>4. CASE t # {}
        <5>1. n \notin t \ {Max(t)} /\ t \ {Max(t)} \in SUBSET (1..n) BY Zenon, <3>2
        <5>2. f[t \ {Max(t)}] = g[t \ {Max(t)}] BY <5>1
        <5> QED BY Zenon, <2>1, <4>1, <4>2, <4>4, <5>2
      <4> QED BY <4>3, <4>4
    <3> QED BY <3>1, <3>2
  <2> HIDE DEF f
  <2>6. IsFold(f, n, A, base, F) BY Zenon, <2>4, <2>5 DEF IsFold
  <2> QED BY <2>6
<1> HIDE DEF Upto
<1>3. bad = {}
  <2> SUFFICES ASSUME bad # {} PROVE FALSE OBVIOUS
  <2>1. bad \in SUBSET Nat OBVIOUS
  <2>2. PICK n \in bad : \A y \in bad : n <= y BY Zenon, <2>1, LeastExists
  <2>3. n # 0 BY <1>1, <2>2
  <2>4. n - 1 \in 0..N /\ n \in 1..N BY <2>2, <2>3
  <2>5. Upto(n - 1) BY <2>2, <2>4
  <2> QED BY <1>2, <2>2, <2>4, <2>5
<1>4. Upto(N) BY <1>3
<1> QED BY <1>4 DEF Upto

\* What holds before a fold, and is kept by its n-th step, holds after it.
LEMMA FoldKeeps ==
    ASSUME NEW N \in Nat, NEW h, NEW I, h[{}] \in I[0],
           \A n \in 1..N : h[1..(n - 1)] \in I[n - 1] => h[1..n] \in I[n]
    PROVE  h[1..N] \in I[N]
<1> DEFINE bad == {n \in 0..N : h[1..n] \notin I[n]}
<1>1. 1..0 = {} OBVIOUS
<1>2. bad = {}
  <2> SUFFICES ASSUME bad # {} PROVE FALSE OBVIOUS
  <2>1. bad \in SUBSET Nat OBVIOUS
  <2>2. PICK n \in bad : \A y \in bad : n <= y BY Zenon, <2>1, LeastExists
  <2>3. n # 0 BY <1>1, <2>2
  <2>4. n - 1 \in 0..N /\ n \in 1..N BY <2>2, <2>3
  <2>5. h[1..(n - 1)] \in I[n - 1] BY <2>2, <2>4
  <2> QED BY <2>2, <2>4, <2>5
<1> QED BY <1>2

-----------------------------------------------------------------------------
(* Types                                                                   *)

Dev == V5 \cup V9 \cup Ipfix
Layout == SUBSET Nat
Partial(K, V) == UNION {[D -> V] : D \in SUBSET K}

MapType  == [ex : Layout, id : Nat, refs : BOOLEAN]
MapsType == {m \in [page : Seq(MapType), slot : Partial(Nat, Nat)] :
               \A id \in DOMAIN m.slot : m.slot[id] \in DOMAIN m.page}
KnownSampler == [sysid : Nat, sampler : Samplers]
InfoType == [sysid : Nat, dev : Dev, samplers : SUBSET KnownSampler, failures : Nat]
ExpsType == Partial(Nat, InfoType)
ReaderType == [maps : MapsType, exps : ExpsType]

TableType == [id : TemplateIds \cup {0}, mapId : Nat \cup {NoId}, ex : Layout, out : Layout,
              freed : BOOLEAN]
ExporterType == [dev : Dev, sysid : Nat, list : Seq(Nat), cur : Nat,
                 samplers : {S \in SUBSET Samplers : IsFiniteSet(S)},
                 seq : Nat, started : BOOLEAN, failures : Nat]
Kinds == {"sampler", "std"}
OptionType == [flags : SUBSET Kinds, last : Kinds]
SourceType == [exps : Seq(ExporterType), heap : Seq(TableType), list : Seq(Nat),
               opts : Partial(TemplateIds, OptionType), count : Nat, failures : Nat,
               one : ReaderType, all : ReaderType, copy : ReaderType]

LEMMA PartialIs ==
    ASSUME NEW K, NEW V, NEW f \in Partial(K, V)
    PROVE  f \in [DOMAIN f -> V] /\ DOMAIN f \in SUBSET K /\ \A x \in DOMAIN f : f[x] \in V
<1>1. PICK D \in SUBSET K : f \in [D -> V] BY DEF Partial
<1> QED BY <1>1

LEMMA IsPartial ==
    ASSUME NEW K, NEW V, NEW D \in SUBSET K, NEW f \in [D -> V]
    PROVE  f \in Partial(K, V)
BY DEF Partial

LEMMA PutPartial ==
    ASSUME NEW K, NEW V, NEW f \in Partial(K, V), NEW k \in K, NEW v \in V
    PROVE  /\ Put(f, k, v) \in Partial(K, V) /\ DOMAIN Put(f, k, v) = DOMAIN f \cup {k}
           /\ Put(f, k, v)[k] = v /\ \A x \in DOMAIN f : x # k => Put(f, k, v)[x] = f[x]
<1>1. DOMAIN f \in SUBSET K /\ \A x \in DOMAIN f : f[x] \in V BY PartialIs
<1>2. PICK D : D = DOMAIN f \cup {k} BY Zenon
<1>3. PICK g : g = Put(f, k, v) OBVIOUS
<1>4. g = [x \in D |-> IF x = k THEN v ELSE f[x]] BY <1>2, <1>3 DEF Put
<1>5. D \in SUBSET K BY <1>1, <1>2
<1>6. g \in [D -> V]
  <2>1. \A x \in D : (IF x = k THEN v ELSE f[x]) \in V BY <1>1, <1>2
  <2> QED BY <1>4, <2>1
<1>7. g \in Partial(K, V) BY <1>5, <1>6, IsPartial
<1> QED BY <1>2, <1>3, <1>4, <1>7

LEMMA EmptyPartial == ASSUME NEW K, NEW V PROVE <<>> \in Partial(K, V) /\ DOMAIN <<>> = {}
<1>1. <<>> \in [{} -> V] OBVIOUS
<1> QED BY Zenon, <1>1, IsPartial

LEMMA MapsWellFormed == ASSUME NEW maps
                        PROVE  maps \in MapsType <=> WellFormed(maps)
                            /\ maps.slot \in Partial(Nat, Nat)
<1>1. ASSUME maps \in MapsType PROVE WellFormed(maps) /\ maps.slot \in Partial(Nat, Nat)
  BY <1>1 DEF MapsType, WellFormed, MapType, Layout
<1>2. ASSUME WellFormed(maps), maps.slot \in Partial(Nat, Nat) PROVE maps \in MapsType
  <2>1. maps = [page |-> maps.page, slot |-> maps.slot] BY <1>2 DEF WellFormed
  <2>2. maps.page \in Seq(MapType) BY <1>2 DEF WellFormed, MapType, Layout
  <2>3. maps \in [page : Seq(MapType), slot : Partial(Nat, Nat)] BY <1>2, <2>1, <2>2
  <2> QED BY <1>2, <2>3 DEF WellFormed, MapsType
<1> QED BY <1>1, <1>2

LEMMA InsertTyped ==
    ASSUME NEW maps \in MapsType, NEW id \in Nat, NEW ex \in Layout
    PROVE  InsertExtensionMap(maps, id, ex) \in MapsType
<1>1. PICK new : new = InsertExtensionMap(maps, id, ex) OBVIOUS
<1>2. WellFormed(maps) /\ maps.slot \in Partial(Nat, Nat) BY MapsWellFormed
<1>3. WellFormed(new) BY <1>1, <1>2, WellFormedStays DEF Layout
<1>4. new = maps \/ \E l : new.slot = Put(maps.slot, id, l)
  BY Zenon, <1>1 DEF InsertExtensionMap
<1>5. new.slot \in Partial(Nat, Nat)
  <2>1. CASE new = maps BY <1>2, <2>1
  <2>2. ASSUME NEW l, new.slot = Put(maps.slot, id, l) PROVE new.slot \in Partial(Nat, Nat)
    <3>1. id \in DOMAIN new.slot /\ new.slot[id] = l BY <2>2 DEF Put
    <3>2. l \in DOMAIN new.page BY <1>3, <3>1 DEF WellFormed
    <3>3. l \in Nat BY <1>3, <3>2 DEF WellFormed
    <3>4. Put(maps.slot, id, l) \in Partial(Nat, Nat) BY Zenon, <1>2, <3>3, PutPartial
    <3> QED BY <2>2, <3>4
  <2> QED BY <1>4, <2>1, <2>2
<1> QED BY <1>1, <1>3, <1>5, MapsWellFormed

LEMMA ReferTyped == ASSUME NEW maps \in MapsType, NEW id \in Nat
                    PROVE  Refer(maps, id) \in MapsType
<1>1. WellFormed(maps) /\ maps.slot \in Partial(Nat, Nat) BY MapsWellFormed
<1>2. WellFormed(Refer(maps, id)) BY <1>1, WellFormedStays
<1>3. Refer(maps, id).slot = maps.slot BY <1>1 DEF Refer, WellFormed
<1> QED BY <1>1, <1>2, <1>3, MapsWellFormed

LEMMA ExporterTyped ==
    ASSUME NEW list \in ExpsType, NEW id \in Nat, NEW dev \in Dev, MaxExporters \in Nat
    PROVE  AddExporterInfo(list, id, dev) \in ExpsType
<1>1. \A n \in Nat : NewExporter(n, dev) \in InfoType BY DEF NewExporter, InfoType
<1>2. CASE AddExporterInfo(list, id, dev) = list BY <1>2
<1>3. CASE AddExporterInfo(list, id, dev) = Put(list, id, NewExporter(id, dev))
  <2>1. PICK v \in InfoType : v = NewExporter(id, dev) BY <1>1
  <2>2. Put(list, id, v) \in ExpsType BY Zenon, PutPartial DEF ExpsType
  <2> QED BY <1>3, <2>1, <2>2
<1>4. CASE /\ id \in DOMAIN list /\ FreeBehind(list, id) # {}
           /\ AddExporterInfo(list, id, dev)
                = Put(Put(list, FirstFree(list, id), list[id]), id,
                      NewExporter(FirstFree(list, id), dev))
  <2>1. PICK i \in Nat : i = FirstFree(list, id) BY <1>4, FirstFreeIsFree
  <2>2. list[id] \in InfoType BY <1>4, PartialIs DEF ExpsType
  <2>3. Put(list, i, list[id]) \in ExpsType BY Zenon, <2>1, <2>2, PutPartial DEF ExpsType
  <2>4. PICK moved \in ExpsType : moved = Put(list, i, list[id]) BY <2>3
  <2>5. Put(moved, id, NewExporter(i, dev)) \in ExpsType
    BY Zenon, <1>1, PutPartial DEF ExpsType
  <2> QED BY <1>4, <2>1, <2>4, <2>5
<1> QED BY <1>2, <1>3, <1>4, AddExporterCases

LEMMA Update ==
    ASSUME NEW K, NEW V, NEW f \in Partial(K, V), NEW k \in DOMAIN f, NEW v \in V
    PROVE  /\ [f EXCEPT ![k] = v] \in Partial(K, V) /\ DOMAIN [f EXCEPT ![k] = v] = DOMAIN f
           /\ [f EXCEPT ![k] = v][k] = v
           /\ \A x \in DOMAIN f : x # k => [f EXCEPT ![k] = v][x] = f[x]
<1>1. f \in [DOMAIN f -> V] /\ DOMAIN f \in SUBSET K BY PartialIs
<1>2. PICK D \in SUBSET K : D = DOMAIN f BY <1>1
<1>3. [f EXCEPT ![k] = v] \in [D -> V] BY <1>1, <1>2
<1>4. [f EXCEPT ![k] = v] \in Partial(K, V) BY <1>2, <1>3, IsPartial
<1> QED BY <1>1, <1>2, <1>3, <1>4

LEMMA SamplerTyped ==
    ASSUME NEW list \in ExpsType, NEW id \in Nat, NEW s \in Samplers
    PROVE  AddSamplerInfo(list, id, s) \in ExpsType
<1>1. CASE id \notin DOMAIN list \/ SamplerKnown(list, id, s) BY <1>1 DEF AddSamplerInfo
<1>2. CASE id \in DOMAIN list /\ ~SamplerKnown(list, id, s)
  <2>1. list[id] \in InfoType BY <1>2, PartialIs DEF ExpsType
  <2>2. PICK v : v = [list[id] EXCEPT
       !.samplers = @ \cup {[sysid |-> list[id].sysid, sampler |-> s]}]
    BY Zenon
  <2>3. [sysid |-> list[id].sysid, sampler |-> s] \in KnownSampler
    BY <2>1 DEF InfoType, KnownSampler
  <2>4. v \in InfoType BY <2>1, <2>2, <2>3 DEF InfoType
  <2>5. AddSamplerInfo(list, id, s) = [list EXCEPT ![id] = v] BY <1>2, <2>2 DEF AddSamplerInfo
  <2>6. [list EXCEPT ![id] = v] \in ExpsType BY <1>2, <2>4, Update DEF ExpsType
  <2> QED BY <2>5, <2>6
<1> QED BY <1>1, <1>2

LEMMA StatTyped ==
    ASSUME NEW list \in ExpsType, NEW id \in Nat, NEW n \in Nat
    PROVE  AddExporterStat(list, id, n) \in ExpsType
<1>1. CASE id \notin DOMAIN list BY <1>1 DEF AddExporterStat
<1>2. CASE id \in DOMAIN list
  <2>1. list[id] \in InfoType BY <1>2, PartialIs DEF ExpsType
  <2>2. PICK v : v = [list[id] EXCEPT !.failures = @ + n] BY Zenon
  <2>3. v \in InfoType BY <2>1, <2>2 DEF InfoType
  <2>4. AddExporterStat(list, id, n) = [list EXCEPT ![id] = v] BY <1>2, <2>2 DEF AddExporterStat
  <2>5. [list EXCEPT ![id] = v] \in ExpsType BY <1>2, <2>3, Update DEF ExpsType
  <2> QED BY <2>4, <2>5
<1> QED BY <1>1, <1>2

LEMMA EmptyReader == NoReader \in ReaderType
<1>1. NoMaps \in MapsType
  <2>1. <<>> \in Partial(Nat, Nat) BY EmptyPartial
  <2>2. <<>> \in Seq(MapType) OBVIOUS
  <2> QED BY <2>1, <2>2, EmptyPartial DEF NoMaps, MapsType
<1>2. NoExporters \in ExpsType BY EmptyPartial DEF NoExporters, ExpsType
<1> QED BY <1>1, <1>2 DEF NoReader, ReaderType

-----------------------------------------------------------------------------
(* What the operations on a source change                                  *)

LEMMA Parts == ASSUME NEW fs \in SourceType
    PROVE  /\ fs.exps \in Seq(ExporterType) /\ fs.heap \in Seq(TableType)
           /\ fs.list \in Seq(Nat) /\ fs.opts \in Partial(TemplateIds, OptionType)
           /\ fs.count \in Nat /\ fs.failures \in Nat
           /\ fs.one \in ReaderType /\ fs.all \in ReaderType /\ fs.copy \in ReaderType
BY DEF SourceType

LEMMA ReaderParts == ASSUME NEW r \in ReaderType
                     PROVE  r.maps \in MapsType /\ r.exps \in ExpsType
BY DEF ReaderType

LEMMA NewMaps == ASSUME NEW r \in ReaderType, NEW maps \in MapsType
                 PROVE  /\ [r EXCEPT !.maps = maps] \in ReaderType
                        /\ [r EXCEPT !.maps = maps].maps = maps
                        /\ [r EXCEPT !.maps = maps].exps = r.exps
BY DEF ReaderType

LEMMA NewExps == ASSUME NEW r \in ReaderType, NEW exps \in ExpsType
                 PROVE  /\ [r EXCEPT !.exps = exps] \in ReaderType
                        /\ [r EXCEPT !.exps = exps].exps = exps
                        /\ [r EXCEPT !.exps = exps].maps = r.maps
BY DEF ReaderType

LEMMA NewTableAt == ASSUME NEW heap \in Seq(TableType), NEW t \in DOMAIN heap, NEW v \in TableType
    PROVE  /\ [heap EXCEPT ![t] = v] \in Seq(TableType)
           /\ DOMAIN [heap EXCEPT ![t] = v] = DOMAIN heap
              /\ Len([heap EXCEPT ![t] = v]) = Len(heap)
           /\ [heap EXCEPT ![t] = v][t] = v
           /\ \A u \in DOMAIN heap : u # t => [heap EXCEPT ![t] = v][u] = heap[u]
OBVIOUS

\* The parts of a source beside its readers and tables.
SameRest(fs, g) == /\ g.exps = fs.exps /\ g.list = fs.list /\ g.opts = fs.opts
                   /\ g.count = fs.count /\ g.failures = fs.failures

MapWritten(fs, g, t) ==
    /\ g \in SourceType /\ SameRest(fs, g)
    /\ DOMAIN g.heap = DOMAIN fs.heap
    /\ \A u \in DOMAIN fs.heap : u # t => g.heap[u] = fs.heap[u]
    /\ g.heap[t].id = fs.heap[t].id /\ g.heap[t].mapId = fs.heap[t].mapId
    /\ g.heap[t].ex = fs.heap[t].ex /\ g.heap[t].freed = fs.heap[t].freed
    /\ g.heap[t].out = fs.heap[t].ex
    /\ g.one.exps = fs.one.exps /\ g.all.exps = fs.all.exps /\ g.copy.exps = fs.copy.exps
    /\ g.one.maps = InsertExtensionMap(fs.one.maps, fs.heap[t].mapId, fs.heap[t].ex)
    /\ g.all.maps = InsertExtensionMap(fs.all.maps, fs.heap[t].mapId, fs.heap[t].ex)
    /\ g.copy.maps = IF MapIsNew(fs.all.maps, fs.heap[t].mapId, fs.heap[t].ex)
                     THEN InsertExtensionMap(fs.copy.maps, fs.heap[t].mapId, fs.heap[t].ex)
                     ELSE fs.copy.maps

LEMMA WriteMapDoes ==
    ASSUME NEW fs \in SourceType, NEW t \in DOMAIN fs.heap, fs.heap[t].mapId \in Nat
    PROVE  MapWritten(fs, WriteMap(fs, t), t)
<1> DEFINE id == fs.heap[t].mapId
           ex == fs.heap[t].ex
<1>1. fs.heap[t] \in TableType /\ id \in Nat /\ ex \in Layout
  <2>1. fs.heap[t] \in TableType BY Parts
  <2> QED BY <2>1 DEF TableType
<1>2. PICK a \in MapsType : a = InsertExtensionMap(fs.one.maps, id, ex)
  BY <1>1, InsertTyped, Parts, ReaderParts
<1>3. PICK b \in MapsType : b = InsertExtensionMap(fs.all.maps, id, ex)
  BY <1>1, InsertTyped, Parts, ReaderParts
<1>4. PICK c \in MapsType : c = IF MapIsNew(fs.all.maps, id, ex)
                                THEN InsertExtensionMap(fs.copy.maps, id, ex) ELSE fs.copy.maps
  <2>1. fs.copy.maps \in MapsType BY Parts, ReaderParts
  <2>2. InsertExtensionMap(fs.copy.maps, id, ex) \in MapsType BY <1>1, <2>1, InsertTyped
  <2> QED BY <2>1, <2>2
<1>5. PICK v : v = [fs.heap[t] EXCEPT !.out = ex] BY Zenon
<1>6. /\ v \in TableType /\ v.out = ex /\ v.ex = ex /\ v.mapId = id
      /\ v.id = fs.heap[t].id /\ v.freed = fs.heap[t].freed
  BY <1>1, <1>5 DEF TableType
<1>7. PICK h : h = [fs.heap EXCEPT ![t] = v] BY Zenon
<1>8. /\ h \in Seq(TableType) /\ DOMAIN h = DOMAIN fs.heap /\ h[t] = v
      /\ \A u \in DOMAIN fs.heap : u # t => h[u] = fs.heap[u]
  BY <1>6, <1>7, NewTableAt, Parts
<1>9. PICK one \in ReaderType : one = [fs.one EXCEPT !.maps = a] /\ one.maps = a
     /\ one.exps = fs.one.exps
  BY Zenon, NewMaps, Parts
<1>10. PICK all \in ReaderType : all = [fs.all EXCEPT !.maps = b] /\ all.maps = b
     /\ all.exps = fs.all.exps
  BY Zenon, NewMaps, Parts
<1>11. PICK copy \in ReaderType : copy = [fs.copy EXCEPT !.maps = c] /\ copy.maps = c
     /\ copy.exps = fs.copy.exps
  BY Zenon, NewMaps, Parts
<1>12. PICK g : g = [fs EXCEPT !.heap = h, !.one = one, !.all = all, !.copy = copy] OBVIOUS
<1>13. WriteMap(fs, t) = [fs EXCEPT !.heap = [fs.heap EXCEPT ![t] = [fs.heap[t] EXCEPT !.out = ex]],
                             !.one = [fs.one EXCEPT !.maps = a], !.all = [fs.all EXCEPT !.maps = b],
                             !.copy = [fs.copy EXCEPT !.maps = c]]
  BY <1>2, <1>3, <1>4 DEF WriteMap
<1>14. WriteMap(fs, t) = g
  BY <1>5, <1>7, <1>9, <1>10, <1>11, <1>12, <1>13
<1>15. /\ g \in SourceType /\ SameRest(fs, g) /\ g.heap = h /\ g.one = one /\ g.all = all
          /\ g.copy = copy
  BY Zenon, <1>8, <1>12 DEF SourceType, SameRest
<1>16. MapWritten(fs, g, t)
  BY <1>2, <1>3, <1>4, <1>6, <1>8, <1>9, <1>10, <1>11, <1>15 DEF MapWritten
<1> QED BY <1>14, <1>16

\* Only what readers know of exporters changes.
ListsWritten(fs, g) ==
    /\ g \in SourceType /\ SameRest(fs, g) /\ g.heap = fs.heap
    /\ g.one.maps = fs.one.maps /\ g.all.maps = fs.all.maps /\ g.copy.maps = fs.copy.maps

ExporterWritten(fs, g, e) ==
    /\ ListsWritten(fs, g)
    /\ g.one.exps = AddExporterInfo(fs.one.exps, e.sysid, e.dev)
    /\ g.all.exps = AddExporterInfo(fs.all.exps, e.sysid, e.dev)
    /\ g.copy.exps = IF ExporterIsNew(fs.all.exps, e.sysid, e.dev)
                     THEN AddExporterInfo(fs.copy.exps, g.all.exps[e.sysid].sysid, e.dev)
                     ELSE fs.copy.exps

LEMMA WriteExporterDoes ==
    ASSUME NEW fs \in SourceType, NEW e, e.sysid \in Nat, e.dev \in Dev, MaxExporters \in Nat
    PROVE  ExporterWritten(fs, WriteExporter(fs, e), e)
<1>0. PICK n \in Nat : n = e.sysid OBVIOUS
<1>1. PICK a \in ExpsType : a = AddExporterInfo(fs.one.exps, n, e.dev)
  BY ExporterTyped, Parts, ReaderParts
<1>2. PICK old \in ExpsType : old = fs.all.exps BY Parts, ReaderParts
<1>3. PICK b \in ExpsType : b = AddExporterInfo(old, n, e.dev)
  BY ExporterTyped
<1>4. ASSUME ExporterIsNew(old, n, e.dev) PROVE b[n].sysid \in Nat
  <2>1. n \in DOMAIN b
    <3>1. b # old BY <1>3, <1>4 DEF ExporterIsNew
    <3>2. ~Kept(old, n, e.dev) BY <1>3, <3>1, AddExporterPlaces, AddExporterCases
    <3>3. Known(b, n, e.dev) BY <1>3, <3>2, ExporterStays
    <3> QED BY <3>3 DEF Known
  <2>2. b[n] \in InfoType BY <2>1, PartialIs DEF ExpsType
  <2> QED BY <2>2 DEF InfoType
<1>5. PICK c \in ExpsType : c = IF ExporterIsNew(old, n, e.dev)
                                THEN AddExporterInfo(fs.copy.exps, b[n].sysid, e.dev)
                                ELSE fs.copy.exps
  <2>1. fs.copy.exps \in ExpsType BY Parts, ReaderParts
  <2>2. CASE ExporterIsNew(old, n, e.dev)
    <3>1. PICK m \in Nat : m = b[n].sysid BY <1>4, <2>2
    <3>2. AddExporterInfo(fs.copy.exps, m, e.dev) \in ExpsType BY <2>1, ExporterTyped
    <3> QED BY <2>2, <3>1, <3>2
  <2> QED BY <2>1, <2>2
<1>6. PICK g : g = [fs EXCEPT !.one = [fs.one EXCEPT !.exps = a],
                              !.all = [fs.all EXCEPT !.exps = b],
                              !.copy = [fs.copy EXCEPT !.exps = c]]
  OBVIOUS
<1>8. /\ ListsWritten(fs, g) /\ g.one.exps = a /\ g.all.exps = b /\ g.copy.exps = c
  <2>1. PICK one \in ReaderType : /\ one = [fs.one EXCEPT !.exps = a]
                                  /\ one.exps = a /\ one.maps = fs.one.maps
    BY Zenon, NewExps, Parts
  <2>2. PICK all \in ReaderType : /\ all = [fs.all EXCEPT !.exps = b]
                                  /\ all.exps = b /\ all.maps = fs.all.maps
    BY Zenon, NewExps, Parts
  <2>3. PICK copy \in ReaderType : /\ copy = [fs.copy EXCEPT !.exps = c]
                                   /\ copy.exps = c /\ copy.maps = fs.copy.maps
    BY Zenon, NewExps, Parts
  <2>4. g = [fs EXCEPT !.one = one, !.all = all, !.copy = copy] BY <1>6, <2>1, <2>2, <2>3
  <2>5. /\ g \in SourceType /\ SameRest(fs, g) /\ g.heap = fs.heap
        /\ g.one = one /\ g.all = all /\ g.copy = copy
    BY Zenon, <2>4 DEF SourceType, SameRest
  <2>6. ListsWritten(fs, g) BY <2>1, <2>2, <2>3, <2>5 DEF ListsWritten
  <2> QED BY <2>1, <2>2, <2>3, <2>5, <2>6
<1>7. WriteExporter(fs, e) = g
  BY <1>0, <1>1, <1>2, <1>3, <1>5, <1>6 DEF WriteExporter
<1>9. ExporterWritten(fs, g, e)
  BY <1>0, <1>1, <1>2, <1>3, <1>5, <1>8 DEF ExporterWritten
<1> QED BY <1>7, <1>9

SamplerWritten(fs, g, e, s) ==
    /\ ListsWritten(fs, g)
    /\ g.one.exps = AddSamplerInfo(fs.one.exps, e.sysid, s)
    /\ g.all.exps = AddSamplerInfo(fs.all.exps, e.sysid, s)
    /\ g.copy.exps = IF g.all.exps # fs.all.exps
                     THEN AddSamplerInfo(fs.copy.exps, fs.all.exps[e.sysid].sysid, s)
                     ELSE fs.copy.exps

LEMMA WriteSamplerDoes ==
    ASSUME NEW fs \in SourceType, NEW e, e.sysid \in Nat, NEW s \in Samplers
    PROVE  SamplerWritten(fs, WriteSampler(fs, e, s), e, s)
<1>0. PICK n \in Nat : n = e.sysid OBVIOUS
<1>1. PICK a \in ExpsType : a = AddSamplerInfo(fs.one.exps, n, s)
  BY SamplerTyped, Parts, ReaderParts
<1>2. PICK old \in ExpsType : old = fs.all.exps BY Parts, ReaderParts
<1>3. PICK b \in ExpsType : b = AddSamplerInfo(old, n, s) BY SamplerTyped
<1>4. ASSUME b # old PROVE old[n].sysid \in Nat
  <2>1. n \in DOMAIN old BY <1>3, <1>4 DEF AddSamplerInfo
  <2>2. old[n] \in InfoType BY <2>1, PartialIs DEF ExpsType
  <2> QED BY <2>2 DEF InfoType
<1>5. PICK c \in ExpsType : c = IF b # old THEN AddSamplerInfo(fs.copy.exps, old[n].sysid, s)
                                ELSE fs.copy.exps
  <2>1. fs.copy.exps \in ExpsType BY Parts, ReaderParts
  <2>2. CASE b # old
    <3>1. PICK m \in Nat : m = old[n].sysid BY <1>4, <2>2
    <3>2. AddSamplerInfo(fs.copy.exps, m, s) \in ExpsType BY <2>1, SamplerTyped
    <3> QED BY <2>2, <3>1, <3>2
  <2> QED BY <2>1, <2>2
<1>6. PICK g : g = [fs EXCEPT !.one = [fs.one EXCEPT !.exps = a],
                              !.all = [fs.all EXCEPT !.exps = b],
                              !.copy = [fs.copy EXCEPT !.exps = c]]
  OBVIOUS
<1>8. /\ ListsWritten(fs, g) /\ g.one.exps = a /\ g.all.exps = b /\ g.copy.exps = c
  <2>1. PICK one \in ReaderType : /\ one = [fs.one EXCEPT !.exps = a]
                                  /\ one.exps = a /\ one.maps = fs.one.maps
    BY Zenon, NewExps, Parts
  <2>2. PICK all \in ReaderType : /\ all = [fs.all EXCEPT !.exps = b]
                                  /\ all.exps = b /\ all.maps = fs.all.maps
    BY Zenon, NewExps, Parts
  <2>3. PICK copy \in ReaderType : /\ copy = [fs.copy EXCEPT !.exps = c]
                                   /\ copy.exps = c /\ copy.maps = fs.copy.maps
    BY Zenon, NewExps, Parts
  <2>4. g = [fs EXCEPT !.one = one, !.all = all, !.copy = copy] BY <1>6, <2>1, <2>2, <2>3
  <2>5. /\ g \in SourceType /\ SameRest(fs, g) /\ g.heap = fs.heap
        /\ g.one = one /\ g.all = all /\ g.copy = copy
    BY Zenon, <2>4 DEF SourceType, SameRest
  <2>6. ListsWritten(fs, g) BY <2>1, <2>2, <2>3, <2>5 DEF ListsWritten
  <2> QED BY <2>1, <2>2, <2>3, <2>5, <2>6
<1>7. WriteSampler(fs, e, s) = g
  BY <1>0, <1>1, <1>2, <1>3, <1>5, <1>6 DEF WriteSampler
<1>9. SamplerWritten(fs, g, e, s)
  BY <1>0, <1>1, <1>2, <1>3, <1>5, <1>8 DEF SamplerWritten
<1> QED BY <1>7, <1>9

SamplersFrom(base, e, q) == FoldLeft(LAMBDA acc, s : WriteSampler(acc, e, s), base, q)
StatsFrom(base, fs, q) ==
    FoldLeft(LAMBDA list, k : AddExporterStat(list, fs.exps[k].sysid, fs.exps[k].failures),
             base, q)

\* What a fold of an operation does, from what each of its steps does: it stays
\* in A, and its n-th step leads from I[n - 1] to I[n].
LEMMA FoldListed ==
    ASSUME NEW A, NEW base \in A, NEW S, NEW q \in Seq(S),
           \A n \in 1..Len(q) : \A a \in A : WriteListed(a, q[n]) \in A,
           NEW I, base \in I[0],
           \A n \in 1..Len(q) : \A a \in A : a \in I[n - 1] => WriteListed(a, q[n]) \in I[n]
    PROVE  /\ FoldLeft(WriteListed, base, q) \in A
           /\ FoldLeft(WriteListed, base, q) \in I[Len(q)]
<1>1. PICK N \in Nat : N = Len(q) /\ DOMAIN q = 1..N OBVIOUS
<1>2. PICK F \in [1..N -> [A -> A]] : \A n \in 1..N : \A a \in A : F[n][a] = WriteListed(a, q[n])
  <2> DEFINE G == [n \in 1..N |-> [a \in A |-> WriteListed(a, q[n])]]
  <2>1. G \in [1..N -> [A -> A]] BY <1>1
  <2>2. \A n \in 1..N : \A a \in A : G[n][a] = WriteListed(a, q[n]) OBVIOUS
  <2> QED BY Zenon, <2>1, <2>2
<1>3. PICK g : IsFold(g, N, A, base, F) BY Zenon, <1>1, <1>2, FoldExists
<1>4. g = [t \in SUBSET (DOMAIN q) |-> IF t = {} THEN base
     ELSE WriteListed(g[t \ {Max(t)}], q[Max(t)])]
  <2>1. ASSUME NEW t \in SUBSET (1..N), t # {}
        PROVE  g[t] = WriteListed(g[t \ {Max(t)}], q[Max(t)])
    <3>1. Max(t) \in 1..N BY Zenon, <1>1, <2>1, GreatestIn
    <3>2. g[t \ {Max(t)}] \in A BY Zenon, <1>3 DEF IsFold
    <3>3. g[t] = F[Max(t)][g[t \ {Max(t)}]] BY Zenon, <1>3, <2>1 DEF IsFold
    <3> QED BY <1>2, <3>1, <3>2, <3>3
  <2> QED BY Zenon, <1>1, <1>3, <2>1 DEF IsFold
<1>5. PICK h : h = CHOOSE f : f = [t \in SUBSET (DOMAIN q) |->
                                    IF t = {} THEN base
                                    ELSE WriteListed(f[t \ {Max(t)}], q[Max(t)])]
  BY Zenon
<1>6. h = [t \in SUBSET (DOMAIN q) |-> IF t = {} THEN base
     ELSE WriteListed(h[t \ {Max(t)}], q[Max(t)])]
  BY Zenon, <1>4, <1>5
<1>7. PICK r : r = FoldLeft(WriteListed, base, q) OBVIOUS
<1>8. r = h[DOMAIN q] BY <1>5, <1>7 DEF FoldLeft, MapThenFoldSet
<1>9. PICK J : \A n \in 0..N : \A a : a \in J[n] <=> a \in A /\ a \in I[n]
  <2> DEFINE K == [n \in 0..N |-> A \cap I[n]]
  <2>1. \A n \in 0..N : \A a : a \in K[n] <=> a \in A /\ a \in I[n] OBVIOUS
  <2> QED BY Zenon, <2>1
<1>10. h[{}] \in J[0]
  <2>1. h[{}] = base BY <1>6
  <2> QED BY <1>9, <2>1
<1>11. ASSUME NEW n \in 1..N, h[1..(n - 1)] \in J[n - 1] PROVE h[1..n] \in J[n]
  <2>1. Max(1..n) = n /\ (1..n) \ {n} = 1..(n - 1) /\ 1..n # {}
    BY <1>1, <1>11, LastOfPrefix
  <2>2. 1..n \in SUBSET (DOMAIN q) BY <1>1
  <2>3. PICK a : a = h[1..(n - 1)] OBVIOUS
  <2>4. h[1..n] = WriteListed(a, q[n]) BY Zenon, <1>6, <2>1, <2>2, <2>3
  <2>5. n - 1 \in 0..N /\ n \in 0..N OBVIOUS
  <2>6. a \in A /\ a \in I[n - 1] BY <1>9, <1>11, <2>3, <2>5
  <2>7. h[1..n] \in A /\ h[1..n] \in I[n] BY <1>1, <2>4, <2>6
  <2> QED BY <1>9, <2>5, <2>7
<1>12. h[1..N] \in J[N] BY <1>10, <1>11, FoldKeeps
<1>13. r \in A /\ r \in I[N] BY ONLY <1>1, <1>8, <1>9, <1>12
<1> QED BY <1>1, <1>7, <1>13

LEMMA FoldListedWithin ==
    ASSUME NEW A, NEW base \in A, NEW S, NEW q \in Seq(S),
           \A n \in 1..Len(q) : \A a \in A : WriteListed(a, q[n]) \in A
    PROVE  FoldLeft(WriteListed, base, q) \in A
<1>1. PICK I : \A n \in Nat : I[n] = A
  <2>1. \A n \in Nat : [i \in Nat |-> A][n] = A OBVIOUS
  <2> QED BY Zenon, <2>1
<1>2. base \in I[0] BY <1>1
<1>3. \A n \in 1..Len(q) : \A a \in A : a \in I[n - 1] => WriteListed(a, q[n]) \in I[n]
  <2>1. \A n \in 1..Len(q) : n \in Nat OBVIOUS
  <2> QED BY <1>1, <2>1
<1> QED BY Zenon, <1>2, <1>3, FoldListed

LEMMA FoldInfos ==
    ASSUME NEW A, NEW base \in A, NEW S, NEW q \in Seq(S),
           \A n \in 1..Len(q) : \A a \in A : WriteExporterInfos(a, q[n]) \in A,
           NEW I, base \in I[0],
           \A n \in 1..Len(q) : \A a \in A : a \in I[n - 1]
               => WriteExporterInfos(a, q[n]) \in I[n]
    PROVE  /\ FoldLeft(WriteExporterInfos, base, q) \in A
           /\ FoldLeft(WriteExporterInfos, base, q) \in I[Len(q)]
<1>1. PICK N \in Nat : N = Len(q) /\ DOMAIN q = 1..N OBVIOUS
<1>2. PICK F \in [1..N -> [A -> A]] : \A n \in 1..N : \A a \in A :
     F[n][a] = WriteExporterInfos(a, q[n])
  <2> DEFINE G == [n \in 1..N |-> [a \in A |-> WriteExporterInfos(a, q[n])]]
  <2>1. G \in [1..N -> [A -> A]] BY <1>1
  <2>2. \A n \in 1..N : \A a \in A : G[n][a] = WriteExporterInfos(a, q[n]) OBVIOUS
  <2> QED BY <2>1, <2>2
<1>3. PICK g : IsFold(g, N, A, base, F) BY <1>1, <1>2, FoldExists
<1>4. g = [t \in SUBSET (DOMAIN q) |-> IF t = {} THEN base
     ELSE WriteExporterInfos(g[t \ {Max(t)}], q[Max(t)])]
  <2>1. ASSUME NEW t \in SUBSET (1..N), t # {}
        PROVE  g[t] = WriteExporterInfos(g[t \ {Max(t)}], q[Max(t)])
    <3>1. Max(t) \in 1..N BY <1>1, <2>1, GreatestIn
    <3>2. g[t \ {Max(t)}] \in A BY <1>3 DEF IsFold
    <3>3. g[t] = F[Max(t)][g[t \ {Max(t)}]] BY <1>3, <2>1 DEF IsFold
    <3> QED BY <1>2, <3>1, <3>2, <3>3
  <2> QED BY <1>1, <1>3, <2>1 DEF IsFold
<1>5. PICK h : h = CHOOSE f : f = [t \in SUBSET (DOMAIN q) |->
                                    IF t = {} THEN base
                                    ELSE WriteExporterInfos(f[t \ {Max(t)}], q[Max(t)])]
  OBVIOUS
<1>6. h = [t \in SUBSET (DOMAIN q) |-> IF t = {} THEN base
     ELSE WriteExporterInfos(h[t \ {Max(t)}], q[Max(t)])]
  BY <1>4, <1>5
<1>7. PICK r : r = FoldLeft(WriteExporterInfos, base, q) OBVIOUS
<1>8. r = h[DOMAIN q] BY <1>5, <1>7 DEF FoldLeft, MapThenFoldSet
<1>9. PICK J : \A n \in 0..N : \A a : a \in J[n] <=> a \in A /\ a \in I[n]
  <2> DEFINE K == [n \in 0..N |-> A \cap I[n]]
  <2>1. \A n \in 0..N : \A a : a \in K[n] <=> a \in A /\ a \in I[n] OBVIOUS
  <2> QED BY <2>1
<1>10. h[{}] \in J[0]
  <2>1. h[{}] = base BY <1>6
  <2> QED BY <1>9, <2>1
<1>11. ASSUME NEW n \in 1..N, h[1..(n - 1)] \in J[n - 1] PROVE h[1..n] \in J[n]
  <2>1. Max(1..n) = n /\ (1..n) \ {n} = 1..(n - 1) /\ 1..n # {}
    BY <1>1, <1>11, LastOfPrefix
  <2>2. 1..n \in SUBSET (DOMAIN q) BY <1>1
  <2>3. PICK a : a = h[1..(n - 1)] OBVIOUS
  <2>4. h[1..n] = WriteExporterInfos(a, q[n]) BY <1>6, <2>1, <2>2, <2>3
  <2>5. n - 1 \in 0..N /\ n \in 0..N OBVIOUS
  <2>6. a \in A /\ a \in I[n - 1] BY <1>9, <1>11, <2>3, <2>5
  <2>7. h[1..n] \in A /\ h[1..n] \in I[n] BY <1>1, <2>4, <2>6
  <2> QED BY <1>9, <2>5, <2>7
<1>12. h[1..N] \in J[N] BY <1>10, <1>11, FoldKeeps
<1>13. r \in A /\ r \in I[N] BY ONLY <1>1, <1>8, <1>9, <1>12
<1> QED BY <1>1, <1>7, <1>13

LEMMA FoldInfosWithin ==
    ASSUME NEW A, NEW base \in A, NEW S, NEW q \in Seq(S),
           \A n \in 1..Len(q) : \A a \in A : WriteExporterInfos(a, q[n]) \in A
    PROVE  FoldLeft(WriteExporterInfos, base, q) \in A
<1>1. PICK I : \A n \in Nat : I[n] = A
  <2>1. \A n \in Nat : [i \in Nat |-> A][n] = A OBVIOUS
  <2> QED BY <2>1
<1>2. base \in I[0] BY <1>1
<1>3. \A n \in 1..Len(q) : \A a \in A : a \in I[n - 1] => WriteExporterInfos(a, q[n]) \in I[n]
  <2>1. \A n \in 1..Len(q) : n \in Nat OBVIOUS
  <2> QED BY <1>1, <2>1
<1> QED BY <1>2, <1>3, FoldInfos

LEMMA FoldSamplers ==
    ASSUME NEW A, NEW base \in A, NEW S, NEW q \in Seq(S), NEW e,
           \A n \in 1..Len(q) : \A a \in A : WriteSampler(a, e, q[n]) \in A,
           NEW I, base \in I[0],
           \A n \in 1..Len(q) : \A a \in A : a \in I[n - 1] => WriteSampler(a, e, q[n]) \in I[n]
    PROVE  /\ SamplersFrom(base, e, q) \in A
           /\ SamplersFrom(base, e, q) \in I[Len(q)]
<1>1. PICK N \in Nat : N = Len(q) /\ DOMAIN q = 1..N OBVIOUS
<1>2. PICK F \in [1..N -> [A -> A]] : \A n \in 1..N : \A a \in A :
     F[n][a] = WriteSampler(a, e, q[n])
  <2> DEFINE G == [n \in 1..N |-> [a \in A |-> WriteSampler(a, e, q[n])]]
  <2>1. G \in [1..N -> [A -> A]] BY <1>1
  <2>2. \A n \in 1..N : \A a \in A : G[n][a] = WriteSampler(a, e, q[n]) OBVIOUS
  <2> QED BY Zenon, <2>1, <2>2
<1>3. PICK g : IsFold(g, N, A, base, F) BY Zenon, <1>1, <1>2, FoldExists
<1>4. g = [t \in SUBSET (DOMAIN q) |-> IF t = {} THEN base
     ELSE WriteSampler(g[t \ {Max(t)}], e, q[Max(t)])]
  <2>1. ASSUME NEW t \in SUBSET (1..N), t # {}
        PROVE  g[t] = WriteSampler(g[t \ {Max(t)}], e, q[Max(t)])
    <3>1. Max(t) \in 1..N BY Zenon, <1>1, <2>1, GreatestIn
    <3>2. g[t \ {Max(t)}] \in A BY Zenon, <1>3 DEF IsFold
    <3>3. g[t] = F[Max(t)][g[t \ {Max(t)}]] BY Zenon, <1>3, <2>1 DEF IsFold
    <3> QED BY <1>2, <3>1, <3>2, <3>3
  <2> QED BY Zenon, <1>1, <1>3, <2>1 DEF IsFold
<1>5. PICK h : h = CHOOSE f : f = [t \in SUBSET (DOMAIN q) |->
                                    IF t = {} THEN base
                                    ELSE WriteSampler(f[t \ {Max(t)}], e, q[Max(t)])]
  BY Zenon
<1>6. h = [t \in SUBSET (DOMAIN q) |-> IF t = {} THEN base
     ELSE WriteSampler(h[t \ {Max(t)}], e, q[Max(t)])]
  BY Zenon, <1>4, <1>5
<1>7. PICK r : r = SamplersFrom(base, e, q) OBVIOUS
<1>8. r = h[DOMAIN q] BY <1>5, <1>7 DEF FoldLeft, MapThenFoldSet, SamplersFrom
<1>9. PICK J : \A n \in 0..N : \A a : a \in J[n] <=> a \in A /\ a \in I[n]
  <2> DEFINE K == [n \in 0..N |-> A \cap I[n]]
  <2>1. \A n \in 0..N : \A a : a \in K[n] <=> a \in A /\ a \in I[n] OBVIOUS
  <2> QED BY Zenon, <2>1
<1>10. h[{}] \in J[0]
  <2>1. h[{}] = base BY <1>6
  <2> QED BY <1>9, <2>1
<1>11. ASSUME NEW n \in 1..N, h[1..(n - 1)] \in J[n - 1] PROVE h[1..n] \in J[n]
  <2>1. Max(1..n) = n /\ (1..n) \ {n} = 1..(n - 1) /\ 1..n # {}
    BY <1>1, <1>11, LastOfPrefix
  <2>2. 1..n \in SUBSET (DOMAIN q) BY <1>1
  <2>3. PICK a : a = h[1..(n - 1)] OBVIOUS
  <2>4. h[1..n] = WriteSampler(a, e, q[n]) BY Zenon, <1>6, <2>1, <2>2, <2>3
  <2>5. n - 1 \in 0..N /\ n \in 0..N OBVIOUS
  <2>6. a \in A /\ a \in I[n - 1] BY <1>9, <1>11, <2>3, <2>5
  <2>7. h[1..n] \in A /\ h[1..n] \in I[n] BY <1>1, <2>4, <2>6
  <2> QED BY <1>9, <2>5, <2>7
<1>12. h[1..N] \in J[N] BY <1>10, <1>11, FoldKeeps
<1>13. r \in A /\ r \in I[N] BY ONLY <1>1, <1>8, <1>9, <1>12
<1> QED BY <1>1, <1>7, <1>13

LEMMA FoldSamplersWithin ==
    ASSUME NEW A, NEW base \in A, NEW S, NEW q \in Seq(S), NEW e,
           \A n \in 1..Len(q) : \A a \in A : WriteSampler(a, e, q[n]) \in A
    PROVE  SamplersFrom(base, e, q) \in A
<1>1. PICK I : \A n \in Nat : I[n] = A
  <2>1. \A n \in Nat : [i \in Nat |-> A][n] = A OBVIOUS
  <2> QED BY Zenon, <2>1
<1>2. base \in I[0] BY <1>1
<1>3. \A n \in 1..Len(q) : \A a \in A : a \in I[n - 1] => WriteSampler(a, e, q[n]) \in I[n]
  <2>1. \A n \in 1..Len(q) : n \in Nat OBVIOUS
  <2> QED BY <1>1, <2>1
<1> QED BY Zenon, <1>2, <1>3, FoldSamplers

LEMMA FoldStats ==
    ASSUME NEW A, NEW base \in A, NEW S, NEW q \in Seq(S), NEW fs,
           \A n \in 1..Len(q) : \A a \in A :
              AddExporterStat(a, fs.exps[q[n]].sysid, fs.exps[q[n]].failures) \in A,
           NEW I, base \in I[0],
           \A n \in 1..Len(q) : \A a \in A : a \in I[n - 1]
               => AddExporterStat(a, fs.exps[q[n]].sysid, fs.exps[q[n]].failures) \in I[n]
    PROVE  /\ StatsFrom(base, fs, q) \in A
           /\ StatsFrom(base, fs, q) \in I[Len(q)]
<1>1. PICK N \in Nat : N = Len(q) /\ DOMAIN q = 1..N OBVIOUS
<1>2. PICK F \in [1..N -> [A -> A]] : \A n \in 1..N : \A a \in A :
     F[n][a] = AddExporterStat(a, fs.exps[q[n]].sysid, fs.exps[q[n]].failures)
  <2> DEFINE G == [n \in 1..N |->
                     [a \in A |-> AddExporterStat(a, fs.exps[q[n]].sysid, fs.exps[q[n]].failures)]]
  <2>1. G \in [1..N -> [A -> A]] BY <1>1
  <2>2. \A n \in 1..N : \A a \in A :
       G[n][a] = AddExporterStat(a, fs.exps[q[n]].sysid, fs.exps[q[n]].failures) OBVIOUS
  <2> QED BY Zenon, <2>1, <2>2
<1>3. PICK g : IsFold(g, N, A, base, F) BY Zenon, <1>1, <1>2, FoldExists
<1>4. g = [t \in SUBSET (DOMAIN q) |-> IF t = {} THEN base
     ELSE AddExporterStat(g[t \ {Max(t)}], fs.exps[q[Max(t)]].sysid, fs.exps[q[Max(t)]].failures)]
  <2>1. ASSUME NEW t \in SUBSET (1..N), t # {}
        PROVE  g[t] = AddExporterStat(g[t \ {Max(t)}], fs.exps[q[Max(t)]].sysid, fs.exps[q[Max(t)]].failures)
    <3>1. Max(t) \in 1..N BY Zenon, <1>1, <2>1, GreatestIn
    <3>2. g[t \ {Max(t)}] \in A BY Zenon, <1>3 DEF IsFold
    <3>3. g[t] = F[Max(t)][g[t \ {Max(t)}]] BY Zenon, <1>3, <2>1 DEF IsFold
    <3> QED BY <1>2, <3>1, <3>2, <3>3
  <2> QED BY Zenon, <1>1, <1>3, <2>1 DEF IsFold
<1>5. PICK h : h = CHOOSE f : f = [t \in SUBSET (DOMAIN q) |->
                                    IF t = {} THEN base
                                    ELSE AddExporterStat(f[t \ {Max(t)}], fs.exps[q[Max(t)]].sysid, fs.exps[q[Max(t)]].failures)]
  BY Zenon
<1>6. h = [t \in SUBSET (DOMAIN q) |-> IF t = {} THEN base
     ELSE AddExporterStat(h[t \ {Max(t)}], fs.exps[q[Max(t)]].sysid, fs.exps[q[Max(t)]].failures)]
  BY Zenon, <1>4, <1>5
<1>7. PICK r : r = StatsFrom(base, fs, q) OBVIOUS
<1>8. r = h[DOMAIN q] BY <1>5, <1>7 DEF FoldLeft, MapThenFoldSet, StatsFrom
<1>9. PICK J : \A n \in 0..N : \A a : a \in J[n] <=> a \in A /\ a \in I[n]
  <2> DEFINE K == [n \in 0..N |-> A \cap I[n]]
  <2>1. \A n \in 0..N : \A a : a \in K[n] <=> a \in A /\ a \in I[n] OBVIOUS
  <2> QED BY Zenon, <2>1
<1>10. h[{}] \in J[0]
  <2>1. h[{}] = base BY <1>6
  <2> QED BY <1>9, <2>1
<1>11. ASSUME NEW n \in 1..N, h[1..(n - 1)] \in J[n - 1] PROVE h[1..n] \in J[n]
  <2>1. Max(1..n) = n /\ (1..n) \ {n} = 1..(n - 1) /\ 1..n # {}
    BY <1>1, <1>11, LastOfPrefix
  <2>2. 1..n \in SUBSET (DOMAIN q) BY <1>1
  <2>3. PICK a : a = h[1..(n - 1)] OBVIOUS
  <2>4. h[1..n] = AddExporterStat(a, fs.exps[q[n]].sysid, fs.exps[q[n]].failures)
    BY Zenon, <1>6, <2>1, <2>2, <2>3
  <2>5. n - 1 \in 0..N /\ n \in 0..N OBVIOUS
  <2>6. a \in A /\ a \in I[n - 1] BY <1>9, <1>11, <2>3, <2>5
  <2>7. h[1..n] \in A /\ h[1..n] \in I[n] BY <1>1, <2>4, <2>6
  <2> QED BY <1>9, <2>5, <2>7
<1>12. h[1..N] \in J[N] BY Zenon, <1>10, <1>11, FoldKeeps
<1>13. r \in A /\ r \in I[N] BY ONLY <1>1, <1>8, <1>9, <1>12
<1> QED BY <1>1, <1>7, <1>13

LEMMA FoldStatsWithin ==
    ASSUME NEW A, NEW base \in A, NEW S, NEW q \in Seq(S), NEW fs,
           \A n \in 1..Len(q) : \A a \in A :
              AddExporterStat(a, fs.exps[q[n]].sysid, fs.exps[q[n]].failures) \in A
    PROVE  StatsFrom(base, fs, q) \in A
<1>1. PICK I : \A n \in Nat : I[n] = A
  <2>1. \A n \in Nat : [i \in Nat |-> A][n] = A OBVIOUS
  <2> QED BY Zenon, <2>1
<1>2. base \in I[0] BY <1>1
<1>3. \A n \in 1..Len(q) : \A a \in A : a \in I[n - 1]
     => AddExporterStat(a, fs.exps[q[n]].sysid, fs.exps[q[n]].failures) \in I[n]
  <2>1. \A n \in 1..Len(q) : n \in Nat OBVIOUS
  <2> QED BY <1>1, <2>1
<1> QED BY Zenon, <1>2, <1>3, FoldStats

-----------------------------------------------------------------------------
(* Operations that leave templates and maps alone                          *)

LEMMA SetAsSeq == ASSUME NEW S, IsFiniteSet(S)
                  PROVE  /\ SetToSeq(S) \in Seq(S) /\ Len(SetToSeq(S)) = Cardinality(S)
                         /\ \A x \in S : \E n \in 1..Cardinality(S) : SetToSeq(S)[n] = x
<1>1. PICK c \in Nat : c = Cardinality(S) BY FS_CardinalityType
<1>2. ExistsBijection(1..c, S) BY <1>1, FS_CardinalityType
<1>3. PICK b \in Bijection(1..c, S) : TRUE BY <1>2 DEF ExistsBijection
<1>4. b \in [1..c -> S] /\ IsInjective(b)
  BY <1>3 DEF Bijection, Injection, Surjection, IsInjective
<1>5. PICK q : q = SetToSeq(S) OBVIOUS
<1>6. q \in [1..c -> S] /\ IsInjective(q) BY <1>1, <1>4, <1>5 DEF SetToSeq
<1>7. q \in Seq(S) /\ Len(q) = c BY <1>6
<1>8. q \in Injection(1..c, S) BY <1>6 DEF Injection, IsInjective
<1>9. IsFiniteSet(1..c) /\ Cardinality(1..c) = c BY FS_Interval
<1>10. q \in Surjection(1..c, S) BY <1>1, <1>8, <1>9, FS_Injection
<1> QED BY <1>1, <1>5, <1>7, <1>10 DEF Surjection

\* Templates, maps and chains are the same.
SameTable(t, u) == u.id = t.id /\ u.mapId = t.mapId /\ u.ex = t.ex /\ u.freed = t.freed
SameChain(e, x) == x.dev = e.dev /\ x.sysid = e.sysid /\ x.list = e.list /\ x.cur = e.cur
Alike(fs, g) ==
    /\ g \in SourceType /\ g.list = fs.list
    /\ DOMAIN g.heap = DOMAIN fs.heap
    /\ \A t \in DOMAIN fs.heap : SameTable(fs.heap[t], g.heap[t])
    /\ DOMAIN g.exps = DOMAIN fs.exps
    /\ \A k \in DOMAIN fs.exps : SameChain(fs.exps[k], g.exps[k])

\* No map is written, and none is new to a reader.
MapsKept(fs, g) ==
    /\ g.list = fs.list /\ g.heap = fs.heap
    /\ g.one.maps = fs.one.maps /\ g.all.maps = fs.all.maps /\ g.copy.maps = fs.copy.maps

\* The maps that the next file begins with have numbers.
Listed(fs) == \A n \in DOMAIN fs.list : fs.list[n] # 0 =>
                 fs.list[n] \in DOMAIN fs.heap /\ fs.heap[fs.list[n]].mapId \in Nat

LEMMA AlikeSelf == ASSUME NEW fs \in SourceType PROVE Alike(fs, fs)
BY DEF Alike, SameTable, SameChain

LEMMA AlikeChain == ASSUME NEW a, NEW b, NEW c, Alike(a, b), Alike(b, c) PROVE Alike(a, c)
BY DEF Alike, SameTable, SameChain

LEMMA AlikeListed == ASSUME NEW a, NEW b, Alike(a, b), Listed(a) PROVE Listed(b)
BY DEF Alike, SameTable, Listed

LEMMA MapAlike == ASSUME NEW fs \in SourceType, NEW t \in DOMAIN fs.heap, fs.heap[t].mapId \in Nat
                  PROVE  Alike(fs, WriteMap(fs, t))
<1>1. PICK g : g = WriteMap(fs, t) OBVIOUS
<1>2. MapWritten(fs, g, t) BY <1>1, WriteMapDoes
<1>3. Alike(fs, g) BY <1>2 DEF MapWritten, SameRest, Alike, SameTable, SameChain
<1> QED BY <1>1, <1>3

LEMMA ListsAlike == ASSUME NEW fs \in SourceType, NEW g, ListsWritten(fs, g)
                    PROVE  Alike(fs, g) /\ MapsKept(fs, g)
BY DEF ListsWritten, SameRest, Alike, SameTable, SameChain, MapsKept

LEMMA ExporterAlike == ASSUME NEW fs \in SourceType, NEW e, e.sysid \in Nat, e.dev \in Dev,
                              MaxExporters \in Nat
                       PROVE  /\ Alike(fs, WriteExporter(fs, e))
                              /\ MapsKept(fs, WriteExporter(fs, e))
<1>1. PICK g : g = WriteExporter(fs, e) OBVIOUS
<1>2. ExporterWritten(fs, g, e) BY <1>1, WriteExporterDoes
<1> QED BY <1>1, <1>2, ListsAlike DEF ExporterWritten

LEMMA SamplerAlike == ASSUME NEW fs \in SourceType, NEW e, e.sysid \in Nat, NEW s \in Samplers
                      PROVE  /\ Alike(fs, WriteSampler(fs, e, s))
                             /\ MapsKept(fs, WriteSampler(fs, e, s))
<1>1. PICK g : g = WriteSampler(fs, e, s) OBVIOUS
<1>2. SamplerWritten(fs, g, e, s) BY <1>1, WriteSamplerDoes
<1> QED BY <1>1, <1>2, ListsAlike DEF SamplerWritten

LEMMA InfosAlike == ASSUME NEW fs \in SourceType, NEW e \in ExporterType, MaxExporters \in Nat
                    PROVE  Alike(fs, WriteExporterInfos(fs, e))
                           /\ MapsKept(fs, WriteExporterInfos(fs, e))
<1>1. e.sysid \in Nat /\ e.dev \in Dev /\ e.samplers \in SUBSET Samplers
     /\ IsFiniteSet(e.samplers)
  BY DEF ExporterType
<1>2. PICK g \in SourceType : g = WriteExporter(fs, e) /\ Alike(fs, g) /\ MapsKept(fs, g)
  BY <1>1, ExporterAlike DEF Alike
<1>3. PICK q \in Seq(e.samplers) : q = SetToSeq(e.samplers) BY <1>1, SetAsSeq
<1> DEFINE A == {x \in SourceType : Alike(g, x) /\ MapsKept(g, x)}
<1>4. g \in A BY AlikeSelf DEF MapsKept
<1>5. \A n \in 1..Len(q) : \A a \in A : WriteSampler(a, e, q[n]) \in A
  <2> SUFFICES ASSUME NEW n \in 1..Len(q), NEW a \in A PROVE WriteSampler(a, e, q[n]) \in A
    OBVIOUS
  <2>1. q[n] \in Samplers BY <1>1, <1>3
  <2>2. PICK r : r = WriteSampler(a, e, q[n]) OBVIOUS
  <2>3. Alike(a, r) /\ MapsKept(a, r) BY <1>1, <2>1, <2>2, SamplerAlike
  <2>4. MapsKept(g, r) BY Zenon, <2>3 DEF MapsKept
  <2> QED BY <2>2, <2>3, <2>4, AlikeChain DEF Alike
<1> HIDE DEF A
<1>7. PICK r : r = SamplersFrom(g, e, q) OBVIOUS
<1>8. r \in A BY <1>4, <1>5, <1>7, FoldSamplersWithin
<1>9. WriteExporterInfos(fs, e) = r
  BY <1>2, <1>3, <1>7 DEF WriteExporterInfos, WriteSamplers, SamplersFrom
<1>11. Alike(fs, r) BY <1>2, <1>8, AlikeChain DEF A
<1>12. MapsKept(fs, r) BY Zenon, <1>2, <1>8 DEF A, MapsKept
<1> QED BY Zenon, <1>9, <1>11, <1>12

LEMMA FlushAlike == ASSUME NEW fs \in SourceType, Listed(fs), MaxExporters \in Nat
                    PROVE  Alike(fs, FlushStdRecords(fs))
<1> DEFINE A == {x \in SourceType : Alike(fs, x)}
<1>1. fs \in A BY AlikeSelf
<1>2. fs.exps \in Seq(ExporterType) /\ fs.list \in Seq(Nat) BY Parts
<1>3. \A n \in 1..Len(fs.exps) : \A a \in A : WriteExporterInfos(a, fs.exps[n]) \in A
  <2> SUFFICES ASSUME NEW n \in 1..Len(fs.exps), NEW a \in A
               PROVE  WriteExporterInfos(a, fs.exps[n]) \in A
    OBVIOUS
  <2>1. fs.exps[n] \in ExporterType BY <1>2
  <2>2. Alike(a, WriteExporterInfos(a, fs.exps[n])) BY <2>1, InfosAlike
  <2> QED BY Zenon, <2>2, AlikeChain DEF Alike
<1>5. \A n \in 1..Len(fs.list) : \A a \in A : WriteListed(a, fs.list[n]) \in A
  <2> SUFFICES ASSUME NEW n \in 1..Len(fs.list), NEW a \in A
               PROVE  WriteListed(a, fs.list[n]) \in A
    OBVIOUS
  <2>1. CASE fs.list[n] = 0 BY <2>1 DEF WriteListed
  <2>2. CASE fs.list[n] # 0
    <3>1. /\ fs.list[n] \in DOMAIN a.heap /\ a.heap[fs.list[n]].mapId \in Nat
      BY <1>2, <2>2 DEF Listed, Alike, SameTable
    <3>2. Alike(a, WriteMap(a, fs.list[n])) BY <3>1, MapAlike
    <3> QED BY Zenon, <2>2, <3>2, AlikeChain DEF Alike, WriteListed
  <2> QED BY <2>1, <2>2
<1> HIDE DEF A
<1>6. PICK g : g = FoldLeft(WriteExporterInfos, fs, fs.exps) OBVIOUS
<1>7. g \in A BY Zenon, <1>1, <1>2, <1>3, <1>6, FoldInfosWithin
<1>8. PICK r : r = FoldLeft(WriteListed, g, fs.list) OBVIOUS
<1>9. r \in A BY Zenon, <1>2, <1>5, <1>7, <1>8, FoldListedWithin
<1>10. FlushStdRecords(fs) = r BY <1>6, <1>8 DEF FlushStdRecords
<1> QED BY <1>9, <1>10 DEF A

LEMMA NewExporterAt ==
    ASSUME NEW exps \in Seq(ExporterType), NEW k \in DOMAIN exps, NEW v \in ExporterType
    PROVE  /\ [exps EXCEPT ![k] = v] \in Seq(ExporterType)
           /\ DOMAIN [exps EXCEPT ![k] = v] = DOMAIN exps
           /\ [exps EXCEPT ![k] = v][k] = v
           /\ \A j \in DOMAIN exps : j # k => [exps EXCEPT ![k] = v][j] = exps[j]
OBVIOUS

\* Of an exporter only what counts changes.
CountsOnly(fs, g, k) ==
    /\ g \in SourceType /\ g.heap = fs.heap /\ g.list = fs.list /\ g.opts = fs.opts
    /\ g.count = fs.count /\ g.one = fs.one /\ g.all = fs.all /\ g.copy = fs.copy
    /\ DOMAIN g.exps = DOMAIN fs.exps
    /\ \A j \in DOMAIN fs.exps : j # k => g.exps[j] = fs.exps[j]
    /\ SameChain(fs.exps[k], g.exps[k]) /\ g.exps[k].samplers = fs.exps[k].samplers

LEMMA FailCounts ==
    ASSUME NEW fs \in SourceType, NEW k \in DOMAIN fs.exps, NEW cond \in BOOLEAN
    PROVE  LET g == Fail(fs, k, cond) IN
           /\ CountsOnly(fs, g, k)
           /\ g.exps[k].seq = fs.exps[k].seq /\ g.exps[k].started = fs.exps[k].started
           /\ cond => /\ g.failures = fs.failures + 1
                      /\ g.exps[k].failures = fs.exps[k].failures + 1
           /\ ~cond => g = fs
<1>1. fs.exps \in Seq(ExporterType) /\ fs.exps[k] \in ExporterType /\ fs.failures \in Nat BY Parts
<1>2. CASE ~cond BY <1>2 DEF Fail, CountsOnly, SameChain
<1>3. CASE cond
  <2>0. PICK e \in ExporterType : e = fs.exps[k] BY <1>1
  <2>1. PICK v : v = [e EXCEPT !.failures = @ + 1] BY Zenon
  <2>2. /\ v \in ExporterType /\ SameChain(fs.exps[k], v) /\ v.samplers = fs.exps[k].samplers
        /\ v.seq = fs.exps[k].seq /\ v.started = fs.exps[k].started
        /\ v.failures = fs.exps[k].failures + 1
    BY <2>0, <2>1 DEF ExporterType, SameChain
  <2>3. PICK x : x = [fs.exps EXCEPT ![k] = v] BY Zenon
  <2>4. /\ x \in Seq(ExporterType) /\ DOMAIN x = DOMAIN fs.exps /\ x[k] = v
        /\ \A j \in DOMAIN fs.exps : j # k => x[j] = fs.exps[j]
    BY <1>1, <2>2, <2>3, NewExporterAt
  <2>5. PICK n \in Nat : n = fs.failures + 1 BY <1>1
  <2>6. PICK g : g = [fs EXCEPT !.exps = x, !.failures = n] OBVIOUS
  <2>7. Fail(fs, k, cond) = g BY <1>3, <2>0, <2>1, <2>3, <2>5, <2>6 DEF Fail
  <2>8. /\ g \in SourceType /\ g.exps = x /\ g.failures = n
        /\ g.heap = fs.heap /\ g.list = fs.list /\ g.opts = fs.opts
        /\ g.count = fs.count /\ g.one = fs.one /\ g.all = fs.all /\ g.copy = fs.copy
    BY Zenon, <2>4, <2>5, <2>6 DEF SourceType
  <2>9. CountsOnly(fs, g, k) BY <2>2, <2>4, <2>8 DEF CountsOnly
  <2> QED BY Zenon, <1>3, <2>2, <2>4, <2>5, <2>7, <2>8, <2>9
<1> QED BY <1>2, <1>3

LEMMA NextCounts ==
    ASSUME NEW fs \in SourceType, NEW k \in DOMAIN fs.exps, NEW number \in Nat
    PROVE  CountsOnly(fs, NextInSequence(fs, k, number), k)
<1>1. PICK cond \in BOOLEAN :
         cond = (fs.exps[k].started /\ (number - fs.exps[k].seq) % SeqWrap # 1)
  BY Zenon
<1>2. PICK f : f = Fail(fs, k, cond) OBVIOUS
<1>3. f \in SourceType /\ CountsOnly(fs, f, k) BY <1>2, FailCounts DEF CountsOnly
<1>4. f.exps \in Seq(ExporterType) /\ k \in DOMAIN f.exps /\ f.exps[k] \in ExporterType
  BY <1>3, Parts DEF CountsOnly
<1>5. PICK v : v = [f.exps[k] EXCEPT !.seq = number, !.started = TRUE] OBVIOUS
<1>6. v \in ExporterType /\ SameChain(f.exps[k], v) /\ v.samplers = f.exps[k].samplers
  BY Zenon, <1>4, <1>5 DEF ExporterType, SameChain
<1>7. PICK x : x = [f.exps EXCEPT ![k] = v] BY Zenon
<1>8. /\ x \in Seq(ExporterType) /\ DOMAIN x = DOMAIN f.exps /\ x[k] = v
      /\ \A j \in DOMAIN f.exps : j # k => x[j] = f.exps[j]
  BY <1>4, <1>6, <1>7, NewExporterAt
<1>9. PICK g : g = [f EXCEPT !.exps = x] BY Zenon
<1>11. NextInSequence(fs, k, number) = g BY Zenon, <1>1, <1>2, <1>5, <1>7, <1>9 DEF NextInSequence
<1>12. /\ g \in SourceType /\ g.exps = x
       /\ g.heap = f.heap /\ g.list = f.list /\ g.opts = f.opts
       /\ g.count = f.count /\ g.one = f.one /\ g.all = f.all /\ g.copy = f.copy
  BY Zenon, <1>3, <1>8, <1>9 DEF SourceType
<1>13. CountsOnly(fs, g, k) BY <1>3, <1>6, <1>8, <1>12 DEF CountsOnly, SameChain
<1> QED BY <1>11, <1>13

LEMMA SyncCounts ==
    ASSUME NEW fs \in SourceType, NEW k \in DOMAIN fs.exps, NEW number \in Nat
    PROVE  CountsOnly(fs, SyncSequence(fs, k, number), k)
<1>1. PICK cond \in BOOLEAN : cond = (number # fs.exps[k].seq /\ fs.exps[k].started)
  BY Zenon
<1>2. PICK f : f = Fail(fs, k, cond) OBVIOUS
<1>3. f \in SourceType /\ CountsOnly(fs, f, k) BY <1>2, FailCounts DEF CountsOnly
<1>4. f.exps \in Seq(ExporterType) /\ k \in DOMAIN f.exps /\ f.exps[k] \in ExporterType
  BY <1>3, Parts DEF CountsOnly
<1>5. PICK v : v = [f.exps[k] EXCEPT !.seq = number] BY Zenon
<1>6. v \in ExporterType /\ SameChain(f.exps[k], v) /\ v.samplers = f.exps[k].samplers
  BY Zenon, <1>4, <1>5 DEF ExporterType, SameChain
<1>7. PICK x : x = [f.exps EXCEPT ![k] = v] OBVIOUS
<1>8. /\ x \in Seq(ExporterType) /\ DOMAIN x = DOMAIN f.exps /\ x[k] = v
      /\ \A j \in DOMAIN f.exps : j # k => x[j] = f.exps[j]
  BY <1>4, <1>6, <1>7, NewExporterAt
<1>9. PICK g : g = [f EXCEPT !.exps = x] OBVIOUS
<1>10. SyncSequence(fs, k, number) = g BY Zenon, <1>1, <1>2, <1>5, <1>7, <1>9 DEF SyncSequence
<1>12. /\ g \in SourceType /\ g.exps = x
       /\ g.heap = f.heap /\ g.list = f.list /\ g.opts = f.opts
       /\ g.count = f.count /\ g.one = f.one /\ g.all = f.all /\ g.copy = f.copy
  BY <1>3, <1>8, <1>9 DEF SourceType
<1>13. CountsOnly(fs, g, k) BY <1>3, <1>6, <1>8, <1>12 DEF CountsOnly, SameChain
<1> QED BY <1>10, <1>13

LEMMA CountsAlike == ASSUME NEW fs, NEW g, NEW k \in DOMAIN fs.exps, CountsOnly(fs, g, k)
                     PROVE  Alike(fs, g)
BY DEF CountsOnly, Alike, SameTable, SameChain

\* Only the samplers of one exporter change.
SamplersOnly(fs, g, k, S) ==
    /\ g \in SourceType /\ g.heap = fs.heap /\ g.list = fs.list /\ g.opts = fs.opts
    /\ g.count = fs.count /\ g.failures = fs.failures
    /\ g.one = fs.one /\ g.all = fs.all /\ g.copy = fs.copy
    /\ DOMAIN g.exps = DOMAIN fs.exps
    /\ \A j \in DOMAIN fs.exps : j # k => g.exps[j] = fs.exps[j]
    /\ SameChain(fs.exps[k], g.exps[k]) /\ g.exps[k].samplers = S

SamplersSet(fs, k, S) == [fs EXCEPT !.exps[k].samplers = S]

LEMMA SamplersSetDoes ==
    ASSUME NEW fs \in SourceType, NEW k \in DOMAIN fs.exps,
           NEW S \in SUBSET Samplers, IsFiniteSet(S)
    PROVE  SamplersOnly(fs, SamplersSet(fs, k, S), k, S)
<1>1. fs.exps \in Seq(ExporterType) /\ fs.exps[k] \in ExporterType BY Parts
<1>2. PICK v : v = [fs.exps[k] EXCEPT !.samplers = S] BY Zenon
<1>3. v \in ExporterType /\ SameChain(fs.exps[k], v) /\ v.samplers = S
  BY Zenon, <1>1, <1>2 DEF ExporterType, SameChain
<1>4. PICK x : x = [fs.exps EXCEPT ![k] = v] BY Zenon
<1>5. /\ x \in Seq(ExporterType) /\ DOMAIN x = DOMAIN fs.exps /\ x[k] = v
      /\ \A j \in DOMAIN fs.exps : j # k => x[j] = fs.exps[j]
  BY <1>1, <1>3, <1>4, NewExporterAt
<1>6. PICK g : g = [fs EXCEPT !.exps = x] BY Zenon
<1>7. SamplersSet(fs, k, S) = g BY <1>2, <1>4, <1>6 DEF SamplersSet
<1>8. /\ g \in SourceType /\ g.exps = x /\ g.failures = fs.failures
      /\ g.heap = fs.heap /\ g.list = fs.list /\ g.opts = fs.opts
      /\ g.count = fs.count /\ g.one = fs.one /\ g.all = fs.all /\ g.copy = fs.copy
  BY Zenon, <1>5, <1>6 DEF SourceType
<1>9. SamplersOnly(fs, g, k, S) BY <1>3, <1>5, <1>8 DEF SamplersOnly
<1> QED BY <1>7, <1>9

LEMMA SamplersAlike ==
    ASSUME NEW fs, NEW g, NEW k \in DOMAIN fs.exps, NEW S, SamplersOnly(fs, g, k, S)
    PROVE  Alike(fs, g)
BY DEF SamplersOnly, Alike, SameTable, SameChain

LEMMA InsertSamplerAlike ==
    ASSUME NEW fs \in SourceType, NEW k \in DOMAIN fs.exps,
           NEW id \in {NoId, 0, 1}, NEW rate \in Rates \cup {Junk}
    PROVE  /\ Alike(fs, InsertSampler(fs, k, id, rate))
           /\ MapsKept(fs, InsertSampler(fs, k, id, rate))
<1> DEFINE e == fs.exps[k]
           old == {x \in e.samplers : x.id = id}
<1>1. PICK s : s = [id |-> id, rate |-> rate] BY Zenon
<1>2. s \in Samplers BY <1>1 DEF Samplers
<1>3. fs.exps[k] \in ExporterType BY Parts
<1>4. /\ e.sysid \in Nat /\ e.samplers \in SUBSET Samplers /\ IsFiniteSet(e.samplers)
  BY <1>3 DEF ExporterType
<1>5. PICK T : T = e.samplers \cup {s} BY Zenon
<1>6. T \in SUBSET Samplers /\ IsFiniteSet(T) BY <1>2, <1>4, <1>5, FS_AddElement
<1>7. CASE old = {}
  <2>1. PICK h : h = SamplersSet(fs, k, T) OBVIOUS
  <2>2. h \in SourceType /\ Alike(fs, h) /\ MapsKept(fs, h)
    <3>1. SamplersOnly(fs, h, k, T) BY <1>6, <2>1, SamplersSetDoes
    <3>2. Alike(fs, h) BY <3>1, SamplersAlike
    <3> QED BY <3>1, <3>2 DEF Alike, SamplersOnly, MapsKept
  <2>3. PICK g : g = WriteSampler(h, e, s) OBVIOUS
  <2>4. InsertSampler(fs, k, id, rate) = g
    BY <1>1, <1>5, <1>7, <2>1, <2>3 DEF InsertSampler, SamplersSet
  <2>5. Alike(h, g) /\ MapsKept(h, g) BY <1>2, <1>4, <2>2, <2>3, SamplerAlike
  <2>6. MapsKept(fs, g) BY Zenon, <2>2, <2>5 DEF MapsKept
  <2> QED BY <2>2, <2>4, <2>5, <2>6, AlikeChain
<1>8. CASE old # {} /\ s \in old
  <2>1. InsertSampler(fs, k, id, rate) = fs BY <1>1, <1>8 DEF InsertSampler
  <2> QED BY <2>1, AlikeSelf DEF MapsKept
<1>9. CASE old # {} /\ s \notin old
  <2>1. PICK o \in e.samplers : o = CHOOSE x \in old : TRUE BY <1>9
  <2>2. PICK h : h = WriteSampler(fs, e, o) OBVIOUS
  <2>3. h \in SourceType /\ Alike(fs, h) /\ MapsKept(fs, h)
    <3>1. o \in Samplers BY <1>4, <2>1
    <3>2. Alike(fs, h) /\ MapsKept(fs, h) BY <1>4, <2>2, <3>1, SamplerAlike
    <3> QED BY <3>2 DEF Alike
  <2>4. ListsWritten(fs, h) BY <1>4, <2>1, <2>2, WriteSamplerDoes DEF SamplerWritten
  <2>5. h.exps = fs.exps BY <2>4 DEF ListsWritten, SameRest
  <2>6. PICK U : U = (e.samplers \ old) \cup {s} BY Zenon
  <2>7. U \in SUBSET Samplers /\ IsFiniteSet(U)
    <3>1. U \subseteq T BY <1>5, <2>6
    <3> QED BY <1>6, <3>1, FS_Subset
  <2>8. InsertSampler(fs, k, id, rate) = SamplersSet(h, k, U)
    <3>1. InsertSampler(fs, k, id, rate)
            = [h EXCEPT !.exps[k].samplers = (h.exps[k].samplers \ old) \cup {s}]
      BY Zenon, <1>1, <1>9, <2>1, <2>2 DEF InsertSampler
    <3> QED BY <2>5, <2>6, <3>1 DEF SamplersSet
  <2>9. PICK g : g = SamplersSet(h, k, U) OBVIOUS
  <2>10. Alike(h, g) /\ MapsKept(h, g)
    <3>1. k \in DOMAIN h.exps BY <2>5
    <3>2. SamplersOnly(h, g, k, U) BY <2>3, <2>7, <2>9, <3>1, SamplersSetDoes
    <3>3. Alike(h, g) BY Zenon, <3>1, <3>2, SamplersAlike
    <3> QED BY <3>2, <3>3 DEF SamplersOnly, MapsKept
  <2>11. MapsKept(fs, g) BY Zenon, <2>3, <2>10 DEF MapsKept
  <2> QED BY <2>3, <2>8, <2>9, <2>10, <2>11, AlikeChain
<1> QED BY <1>7, <1>8, <1>9

LEMMA ReadAlike ==
    ASSUME NEW fs \in SourceType, NEW k \in DOMAIN fs.exps, NEW id, NEW kind \in Kinds,
           NEW rate \in Rates
    PROVE  /\ Alike(fs, ReadSampler(fs, k, id, kind, rate))
           /\ MapsKept(fs, ReadSampler(fs, k, id, kind, rate))
<1>1. SamplerId(kind) \in {NoId, 0, 1} /\ NoId \in {NoId, 0, 1} /\ Junk \in {NoId, 0, 1}
  BY DEF SamplerId, Junk
<1>2. CASE ReadSampler(fs, k, id, kind, rate) = fs BY <1>2, AlikeSelf DEF MapsKept
<1>3. CASE ReadSampler(fs, k, id, kind, rate) = InsertSampler(fs, k, SamplerId(kind), rate)
  BY <1>1, <1>3, InsertSamplerAlike
<1>4. CASE ReadSampler(fs, k, id, kind, rate)
             = InsertSampler(fs, k, IF kind = "std" THEN NoId ELSE Junk, Junk)
  <2>1. PICK i \in {NoId, 0, 1} : i = IF kind = "std" THEN NoId ELSE Junk BY <1>1
  <2>2. PICK g : g = InsertSampler(fs, k, i, Junk) OBVIOUS
  <2>3. Alike(fs, g) /\ MapsKept(fs, g) BY <2>2, InsertSamplerAlike
  <2> QED BY <1>4, <2>1, <2>2, <2>3
<1> QED BY <1>2, <1>3, <1>4 DEF ReadSampler

LEMMA OptionsAlike ==
    ASSUME NEW fs \in SourceType, NEW k \in DOMAIN fs.exps, NEW id, NEW rate \in Rates
    PROVE  Alike(fs, OptionData(fs, k, id, rate)) /\ MapsKept(fs, OptionData(fs, k, id, rate))
<1>1. PICK h : h = ReadSampler(fs, k, id, "sampler", rate) OBVIOUS
<1>2. Alike(fs, h) /\ MapsKept(fs, h) BY <1>1, ReadAlike DEF Kinds
<1>3. h \in SourceType /\ k \in DOMAIN h.exps BY <1>2 DEF Alike
<1>4. PICK g : g = ReadSampler(h, k, id, "std", rate) OBVIOUS
<1>5. Alike(h, g) /\ MapsKept(h, g) BY <1>3, <1>4, ReadAlike DEF Kinds
<1>6. MapsKept(fs, g) BY Zenon, <1>2, <1>5 DEF MapsKept
<1>7. OptionData(fs, k, id, rate) = g BY Zenon, <1>1, <1>4 DEF OptionData
<1> QED BY Zenon, <1>2, <1>5, <1>6, <1>7, AlikeChain

LEMMA OffsetAlike ==
    ASSUME NEW fs \in SourceType, NEW id \in TemplateIds, NEW kind \in Kinds
    PROVE  /\ Alike(fs, InsertOffset(fs, id, kind))
           /\ MapsKept(fs, InsertOffset(fs, id, kind))
<1>1. fs.opts \in Partial(TemplateIds, OptionType) BY Parts
<1>2. OptionTable(fs, id) \in SUBSET Kinds
  <2>1. id \in DOMAIN fs.opts => fs.opts[id] \in OptionType BY <1>1, PartialIs
  <2> QED BY <2>1 DEF OptionTable, OptionType
<1>3. PICK v \in OptionType : v = [flags |-> OptionTable(fs, id) \cup {kind}, last |-> kind]
  BY Zenon, <1>2 DEF OptionType
<1>4. PICK o \in Partial(TemplateIds, OptionType) : o = Put(fs.opts, id, v)
  BY Zenon, <1>1, PutPartial
<1>5. PICK g : g = [fs EXCEPT !.opts = o] BY Zenon
<1>6. InsertOffset(fs, id, kind) = g BY <1>3, <1>4, <1>5 DEF InsertOffset
<1>7. /\ g \in SourceType /\ g.exps = fs.exps /\ g.heap = fs.heap /\ g.list = fs.list
      /\ g.one = fs.one /\ g.all = fs.all /\ g.copy = fs.copy
  BY Zenon, <1>5 DEF SourceType
<1> QED BY <1>6, <1>7 DEF Alike, SameTable, SameChain, MapsKept

\* Only the reader of all files changes.
RecordAdded(fs, g, t) ==
    /\ g \in SourceType /\ SameRest(fs, g) /\ g.heap = fs.heap
    /\ g.one = fs.one /\ g.copy = fs.copy /\ g.all.exps = fs.all.exps
    /\ g.all.maps = Refer(fs.all.maps, fs.heap[t].mapId)

LEMMA AddRecordDoes ==
    ASSUME NEW fs \in SourceType, NEW t \in DOMAIN fs.heap, fs.heap[t].mapId \in Nat
    PROVE  RecordAdded(fs, AddRecord(fs, t), t)
<1>1. PICK m \in MapsType : m = Refer(fs.all.maps, fs.heap[t].mapId)
  BY ReferTyped, Parts, ReaderParts
<1>2. PICK all \in ReaderType : all = [fs.all EXCEPT !.maps = m] /\ all.maps = m
     /\ all.exps = fs.all.exps
  BY Zenon, NewMaps, Parts
<1>3. PICK g : g = [fs EXCEPT !.all = all] BY Zenon
<1>4. AddRecord(fs, t) = g BY <1>1, <1>2, <1>3 DEF AddRecord
<1>5. /\ g \in SourceType /\ SameRest(fs, g) /\ g.heap = fs.heap
      /\ g.one = fs.one /\ g.copy = fs.copy /\ g.all = all
  BY Zenon, <1>3 DEF SourceType, SameRest
<1> QED BY <1>1, <1>2, <1>4, <1>5 DEF RecordAdded

LEMMA RecordAlike == ASSUME NEW fs \in SourceType, NEW g, NEW t, RecordAdded(fs, g, t)
                     PROVE  Alike(fs, g)
BY DEF RecordAdded, SameRest, Alike, SameTable, SameChain

\* What a reader knows of exporters is the same, but for what it adds up.
SameInfo(l, m) == /\ m \in ExpsType /\ DOMAIN m = DOMAIN l
                  /\ \A i \in DOMAIN l : /\ m[i].dev = l[i].dev /\ m[i].sysid = l[i].sysid
                                         /\ m[i].samplers = l[i].samplers

LEMMA StatsKeep ==
    ASSUME NEW fs \in SourceType
    PROVE  LET q == SetToSeq(Reported(fs))
           IN  SameInfo(fs.all.exps, StatsFrom(fs.all.exps, fs, q))
<1>1. fs.exps \in Seq(ExporterType) /\ fs.all.exps \in ExpsType BY Parts, ReaderParts
<1>2. PICK N \in Nat : DOMAIN fs.exps = 1..N BY <1>1
<1>3. Reported(fs) \subseteq 1..N BY <1>2 DEF Reported
<1>4. IsFiniteSet(Reported(fs))
  <2>1. IsFiniteSet(1..N) BY FS_Interval
  <2> QED BY <1>3, <2>1, FS_Subset
<1>5. PICK q \in Seq(Reported(fs)) : q = SetToSeq(Reported(fs)) BY <1>4, SetAsSeq
<1>6. PICK l \in ExpsType : l = fs.all.exps BY <1>1
<1> DEFINE A == {m \in ExpsType : SameInfo(l, m)}
<1>7. l \in A BY DEF SameInfo
<1>8. \A n \in 1..Len(q) : \A a \in A :
         AddExporterStat(a, fs.exps[q[n]].sysid, fs.exps[q[n]].failures) \in A
  <2> SUFFICES ASSUME NEW n \in 1..Len(q), NEW a \in A
               PROVE  AddExporterStat(a, fs.exps[q[n]].sysid, fs.exps[q[n]].failures) \in A
    OBVIOUS
  <2>1. q[n] \in 1..N BY <1>3, <1>5
  <2>2. fs.exps[q[n]] \in ExporterType BY <1>1, <1>2, <2>1
  <2>3. PICK id \in Nat : id = fs.exps[q[n]].sysid BY Zenon, <2>2 DEF ExporterType
  <2>4. PICK f \in Nat : f = fs.exps[q[n]].failures BY Zenon, <2>2 DEF ExporterType
  <2>5. PICK b \in ExpsType : b = AddExporterStat(a, id, f) BY StatTyped
  <2>6. CASE id \notin DOMAIN a BY <2>3, <2>4, <2>5, <2>6 DEF AddExporterStat
  <2>7. CASE id \in DOMAIN a
    <3>1. a[id] \in InfoType BY <2>7, PartialIs DEF ExpsType
    <3>2. PICK v : v = [a[id] EXCEPT !.failures = @ + f] BY Zenon
    <3>3. v.dev = a[id].dev /\ v.sysid = a[id].sysid /\ v.samplers = a[id].samplers
      BY <3>1, <3>2 DEF InfoType
    <3>4. v \in InfoType BY <3>1, <3>2 DEF InfoType
    <3>5. b = [a EXCEPT ![id] = v] BY <2>5, <2>7, <3>2 DEF AddExporterStat
    <3>6. /\ DOMAIN b = DOMAIN a /\ b[id] = v
          /\ \A x \in DOMAIN a : x # id => b[x] = a[x]
      BY <2>7, <3>4, <3>5, Update DEF ExpsType
    <3>7. SameInfo(l, b) BY <3>3, <3>6 DEF SameInfo
    <3> QED BY <2>3, <2>4, <2>5, <3>7
  <2> QED BY <2>6, <2>7
<1> HIDE DEF A
<1>9. PICK r : r = StatsFrom(l, fs, q) OBVIOUS
<1>10. r \in A BY Zenon, <1>7, <1>8, <1>9, FoldStatsWithin
<1> QED BY <1>5, <1>6, <1>9, <1>10 DEF A

\* FlushExporterStats: numbers of exporters and of what a reader adds up.
StatsFlushed(fs, g) ==
    /\ Alike(fs, g) /\ g.heap = fs.heap /\ g.opts = fs.opts
    /\ g.count = fs.count /\ g.failures = fs.failures
    /\ g.one = fs.one /\ g.copy = fs.copy /\ g.all.maps = fs.all.maps
    /\ SameInfo(fs.all.exps, g.all.exps)
    /\ \A k \in DOMAIN fs.exps : g.exps[k].samplers = fs.exps[k].samplers

LEMMA FlushStatsDoes ==
    ASSUME NEW fs \in SourceType
    PROVE  StatsFlushed(fs, FlushExporterStats(fs))
<1>1. PICK N \in Nat : DOMAIN fs.exps = 1..N BY Parts
<1>2. fs.exps \in Seq(ExporterType) /\ \A k \in 1..N : fs.exps[k] \in ExporterType
  BY <1>1, Parts
<1>3. PICK x : x = [k \in DOMAIN fs.exps |->
                      IF k \in Reported(fs) THEN [fs.exps[k] EXCEPT !.failures = 0]
                          ELSE fs.exps[k]]
  BY Zenon
<1>4. \A k \in 1..N : /\ x[k] \in ExporterType /\ SameChain(fs.exps[k], x[k])
                      /\ x[k].samplers = fs.exps[k].samplers
  BY Zenon, <1>1, <1>2, <1>3 DEF ExporterType, SameChain
<1>5. x \in Seq(ExporterType) /\ DOMAIN x = 1..N
  <2>1. x \in [1..N -> ExporterType] BY <1>1, <1>3, <1>4
  <2> QED BY <2>1
<1>6. PICK r : r = StatsFrom(fs.all.exps, fs, SetToSeq(Reported(fs))) OBVIOUS
<1>7. SameInfo(fs.all.exps, r) BY <1>6, StatsKeep
<1>8. r \in ExpsType BY <1>7 DEF SameInfo
<1>9. PICK all \in ReaderType : all = [fs.all EXCEPT !.exps = r] /\ all.exps = r
     /\ all.maps = fs.all.maps
  BY Zenon, <1>8, NewExps, Parts
<1>10. PICK g : g = [fs EXCEPT !.exps = x, !.all = all] OBVIOUS
<1>11. FlushExporterStats(fs) = g
  <2>1. FlushExporterStats(fs) = [fs EXCEPT !.exps = x, !.all = [fs.all EXCEPT !.exps = r]]
    BY <1>3, <1>6 DEF FlushExporterStats, StatsFrom
  <2> QED BY <1>9, <1>10, <2>1
<1>12. /\ g \in SourceType /\ g.exps = x /\ g.all = all
       /\ g.heap = fs.heap /\ g.list = fs.list /\ g.opts = fs.opts
       /\ g.count = fs.count /\ g.failures = fs.failures /\ g.one = fs.one /\ g.copy = fs.copy
  BY Zenon, <1>5, <1>9, <1>10 DEF SourceType
<1>13. Alike(fs, g) BY <1>1, <1>4, <1>5, <1>12 DEF Alike, SameTable
<1>14. StatsFlushed(fs, g) BY <1>1, <1>4, <1>7, <1>9, <1>12, <1>13 DEF StatsFlushed
<1> QED BY <1>11, <1>14

\* The begin of the next file.
Begun(fs) == [FlushExporterStats(fs) EXCEPT !.failures = 0, !.one = NoReader]

LEMMA BegunDoes ==
    ASSUME NEW fs \in SourceType
    PROVE  LET g == Begun(fs) IN
           /\ Alike(fs, g) /\ g.heap = fs.heap /\ g.opts = fs.opts /\ g.count = fs.count
           /\ g.failures = 0 /\ g.one = NoReader /\ g.copy = fs.copy
           /\ g.all.maps = fs.all.maps /\ SameInfo(fs.all.exps, g.all.exps)
           /\ \A k \in DOMAIN fs.exps : g.exps[k].samplers = fs.exps[k].samplers
<1>1. PICK f : f = FlushExporterStats(fs) OBVIOUS
<1>2. StatsFlushed(fs, f) BY <1>1, FlushStatsDoes
<1>3. f \in SourceType BY <1>2 DEF StatsFlushed, Alike
<1>4. PICK g : g = [f EXCEPT !.failures = 0, !.one = NoReader] OBVIOUS
<1>5. /\ g \in SourceType /\ g.exps = f.exps /\ g.all = f.all
      /\ g.heap = f.heap /\ g.list = f.list /\ g.opts = f.opts
      /\ g.count = f.count /\ g.failures = 0 /\ g.one = NoReader /\ g.copy = f.copy
  BY Zenon, <1>3, <1>4, EmptyReader DEF SourceType
<1>6. Begun(fs) = g BY <1>1, <1>4 DEF Begun
<1>7. Alike(fs, g) BY <1>2, <1>5 DEF StatsFlushed, Alike
<1> QED BY <1>2, <1>5, <1>6, <1>7 DEF StatsFlushed

LEMMA NextFileAlike ==
    ASSUME NEW fs \in SourceType, Listed(fs), MaxExporters \in Nat
    PROVE  Alike(fs, NextFile(fs))
<1>1. PICK g : g = Begun(fs) OBVIOUS
<1>2. Alike(fs, g) BY <1>1, BegunDoes
<1>3. g \in SourceType /\ Listed(g) BY <1>2, AlikeListed DEF Alike
<1>4. Alike(g, FlushStdRecords(g)) BY <1>3, FlushAlike
<1>5. NextFile(fs) = FlushStdRecords(g) BY <1>1 DEF NextFile, Begun
<1> QED BY <1>2, <1>4, <1>5, AlikeChain

-----------------------------------------------------------------------------
(* Templates, chains and the list of maps                                  *)

\* Tables an exporter can decode with are its own, were not freed, and have a
\* number of a map; no two of a chain have one id, and a table that is only in
\* the cache has none of the ids in the chain.
Own(fs, k) ==
    LET e == fs.exps[k] IN
    /\ \A i \in DOMAIN e.list : e.list[i] \in DOMAIN fs.heap
    /\ e.cur # 0 => e.cur \in DOMAIN fs.heap
    /\ \A i, j \in DOMAIN e.list : fs.heap[e.list[i]].id = fs.heap[e.list[j]].id => i = j
    /\ e.cur # 0 => \A i \in DOMAIN e.list : fs.heap[e.list[i]].id = fs.heap[e.cur].id
       => e.list[i] = e.cur

Sound(fs, k) == \A t \in Live(fs, k) : /\ t \in DOMAIN fs.heap /\ ~fs.heap[t].freed
                                       /\ fs.heap[t].mapId \in Nat

\* A place in the list of maps has a map with its number, that is not freed.
InPlace(fs) == \A n \in DOMAIN fs.list : fs.list[n] # 0 =>
                  /\ fs.list[n] \in DOMAIN fs.heap
                  /\ fs.heap[fs.list[n]].mapId = n - 1 /\ ~fs.heap[fs.list[n]].freed

Placed(fs) ==
    /\ fs \in SourceType
    /\ \A j, k \in DOMAIN fs.exps : fs.exps[j].dev = fs.exps[k].dev => j = k
    /\ \A k \in DOMAIN fs.exps : Own(fs, k) /\ Sound(fs, k)
    /\ \A j, k \in DOMAIN fs.exps : j # k => Live(fs, j) \cap Live(fs, k) = {}
    /\ InPlace(fs)

\* Every table in use is in the list of maps.
InList(fs, t) == LET slot == fs.heap[t].mapId + 1 IN slot \in DOMAIN fs.list /\ fs.list[slot] = t
Complete(fs) == \A k \in DOMAIN fs.exps : \A t \in Live(fs, k) : InList(fs, t)

LEMMA PlacedListed == ASSUME NEW fs, Placed(fs) PROVE Listed(fs)
<1> SUFFICES ASSUME NEW n \in DOMAIN fs.list, fs.list[n] # 0
             PROVE  fs.list[n] \in DOMAIN fs.heap /\ fs.heap[fs.list[n]].mapId \in Nat
  BY DEF Listed
<1>1. fs.list[n] \in DOMAIN fs.heap /\ fs.heap[fs.list[n]].mapId = n - 1
  BY DEF Placed, InPlace
<1>2. n \in Nat \ {0} BY Parts DEF Placed
<1> QED BY <1>1, <1>2

LEMMA LiveIs ==
    ASSUME NEW fs, NEW k
    PROVE  \A t : t \in Live(fs, k) <=>
              \/ \E i \in DOMAIN fs.exps[k].list : fs.exps[k].list[i] = t
              \/ t # 0 /\ t = fs.exps[k].cur
BY DEF Live, Range

\* As Alike, but the templates may be different.
Similar(fs, g) ==
    /\ g \in SourceType /\ g.list = fs.list
    /\ DOMAIN g.heap = DOMAIN fs.heap
    /\ \A t \in DOMAIN fs.heap : /\ g.heap[t].id = fs.heap[t].id
                                 /\ g.heap[t].mapId = fs.heap[t].mapId
                                 /\ g.heap[t].freed = fs.heap[t].freed
    /\ DOMAIN g.exps = DOMAIN fs.exps
    /\ \A k \in DOMAIN fs.exps : SameChain(fs.exps[k], g.exps[k])

LEMMA AlikeSimilar == ASSUME NEW fs, NEW g, Alike(fs, g) PROVE Similar(fs, g)
BY DEF Alike, Similar, SameTable

LEMMA SimilarLive == ASSUME NEW fs, NEW g, Similar(fs, g), NEW k \in DOMAIN fs.exps
                     PROVE  Live(g, k) = Live(fs, k)
BY DEF Similar, SameChain, Live

LEMMA SimilarPlaced == ASSUME NEW fs, NEW g, Similar(fs, g), Placed(fs) PROVE Placed(g)
<1>1. \A k \in DOMAIN fs.exps : Live(g, k) = Live(fs, k) BY SimilarLive
<1>2. ASSUME NEW k \in DOMAIN fs.exps PROVE Own(g, k)
  <2>1. SameChain(fs.exps[k], g.exps[k]) BY DEF Similar
  <2>2. Own(fs, k) BY DEF Placed
  <2> QED BY <2>1, <2>2 DEF Own, Similar, SameChain
<1>3. \A k \in DOMAIN fs.exps : Sound(g, k)
  BY <1>1 DEF Placed, Sound, Similar
<1>4. InPlace(g) BY DEF Placed, InPlace, Similar
<1>5. \A j, k \in DOMAIN fs.exps : g.exps[j].dev = g.exps[k].dev => j = k
  BY DEF Placed, Similar, SameChain
<1> QED BY <1>1, <1>2, <1>3, <1>4, <1>5 DEF Placed, Similar

LEMMA SimilarComplete == ASSUME NEW fs, NEW g, Similar(fs, g), Placed(fs), Complete(fs)
                         PROVE  Complete(g)
<1>1. \A k \in DOMAIN fs.exps : Live(g, k) = Live(fs, k) BY SimilarLive
<1>2. \A k \in DOMAIN fs.exps : \A t \in Live(fs, k) : t \in DOMAIN fs.heap BY DEF Placed, Sound
<1> QED BY <1>1, <1>2 DEF Complete, InList, Similar

-----------------------------------------------------------------------------
(* The lookup of a table                                                   *)

\* The table of an id, or 0.
LEMMA LookupIs ==
    ASSUME NEW fs, Placed(fs), NEW k \in DOMAIN fs.exps, NEW id
    PROVE  /\ Lookup(fs, k, id) = 0 => /\ \A i \in DOMAIN fs.exps[k].list :
                                             fs.heap[fs.exps[k].list[i]].id # id
                                       /\ ~Cached(fs, k, id)
           /\ Lookup(fs, k, id) # 0 => /\ Lookup(fs, k, id) \in Live(fs, k)
                                       /\ fs.heap[Lookup(fs, k, id)].id = id
           /\ Lookup(fs, k, id) \in Nat
<1>1. /\ fs.exps[k].list \in Seq(Nat) /\ fs.exps[k].cur \in Nat
  <2>1. fs.exps[k] \in ExporterType BY Parts DEF Placed
  <2> QED BY <2>1 DEF ExporterType
<1>2. CASE Cached(fs, k, id)
  <2>1. Lookup(fs, k, id) = fs.exps[k].cur BY <1>2 DEF Lookup
  <2> QED BY <1>1, <1>2, <2>1, LiveIs DEF Cached
<1>3. CASE ~Cached(fs, k, id) /\ InChain(fs, k, id) = {}
  <2>1. Lookup(fs, k, id) = 0 BY <1>3 DEF Lookup
  <2> QED BY <1>3, <2>1 DEF InChain
<1>4. CASE ~Cached(fs, k, id) /\ InChain(fs, k, id) # {}
  <2>1. InChain(fs, k, id) \in SUBSET Nat BY <1>1 DEF InChain
  <2>2. PICK i \in InChain(fs, k, id) :
           i = CHOOSE x \in InChain(fs, k, id) : \A j \in InChain(fs, k, id) : x <= j
    BY <1>4, <2>1, LeastExists
  <2>3. Lookup(fs, k, id) = fs.exps[k].list[i] BY <1>4, <2>2 DEF Lookup
  <2>4. i \in DOMAIN fs.exps[k].list /\ fs.heap[fs.exps[k].list[i]].id = id BY DEF InChain
  <2>5. fs.exps[k].list[i] \in Live(fs, k) BY <2>4, LiveIs
  <2>6. fs.exps[k].list[i] \in DOMAIN fs.heap BY <2>4 DEF Placed, Own
  <2>7. fs.exps[k].list[i] \in Nat \ {0} BY <2>6, Parts DEF Placed
  <2> QED BY <2>3, <2>4, <2>5, <2>7
<1> QED BY <1>2, <1>3, <1>4

\* The cache of one exporter changes.
CacheSet(fs, g, k, c) ==
    /\ g \in SourceType /\ g.heap = fs.heap /\ g.list = fs.list /\ g.opts = fs.opts
    /\ g.count = fs.count /\ g.failures = fs.failures
    /\ g.one = fs.one /\ g.all = fs.all /\ g.copy = fs.copy
    /\ DOMAIN g.exps = DOMAIN fs.exps
    /\ \A j \in DOMAIN fs.exps : j # k => g.exps[j] = fs.exps[j]
    /\ g.exps[k] = [fs.exps[k] EXCEPT !.cur = c] /\ g.exps[k].cur = c
    /\ g.exps[k].dev = fs.exps[k].dev /\ g.exps[k].sysid = fs.exps[k].sysid
    /\ g.exps[k].list = fs.exps[k].list /\ g.exps[k].samplers = fs.exps[k].samplers

LEMMA LookedUpDoes ==
    ASSUME NEW fs, Placed(fs), NEW k \in DOMAIN fs.exps, NEW id
    PROVE  CacheSet(fs, LookedUp(fs, k, id), k, Lookup(fs, k, id))
<1>1. PICK c \in Nat : c = Lookup(fs, k, id) BY LookupIs
<1>2. fs \in SourceType /\ fs.exps \in Seq(ExporterType) /\ fs.exps[k] \in ExporterType
  BY Parts DEF Placed
<1>3. PICK v : v = [fs.exps[k] EXCEPT !.cur = c] BY Zenon
<1>4. /\ v \in ExporterType /\ v.cur = c /\ v.dev = fs.exps[k].dev /\ v.sysid = fs.exps[k].sysid
      /\ v.list = fs.exps[k].list /\ v.samplers = fs.exps[k].samplers
  BY Zenon, <1>2, <1>3 DEF ExporterType
<1>5. PICK x : x = [fs.exps EXCEPT ![k] = v] BY Zenon
<1>6. /\ x \in Seq(ExporterType) /\ DOMAIN x = DOMAIN fs.exps /\ x[k] = v
      /\ \A j \in DOMAIN fs.exps : j # k => x[j] = fs.exps[j]
  BY <1>2, <1>4, <1>5, NewExporterAt
<1>7. PICK g : g = [fs EXCEPT !.exps = x] BY Zenon
<1>8. LookedUp(fs, k, id) = g BY <1>1, <1>3, <1>5, <1>7 DEF LookedUp
<1>9. /\ g \in SourceType /\ g.exps = x
      /\ g.heap = fs.heap /\ g.list = fs.list /\ g.opts = fs.opts
      /\ g.count = fs.count /\ g.failures = fs.failures
      /\ g.one = fs.one /\ g.all = fs.all /\ g.copy = fs.copy
  BY Zenon, <1>2, <1>6, <1>7 DEF SourceType
<1>10. CacheSet(fs, g, k, c) BY Zenon, <1>3, <1>4, <1>6, <1>9 DEF CacheSet
<1> QED BY <1>1, <1>8, <1>10

LEMMA CachePlaced ==
    ASSUME NEW fs, Placed(fs), NEW k \in DOMAIN fs.exps, NEW id, NEW g,
           CacheSet(fs, g, k, Lookup(fs, k, id))
    PROVE  /\ Placed(g) /\ (Complete(fs) => Complete(g))
           /\ \A j \in DOMAIN fs.exps : Live(g, j) \subseteq Live(fs, j)
<1>1. PICK c \in Nat : c = Lookup(fs, k, id) BY LookupIs
<1>2. c # 0 => c \in Live(fs, k) /\ fs.heap[c].id = id BY <1>1, LookupIs
<1>3. CacheSet(fs, g, k, c) BY <1>1
<1>4. ASSUME NEW j \in DOMAIN fs.exps PROVE Live(g, j) \subseteq Live(fs, j)
  <2>1. CASE j # k BY <1>3, <2>1 DEF CacheSet, Live
  <2>2. CASE j = k
    <3>1. g.exps[k].cur = c /\ g.exps[k].list = fs.exps[k].list BY <1>3 DEF CacheSet
    <3> QED BY <1>2, <2>2, <3>1, LiveIs
  <2> QED BY <2>1, <2>2
<1>5. ASSUME NEW j \in DOMAIN fs.exps PROVE Own(g, j)
  <2>0. Own(fs, j) /\ Sound(fs, j) BY DEF Placed
  <2>1. CASE j # k
    <3>1. g.exps[j] = fs.exps[j] /\ g.heap = fs.heap BY <1>3, <2>1 DEF CacheSet
    <3> QED BY <2>0, <3>1 DEF Own
  <2>2. CASE j = k
    <3>1. g.exps[k].cur = c /\ g.exps[k].list = fs.exps[k].list /\ g.heap = fs.heap
      BY <1>3 DEF CacheSet
    <3>2. c # 0 => c \in DOMAIN fs.heap BY <1>2, <2>0, <2>2 DEF Sound
    <3>3. c # 0 => \A i \in DOMAIN fs.exps[k].list :
                      fs.heap[fs.exps[k].list[i]].id = fs.heap[c].id => fs.exps[k].list[i] = c
      <4>1. c = fs.exps[k].cur \/ c = 0
           \/ \E n \in DOMAIN fs.exps[k].list : c = fs.exps[k].list[n]
        BY <1>2, LiveIs
      <4> QED BY <2>0, <2>2, <4>1 DEF Own
    <3>4. Own(fs, k) BY <2>0, <2>2
    <3>5. Own(g, k) BY <3>1, <3>2, <3>3, <3>4 DEF Own
    <3> QED BY <2>2, <3>5
  <2> QED BY <2>1, <2>2
<1>6. g \in SourceType /\ DOMAIN g.exps = DOMAIN fs.exps BY <1>3 DEF CacheSet
<1>12. \A i, j \in DOMAIN g.exps : g.exps[i].dev = g.exps[j].dev => i = j
  <2>1. \A i \in DOMAIN fs.exps : g.exps[i].dev = fs.exps[i].dev BY Zenon, <1>3 DEF CacheSet
  <2> QED BY <1>6, <2>1 DEF Placed
<1>7. InPlace(g) BY <1>3 DEF CacheSet, Placed, InPlace
<1>8. \A j \in DOMAIN fs.exps : Sound(g, j) BY <1>3, <1>4 DEF CacheSet, Placed, Sound
<1>9. \A i, j \in DOMAIN fs.exps : i # j => Live(g, i) \cap Live(g, j) = {}
  BY <1>4 DEF Placed
<1>10. Placed(g) BY <1>5, <1>6, <1>12, <1>7, <1>8, <1>9 DEF Placed
<1>11. Complete(fs) => Complete(g) BY <1>3, <1>4 DEF CacheSet, Complete, InList
<1> QED BY <1>4, <1>10, <1>11

-----------------------------------------------------------------------------
(* New maps and tables                                                     *)

LEMMA AppendTyped ==
    ASSUME NEW S, NEW q \in Seq(S), NEW x \in S
    PROVE  /\ Append(q, x) \in Seq(S) /\ DOMAIN Append(q, x) = DOMAIN q \cup {Len(q) + 1}
           /\ Append(q, x)[Len(q) + 1] = x /\ Len(Append(q, x)) = Len(q) + 1
           /\ \A i \in DOMAIN q : Append(q, x)[i] = q[i]
OBVIOUS

LEMMA AppendedTo ==
    ASSUME NEW q \in Seq(Nat), NEW x \in Nat, NEW r, r = Append(q, x)
    PROVE  /\ r \in Seq(Nat) /\ DOMAIN r = DOMAIN q \cup {Len(q) + 1}
           /\ r[Len(q) + 1] = x /\ Len(r) = Len(q) + 1
           /\ \A i \in DOMAIN q : r[i] = q[i]
BY AppendTyped

\* The next number of a map.
MapListed(fs, g, t) ==
    /\ g \in SourceType /\ g.exps = fs.exps /\ g.opts = fs.opts
    /\ g.count = fs.count /\ g.failures = fs.failures
    /\ g.one = fs.one /\ g.all = fs.all /\ g.copy = fs.copy
    /\ g.list = Append(fs.list, t)
    /\ DOMAIN g.heap = DOMAIN fs.heap
    /\ \A u \in DOMAIN fs.heap : u # t => g.heap[u] = fs.heap[u]
    /\ g.heap[t].id = fs.heap[t].id /\ g.heap[t].mapId = Len(fs.list)
    /\ g.heap[t].ex = fs.heap[t].ex /\ g.heap[t].freed = fs.heap[t].freed

LEMMA AddMapDoes ==
    ASSUME NEW fs \in SourceType, NEW t \in DOMAIN fs.heap
    PROVE  LET g == AddExtensionMap(fs, t) IN
           /\ fs.heap[t].mapId # NoId => MapWritten(fs, g, t)
           /\ fs.heap[t].mapId = NoId => \E h : MapListed(fs, h, t) /\ MapWritten(h, g, t)
<1>1. /\ fs.heap \in Seq(TableType) /\ fs.heap[t] \in TableType /\ fs.list \in Seq(Nat)
      /\ t \in Nat
  BY Parts
<1>2. CASE fs.heap[t].mapId # NoId
  <2>1. fs.heap[t].mapId \in Nat BY <1>1, <1>2 DEF TableType
  <2>2. MapWritten(fs, WriteMap(fs, t), t) BY <2>1, WriteMapDoes
  <2>3. AddExtensionMap(fs, t) = WriteMap(fs, t) BY <1>2 DEF AddExtensionMap
  <2> QED BY <1>2, <2>2, <2>3
<1>3. CASE fs.heap[t].mapId = NoId
  <2>1. PICK m \in Nat : m = Len(fs.list) BY <1>1
  <2>2. PICK v : v = [fs.heap[t] EXCEPT !.mapId = m] BY Zenon
  <2>3. /\ v \in TableType /\ v.mapId = m /\ v.id = fs.heap[t].id
        /\ v.ex = fs.heap[t].ex /\ v.freed = fs.heap[t].freed
    BY Zenon, <1>1, <2>2 DEF TableType
  <2>4. PICK x : x = [fs.heap EXCEPT ![t] = v] BY Zenon
  <2>5. /\ x \in Seq(TableType) /\ DOMAIN x = DOMAIN fs.heap /\ x[t] = v
        /\ \A u \in DOMAIN fs.heap : u # t => x[u] = fs.heap[u]
    BY <1>1, <2>3, <2>4, NewTableAt
  <2>6. PICK l \in Seq(Nat) : l = Append(fs.list, t) BY Zenon, <1>1, AppendTyped
  <2>7. PICK h : h = [fs EXCEPT !.heap = x, !.list = l] OBVIOUS
  <2>8. /\ h \in SourceType /\ h.heap = x /\ h.list = l
        /\ h.exps = fs.exps /\ h.opts = fs.opts /\ h.count = fs.count
        /\ h.failures = fs.failures /\ h.one = fs.one /\ h.all = fs.all /\ h.copy = fs.copy
    BY Zenon, <2>5, <2>7 DEF SourceType
  <2>9. MapListed(fs, h, t) BY <2>1, <2>3, <2>5, <2>6, <2>8 DEF MapListed
  <2>10. t \in DOMAIN h.heap /\ h.heap[t].mapId \in Nat BY <2>1, <2>3, <2>5, <2>8
  <2>11. MapWritten(h, WriteMap(h, t), t) BY <2>8, <2>10, WriteMapDoes
  <2>12. [fs EXCEPT !.heap[t].mapId = Len(fs.list), !.list = Append(@, t)] = h
    BY <2>1, <2>2, <2>4, <2>6, <2>7
  <2>13. AddExtensionMap(fs, t) = WriteMap(h, t) BY <1>3, <2>12 DEF AddExtensionMap
  <2> QED BY <1>3, <2>9, <2>11, <2>13
<1> QED BY <1>2, <1>3

\* A new table with a new map at the end of the chain of exporter k.
TableAdded(fs, g, k, t, id, ex) ==
    /\ g \in SourceType /\ t = Len(fs.heap) + 1
    /\ DOMAIN g.heap = DOMAIN fs.heap \cup {t}
    /\ \A u \in DOMAIN fs.heap : SameTable(fs.heap[u], g.heap[u])
    /\ g.heap[t].id = id /\ g.heap[t].mapId = Len(fs.list)
    /\ g.heap[t].ex = ex /\ ~g.heap[t].freed
    /\ g.list = Append(fs.list, t)
    /\ DOMAIN g.exps = DOMAIN fs.exps
    /\ \A j \in DOMAIN fs.exps : j # k => g.exps[j] = fs.exps[j]
    /\ g.exps[k].dev = fs.exps[k].dev /\ g.exps[k].sysid = fs.exps[k].sysid
    /\ g.exps[k].samplers = fs.exps[k].samplers
    /\ g.exps[k].cur = fs.exps[k].cur /\ g.exps[k].list = Append(fs.exps[k].list, t)

\* The new table, before its map has a number.
Allocated(fs, k, t, id, ex) ==
    [fs EXCEPT !.heap = Append(@, NewTable(id, ex)), !.exps[k].list = Append(@, t)]

TableAllocated(fs, g, k, t, id, ex) ==
    /\ g \in SourceType /\ g.heap = Append(fs.heap, NewTable(id, ex)) /\ g.list = fs.list
    /\ g.opts = fs.opts /\ g.count = fs.count /\ g.failures = fs.failures
    /\ g.one = fs.one /\ g.all = fs.all /\ g.copy = fs.copy
    /\ DOMAIN g.exps = DOMAIN fs.exps
    /\ \A j \in DOMAIN fs.exps : j # k => g.exps[j] = fs.exps[j]
    /\ g.exps[k].dev = fs.exps[k].dev /\ g.exps[k].sysid = fs.exps[k].sysid
    /\ g.exps[k].samplers = fs.exps[k].samplers
    /\ g.exps[k].cur = fs.exps[k].cur /\ g.exps[k].list = Append(fs.exps[k].list, t)

LEMMA AllocatedDoes ==
    ASSUME NEW fs \in SourceType, NEW k \in DOMAIN fs.exps,
           NEW id \in TemplateIds \cup {0}, NEW ex \in Layout, NEW t \in Nat
    PROVE  TableAllocated(fs, Allocated(fs, k, t, id, ex), k, t, id, ex)
<1>1. /\ fs.heap \in Seq(TableType) /\ fs.exps \in Seq(ExporterType)
      /\ fs.exps[k] \in ExporterType
  BY Parts
<1>2. NewTable(id, ex) \in TableType BY DEF NewTable, TableType, Layout, NoId
<1>3. PICK x \in Seq(TableType) : x = Append(fs.heap, NewTable(id, ex))
  BY Zenon, <1>1, <1>2, AppendTyped
<1>5. PICK l \in Seq(Nat) : l = Append(fs.exps[k].list, t) 
  <2>1. fs.exps[k].list \in Seq(Nat) BY <1>1 DEF ExporterType
  <2> QED BY Zenon, <2>1, AppendTyped
<1>6. PICK v : v = [fs.exps[k] EXCEPT !.list = l] BY Zenon
<1>7. /\ v \in ExporterType /\ v.cur = fs.exps[k].cur /\ v.dev = fs.exps[k].dev
      /\ v.sysid = fs.exps[k].sysid /\ v.list = l /\ v.samplers = fs.exps[k].samplers
  BY Zenon, <1>1, <1>6 DEF ExporterType
<1>8. PICK y : y = [fs.exps EXCEPT ![k] = v] BY Zenon
<1>9. /\ y \in Seq(ExporterType) /\ DOMAIN y = DOMAIN fs.exps /\ y[k] = v
      /\ \A j \in DOMAIN fs.exps : j # k => y[j] = fs.exps[j]
  BY <1>1, <1>7, <1>8, NewExporterAt
<1>10. PICK g : g = [fs EXCEPT !.heap = x, !.exps = y] OBVIOUS
<1>11. Allocated(fs, k, t, id, ex) = g BY <1>3, <1>5, <1>6, <1>8, <1>10 DEF Allocated
<1>12. /\ g \in SourceType /\ g.exps = y /\ g.heap = x /\ g.list = fs.list /\ g.opts = fs.opts
       /\ g.count = fs.count /\ g.failures = fs.failures
       /\ g.one = fs.one /\ g.all = fs.all /\ g.copy = fs.copy
  BY Zenon, <1>9, <1>10 DEF SourceType
<1>13. TableAllocated(fs, g, k, t, id, ex) BY <1>3, <1>5, <1>7, <1>9, <1>12 DEF TableAllocated
<1> QED BY <1>11, <1>13

\* A map is written for a table that has none yet.
LEMMA NewMapDoes ==
    ASSUME NEW fs \in SourceType, NEW t \in DOMAIN fs.heap, fs.heap[t].mapId = NoId
    PROVE  LET g == AddExtensionMap(fs, t) IN
           /\ g \in SourceType /\ g.list = Append(fs.list, t)
           /\ g.exps = fs.exps /\ g.opts = fs.opts /\ g.count = fs.count
              /\ g.failures = fs.failures
           /\ DOMAIN g.heap = DOMAIN fs.heap
           /\ \A u \in DOMAIN fs.heap : u # t => g.heap[u] = fs.heap[u]
           /\ g.heap[t].id = fs.heap[t].id /\ g.heap[t].mapId = Len(fs.list)
           /\ g.heap[t].ex = fs.heap[t].ex /\ g.heap[t].freed = fs.heap[t].freed
<1>1. PICK g : g = AddExtensionMap(fs, t) OBVIOUS
<1>2. PICK h : MapListed(fs, h, t) /\ MapWritten(h, g, t) BY <1>1, AddMapDoes
<1>3. /\ g \in SourceType /\ g.list = Append(fs.list, t)
      /\ g.exps = fs.exps /\ g.opts = fs.opts /\ g.count = fs.count /\ g.failures = fs.failures
  BY <1>2 DEF MapListed, MapWritten, SameRest
<1>4. /\ DOMAIN g.heap = DOMAIN fs.heap
      /\ \A u \in DOMAIN fs.heap : u # t => g.heap[u] = fs.heap[u]
      /\ g.heap[t].id = fs.heap[t].id /\ g.heap[t].mapId = Len(fs.list)
      /\ g.heap[t].ex = fs.heap[t].ex /\ g.heap[t].freed = fs.heap[t].freed
  BY <1>2 DEF MapListed, MapWritten
<1> QED BY <1>1, <1>3, <1>4

LEMMA AddTableDoes ==
    ASSUME NEW fs, Placed(fs), NEW k \in DOMAIN fs.exps,
           NEW id \in TemplateIds, NEW ex \in Layout, Lookup(fs, k, id) = 0
    PROVE  LET h == LookedUp(fs, k, id) IN
           /\ CacheSet(fs, h, k, 0)
           /\ TableAdded(h, AddTable(fs, k, id, ex), k, Len(fs.heap) + 1, id, ex)
<1>1. PICK h : h = LookedUp(fs, k, id) OBVIOUS
<1>2. CacheSet(fs, h, k, 0) BY <1>1, LookedUpDoes
<1>3. h \in SourceType /\ h.heap = fs.heap /\ k \in DOMAIN h.exps BY <1>2 DEF CacheSet
<1>4. PICK t : t = Len(h.heap) + 1 OBVIOUS
<1>5. PICK a : a = Allocated(h, k, t, id, ex) OBVIOUS
<1>17. TableAllocated(h, a, k, t, id, ex)
  <2>1. id \in TemplateIds \cup {0} OBVIOUS
  <2>2. t \in Nat BY <1>3, <1>4, Parts
  <2> QED BY <1>3, <1>5, <2>1, <2>2, AllocatedDoes
<1>6. /\ a \in SourceType /\ a.heap = Append(h.heap, NewTable(id, ex)) /\ a.list = h.list
      /\ DOMAIN a.exps = DOMAIN h.exps
      /\ \A j \in DOMAIN h.exps : j # k => a.exps[j] = h.exps[j]
      /\ a.exps[k].dev = h.exps[k].dev /\ a.exps[k].sysid = h.exps[k].sysid
      /\ a.exps[k].samplers = h.exps[k].samplers
      /\ a.exps[k].cur = h.exps[k].cur /\ a.exps[k].list = Append(h.exps[k].list, t)
  BY <1>17 DEF TableAllocated
<1>7. h.heap \in Seq(TableType) /\ NewTable(id, ex) \in TableType
  <2>1. NewTable(id, ex) \in TableType BY DEF NewTable, TableType, Layout, NoId
  <2> QED BY <1>3, <2>1, Parts
<1>8. /\ DOMAIN a.heap = DOMAIN h.heap \cup {t} /\ a.heap[t] = NewTable(id, ex)
      /\ \A u \in DOMAIN h.heap : a.heap[u] = h.heap[u]
  BY <1>4, <1>6, <1>7, AppendTyped
<1>9. t \notin DOMAIN h.heap BY <1>4, <1>7
<1>10. PICK g : g = AddExtensionMap(a, t) OBVIOUS
<1>11. t \in DOMAIN a.heap /\ a.heap[t].mapId = NoId BY <1>8 DEF NewTable
<1>12. /\ g \in SourceType /\ g.list = Append(a.list, t) /\ g.exps = a.exps
       /\ DOMAIN g.heap = DOMAIN a.heap
       /\ \A u \in DOMAIN a.heap : u # t => g.heap[u] = a.heap[u]
       /\ g.heap[t].id = a.heap[t].id /\ g.heap[t].mapId = Len(a.list)
       /\ g.heap[t].ex = a.heap[t].ex /\ g.heap[t].freed = a.heap[t].freed
  BY Zenon, <1>6, <1>10, <1>11, NewMapDoes
<1>13. \A u \in DOMAIN h.heap : SameTable(h.heap[u], g.heap[u])
  BY <1>8, <1>9, <1>12 DEF SameTable
<1>14. /\ g.heap[t].id = id /\ g.heap[t].mapId = Len(h.list) /\ g.heap[t].ex = ex
          /\ ~g.heap[t].freed
  BY <1>6, <1>8, <1>12 DEF NewTable
<1>15. TableAdded(h, g, k, t, id, ex)
  BY <1>4, <1>6, <1>8, <1>12, <1>13, <1>14 DEF TableAdded
<1>16. AddTable(fs, k, id, ex) = g
  BY <1>1, <1>3, <1>4, <1>5, <1>10 DEF AddTable, Allocated
<1> QED BY <1>1, <1>2, <1>3, <1>4, <1>15, <1>16

LEMMA TableAddedPlaced ==
    ASSUME NEW fs, Placed(fs), NEW k \in DOMAIN fs.exps, NEW t, NEW id, NEW ex, NEW g,
           TableAdded(fs, g, k, t, id, ex), fs.exps[k].cur = 0,
           \A i \in DOMAIN fs.exps[k].list : fs.heap[fs.exps[k].list[i]].id # id
    PROVE  /\ Placed(g) /\ (Complete(fs) => Complete(g))
           /\ \A j \in DOMAIN fs.exps : Live(g, j) = Live(fs, j) \cup (IF j = k THEN {t} ELSE {})
<1>1. /\ fs \in SourceType /\ fs.exps[k].list \in Seq(Nat) /\ fs.heap \in Seq(TableType)
      /\ fs.list \in Seq(Nat)
  <2>1. fs \in SourceType /\ fs.exps[k] \in ExporterType BY Parts DEF Placed
  <2> QED BY <2>1, Parts DEF ExporterType
<1>2. t \notin DOMAIN fs.heap /\ t \in Nat \ {0}
  <2>1. PICK h : h = fs.heap OBVIOUS
  <2>2. h \in Seq(TableType) BY <1>1, <2>1
  <2>3. t = Len(h) + 1 BY <2>1 DEF TableAdded
  <2>4. Len(h) \in Nat /\ DOMAIN h = 1..Len(h) BY <2>2
  <2>5. t \notin DOMAIN h /\ t \in Nat \ {0} BY <2>3, <2>4
  <2> QED BY <2>1, <2>5
<1>3. PICK l : l = fs.exps[k].list OBVIOUS
<1>4. PICK n : n = Len(l) + 1 /\ n \in Nat BY <1>1, <1>3
<1>5. /\ DOMAIN g.exps[k].list = DOMAIN l \cup {n} /\ g.exps[k].list[n] = t
      /\ \A i \in DOMAIN l : g.exps[k].list[i] = l[i]
      /\ g.exps[k].cur = 0
  <2>1. PICK r : r = g.exps[k].list OBVIOUS
  <2>2. r = Append(l, t) /\ g.exps[k].cur = 0 BY Zenon, <1>3, <2>1 DEF TableAdded
  <2>3. l \in Seq(Nat) /\ t \in Nat BY <1>1, <1>2, <1>3
  <2>4. DOMAIN r = DOMAIN l \cup {n} /\ r[n] = t /\ \A i \in DOMAIN l : r[i] = l[i]
    BY <1>4, <2>2, <2>3, AppendedTo
  <2> QED BY <2>1, <2>2, <2>4
<1>6. ASSUME NEW j \in DOMAIN fs.exps
      PROVE  Live(g, j) = Live(fs, j) \cup (IF j = k THEN {t} ELSE {})
  <2>1. CASE j # k BY <2>1 DEF TableAdded, Live
  <2>2. CASE j = k
    <3>1. \A x : x \in Live(g, k) <=> x \in Live(fs, k) \/ x = t BY <1>3, <1>5, LiveIs
    <3> QED BY <2>2, <3>1
  <2> QED BY <2>1, <2>2
<1>7. \A u \in DOMAIN fs.heap : /\ g.heap[u].id = fs.heap[u].id
                                /\ g.heap[u].mapId = fs.heap[u].mapId
                                /\ g.heap[u].freed = fs.heap[u].freed
  BY DEF TableAdded, SameTable
<1>8. DOMAIN g.heap = DOMAIN fs.heap \cup {t} /\ g.heap[t].id = id /\ ~g.heap[t].freed
      /\ g.heap[t].mapId = Len(fs.list)
  BY DEF TableAdded
<1>9. ASSUME NEW j \in DOMAIN fs.exps PROVE Own(g, j)
  <2>0. Own(fs, j) BY DEF Placed
  <2>1. CASE j # k
    <3>1. g.exps[j] = fs.exps[j] BY <2>1 DEF TableAdded
    <3>2. \A i \in DOMAIN fs.exps[j].list : fs.exps[j].list[i] \in DOMAIN fs.heap BY <2>0 DEF Own
    <3>3. fs.exps[j].cur # 0 => fs.exps[j].cur \in DOMAIN fs.heap BY <2>0 DEF Own
    <3> QED BY <1>7, <1>8, <2>0, <3>1, <3>2, <3>3 DEF Own
  <2>2. CASE j = k
    <3>1. \A i \in DOMAIN l : l[i] \in DOMAIN fs.heap BY <1>3, <2>0, <2>2 DEF Own
    <3>2. \A i, m \in DOMAIN l : fs.heap[l[i]].id = fs.heap[l[m]].id => i = m
      BY Zenon, <1>3, <2>0, <2>2 DEF Own
    <3>3. \A i \in DOMAIN l : fs.heap[l[i]].id # id BY <1>3
    <3>4. ASSUME NEW i \in DOMAIN l \cup {n}, NEW m \in DOMAIN l \cup {n},
                 g.heap[g.exps[k].list[i]].id = g.heap[g.exps[k].list[m]].id
          PROVE  i = m
      <4>1. \A j1 \in DOMAIN l : /\ g.exps[k].list[j1] = l[j1]
                                 /\ g.heap[l[j1]].id = fs.heap[l[j1]].id
        BY <1>5, <1>7, <3>1
      <4>2. g.heap[g.exps[k].list[n]].id = id BY <1>5, <1>8
      <4>3. CASE i \in DOMAIN l /\ m \in DOMAIN l BY <3>2, <3>4, <4>1, <4>3
      <4>4. \A j1 \in DOMAIN l : g.heap[g.exps[k].list[j1]].id # id BY <3>3, <4>1
      <4>5. CASE i = n BY <3>4, <4>2, <4>4, <4>5
      <4>6. CASE m = n BY <3>4, <4>2, <4>4, <4>6
      <4> QED BY <4>3, <4>5, <4>6
    <3>5. \A i \in DOMAIN l \cup {n} : g.exps[k].list[i] \in DOMAIN g.heap
      BY <1>5, <1>8, <3>1
    <3>6. Own(g, k) BY <1>5, <3>4, <3>5 DEF Own
    <3> QED BY <2>2, <3>6
  <2> QED BY <2>1, <2>2
<1>10. \A u \in DOMAIN g.heap : u \in DOMAIN fs.heap \/ u = t BY <1>8
<1>11. Len(fs.list) \in Nat BY <1>1
<1>12. ASSUME NEW j \in DOMAIN fs.exps PROVE Sound(g, j)
  <2>1. Sound(fs, j) BY DEF Placed
  <2> QED BY <1>6, <1>7, <1>8, <1>11, <2>1 DEF Sound
<1>13. ASSUME NEW i \in DOMAIN fs.exps, NEW j \in DOMAIN fs.exps, i # j
       PROVE  Live(g, i) \cap Live(g, j) = {}
  <2>1. Live(fs, i) \cap Live(fs, j) = {} BY <1>13 DEF Placed
  <2>2. t \notin Live(fs, i) /\ t \notin Live(fs, j) BY <1>2 DEF Placed, Sound
  <2> QED BY <1>6, <1>13, <2>1, <2>2
<1>14. /\ DOMAIN g.list = DOMAIN fs.list \cup {Len(fs.list) + 1} /\ g.list[Len(fs.list) + 1] = t
       /\ \A m \in DOMAIN fs.list : g.list[m] = fs.list[m]
  <2>1. PICK q : q = fs.list BY Zenon
  <2>2. PICK r : r = g.list BY Zenon
  <2>3. q \in Seq(Nat) /\ t \in Nat /\ r = Append(q, t)
    BY Zenon, <1>1, <1>2, <2>1, <2>2 DEF TableAdded
  <2>4. DOMAIN r = DOMAIN q \cup {Len(q) + 1} /\ r[Len(q) + 1] = t
        /\ \A m \in DOMAIN q : r[m] = q[m]
    BY <2>3, AppendedTo
  <2> QED BY <2>1, <2>2, <2>4
<1>15. InPlace(g)
  <2> SUFFICES ASSUME NEW m \in DOMAIN g.list, g.list[m] # 0
               PROVE  /\ g.list[m] \in DOMAIN g.heap
                      /\ g.heap[g.list[m]].mapId = m - 1 /\ ~g.heap[g.list[m]].freed
    BY DEF InPlace
  <2>1. CASE m = Len(fs.list) + 1 BY <1>8, <1>11, <1>14, <2>1
  <2>2. CASE m \in DOMAIN fs.list
    <3>1. /\ fs.list[m] \in DOMAIN fs.heap /\ fs.heap[fs.list[m]].mapId = m - 1
          /\ ~fs.heap[fs.list[m]].freed
      BY <1>14, <2>2 DEF Placed, InPlace
    <3> QED BY <1>7, <1>8, <1>14, <2>2, <3>1
  <2> QED BY <1>14, <2>1, <2>2
<1>16. g \in SourceType /\ DOMAIN g.exps = DOMAIN fs.exps BY DEF TableAdded
<1>17. \A i, j \in DOMAIN g.exps : g.exps[i].dev = g.exps[j].dev => i = j
  <2>1. \A i \in DOMAIN fs.exps : g.exps[i].dev = fs.exps[i].dev BY DEF TableAdded
  <2> QED BY <1>16, <2>1 DEF Placed
<1>18. Placed(g) BY <1>9, <1>12, <1>13, <1>15, <1>16, <1>17 DEF Placed
<1>19. ASSUME Complete(fs), NEW j \in DOMAIN fs.exps, NEW u \in Live(g, j) PROVE InList(g, u)
  <2>1. CASE u = t BY <1>8, <1>14, <2>1 DEF InList
  <2>2. CASE u \in Live(fs, j)
    <3>1. InList(fs, u) BY <1>19, <2>2 DEF Complete
    <3>2. u \in DOMAIN fs.heap BY <2>2 DEF Placed, Sound
    <3> QED BY <1>7, <1>14, <3>1, <3>2 DEF InList
  <2> QED BY <1>6, <2>1, <2>2
<1>20. Complete(fs) => Complete(g) BY <1>16, <1>19 DEF Complete
<1> QED BY <1>6, <1>18, <1>20

\* Another template in a table.
Filled(fs, g, t, ex) ==
    /\ g \in SourceType /\ SameRest(fs, g)
    /\ g.one = fs.one /\ g.all = fs.all /\ g.copy = fs.copy
    /\ DOMAIN g.heap = DOMAIN fs.heap
    /\ \A u \in DOMAIN fs.heap : u # t => g.heap[u] = fs.heap[u]
    /\ g.heap[t].id = fs.heap[t].id /\ g.heap[t].mapId = fs.heap[t].mapId
    /\ g.heap[t].ex = ex /\ g.heap[t].out = fs.heap[t].out /\ g.heap[t].freed = fs.heap[t].freed

LEMMA FilledDoes ==
    ASSUME NEW fs \in SourceType, NEW t \in DOMAIN fs.heap, NEW ex \in Layout
    PROVE  Filled(fs, [fs EXCEPT !.heap[t].ex = ex], t, ex)
<1>1. fs.heap \in Seq(TableType) /\ fs.heap[t] \in TableType BY Parts
<1>2. PICK v : v = [fs.heap[t] EXCEPT !.ex = ex] BY Zenon
<1>3. /\ v \in TableType /\ v.ex = ex /\ v.id = fs.heap[t].id /\ v.out = fs.heap[t].out
      /\ v.mapId = fs.heap[t].mapId /\ v.freed = fs.heap[t].freed
  BY <1>1, <1>2 DEF TableType
<1>4. PICK x : x = [fs.heap EXCEPT ![t] = v] BY Zenon
<1>5. /\ x \in Seq(TableType) /\ DOMAIN x = DOMAIN fs.heap /\ x[t] = v
      /\ \A u \in DOMAIN fs.heap : u # t => x[u] = fs.heap[u]
  BY <1>1, <1>3, <1>4, NewTableAt
<1>6. PICK g : g = [fs EXCEPT !.heap = x] BY Zenon
<1>7. /\ g \in SourceType /\ SameRest(fs, g) /\ g.heap = x
      /\ g.one = fs.one /\ g.all = fs.all /\ g.copy = fs.copy
  BY Zenon, <1>5, <1>6 DEF SourceType, SameRest
<1>8. [fs EXCEPT !.heap[t].ex = ex] = g BY <1>2, <1>4, <1>6
<1>9. Filled(fs, g, t, ex) BY <1>3, <1>5, <1>7 DEF Filled
<1> QED BY <1>8, <1>9

\* A table is filled again, and its map is written if it has changed.
Refreshed(fs, g, t, ex) ==
    \E h : /\ Filled(fs, h, t, ex)
           /\ \/ g = h /\ Begins(ex, fs.heap[t].ex)
              \/ MapWritten(h, g, t)

LEMMA RefreshTableDoes ==
    ASSUME NEW fs, Placed(fs), NEW k \in DOMAIN fs.exps,
           NEW id \in TemplateIds, NEW ex \in Layout, Lookup(fs, k, id) # 0
    PROVE  Refreshed(LookedUp(fs, k, id), RefreshTable(fs, k, id, ex), Lookup(fs, k, id), ex)
<1>1. PICK h : h = LookedUp(fs, k, id) OBVIOUS
<1>2. PICK t : t = Lookup(fs, k, id) OBVIOUS
<1>3. CacheSet(fs, h, k, t) BY <1>1, <1>2, LookedUpDoes
<1>4. t \in DOMAIN fs.heap /\ fs.heap[t].mapId \in Nat
  <2>1. t \in Live(fs, k) BY <1>2, LookupIs
  <2> QED BY <2>1 DEF Placed, Sound
<1>5. h \in SourceType /\ h.heap = fs.heap BY <1>3 DEF CacheSet
<1>6. PICK f : f = [h EXCEPT !.heap[t].ex = ex] BY Zenon
<1>7. Filled(h, f, t, ex) BY <1>4, <1>5, <1>6, FilledDoes
<1>8. f \in SourceType /\ t \in DOMAIN f.heap /\ f.heap[t].mapId = fs.heap[t].mapId
  BY <1>4, <1>5, <1>7 DEF Filled
<1>9. f.heap[t].mapId # NoId BY <1>4, <1>8 DEF NoId
<1>10. PICK g : g = IF Begins(ex, fs.heap[t].ex) THEN f ELSE AddExtensionMap(f, t) OBVIOUS
<1>11. RefreshTable(fs, k, id, ex) = g BY <1>1, <1>2, <1>6, <1>10 DEF RefreshTable
<1>12. MapWritten(f, AddExtensionMap(f, t), t) BY <1>8, <1>9, AddMapDoes
<1>13. Refreshed(h, g, t, ex) BY <1>5, <1>7, <1>10, <1>12 DEF Refreshed
<1> QED BY <1>1, <1>2, <1>11, <1>13

OnlyTemplate(fs, g, t, ex) ==
    /\ Similar(fs, g) /\ g.heap[t].ex = ex /\ g.exps = fs.exps
    /\ \A u \in DOMAIN fs.heap : u # t => g.heap[u].ex = fs.heap[u].ex

LEMMA RefreshedSimilar ==
    ASSUME NEW fs, NEW g, NEW t, NEW ex, t \in DOMAIN fs.heap, Refreshed(fs, g, t, ex)
    PROVE  OnlyTemplate(fs, g, t, ex)
<1>1. PICK h : /\ Filled(fs, h, t, ex)
               /\ \/ g = h /\ Begins(ex, fs.heap[t].ex)
                  \/ MapWritten(h, g, t)
  BY DEF Refreshed
<1>2. Similar(fs, h) /\ h.exps = fs.exps /\ h.heap[t].ex = ex /\ DOMAIN h.heap = DOMAIN fs.heap
  BY <1>1 DEF Filled, SameRest, Similar, SameChain
<1>3. \A u \in DOMAIN fs.heap : u # t => h.heap[u] = fs.heap[u] BY <1>1 DEF Filled
<1>4. CASE g = h BY <1>2, <1>3, <1>4 DEF OnlyTemplate
<1>5. CASE MapWritten(h, g, t)
  <2>1. /\ g \in SourceType /\ g.list = h.list /\ g.exps = h.exps
        /\ DOMAIN g.heap = DOMAIN h.heap
        /\ \A u \in DOMAIN h.heap : u # t => g.heap[u] = h.heap[u]
        /\ g.heap[t].id = h.heap[t].id /\ g.heap[t].mapId = h.heap[t].mapId
        /\ g.heap[t].ex = h.heap[t].ex /\ g.heap[t].freed = h.heap[t].freed
    BY <1>5 DEF MapWritten, SameRest
  <2>2. Similar(h, g) BY <1>2, <2>1 DEF Similar, SameChain
  <2>3. Similar(fs, g) BY <1>2, <2>2 DEF Similar, SameChain
  <2> QED BY <1>2, <1>3, <2>1, <2>3 DEF OnlyTemplate
<1> QED BY <1>1, <1>4, <1>5

-----------------------------------------------------------------------------
(* Tables that are removed                                                 *)

LEMMA RemoveAtIs ==
    ASSUME NEW S, NEW q \in Seq(S), NEW i \in DOMAIN q
    PROVE  /\ RemoveAt(q, i) \in Seq(S) /\ DOMAIN RemoveAt(q, i) = 1..(Len(q) - 1)
           /\ \A n \in 1..(Len(q) - 1) : RemoveAt(q, i)[n] = q[IF n < i THEN n ELSE n + 1]
<1>1. PICK L \in Nat : L = Len(q) /\ DOMAIN q = 1..L OBVIOUS
<1>2. PICK a : a = SubSeq(q, 1, i - 1) BY Zenon
<1>3. PICK b : b = SubSeq(q, i + 1, L) BY Zenon
<1>4. i \in 1..L BY <1>1
<1>5. a \in Seq(S) /\ Len(a) = i - 1 /\ \A n \in 1..(i - 1) : a[n] = q[n] BY <1>1, <1>2, <1>4
<1>6. b \in Seq(S) /\ Len(b) = L - i /\ \A n \in 1..(L - i) : b[n] = q[i + n] BY <1>1, <1>3, <1>4
<1>7. RemoveAt(q, i) = a \o b BY <1>1, <1>2, <1>3 DEF RemoveAt
<1>10. PICK c : c = a \o b BY Zenon
<1>14. a \in Seq(S) /\ b \in Seq(S) BY <1>5, <1>6
<1>15. a \o b \in Seq(S) BY <1>14
<1>16. Len(a \o b) = Len(a) + Len(b) BY <1>14
<1>17. \A n \in 1..(Len(a) + Len(b)) : (a \o b)[n] = IF n <= Len(a) THEN a[n] ELSE b[n - Len(a)]
  BY <1>14
<1>11. c \in Seq(S) /\ Len(c) = Len(a) + Len(b) BY <1>10, <1>15, <1>16
<1>12. Len(c) = L - 1 /\ DOMAIN c = 1..(L - 1) BY <1>1, <1>4, <1>5, <1>6, <1>11
<1>13. \A n \in 1..(Len(a) + Len(b)) : c[n] = IF n <= Len(a) THEN a[n] ELSE b[n - Len(a)]
  BY <1>10, <1>17
<1>8. \A n \in 1..(L - 1) : c[n] = IF n < i THEN a[n] ELSE b[n - (i - 1)]
  <2> SUFFICES ASSUME NEW n \in 1..(L - 1) PROVE c[n] = IF n < i THEN a[n] ELSE b[n - (i - 1)]
    OBVIOUS
  <2>1. n \in 1..(Len(a) + Len(b)) BY <1>1, <1>4, <1>5, <1>6
  <2>2. c[n] = IF n <= Len(a) THEN a[n] ELSE b[n - Len(a)] BY <1>13, <2>1
  <2>3. (n <= Len(a)) = (n < i) BY <1>4, <1>5
  <2> QED BY <1>5, <2>2, <2>3
<1>9. \A n \in 1..(L - 1) : c[n] = q[IF n < i THEN n ELSE n + 1]
  <2> SUFFICES ASSUME NEW n \in 1..(L - 1) PROVE c[n] = q[IF n < i THEN n ELSE n + 1]
    OBVIOUS
  <2>1. CASE n < i BY <1>4, <1>5, <1>8, <2>1
  <2>2. CASE ~(n < i)
    <3>1. n - (i - 1) \in 1..(L - i) BY <1>4, <2>2
    <3>2. b[n - (i - 1)] = q[i + (n - (i - 1))] BY Zenon, <1>6, <3>1
    <3>3. i + (n - (i - 1)) = n + 1 BY <1>4
    <3> QED BY <1>8, <2>2, <3>2, <3>3
  <2> QED BY <2>1, <2>2
<1> QED BY Zenon, <1>1, <1>7, <1>9, <1>10, <1>11, <1>12

\* Tables T of exporter k are freed.
TablesRemoved(fs, g, k, T) ==
    /\ g \in SourceType /\ T \subseteq Live(fs, k)
    /\ DOMAIN g.heap = DOMAIN fs.heap
    /\ \A u \in DOMAIN fs.heap : /\ g.heap[u].id = fs.heap[u].id
                                 /\ g.heap[u].mapId = fs.heap[u].mapId
                                 /\ g.heap[u].ex = fs.heap[u].ex
                                 /\ u \notin T => g.heap[u].freed = fs.heap[u].freed
    /\ DOMAIN g.exps = DOMAIN fs.exps
    /\ \A j \in DOMAIN fs.exps : j # k => g.exps[j] = fs.exps[j]
    /\ g.exps[k].dev = fs.exps[k].dev /\ g.exps[k].sysid = fs.exps[k].sysid
    /\ g.exps[k].samplers = fs.exps[k].samplers
    /\ Own(g, k) /\ Live(g, k) \subseteq Live(fs, k) \ T
    /\ DOMAIN g.list \subseteq DOMAIN fs.list
    /\ \A n \in DOMAIN g.list : g.list[n] # 0 => g.list[n] = fs.list[n] /\ g.list[n] \notin T

LEMMA TablesRemovedPlaced ==
    ASSUME NEW fs, Placed(fs), NEW k \in DOMAIN fs.exps, NEW T, NEW g, TablesRemoved(fs, g, k, T)
    PROVE  Placed(g)
<1>1. \A j \in DOMAIN fs.exps : Live(g, j) \subseteq Live(fs, j) \ T
  <2> SUFFICES ASSUME NEW j \in DOMAIN fs.exps PROVE Live(g, j) \subseteq Live(fs, j) \ T
    OBVIOUS
  <2>1. CASE j = k BY <2>1 DEF TablesRemoved
  <2>2. CASE j # k
    <3>1. Live(g, j) = Live(fs, j) BY <2>2 DEF TablesRemoved, Live
    <3>2. Live(fs, j) \cap Live(fs, k) = {} BY <2>2 DEF Placed
    <3>3. T \subseteq Live(fs, k) BY DEF TablesRemoved
    <3> QED BY <3>1, <3>2, <3>3
  <2> QED BY <2>1, <2>2
<1>2. ASSUME NEW j \in DOMAIN fs.exps PROVE Own(g, j)
  <2>1. CASE j = k BY <2>1 DEF TablesRemoved
  <2>2. CASE j # k
    <3>1. g.exps[j] = fs.exps[j] BY <2>2 DEF TablesRemoved
    <3>2. Own(fs, j) BY DEF Placed
    <3>3. DOMAIN g.heap = DOMAIN fs.heap /\ \A u \in DOMAIN fs.heap : g.heap[u].id = fs.heap[u].id
      BY DEF TablesRemoved
    <3> QED BY <3>1, <3>2, <3>3 DEF Own
  <2> QED BY <2>1, <2>2
<1>3. ASSUME NEW j \in DOMAIN fs.exps PROVE Sound(g, j)
  <2>1. Sound(fs, j) BY DEF Placed
  <2> QED BY <1>1, <2>1 DEF Sound, TablesRemoved
<1>4. \A i, j \in DOMAIN fs.exps : i # j => Live(g, i) \cap Live(g, j) = {}
  BY <1>1 DEF Placed
<1>5. InPlace(g)
  <2> SUFFICES ASSUME NEW n \in DOMAIN g.list, g.list[n] # 0
               PROVE  /\ g.list[n] \in DOMAIN g.heap
                      /\ g.heap[g.list[n]].mapId = n - 1 /\ ~g.heap[g.list[n]].freed
    BY DEF InPlace
  <2>1. n \in DOMAIN fs.list /\ g.list[n] = fs.list[n] /\ g.list[n] \notin T
    BY DEF TablesRemoved
  <2>2. /\ fs.list[n] \in DOMAIN fs.heap /\ fs.heap[fs.list[n]].mapId = n - 1
        /\ ~fs.heap[fs.list[n]].freed
    BY <2>1 DEF Placed, InPlace
  <2> QED BY <2>1, <2>2 DEF TablesRemoved
<1>6. g \in SourceType /\ DOMAIN g.exps = DOMAIN fs.exps BY DEF TablesRemoved
<1>7. \A i, j \in DOMAIN g.exps : g.exps[i].dev = g.exps[j].dev => i = j
  <2>1. \A i \in DOMAIN fs.exps : g.exps[i].dev = fs.exps[i].dev BY DEF TablesRemoved
  <2> QED BY <1>6, <2>1 DEF Placed
<1> QED BY <1>2, <1>3, <1>4, <1>5, <1>6, <1>7 DEF Placed

\* The chain of an exporter, its cache, the list of maps and what is freed.
Dropped(fs, k, rest, c, list, T) ==
    Free([fs EXCEPT !.exps[k] = [@ EXCEPT !.list = rest, !.cur = c], !.list = list], T)

LEMMA DroppedDoes ==
    ASSUME NEW fs \in SourceType, NEW k \in DOMAIN fs.exps, NEW rest \in Seq(Nat), NEW c \in Nat,
           NEW list \in Seq(Nat), NEW T
    PROVE  LET g == Dropped(fs, k, rest, c, list, T) IN
           /\ g \in SourceType /\ g.list = list /\ g.opts = fs.opts
           /\ g.count = fs.count /\ g.failures = fs.failures
           /\ g.one = fs.one /\ g.all = fs.all /\ g.copy = fs.copy
           /\ DOMAIN g.heap = DOMAIN fs.heap
           /\ \A u \in DOMAIN fs.heap : /\ g.heap[u].id = fs.heap[u].id
                                        /\ g.heap[u].mapId = fs.heap[u].mapId
                                        /\ g.heap[u].ex = fs.heap[u].ex
                                        /\ g.heap[u].out = fs.heap[u].out
                                        /\ u \notin T => g.heap[u].freed = fs.heap[u].freed
           /\ DOMAIN g.exps = DOMAIN fs.exps
           /\ \A j \in DOMAIN fs.exps : j # k => g.exps[j] = fs.exps[j]
           /\ g.exps[k].dev = fs.exps[k].dev /\ g.exps[k].sysid = fs.exps[k].sysid
           /\ g.exps[k].samplers = fs.exps[k].samplers
           /\ g.exps[k].list = rest /\ g.exps[k].cur = c
<1>1. fs.exps \in Seq(ExporterType) /\ fs.exps[k] \in ExporterType /\ fs.heap \in Seq(TableType)
  BY Parts
<1>2. PICK v : v = [fs.exps[k] EXCEPT !.list = rest, !.cur = c] OBVIOUS
<1>3. /\ v \in ExporterType /\ v.cur = c /\ v.dev = fs.exps[k].dev /\ v.sysid = fs.exps[k].sysid
      /\ v.list = rest /\ v.samplers = fs.exps[k].samplers
  BY Zenon, <1>1, <1>2 DEF ExporterType
<1>4. PICK x : x = [fs.exps EXCEPT ![k] = v] BY Zenon
<1>5. /\ x \in Seq(ExporterType) /\ DOMAIN x = DOMAIN fs.exps /\ x[k] = v
      /\ \A j \in DOMAIN fs.exps : j # k => x[j] = fs.exps[j]
  BY <1>1, <1>3, <1>4, NewExporterAt
<1>6. PICK N \in Nat : DOMAIN fs.heap = 1..N BY <1>1
<1>7. PICK h : h = [u \in DOMAIN fs.heap |-> IF u \in T THEN [fs.heap[u] EXCEPT !.freed = TRUE]
                                             ELSE fs.heap[u]]
  BY Zenon
<1>8. \A u \in 1..N : /\ h[u] \in TableType /\ h[u].id = fs.heap[u].id
                      /\ h[u].mapId = fs.heap[u].mapId
                      /\ h[u].ex = fs.heap[u].ex /\ h[u].out = fs.heap[u].out
                      /\ u \notin T => h[u].freed = fs.heap[u].freed
  <2> SUFFICES ASSUME NEW u \in 1..N
               PROVE  /\ h[u] \in TableType /\ h[u].id = fs.heap[u].id
                      /\ h[u].mapId = fs.heap[u].mapId
                      /\ h[u].ex = fs.heap[u].ex /\ h[u].out = fs.heap[u].out
                      /\ u \notin T => h[u].freed = fs.heap[u].freed
    OBVIOUS
  <2>1. fs.heap[u] \in TableType BY <1>1, <1>6
  <2>2. CASE u \in T
    <3>1. h[u] = [fs.heap[u] EXCEPT !.freed = TRUE] BY <1>6, <1>7, <2>2
    <3> QED BY Zenon, <2>1, <2>2, <3>1 DEF TableType
  <2>3. CASE u \notin T
    <3>1. h[u] = fs.heap[u] BY <1>6, <1>7, <2>3
    <3> QED BY <2>1, <3>1
  <2> QED BY <2>2, <2>3
<1>9. h \in Seq(TableType) /\ DOMAIN h = 1..N
  <2>1. h \in [1..N -> TableType] BY Zenon, <1>6, <1>7, <1>8
  <2> QED BY <2>1
<1>10. PICK f : f = [fs EXCEPT !.exps = x, !.list = list] OBVIOUS
<1>11. PICK g : g = [f EXCEPT !.heap = h] BY Zenon
<1>12. /\ f \in SourceType /\ f.exps = x /\ f.list = list /\ f.heap = fs.heap /\ f.opts = fs.opts
       /\ f.count = fs.count /\ f.failures = fs.failures
       /\ f.one = fs.one /\ f.all = fs.all /\ f.copy = fs.copy
  BY Zenon, <1>5, <1>10 DEF SourceType
<1>13. /\ g \in SourceType /\ g.exps = x /\ g.list = list /\ g.heap = h /\ g.opts = fs.opts
       /\ g.count = fs.count /\ g.failures = fs.failures
       /\ g.one = fs.one /\ g.all = fs.all /\ g.copy = fs.copy
  BY Zenon, <1>9, <1>11, <1>12 DEF SourceType
<1>14. Dropped(fs, k, rest, c, list, T) = g
  <2>1. [fs EXCEPT !.exps[k] = [@ EXCEPT !.list = rest, !.cur = c], !.list = list] = f
    BY <1>2, <1>4, <1>10
  <2>2. Free(f, T) = g BY <1>7, <1>11, <1>12 DEF Free
  <2> QED BY <2>1, <2>2 DEF Dropped
<1> QED BY <1>3, <1>5, <1>6, <1>8, <1>9, <1>13, <1>14

\* What is left of a chain when its table i is removed.
Rest(q, i) == IF i = 1 THEN <<>> ELSE RemoveAt(q, i)

\* A chain has what another one has beside its place i, each once.
Within(r, q, i) == \E at \in [DOMAIN r -> DOMAIN q \ {i}] :
                      /\ \A n \in DOMAIN r : r[n] = q[at[n]]
                      /\ \A n, m \in DOMAIN r : at[n] = at[m] => n = m

LEMMA RestIs ==
    ASSUME NEW S, NEW q \in Seq(S), NEW i \in DOMAIN q
    PROVE  Rest(q, i) \in Seq(S) /\ Within(Rest(q, i), q, i)
<1>1. CASE i = 1
  <2>1. Rest(q, i) = <<>> BY <1>1 DEF Rest
  <2>2. DOMAIN Rest(q, i) = {} BY <2>1
  <2>3. PICK at : at = [n \in DOMAIN Rest(q, i) |-> n] BY Zenon
  <2>4. at \in [DOMAIN Rest(q, i) -> DOMAIN q \ {i}] BY <2>2, <2>3
  <2>5. Rest(q, i) \in Seq(S) BY <2>1
  <2> QED BY Zenon, <2>2, <2>4, <2>5 DEF Within
<1>2. CASE i # 1
  <2>1. PICK L \in Nat : L = Len(q) /\ DOMAIN q = 1..L OBVIOUS
  <2>2. PICK r : r = RemoveAt(q, i) OBVIOUS
  <2>3. /\ r \in Seq(S) /\ DOMAIN r = 1..(L - 1)
        /\ \A n \in 1..(L - 1) : r[n] = q[IF n < i THEN n ELSE n + 1]
    BY Zenon, <2>1, <2>2, RemoveAtIs
  <2>4. PICK at : at = [n \in 1..(L - 1) |-> IF n < i THEN n ELSE n + 1] BY Zenon
  <2>5. at \in [1..(L - 1) -> (1..L) \ {i}]
    <3>1. i \in 1..L BY <2>1
    <3> QED BY <2>4, <3>1
  <2>6. \A n, m \in 1..(L - 1) : at[n] = at[m] => n = m
    <3>1. i \in 1..L BY <2>1
    <3> QED BY <2>4, <3>1
  <2>7. Rest(q, i) = r BY <1>2, <2>2 DEF Rest
  <2>8. at \in [DOMAIN r -> DOMAIN q \ {i}] BY <2>1, <2>3, <2>5
  <2>9. \A n \in DOMAIN r : r[n] = q[at[n]] BY <2>3, <2>4
  <2>10. \A n, m \in DOMAIN r : at[n] = at[m] => n = m BY <2>3, <2>6
  <2>11. Within(r, q, i) BY <2>8, <2>9, <2>10 DEF Within
  <2> QED BY <2>3, <2>7, <2>11
<1> QED BY <1>1, <1>2

\* The list of maps without the place of map m.
Cleared(list, m) == IF m + 1 \in DOMAIN list THEN [list EXCEPT ![m + 1] = 0] ELSE list

LEMMA ClearedIs ==
    ASSUME NEW list \in Seq(Nat), NEW m \in Nat
    PROVE  /\ Cleared(list, m) \in Seq(Nat) /\ DOMAIN Cleared(list, m) = DOMAIN list
           /\ \A n \in DOMAIN list : Cleared(list, m)[n] = IF n = m + 1 THEN 0 ELSE list[n]
<1>1. PICK L \in Nat : DOMAIN list = 1..L OBVIOUS
<1>2. PICK c : c = Cleared(list, m) OBVIOUS
<1>3. c = [n \in 1..L |-> IF n = m + 1 THEN 0 ELSE list[n]]
  <2>1. CASE m + 1 \in 1..L BY Zenon, <1>1, <1>2, <2>1 DEF Cleared
  <2>2. CASE m + 1 \notin 1..L
    <3>1. c = list BY <1>1, <1>2, <2>2 DEF Cleared
    <3> QED BY <1>1, <2>2, <3>1
  <2> QED BY <2>1, <2>2
<1>4. c \in [1..L -> Nat] BY <1>1, <1>3
<1>5. c \in Seq(Nat) BY <1>4
<1> QED BY <1>1, <1>2, <1>3, <1>5

\* Table i of a chain is removed.
RemovedAt(fs, k, i, id, g) ==
    LET t == fs.exps[k].list[i] IN
    /\ fs.heap[t].id = id /\ t \in DOMAIN fs.heap /\ fs.heap[t].mapId \in Nat
    /\ g = Dropped(fs, k, Rest(fs.exps[k].list, i),
                   IF fs.exps[k].cur = t THEN 0 ELSE fs.exps[k].cur,
                   Cleared(fs.list, fs.heap[t].mapId), {t})

LEMMA RemoveTableDoes ==
    ASSUME NEW fs, Placed(fs), NEW k \in DOMAIN fs.exps, NEW id, InChain(fs, k, id) # {}
    PROVE  \E i \in DOMAIN fs.exps[k].list : RemovedAt(fs, k, i, id, RemoveTable(fs, k, id))
<1>1. fs \in SourceType /\ fs.exps \in Seq(ExporterType) /\ fs.exps[k] \in ExporterType
  BY Parts DEF Placed
<1>2. fs.exps[k].list \in Seq(Nat) BY <1>1 DEF ExporterType
<1>3. InChain(fs, k, id) \in SUBSET Nat BY <1>2 DEF InChain
<1>4. PICK i \in InChain(fs, k, id) :
         i = CHOOSE x \in InChain(fs, k, id) : \A j \in InChain(fs, k, id) : x <= j
  BY <1>3, LeastExists
<1>5. i \in DOMAIN fs.exps[k].list /\ fs.heap[fs.exps[k].list[i]].id = id BY DEF InChain
<1>6. PICK t : t = fs.exps[k].list[i] OBVIOUS
<1>7. t \in Live(fs, k) BY <1>5, <1>6, LiveIs
<1>8. t \in DOMAIN fs.heap /\ fs.heap[t].mapId \in Nat BY <1>7 DEF Placed, Sound
<1>9. PICK rest : rest = Rest(fs.exps[k].list, i) OBVIOUS
<1>10. PICK c : c = IF fs.exps[k].cur = t THEN 0 ELSE fs.exps[k].cur OBVIOUS
<1>11. PICK v : v = [fs.exps[k] EXCEPT !.list = rest, !.cur = c] OBVIOUS
<1>12. PICK f : f = [fs EXCEPT !.exps = [fs.exps EXCEPT ![k] = v]] BY Zenon
<1>13. f.list = fs.list /\ f.heap = fs.heap BY <1>1, <1>12 DEF SourceType
<1>14. RemoveTable(fs, k, id) = Free(RemoveExtensionMap(f, t), {t})
  <2>1. [fs EXCEPT !.exps[k] = [@ EXCEPT !.list = rest, !.cur = IF fs.exps[k].cur = t THEN 0
       ELSE fs.exps[k].cur]] = f
    BY <1>10, <1>11, <1>12
  <2>2. rest = IF i = 1 THEN <<>> ELSE RemoveAt(fs.exps[k].list, i) BY <1>9 DEF Rest
  <2> QED BY <1>4, <1>6, <2>1, <2>2 DEF RemoveTable
<1>15. PICK l : l = Cleared(fs.list, fs.heap[t].mapId) OBVIOUS
<1>16. RemoveExtensionMap(f, t) = [f EXCEPT !.list = l]
  <2>1. PICK slot : slot = fs.heap[t].mapId + 1 OBVIOUS
  <2>2. CASE slot \in DOMAIN fs.list
    <3>1. l = [fs.list EXCEPT ![slot] = 0] BY <1>15, <2>1, <2>2 DEF Cleared
    <3>2. RemoveExtensionMap(f, t) = [f EXCEPT !.list[slot] = 0]
      BY <1>13, <2>1, <2>2 DEF RemoveExtensionMap
    <3> QED BY <1>13, <3>1, <3>2
  <2>3. CASE slot \notin DOMAIN fs.list
    <3>1. l = fs.list BY <1>15, <2>1, <2>3 DEF Cleared
    <3>2. RemoveExtensionMap(f, t) = f BY <1>13, <2>1, <2>3 DEF RemoveExtensionMap
    <3>3. [f EXCEPT !.list = f.list] = f BY Zenon, <1>1, <1>12 DEF SourceType
    <3> QED BY <1>13, <3>1, <3>2, <3>3
  <2> QED BY <2>2, <2>3
<1>17. [f EXCEPT !.list = l]
         = [fs EXCEPT !.exps[k] = [@ EXCEPT !.list = rest, !.cur = c], !.list = l]
  BY <1>11, <1>12
<1>18. RemoveTable(fs, k, id) = Dropped(fs, k, rest, c, l, {t})
  BY <1>14, <1>16, <1>17 DEF Dropped
<1> QED BY Zenon, <1>5, <1>6, <1>8, <1>9, <1>10, <1>15, <1>18 DEF RemovedAt

LEMMA RemoveAllDoes ==
    ASSUME NEW fs \in SourceType, NEW k \in DOMAIN fs.exps
    PROVE  RemoveAllTables(fs, k) = Dropped(fs, k, <<>>, 0, <<>>, Range(fs.exps[k].list))
<1>1. PICK T : T = Range(fs.exps[k].list) OBVIOUS
<1>2. PICK v : v = [fs.exps[k] EXCEPT !.list = <<>>, !.cur = 0] OBVIOUS
<1>3. PICK f : f = [fs EXCEPT !.exps = [fs.exps EXCEPT ![k] = v]] BY Zenon
<1>4. RemoveAllTables(fs, k) = [Free(f, T) EXCEPT !.list = <<>>]
  BY <1>1, <1>2, <1>3 DEF RemoveAllTables, ReInitExtensionMapList
<1>5. PICK h : h = [t \in DOMAIN f.heap |-> IF t \in T THEN [f.heap[t] EXCEPT !.freed = TRUE]
                                            ELSE f.heap[t]]
  BY Zenon
<1>6. Free(f, T) = [f EXCEPT !.heap = h] BY <1>5 DEF Free
<1>7. PICK q : q = [f EXCEPT !.list = <<>>] BY Zenon
<1>8. q.heap = f.heap BY <1>3, <1>7 DEF SourceType
<1>9. Free(q, T) = [q EXCEPT !.heap = h] BY <1>5, <1>8 DEF Free
<1>10. [[f EXCEPT !.heap = h] EXCEPT !.list = <<>>] = [q EXCEPT !.heap = h]
  BY Zenon, <1>3, <1>7 DEF SourceType
<1>11. q = [fs EXCEPT !.exps[k] = [@ EXCEPT !.list = <<>>, !.cur = 0], !.list = <<>>]
  BY <1>2, <1>3, <1>7
<1>12. RemoveAllTables(fs, k) = Free(q, T) BY <1>4, <1>6, <1>9, <1>10
<1> QED BY <1>1, <1>11, <1>12 DEF Dropped

LEMMA RemovePlaced ==
    ASSUME NEW fs, Placed(fs), NEW k \in DOMAIN fs.exps, NEW id, NEW g, g = RemoveTable(fs, k, id)
    PROVE  Placed(g) /\ (Complete(fs) => Complete(g))
<1>1. CASE InChain(fs, k, id) = {} BY <1>1 DEF RemoveTable
<1>2. CASE InChain(fs, k, id) # {}
  <2> DEFINE l == fs.exps[k].list
  <2>1. PICK i \in DOMAIN l : RemovedAt(fs, k, i, id, g) BY <1>2, RemoveTableDoes
  <2>2. PICK t : t = l[i] OBVIOUS
  <2>3. fs \in SourceType /\ fs.list \in Seq(Nat) /\ fs.exps[k] \in ExporterType
    BY Parts DEF Placed
  <2>4. l \in Seq(Nat) /\ fs.exps[k].cur \in Nat BY <2>3 DEF ExporterType
  <2>5. PICK m \in Nat : m = fs.heap[t].mapId BY Zenon, <2>1, <2>2 DEF RemovedAt
  <2>6. PICK list \in Seq(Nat) : /\ list = Cleared(fs.list, m) /\ DOMAIN list = DOMAIN fs.list
                     /\ \A n \in DOMAIN fs.list : list[n] = IF n = m + 1 THEN 0 ELSE fs.list[n]
    BY Zenon, <2>3, ClearedIs
  <2>7. PICK rest \in Seq(Nat) : rest = Rest(l, i) BY <2>4, RestIs
  <2>8. PICK at \in [DOMAIN rest -> DOMAIN l \ {i}] :
                 /\ \A n \in DOMAIN rest : rest[n] = l[at[n]]
                 /\ \A n, j \in DOMAIN rest : at[n] = at[j] => n = j
    <3>1. Within(rest, l, i) BY <2>4, <2>7, RestIs
    <3> QED BY <3>1 DEF Within
  <2>9. PICK c \in Nat : c = IF fs.exps[k].cur = t THEN 0 ELSE fs.exps[k].cur BY <2>4
  <2>10. g = Dropped(fs, k, rest, c, list, {t})
    BY Zenon, <2>1, <2>2, <2>5, <2>6, <2>7, <2>9 DEF RemovedAt
  <2>11. /\ g \in SourceType /\ g.list = list
         /\ DOMAIN g.heap = DOMAIN fs.heap
         /\ \A u \in DOMAIN fs.heap : /\ g.heap[u].id = fs.heap[u].id
                                      /\ g.heap[u].mapId = fs.heap[u].mapId
                                      /\ g.heap[u].ex = fs.heap[u].ex
                                      /\ u \notin {t} => g.heap[u].freed = fs.heap[u].freed
         /\ DOMAIN g.exps = DOMAIN fs.exps
         /\ \A j \in DOMAIN fs.exps : j # k => g.exps[j] = fs.exps[j]
         /\ g.exps[k].dev = fs.exps[k].dev /\ g.exps[k].sysid = fs.exps[k].sysid
         /\ g.exps[k].samplers = fs.exps[k].samplers
         /\ g.exps[k].list = rest /\ g.exps[k].cur = c
    BY <2>3, <2>10, DroppedDoes
  <2>12. Own(fs, k) BY DEF Placed
  <2>13. \A n, j \in DOMAIN l : l[n] = l[j] => n = j BY Zenon, <2>12 DEF Own
  <2>14. \A n \in DOMAIN rest : at[n] \in DOMAIN l /\ at[n] # i BY <2>8
  <2>15. \A n \in DOMAIN rest : rest[n] # t BY <2>2, <2>8, <2>13, <2>14
  <2>16. Live(g, k) \subseteq Live(fs, k) \ {t}
    <3> SUFFICES ASSUME NEW u \in Live(g, k) PROVE u \in Live(fs, k) /\ u # t
      OBVIOUS
    <3>1. (\E n \in DOMAIN rest : rest[n] = u) \/ (u # 0 /\ u = c) BY <2>11, LiveIs
    <3>2. CASE u # 0 /\ u = c
      <4>1. c # t /\ c = fs.exps[k].cur BY <2>9, <3>2
      <4> QED BY <3>2, <4>1, LiveIs
    <3>3. ASSUME NEW n \in DOMAIN rest, rest[n] = u PROVE u \in Live(fs, k) /\ u # t
      <4>1. u = l[at[n]] /\ at[n] \in DOMAIN l BY <2>8, <2>14, <3>3
      <4> QED BY <2>15, <3>3, <4>1, LiveIs
    <3> QED BY <3>1, <3>2, <3>3
  <2>17. Own(g, k)
    <3>1. \A n \in DOMAIN l : l[n] \in DOMAIN fs.heap BY <2>12 DEF Own
    <3>2. \A n, j \in DOMAIN l : fs.heap[l[n]].id = fs.heap[l[j]].id => n = j
      BY Zenon, <2>12 DEF Own
    <3>3. c # 0 => c \in DOMAIN fs.heap /\ c = fs.exps[k].cur BY <2>9, <2>12 DEF Own
    <3>4. c # 0 => \A n \in DOMAIN l : fs.heap[l[n]].id = fs.heap[c].id => l[n] = c
      BY <2>12, <3>3 DEF Own
    <3>5. \A n \in DOMAIN rest : rest[n] \in DOMAIN fs.heap /\ rest[n] = l[at[n]]
      BY <2>8, <2>14, <3>1
    <3>6. \A n, j \in DOMAIN rest : fs.heap[rest[n]].id = fs.heap[rest[j]].id => n = j
      BY <2>8, <2>14, <3>2, <3>5
    <3>7. c # 0 => \A n \in DOMAIN rest : fs.heap[rest[n]].id = fs.heap[c].id => rest[n] = c
      BY <2>14, <3>4, <3>5
    <3>8. \A u \in DOMAIN fs.heap : g.heap[u].id = fs.heap[u].id BY <2>11
    <3> QED BY <2>11, <3>3, <3>5, <3>6, <3>7, <3>8 DEF Own
  <2>18. t \in Live(fs, k) BY <2>2, LiveIs
  <2>19. \A n \in DOMAIN list : list[n] # 0 => list[n] = fs.list[n] /\ list[n] # t
    <3> SUFFICES ASSUME NEW n \in DOMAIN list, list[n] # 0
          PROVE list[n] = fs.list[n] /\ list[n] # t
      OBVIOUS
    <3>1. n \in DOMAIN fs.list /\ n # m + 1 /\ list[n] = fs.list[n] BY <2>6
    <3>2. n \in Nat BY <2>3, <3>1
    <3>3. fs.heap[fs.list[n]].mapId = n - 1 BY <3>1 DEF Placed, InPlace
    <3> QED BY <2>5, <3>1, <3>2, <3>3
  <2>20. TablesRemoved(fs, g, k, {t})
    BY <2>6, <2>11, <2>16, <2>17, <2>18, <2>19 DEF TablesRemoved
  <2>21. Placed(g) BY <2>20, TablesRemovedPlaced
  <2>22. ASSUME Complete(fs) PROVE Complete(g)
    <3> SUFFICES ASSUME NEW j \in DOMAIN fs.exps, NEW u \in Live(g, j) PROVE InList(g, u)
      BY <2>11 DEF Complete
    <3>1. u \in Live(fs, j) /\ u # t
      <4>1. CASE j = k BY <2>16, <4>1
      <4>2. CASE j # k
        <5>1. Live(g, j) = Live(fs, j) BY <2>11, <4>2 DEF Live
        <5>2. Live(fs, j) \cap Live(fs, k) = {} BY <4>2 DEF Placed
        <5> QED BY <2>18, <5>1, <5>2
      <4> QED BY <4>1, <4>2
    <3>2. u \in DOMAIN fs.heap BY <3>1 DEF Placed, Sound
    <3>3. InList(fs, u) /\ InList(fs, t) BY <2>18, <2>22, <3>1 DEF Complete
    <3>4. PICK n : n = fs.heap[u].mapId + 1 OBVIOUS
    <3>5. n \in DOMAIN fs.list /\ fs.list[n] = u BY <3>3, <3>4 DEF InList
    <3>6. fs.list[m + 1] = t BY <2>5, <3>3 DEF InList
    <3>7. list[n] = u BY Zenon, <2>6, <3>1, <3>5, <3>6
    <3>8. g.heap[u].mapId = fs.heap[u].mapId BY <2>11, <3>2
    <3> QED BY <2>6, <2>11, <3>4, <3>5, <3>7, <3>8 DEF InList
  <2> QED BY <2>21, <2>22
<1> QED BY <1>1, <1>2

LEMMA RemoveAllPlaced ==
    ASSUME NEW fs, Placed(fs), NEW k \in DOMAIN fs.exps, NEW g, g = RemoveAllTables(fs, k)
    PROVE  /\ Placed(g) /\ Live(g, k) = {} /\ DOMAIN g.exps = DOMAIN fs.exps
           /\ \A j \in DOMAIN fs.exps : j # k => Live(g, j) = Live(fs, j)
<1>0. PICK T : T = Range(fs.exps[k].list) OBVIOUS
<1>1. fs \in SourceType BY DEF Placed
<1>13. <<>> \in Seq(Nat) OBVIOUS
<1>2. PICK none \in Seq(Nat) : none = <<>> BY Zenon, <1>13
<1>12. PICK c \in Nat : c = 0 OBVIOUS
<1>3. g = Dropped(fs, k, none, c, none, T) BY <1>0, <1>1, <1>2, <1>12, RemoveAllDoes
<1>4. /\ g \in SourceType /\ g.list = none
      /\ DOMAIN g.heap = DOMAIN fs.heap
      /\ \A u \in DOMAIN fs.heap : /\ g.heap[u].id = fs.heap[u].id
                                   /\ g.heap[u].mapId = fs.heap[u].mapId
                                   /\ g.heap[u].ex = fs.heap[u].ex
                                   /\ u \notin T => g.heap[u].freed = fs.heap[u].freed
      /\ DOMAIN g.exps = DOMAIN fs.exps
      /\ \A j \in DOMAIN fs.exps : j # k => g.exps[j] = fs.exps[j]
      /\ g.exps[k].dev = fs.exps[k].dev /\ g.exps[k].sysid = fs.exps[k].sysid
      /\ g.exps[k].samplers = fs.exps[k].samplers
      /\ g.exps[k].list = none /\ g.exps[k].cur = c
  BY <1>1, <1>3, DroppedDoes
<1>5. DOMAIN g.exps[k].list = {} /\ DOMAIN g.list = {} BY <1>2, <1>4
<1>6. Live(g, k) = {} BY <1>4, <1>12, <1>5, LiveIs
<1>7. Own(g, k) BY <1>4, <1>12, <1>5 DEF Own
<1>8. T \subseteq Live(fs, k) BY <1>0 DEF Live
<1>9. TablesRemoved(fs, g, k, T) BY <1>4, <1>5, <1>6, <1>7, <1>8 DEF TablesRemoved
<1>10. Placed(g) BY <1>9, TablesRemovedPlaced
<1>11. \A j \in DOMAIN fs.exps : j # k => Live(g, j) = Live(fs, j) BY <1>4 DEF Live
<1> QED BY <1>4, <1>6, <1>10, <1>11

-----------------------------------------------------------------------------
(* New exporters                                                           *)

\* An exporter at the end of the list.
Joined(fs, g, e) ==
    /\ g \in SourceType /\ g.exps = Append(fs.exps, e) /\ g.heap = fs.heap /\ g.list = fs.list
    /\ g.opts = fs.opts /\ g.count = fs.count + 1 /\ g.failures = fs.failures
    /\ g.one = fs.one /\ g.all = fs.all /\ g.copy = fs.copy

Join(fs, e) == [fs EXCEPT !.exps = Append(@, e), !.count = @ + 1]

LEMMA JoinDoes ==
    ASSUME NEW fs \in SourceType, NEW e \in ExporterType PROVE Joined(fs, Join(fs, e), e)
<1>1. fs.exps \in Seq(ExporterType) /\ fs.count \in Nat BY Parts
<1>2. PICK x \in Seq(ExporterType) : x = Append(fs.exps, e) BY Zenon, <1>1, AppendTyped
<1>3. PICK c \in Nat : c = fs.count + 1 BY <1>1
<1>4. PICK g : g = [fs EXCEPT !.exps = x, !.count = c] OBVIOUS
<1>5. Join(fs, e) = g BY <1>2, <1>3, <1>4 DEF Join
<1>6. /\ g \in SourceType /\ g.exps = x /\ g.count = c
      /\ g.heap = fs.heap /\ g.list = fs.list /\ g.opts = fs.opts /\ g.failures = fs.failures
      /\ g.one = fs.one /\ g.all = fs.all /\ g.copy = fs.copy
  BY Zenon, <1>4 DEF SourceType
<1> QED BY <1>2, <1>3, <1>5, <1>6 DEF Joined

\* The tables an exporter starts with.
Starts(e, T) == /\ e.cur = 0
                /\ \/ e.list = <<>> /\ T = {}
                   \/ \E t \in T : e.list = <<t>> /\ T = {t}

LEMMA StartsWith ==
    ASSUME NEW e, NEW T, Starts(e, T), NEW fs, NEW k, fs.exps[k] = e
    PROVE  Live(fs, k) = T /\ (T \subseteq DOMAIN fs.heap /\ 0 \notin T => Own(fs, k))
<1>1. CASE e.list = <<>> /\ T = {}
  <2>1. DOMAIN e.list = {} BY <1>1
  <2>2. Live(fs, k) = {} BY <2>1, LiveIs DEF Starts
  <2>3. Own(fs, k) BY <2>1 DEF Own, Starts
  <2> QED BY <1>1, <2>2, <2>3
<1>2. ASSUME NEW t \in T, e.list = <<t>>, T = {t}
      PROVE  Live(fs, k) = T /\ (T \subseteq DOMAIN fs.heap /\ 0 \notin T => Own(fs, k))
  <2>1. DOMAIN e.list = {1} /\ e.list[1] = t BY <1>2
  <2>2. \A u : u \in Live(fs, k) <=> u = t BY <2>1, LiveIs DEF Starts
  <2>3. Live(fs, k) = {t} BY <2>2
  <2>4. T \subseteq DOMAIN fs.heap => Own(fs, k) BY <1>2, <2>1 DEF Own, Starts
  <2> QED BY <1>2, <2>3, <2>4
<1> QED BY <1>1, <1>2 DEF Starts

LEMMA JoinedPlaced ==
    ASSUME NEW fs, Placed(fs), NEW e \in ExporterType, NEW T, Starts(e, T),
           NEW g, Joined(fs, g, e),
           \A t \in T : t \in DOMAIN fs.heap /\ ~fs.heap[t].freed /\ fs.heap[t].mapId \in Nat,
           \A j \in DOMAIN fs.exps : fs.exps[j].dev # e.dev /\ Live(fs, j) \cap T = {}
    PROVE  /\ Placed(g)
           /\ Complete(fs) /\ (\A t \in T : InList(fs, t)) => Complete(g)
<1>1. fs \in SourceType /\ fs.exps \in Seq(ExporterType) /\ fs.heap \in Seq(TableType)
  BY Parts DEF Placed
<1>2. PICK k : k = Len(fs.exps) + 1 OBVIOUS
<1>3. /\ DOMAIN g.exps = DOMAIN fs.exps \cup {k} /\ g.exps[k] = e /\ k \notin DOMAIN fs.exps
      /\ \A j \in DOMAIN fs.exps : g.exps[j] = fs.exps[j]
  BY <1>1, <1>2, AppendTyped DEF Joined
<1>4. g \in SourceType /\ g.heap = fs.heap /\ g.list = fs.list BY DEF Joined
<1>5. Live(g, k) = T BY <1>3, StartsWith
<1>6. \A j \in DOMAIN fs.exps : Live(g, j) = Live(fs, j) BY <1>3 DEF Live
<1>7. ASSUME NEW j \in DOMAIN g.exps PROVE Own(g, j) /\ Sound(g, j)
  <2>1. CASE j = k
    <3>1. T \subseteq DOMAIN g.heap /\ 0 \notin T BY <1>1, <1>4
    <3>2. Own(g, k) BY <1>3, <3>1, StartsWith
    <3>3. Sound(g, k) BY <1>4, <1>5 DEF Sound
    <3> QED BY <2>1, <3>2, <3>3
  <2>2. CASE j \in DOMAIN fs.exps
    <3>1. Own(fs, j) /\ Sound(fs, j) /\ g.exps[j] = fs.exps[j] BY <1>3, <2>2 DEF Placed
    <3>2. Own(g, j) BY <1>4, <3>1 DEF Own
    <3>3. Sound(g, j) BY <1>4, <1>6, <2>2, <3>1 DEF Sound
    <3> QED BY <3>2, <3>3
  <2> QED BY <1>3, <2>1, <2>2
<1>8. ASSUME NEW i \in DOMAIN g.exps, NEW j \in DOMAIN g.exps, i # j
      PROVE  Live(g, i) \cap Live(g, j) = {}
  <2>1. \A m \in DOMAIN fs.exps : Live(g, m) \cap Live(g, k) = {} BY <1>5, <1>6
  <2>2. CASE i \in DOMAIN fs.exps /\ j \in DOMAIN fs.exps
    <3>1. Live(fs, i) \cap Live(fs, j) = {} BY <1>8, <2>2 DEF Placed
    <3> QED BY <1>6, <2>2, <3>1
  <2> QED BY <1>3, <1>8, <2>1, <2>2
<1>9. \A i, j \in DOMAIN g.exps : g.exps[i].dev = g.exps[j].dev => i = j
  BY <1>3 DEF Placed
<1>10. InPlace(g) BY <1>4 DEF Placed, InPlace
<1>11. Placed(g) BY <1>4, <1>7, <1>8, <1>9, <1>10 DEF Placed
<1>12. ASSUME Complete(fs), \A t \in T : InList(fs, t) PROVE Complete(g)
  <2> SUFFICES ASSUME NEW j \in DOMAIN g.exps, NEW u \in Live(g, j) PROVE InList(g, u)
    BY DEF Complete
  <2>1. InList(fs, u) BY <1>3, <1>5, <1>6, <1>12 DEF Complete
  <2> QED BY <1>4, <2>1 DEF InList
<1> QED BY <1>11, <1>12

\* The map of NetFlow v5.
WithV5Map(fs, t) == AddExtensionMap([fs EXCEPT !.heap = Append(@, NewTable(0, V5Layout))], t)

MapJoined(fs, g, t) ==
    /\ g \in SourceType /\ g.list = Append(fs.list, t) /\ g.exps = fs.exps /\ g.opts = fs.opts
    /\ g.count = fs.count /\ g.failures = fs.failures
    /\ DOMAIN g.heap = DOMAIN fs.heap \cup {t} /\ t = Len(fs.heap) + 1
    /\ \A u \in DOMAIN fs.heap : g.heap[u] = fs.heap[u]
    /\ g.heap[t].id = 0 /\ g.heap[t].mapId = Len(fs.list) /\ g.heap[t].ex = V5Layout
    /\ ~g.heap[t].freed

LEMMA V5MapDoes ==
    ASSUME NEW fs \in SourceType, NEW t, t = Len(fs.heap) + 1, V5Layout \in Layout
    PROVE  MapJoined(fs, WithV5Map(fs, t), t)
<1>1. fs.heap \in Seq(TableType) BY Parts
<1>2. NewTable(0, V5Layout) \in TableType BY DEF NewTable, TableType, Layout, NoId
<1>3. PICK h \in Seq(TableType) : h = Append(fs.heap, NewTable(0, V5Layout))
  BY Zenon, <1>1, <1>2, AppendTyped
<1>4. /\ DOMAIN h = DOMAIN fs.heap \cup {t} /\ h[t] = NewTable(0, V5Layout)
         /\ t \notin DOMAIN fs.heap
      /\ \A u \in DOMAIN fs.heap : h[u] = fs.heap[u]
  BY <1>1, <1>2, <1>3, AppendTyped
<1>5. PICK a : a = [fs EXCEPT !.heap = h] BY Zenon
<1>6. /\ a \in SourceType /\ a.heap = h /\ a.list = fs.list /\ a.exps = fs.exps
      /\ a.opts = fs.opts /\ a.count = fs.count /\ a.failures = fs.failures
  BY Zenon, <1>5 DEF SourceType
<1>7. t \in DOMAIN a.heap /\ a.heap[t].mapId = NoId BY <1>4, <1>6 DEF NewTable
<1>8. PICK g : g = AddExtensionMap(a, t) OBVIOUS
<1>9. /\ g \in SourceType /\ g.list = Append(a.list, t)
      /\ g.exps = a.exps /\ g.opts = a.opts /\ g.count = a.count /\ g.failures = a.failures
      /\ DOMAIN g.heap = DOMAIN a.heap
      /\ \A u \in DOMAIN a.heap : u # t => g.heap[u] = a.heap[u]
      /\ g.heap[t].id = a.heap[t].id /\ g.heap[t].mapId = Len(a.list)
      /\ g.heap[t].ex = a.heap[t].ex /\ g.heap[t].freed = a.heap[t].freed
  BY Zenon, <1>6, <1>7, <1>8, NewMapDoes
<1>10. \A u \in DOMAIN fs.heap : g.heap[u] = fs.heap[u] BY <1>4, <1>6, <1>9
<1>11. g.heap[t].id = 0 /\ g.heap[t].ex = V5Layout /\ ~g.heap[t].freed
  BY <1>4, <1>6, <1>9 DEF NewTable
<1>12. WithV5Map(fs, t) = g BY <1>3, <1>5, <1>8 DEF WithV5Map
<1>13. MapJoined(fs, g, t) BY <1>4, <1>6, <1>9, <1>10, <1>11 DEF MapJoined
<1> QED BY <1>12, <1>13

LEMMA MapJoinedPlaced ==
    ASSUME NEW fs, Placed(fs), NEW g, NEW t, MapJoined(fs, g, t)
    PROVE  /\ Placed(g) /\ InList(g, t) /\ (Complete(fs) => Complete(g))
           /\ \A j \in DOMAIN fs.exps : Live(g, j) = Live(fs, j) /\ t \notin Live(g, j)
           /\ t \in DOMAIN g.heap /\ ~g.heap[t].freed /\ g.heap[t].mapId \in Nat /\ t \in Nat
<1>1. fs \in SourceType /\ fs.list \in Seq(Nat) /\ fs.heap \in Seq(TableType) BY Parts DEF Placed
<1>2. g \in SourceType /\ g.exps = fs.exps BY DEF MapJoined
<1>3. t \notin DOMAIN fs.heap /\ t \in Nat BY <1>1 DEF MapJoined
<1>4. \A j \in DOMAIN fs.exps : Live(g, j) = Live(fs, j) BY <1>2 DEF Live
<1>5. \A u \in DOMAIN fs.heap : u \in DOMAIN g.heap /\ g.heap[u] = fs.heap[u] BY DEF MapJoined
<1>6. ASSUME NEW j \in DOMAIN fs.exps PROVE Own(g, j) /\ Sound(g, j) /\ t \notin Live(g, j)
  <2>1. Own(fs, j) /\ Sound(fs, j) BY DEF Placed
  <2>2. Own(g, j) BY <1>2, <1>5, <2>1 DEF Own
  <2>3. Sound(g, j) BY <1>4, <1>5, <2>1 DEF Sound
  <2>4. t \notin Live(g, j) BY <1>3, <1>4, <2>1 DEF Sound
  <2> QED BY <2>2, <2>3, <2>4
<1>7. PICK n \in Nat : n = Len(fs.list) BY <1>1
<1>8. /\ DOMAIN g.list = DOMAIN fs.list \cup {n + 1} /\ g.list[n + 1] = t
      /\ \A m \in DOMAIN fs.list : g.list[m] = fs.list[m]
  BY <1>1, <1>3, <1>7, AppendTyped DEF MapJoined
<1>9. g.heap[t].mapId = n /\ ~g.heap[t].freed /\ t \in DOMAIN g.heap BY <1>7 DEF MapJoined
<1>10. InPlace(g)
  <2> SUFFICES ASSUME NEW m \in DOMAIN g.list, g.list[m] # 0
               PROVE  /\ g.list[m] \in DOMAIN g.heap
                      /\ g.heap[g.list[m]].mapId = m - 1 /\ ~g.heap[g.list[m]].freed
    BY DEF InPlace
  <2>1. CASE m = n + 1 BY <1>7, <1>8, <1>9, <2>1
  <2>2. CASE m \in DOMAIN fs.list
    <3>1. /\ fs.list[m] \in DOMAIN fs.heap /\ fs.heap[fs.list[m]].mapId = m - 1
          /\ ~fs.heap[fs.list[m]].freed
      BY <1>8, <2>2 DEF Placed, InPlace
    <3> QED BY <1>5, <1>8, <2>2, <3>1
  <2> QED BY <1>8, <2>1, <2>2
<1>11. \A i, j \in DOMAIN g.exps : /\ g.exps[i].dev = g.exps[j].dev => i = j
                                   /\ i # j => Live(g, i) \cap Live(g, j) = {}
  BY <1>2, <1>4 DEF Placed
<1>12. Placed(g) BY <1>2, <1>6, <1>10, <1>11 DEF Placed
<1>13. InList(g, t) BY <1>7, <1>8, <1>9 DEF InList
<1>14. ASSUME Complete(fs), NEW j \in DOMAIN fs.exps, NEW u \in Live(fs, j) PROVE InList(g, u)
  <2>1. InList(fs, u) /\ u \in DOMAIN fs.heap BY <1>14 DEF Complete, Placed, Sound
  <2> QED BY <1>5, <1>8, <2>1 DEF InList
<1>15. Complete(fs) => Complete(g) BY <1>2, <1>4, <1>14 DEF Complete
<1> QED BY <1>3, <1>4, <1>6, <1>7, <1>9, <1>12, <1>13, <1>15

\* Exporter dev has joined, with number n.
Grown(fs, g, dev, n) ==
    LET k == Len(fs.exps) + 1
        t == Len(fs.heap) + 1 IN
    /\ DOMAIN g.exps = DOMAIN fs.exps \cup {k}
    /\ \A j \in DOMAIN fs.exps : SameChain(fs.exps[j], g.exps[j])
    /\ g.exps[k].dev = dev /\ g.exps[k].sysid = n /\ g.exps[k].cur = 0
    /\ g.exps[k].list = IF dev \in V5 THEN <<t>> ELSE <<>>
    /\ \A u \in DOMAIN fs.heap : u \in DOMAIN g.heap /\ SameTable(fs.heap[u], g.heap[u])

LEMMA NewExporterDoes ==
    ASSUME NEW fs, Placed(fs), NEW dev \in Dev, ~Has(fs, dev), NEW n \in Nat,
           V5Layout \in Layout, MaxExporters \in Nat, NEW g, g = NewExporterOf(fs, dev, n)
    PROVE  Placed(g) /\ (Complete(fs) => Complete(g)) /\ Grown(fs, g, dev, n)
<1>1. fs \in SourceType /\ fs.exps \in Seq(ExporterType) /\ fs.heap \in Seq(TableType)
  BY Parts DEF Placed
<1>2. PICK e : e = [dev |-> dev, sysid |-> n, list |-> <<>>, cur |-> 0, samplers |-> {},
                    seq |-> 0, started |-> FALSE, failures |-> 0]
  BY Zenon
<1>3. IsFiniteSet({}) BY FS_EmptySet
<1>4. e \in ExporterType /\ e.dev = dev /\ e.sysid = n /\ e.list = <<>> /\ e.cur = 0
  <2>1. <<>> \in Seq(Nat) OBVIOUS
  <2>2. {} \in {S \in SUBSET Samplers : IsFiniteSet(S)} BY <1>3
  <2> QED BY <1>2, <2>1, <2>2 DEF ExporterType
<1>5. \A j \in DOMAIN fs.exps : fs.exps[j].dev # dev BY DEF Has
<1>6. PICK k : k = Len(fs.exps) + 1 OBVIOUS
<1>7. CASE dev \notin V5
  <2>1. PICK f : f = Join(fs, e) OBVIOUS
  <2>2. Joined(fs, f, e) BY <1>1, <1>4, <2>1, JoinDoes
  <2>3. Starts(e, {}) BY <1>4 DEF Starts
  <2>4. Placed(f) /\ (Complete(fs) => Complete(f)) BY <1>4, <1>5, <2>2, <2>3, JoinedPlaced
  <2>5. g = WriteExporter(f, e) BY <1>2, <1>7, <2>1 DEF NewExporterOf, Join
  <2>6. Alike(f, g) BY <1>4, <2>4, <2>5, ExporterAlike DEF Placed
  <2>7. /\ DOMAIN f.exps = DOMAIN fs.exps \cup {k} /\ f.exps[k] = e
        /\ \A j \in DOMAIN fs.exps : f.exps[j] = fs.exps[j]
    BY <1>1, <1>4, <1>6, <2>2, AppendTyped DEF Joined
  <2>8. f.heap = fs.heap BY <2>2 DEF Joined
  <2>9. Placed(g) /\ (Complete(fs) => Complete(g))
    BY <2>4, <2>6, AlikeSimilar, SimilarPlaced, SimilarComplete
  <2>10. SameChain(e, g.exps[k]) BY <2>6, <2>7 DEF Alike
  <2>11. \A j \in DOMAIN fs.exps : SameChain(fs.exps[j], g.exps[j]) BY <2>6, <2>7 DEF Alike
  <2>12. \A u \in DOMAIN fs.heap : u \in DOMAIN g.heap /\ SameTable(fs.heap[u], g.heap[u])
    BY <2>6, <2>8 DEF Alike
  <2>13. DOMAIN g.exps = DOMAIN fs.exps \cup {k} BY <2>6, <2>7 DEF Alike
  <2>14. Grown(fs, g, dev, n)
    BY <1>4, <1>6, <1>7, <2>10, <2>11, <2>12, <2>13 DEF Grown, SameChain
  <2> QED BY <2>9, <2>14
<1>8. CASE dev \in V5
  <2>1. PICK t : t = Len(fs.heap) + 1 OBVIOUS
  <2>2. PICK m : m = WithV5Map(fs, t) OBVIOUS
  <2>3. MapJoined(fs, m, t) BY <1>1, <2>1, <2>2, V5MapDoes
  <2>4. /\ Placed(m) /\ InList(m, t) /\ (Complete(fs) => Complete(m))
        /\ \A j \in DOMAIN fs.exps : Live(m, j) = Live(fs, j) /\ t \notin Live(m, j)
        /\ t \in DOMAIN m.heap /\ ~m.heap[t].freed /\ m.heap[t].mapId \in Nat /\ t \in Nat
    BY <2>3, MapJoinedPlaced
  <2>5. m \in SourceType /\ m.exps = fs.exps BY <2>3 DEF MapJoined
  <2>6. PICK s \in Samplers : s = [id |-> NoId, rate |-> 1]
    <3>1. [id |-> NoId, rate |-> 1] \in Samplers BY DEF Samplers
    <3> QED BY <3>1
  <2>7. PICK w : w = [e EXCEPT !.list = <<t>>, !.samplers = {s}] OBVIOUS
  <2>8. w \in ExporterType /\ w.dev = dev /\ w.sysid = n /\ w.list = <<t>> /\ w.cur = 0
    <3>1. <<t>> \in Seq(Nat) BY <2>4
    <3>2. {s} \in {S \in SUBSET Samplers : IsFiniteSet(S)} BY Zenon, FS_Singleton
    <3> QED BY Zenon, <1>4, <2>7, <3>1, <3>2 DEF ExporterType
  <2>9. PICK f : f = Join(m, w) OBVIOUS
  <2>10. Joined(m, f, w) BY <2>5, <2>8, <2>9, JoinDoes
  <2>11. Starts(w, {t}) BY <2>8 DEF Starts
  <2>12. Placed(f) /\ (Complete(fs) => Complete(f))
    <3>1. \A u \in {t} : u \in DOMAIN m.heap /\ ~m.heap[u].freed /\ m.heap[u].mapId \in Nat
      BY <2>4
    <3>2. \A j \in DOMAIN m.exps : m.exps[j].dev # w.dev /\ Live(m, j) \cap {t} = {}
      BY <1>5, <2>4, <2>5, <2>8
    <3>3. \A u \in {t} : InList(m, u) BY <2>4
    <3> QED BY <2>4, <2>8, <2>10, <2>11, <3>1, <3>2, <3>3, JoinedPlaced
  <2>13. PICK h : h = WriteExporter(f, w) OBVIOUS
  <2>14. Alike(f, h) BY <2>8, <2>12, <2>13, ExporterAlike DEF Placed
  <2>15. g = WriteSampler(h, w, s)
    <3>1. [WithV5Map(fs, t) EXCEPT !.exps = Append(@, w), !.count = @ + 1] = f
      BY <2>2, <2>9 DEF Join
    <3> QED BY <1>2, <1>8, <2>1, <2>6, <2>7, <2>13, <3>1 DEF NewExporterOf, WithV5Map
  <2>16. Alike(h, g)
    <3>1. h \in SourceType BY <2>14 DEF Alike
    <3> QED BY <2>8, <2>15, <3>1, SamplerAlike
  <2>17. Alike(f, g) BY <2>14, <2>16, AlikeChain
  <2>18. Placed(g) /\ (Complete(fs) => Complete(g))
    BY <2>12, <2>17, AlikeSimilar, SimilarPlaced, SimilarComplete
  <2>19. /\ DOMAIN f.exps = DOMAIN fs.exps \cup {k} /\ f.exps[k] = w
         /\ \A j \in DOMAIN fs.exps : f.exps[j] = fs.exps[j]
    BY <1>1, <1>6, <2>5, <2>8, <2>10, AppendTyped DEF Joined
  <2>20. f.heap = m.heap BY <2>10 DEF Joined
  <2>21. SameChain(w, g.exps[k]) BY <2>17, <2>19 DEF Alike
  <2>22. \A j \in DOMAIN fs.exps : SameChain(fs.exps[j], g.exps[j]) BY <2>17, <2>19 DEF Alike
  <2>23. \A u \in DOMAIN fs.heap : u \in DOMAIN m.heap /\ m.heap[u] = fs.heap[u]
    BY <2>3 DEF MapJoined
  <2>24. \A u \in DOMAIN fs.heap : u \in DOMAIN g.heap /\ SameTable(fs.heap[u], g.heap[u])
    BY <2>17, <2>20, <2>23 DEF Alike
  <2>25. DOMAIN g.exps = DOMAIN fs.exps \cup {k} BY <2>17, <2>19 DEF Alike
  <2>26. Grown(fs, g, dev, n)
    BY <1>6, <1>8, <2>1, <2>8, <2>21, <2>22, <2>24, <2>25 DEF Grown, SameChain
  <2> QED BY <2>18, <2>26
<1> QED BY <1>7, <1>8

\* The exporter of a packet.
LEMMA GetExporterDoes ==
    ASSUME NEW fs, Placed(fs), NEW dev \in Dev, NEW sys \in Nat,
           V5Layout \in Layout, MaxExporters \in Nat, NEW g, g = GetExporter(fs, dev, sys)
    PROVE  /\ Placed(g) /\ (Complete(fs) => Complete(g))
           /\ Has(fs, dev) => g = fs
           /\ ~Has(fs, dev) => Grown(fs, g, dev, AssignExporterID(sys))
           /\ Index(g, dev) \in DOMAIN g.exps /\ g.exps[Index(g, dev)].dev = dev
<1>1. CASE Has(fs, dev)
  <2>1. g = fs BY <1>1 DEF GetExporter
  <2>2. \E k \in DOMAIN g.exps : g.exps[k].dev = dev BY <1>1, <2>1 DEF Has
  <2>3. Index(g, dev) \in DOMAIN g.exps /\ g.exps[Index(g, dev)].dev = dev BY <2>2 DEF Index
  <2> QED BY <1>1, <2>1, <2>3
<1>2. CASE ~Has(fs, dev)
  <2>1. PICK n \in Nat : n = AssignExporterID(sys) BY DEF AssignExporterID
  <2>2. g = NewExporterOf(fs, dev, n) BY <1>2, <2>1 DEF GetExporter
  <2>3. Placed(g) /\ (Complete(fs) => Complete(g)) /\ Grown(fs, g, dev, n)
    BY <1>2, <2>2, NewExporterDoes
  <2>4. \E k \in DOMAIN g.exps : g.exps[k].dev = dev BY <2>3 DEF Grown
  <2>5. Index(g, dev) \in DOMAIN g.exps /\ g.exps[Index(g, dev)].dev = dev BY <2>4 DEF Index
  <2> QED BY <1>2, <2>1, <2>3, <2>5
<1> QED BY <1>1, <1>2

-----------------------------------------------------------------------------
(* What decoding a set does to an exporter and to the others               *)

\* Only exporter k gets other tables.
Touches(fs, g, k) ==
    /\ Placed(g) /\ DOMAIN g.exps = DOMAIN fs.exps
    /\ \A j \in DOMAIN fs.exps : j # k =>
          /\ SameChain(fs.exps[j], g.exps[j])
          /\ \A t \in Live(fs, j) : SameTable(fs.heap[t], g.heap[t])
    /\ g.exps[k].dev = fs.exps[k].dev /\ g.exps[k].sysid = fs.exps[k].sysid

\* Its chain and templates are the same, too; a table that is only in the cache
\* may be forgotten.
KeepsChain(fs, g, k) ==
    /\ g.exps[k].list = fs.exps[k].list
    /\ \A i \in DOMAIN fs.exps[k].list :
          SameTable(fs.heap[fs.exps[k].list[i]], g.heap[fs.exps[k].list[i]])
    /\ g.exps[k].cur = 0 \/ g.exps[k].cur = fs.exps[k].cur
         \/ g.exps[k].cur \in Range(fs.exps[k].list)
    /\ g.exps[k].cur # 0 => g.heap[g.exps[k].cur].id = fs.heap[g.exps[k].cur].id

LEMMA InHeap == ASSUME NEW fs, Placed(fs), NEW k \in DOMAIN fs.exps
                PROVE  /\ \A t \in Live(fs, k) : t \in DOMAIN fs.heap
                       /\ \A i \in DOMAIN fs.exps[k].list : fs.exps[k].list[i] \in DOMAIN fs.heap
                       /\ fs.exps[k].cur # 0 => fs.exps[k].cur \in DOMAIN fs.heap
<1>1. Own(fs, k) /\ Sound(fs, k) BY DEF Placed
<1> QED BY <1>1 DEF Own, Sound

LEMMA AlikeTouches ==
    ASSUME NEW fs, Placed(fs), NEW g, Alike(fs, g), NEW k \in DOMAIN fs.exps
    PROVE  Touches(fs, g, k) /\ KeepsChain(fs, g, k) /\ (Complete(fs) => Complete(g))
<1>1. Placed(g) /\ (Complete(fs) => Complete(g))
  BY AlikeSimilar, SimilarPlaced, SimilarComplete
<1>2. DOMAIN g.exps = DOMAIN fs.exps /\ \A j \in DOMAIN fs.exps : SameChain(fs.exps[j], g.exps[j])
  BY DEF Alike
<1>3. \A u \in DOMAIN fs.heap : SameTable(fs.heap[u], g.heap[u]) BY DEF Alike
<1>4. Touches(fs, g, k)
  <2>1. \A j \in DOMAIN fs.exps : \A t \in Live(fs, j) : SameTable(fs.heap[t], g.heap[t])
    BY <1>3, InHeap
  <2> QED BY <1>1, <1>2, <2>1 DEF Touches, SameChain
<1>5. KeepsChain(fs, g, k)
  <2>1. SameChain(fs.exps[k], g.exps[k]) BY <1>2
  <2>2. \A i \in DOMAIN fs.exps[k].list :
           SameTable(fs.heap[fs.exps[k].list[i]], g.heap[fs.exps[k].list[i]])
    BY <1>3, InHeap
  <2>3. fs.exps[k].cur # 0 => g.heap[fs.exps[k].cur].id = fs.heap[fs.exps[k].cur].id
    BY <1>3, InHeap DEF SameTable
  <2> QED BY <2>1, <2>2, <2>3 DEF KeepsChain, SameChain
<1> QED BY <1>1, <1>4, <1>5

LEMMA LookedUpTouches ==
    ASSUME NEW fs, Placed(fs), NEW k \in DOMAIN fs.exps, NEW id, NEW g, g = LookedUp(fs, k, id)
    PROVE  Touches(fs, g, k) /\ KeepsChain(fs, g, k) /\ (Complete(fs) => Complete(g))
<1>1. PICK c : c = Lookup(fs, k, id) OBVIOUS
<1>2. CacheSet(fs, g, k, c) BY <1>1, LookedUpDoes
<1>3. Placed(g) /\ (Complete(fs) => Complete(g)) BY <1>1, <1>2, CachePlaced
<1>4. /\ DOMAIN g.exps = DOMAIN fs.exps /\ g.heap = fs.heap
      /\ \A j \in DOMAIN fs.exps : j # k => g.exps[j] = fs.exps[j]
      /\ g.exps[k].cur = c /\ g.exps[k].list = fs.exps[k].list
      /\ g.exps[k].dev = fs.exps[k].dev /\ g.exps[k].sysid = fs.exps[k].sysid
  BY <1>2 DEF CacheSet
<1>5. Touches(fs, g, k) BY <1>3, <1>4 DEF Touches, SameChain, SameTable
<1>6. c = 0 \/ c = fs.exps[k].cur \/ c \in Range(fs.exps[k].list)
  <2>1. c # 0 => c \in Live(fs, k) BY <1>1, LookupIs
  <2> QED BY <2>1 DEF Live
<1>7. KeepsChain(fs, g, k) BY <1>4, <1>6 DEF KeepsChain, SameTable
<1> QED BY <1>3, <1>5, <1>7

LEMMA TouchesChain ==
    ASSUME NEW a, NEW b, NEW c, Placed(a), NEW k \in DOMAIN a.exps,
           Touches(a, b, k), KeepsChain(a, b, k), Alike(b, c)
    PROVE  Touches(a, c, k) /\ KeepsChain(a, c, k) /\ (Complete(b) => Complete(c))
<1>1. Placed(b) /\ DOMAIN b.exps = DOMAIN a.exps BY DEF Touches
<1>2. Touches(b, c, k) /\ KeepsChain(b, c, k) /\ (Complete(b) => Complete(c))
  BY <1>1, AlikeTouches
<1>3. \A j \in DOMAIN a.exps : j # k => Live(b, j) = Live(a, j)
  BY DEF Touches, SameChain, Live
<1>4. ASSUME NEW j \in DOMAIN a.exps, j # k
      PROVE  /\ SameChain(a.exps[j], c.exps[j])
             /\ \A t \in Live(a, j) : SameTable(a.heap[t], c.heap[t])
  <2>1. SameChain(a.exps[j], b.exps[j]) /\ SameChain(b.exps[j], c.exps[j])
    BY <1>1, <1>2, <1>4 DEF Touches
  <2>2. \A t \in Live(a, j) : SameTable(a.heap[t], b.heap[t]) BY <1>4 DEF Touches
  <2>3. \A t \in Live(a, j) : SameTable(b.heap[t], c.heap[t])
    BY <1>1, <1>2, <1>3, <1>4 DEF Touches
  <2> QED BY <2>1, <2>2, <2>3 DEF SameChain, SameTable
<1>5. /\ Placed(c) /\ DOMAIN c.exps = DOMAIN a.exps
      /\ c.exps[k].dev = a.exps[k].dev /\ c.exps[k].sysid = a.exps[k].sysid
  BY <1>1, <1>2 DEF Touches
<1>6. Touches(a, c, k) BY <1>4, <1>5 DEF Touches
<1>7. KeepsChain(a, c, k)
  <2>1. c.exps[k].list = a.exps[k].list /\ c.exps[k].cur = b.exps[k].cur
    BY <1>1 DEF KeepsChain, Alike, SameChain
  <2>2. \A i \in DOMAIN a.exps[k].list :
           SameTable(a.heap[a.exps[k].list[i]], c.heap[a.exps[k].list[i]])
    <3>1. \A i \in DOMAIN a.exps[k].list :
             SameTable(a.heap[a.exps[k].list[i]], b.heap[a.exps[k].list[i]])
      BY DEF KeepsChain
    <3>2. \A i \in DOMAIN a.exps[k].list :
             SameTable(b.heap[a.exps[k].list[i]], c.heap[a.exps[k].list[i]])
      <4>1. b.exps[k].list = a.exps[k].list BY DEF KeepsChain
      <4>2. \A i \in DOMAIN b.exps[k].list :
               SameTable(b.heap[b.exps[k].list[i]], c.heap[b.exps[k].list[i]])
        BY <1>2 DEF KeepsChain
      <4> QED BY <4>1, <4>2
    <3> QED BY <3>1, <3>2 DEF SameTable
  <2>3. b.exps[k].cur # 0 => c.heap[b.exps[k].cur].id = a.heap[b.exps[k].cur].id
    <3>1. b.exps[k].cur # 0 => b.heap[b.exps[k].cur].id = a.heap[b.exps[k].cur].id
      BY DEF KeepsChain
    <3>2. b.exps[k].cur # 0 => c.heap[b.exps[k].cur].id = b.heap[b.exps[k].cur].id
      BY <1>1, <1>2, <2>1 DEF KeepsChain
    <3> QED BY <3>1, <3>2
  <2>4. b.exps[k].cur = 0 \/ b.exps[k].cur = a.exps[k].cur
           \/ b.exps[k].cur \in Range(a.exps[k].list)
    BY DEF KeepsChain
  <2> QED BY <2>1, <2>2, <2>3, <2>4 DEF KeepsChain
<1> QED BY <1>2, <1>6, <1>7

\* A record of a table in use.
LEMMA RecordTouches ==
    ASSUME NEW fs, Placed(fs), NEW k \in DOMAIN fs.exps, NEW t \in Live(fs, k)
    PROVE  Alike(fs, AddRecord(fs, t))
<1>1. fs \in SourceType BY DEF Placed
<1>2. t \in DOMAIN fs.heap /\ fs.heap[t].mapId \in Nat BY DEF Placed, Sound
<1>3. PICK g : g = AddRecord(fs, t) OBVIOUS
<1>4. RecordAdded(fs, g, t) BY <1>1, <1>2, <1>3, AddRecordDoes
<1> QED BY <1>1, <1>3, <1>4, RecordAlike

\* A table that was found is in use in the cache.
LEMMA FoundInCache ==
    ASSUME NEW fs, Placed(fs), NEW k \in DOMAIN fs.exps, NEW id, Lookup(fs, k, id) # 0
    PROVE  Lookup(fs, k, id) \in Live(LookedUp(fs, k, id), k)
<1>1. PICK c : c = Lookup(fs, k, id) OBVIOUS
<1>2. PICK g : g = LookedUp(fs, k, id) OBVIOUS
<1>3. CacheSet(fs, g, k, c) BY <1>1, <1>2, LookedUpDoes
<1>4. g.exps[k].cur = c BY <1>3 DEF CacheSet
<1> QED BY <1>1, <1>2, <1>4, LiveIs

LEMMA DataV9Touches ==
    ASSUME NEW fs, Placed(fs), NEW k \in DOMAIN fs.exps, NEW id, NEW rate \in Rates,
           NEW g, g = DataV9(fs, k, id, rate)
    PROVE  Touches(fs, g, k) /\ KeepsChain(fs, g, k) /\ (Complete(fs) => Complete(g))
<1>1. PICK h : h = LookedUp(fs, k, id) OBVIOUS
<1>2. Touches(fs, h, k) /\ KeepsChain(fs, h, k) /\ (Complete(fs) => Complete(h))
  BY <1>1, LookedUpTouches
<1>3. Placed(h) /\ k \in DOMAIN h.exps /\ h \in SourceType BY <1>2 DEF Touches, Placed
<1>4. Alike(h, g)
  <2>1. CASE Lookup(fs, k, id) # 0
    <3>1. g = AddRecord(h, Lookup(fs, k, id)) BY <1>1, <2>1 DEF DataV9, Decodable
    <3>2. Lookup(fs, k, id) \in Live(h, k) BY <1>1, <2>1, FoundInCache
    <3> QED BY <1>3, <3>1, <3>2, RecordTouches
  <2>2. CASE Lookup(fs, k, id) = 0
    <3>1. g = OptionData(h, k, id, rate) BY <1>1, <2>2 DEF DataV9, Decodable
    <3> QED BY <1>3, <3>1, OptionsAlike
  <2> QED BY <2>1, <2>2
<1> QED BY <1>2, <1>4, TouchesChain

\* A record of IPFIX is counted.
CountRecord(fs, k, n) == [fs EXCEPT !.exps[k] = [@ EXCEPT !.seq = n, !.started = TRUE]]

LEMMA CountRecordDoes ==
    ASSUME NEW fs \in SourceType, NEW k \in DOMAIN fs.exps, NEW n \in Nat
    PROVE  CountsOnly(fs, CountRecord(fs, k, n), k)
<1>1. fs.exps \in Seq(ExporterType) /\ fs.exps[k] \in ExporterType BY Parts
<1>2. PICK v : v = [fs.exps[k] EXCEPT !.seq = n, !.started = TRUE] OBVIOUS
<1>3. v \in ExporterType /\ SameChain(fs.exps[k], v) /\ v.samplers = fs.exps[k].samplers
  BY Zenon, <1>1, <1>2 DEF ExporterType, SameChain
<1>4. PICK x : x = [fs.exps EXCEPT ![k] = v] BY Zenon
<1>5. /\ x \in Seq(ExporterType) /\ DOMAIN x = DOMAIN fs.exps /\ x[k] = v
      /\ \A j \in DOMAIN fs.exps : j # k => x[j] = fs.exps[j]
  BY <1>1, <1>3, <1>4, NewExporterAt
<1>6. PICK g : g = [fs EXCEPT !.exps = x] BY Zenon
<1>7. CountRecord(fs, k, n) = g BY <1>2, <1>4, <1>6 DEF CountRecord
<1>8. /\ g \in SourceType /\ g.exps = x
      /\ g.heap = fs.heap /\ g.list = fs.list /\ g.opts = fs.opts
      /\ g.count = fs.count /\ g.one = fs.one /\ g.all = fs.all /\ g.copy = fs.copy
  BY Zenon, <1>5, <1>6 DEF SourceType
<1>9. CountsOnly(fs, g, k) BY <1>3, <1>5, <1>8 DEF CountsOnly
<1> QED BY <1>7, <1>9

LEMMA DataIpfixTouches ==
    ASSUME NEW fs, Placed(fs), NEW k \in DOMAIN fs.exps, NEW id, SeqWrap \in Nat \ {0},
           NEW g, g = DataIpfix(fs, k, id)
    PROVE  Touches(fs, g, k) /\ KeepsChain(fs, g, k) /\ (Complete(fs) => Complete(g))
<1>1. PICK h : h = LookedUp(fs, k, id) OBVIOUS
<1>2. Touches(fs, h, k) /\ KeepsChain(fs, h, k) /\ (Complete(fs) => Complete(h))
  BY <1>1, LookedUpTouches
<1>3. Placed(h) /\ k \in DOMAIN h.exps /\ h \in SourceType BY <1>2 DEF Touches, Placed
<1>4. Alike(h, g)
  <2>1. CASE Lookup(fs, k, id) # 0
    <3>1. PICK a : a = AddRecord(h, Lookup(fs, k, id)) OBVIOUS
    <3>2. Lookup(fs, k, id) \in Live(h, k) BY <1>1, <2>1, FoundInCache
    <3>3. Alike(h, a) BY <1>3, <3>1, <3>2, RecordTouches
    <3>4. a \in SourceType /\ k \in DOMAIN a.exps BY <1>3, <3>3 DEF Alike
    <3>5. PICK n : n = (fs.exps[k].seq + 1) % SeqWrap OBVIOUS
    <3>6. n \in Nat
      <4>1. fs.exps[k] \in ExporterType BY Parts DEF Placed
      <4>2. fs.exps[k].seq \in Nat BY <4>1 DEF ExporterType
      <4> QED BY <3>5, <4>2
    <3>7. g = CountRecord(a, k, n) BY <1>1, <2>1, <3>1, <3>5 DEF DataIpfix, Decodable, CountRecord
    <3>8. CountsOnly(a, g, k) BY <3>4, <3>6, <3>7, CountRecordDoes
    <3>9. Alike(a, g) BY <3>4, <3>8, CountsAlike
    <3> QED BY <3>3, <3>9, AlikeChain
  <2>2. CASE Lookup(fs, k, id) = 0
    <3>1. g = h BY <1>1, <2>2 DEF DataIpfix, Decodable
    <3> QED BY <1>3, <3>1, AlikeSelf
  <2> QED BY <2>1, <2>2
<1> QED BY <1>2, <1>4, TouchesChain

\* A template is in a new table at the end of the chain, or in the one that was
\* found, wherever that is.
Templated(fs, g, k, id, ex) ==
    \/ \E t \in Nat \ DOMAIN fs.heap :
          /\ \A i \in DOMAIN fs.exps[k].list : fs.heap[fs.exps[k].list[i]].id # id
          /\ ~Cached(fs, k, id)
          /\ g.exps[k].list = Append(fs.exps[k].list, t) /\ g.exps[k].cur = 0
          /\ \A u \in DOMAIN fs.heap : SameTable(fs.heap[u], g.heap[u])
          /\ g.heap[t].id = id /\ g.heap[t].ex = ex
    \/ \E t \in Live(fs, k) :
          /\ t = Lookup(fs, k, id) /\ fs.heap[t].id = id
          /\ g.exps[k].list = fs.exps[k].list /\ g.exps[k].cur = t
          /\ g.heap[t].id = id /\ g.heap[t].ex = ex
          /\ \A u \in DOMAIN fs.heap \ {t} : g.heap[u].id = fs.heap[u].id
             /\ g.heap[u].ex = fs.heap[u].ex

LEMMA TemplateTouches ==
    ASSUME NEW fs, Placed(fs), NEW k \in DOMAIN fs.exps, NEW id \in TemplateIds,
           NEW ex \in Layout,
           NEW g, g = AddTemplate(fs, k, id, ex)
    PROVE  Touches(fs, g, k) /\ Templated(fs, g, k, id, ex) /\ (Complete(fs) => Complete(g))
<1>1. PICK h : h = LookedUp(fs, k, id) OBVIOUS
<1>2. Touches(fs, h, k) /\ KeepsChain(fs, h, k) /\ (Complete(fs) => Complete(h))
  BY <1>1, LookedUpTouches
<1>3. Placed(h) /\ DOMAIN h.exps = DOMAIN fs.exps /\ h \in SourceType BY <1>2 DEF Touches, Placed
<1>4. PICK c : c = Lookup(fs, k, id) OBVIOUS
<1>5. CacheSet(fs, h, k, c) BY <1>1, <1>4, LookedUpDoes
<1>6. /\ h.heap = fs.heap /\ h.list = fs.list /\ h.exps[k].cur = c
      /\ h.exps[k].list = fs.exps[k].list
  BY <1>5 DEF CacheSet
<1>7. \A j \in DOMAIN fs.exps : j # k => h.exps[j] = fs.exps[j] BY <1>5 DEF CacheSet
<1>8. h.exps[k].dev = fs.exps[k].dev /\ h.exps[k].sysid = fs.exps[k].sysid BY <1>5 DEF CacheSet
<1>9. CASE c = 0
  <2>1. PICK t : t = Len(fs.heap) + 1 OBVIOUS
  <2>2. TableAdded(h, g, k, t, id, ex)
    <3>1. g = AddTable(fs, k, id, ex) BY <1>4, <1>9 DEF AddTemplate
    <3> QED BY Zenon, <1>1, <1>4, <1>9, <2>1, <3>1, AddTableDoes
  <2>3. \A i \in DOMAIN fs.exps[k].list : fs.heap[fs.exps[k].list[i]].id # id
    <3>1. Lookup(fs, k, id) = 0 BY <1>4, <1>9
    <3> QED BY <3>1, LookupIs
  <2>4. ~Cached(fs, k, id) BY Zenon, <1>4, <1>9, LookupIs
  <2>5. Placed(g) /\ (Complete(h) => Complete(g))
    <3>1. \A i \in DOMAIN h.exps[k].list : h.heap[h.exps[k].list[i]].id # id BY <1>6, <2>3
    <3>2. h.exps[k].cur = 0 BY <1>6, <1>9
    <3>3. k \in DOMAIN h.exps BY <1>3
    <3> QED BY <1>3, <2>2, <3>1, <3>2, <3>3, TableAddedPlaced
  <2>6. t \in Nat \ DOMAIN fs.heap
    <3>1. fs.heap \in Seq(TableType) BY Parts DEF Placed
    <3> QED BY <2>1, <3>1
  <2>7. \A u \in DOMAIN fs.heap : SameTable(fs.heap[u], g.heap[u]) BY <1>6, <2>2 DEF TableAdded
  <2>8. /\ g.heap[t].id = id /\ g.heap[t].ex = ex
        /\ g.exps[k].list = Append(fs.exps[k].list, t) /\ g.exps[k].cur = 0
    BY <1>6, <1>9, <2>2 DEF TableAdded
  <2>9. Templated(fs, g, k, id, ex) BY <2>3, <2>4, <2>6, <2>7, <2>8 DEF Templated
  <2>10. /\ DOMAIN g.exps = DOMAIN fs.exps
         /\ \A j \in DOMAIN fs.exps : j # k => g.exps[j] = fs.exps[j]
         /\ g.exps[k].dev = fs.exps[k].dev /\ g.exps[k].sysid = fs.exps[k].sysid
    BY <1>3, <1>7, <1>8, <2>2 DEF TableAdded
  <2>11. \A j \in DOMAIN fs.exps : \A u \in Live(fs, j) : SameTable(fs.heap[u], g.heap[u])
    BY <2>7, InHeap
  <2>12. Touches(fs, g, k) BY <2>5, <2>10, <2>11 DEF Touches, SameChain
  <2> QED BY <1>2, <2>5, <2>9, <2>12
<1>10. CASE c # 0
  <2>1. Refreshed(h, g, c, ex)
    <3>1. g = RefreshTable(fs, k, id, ex) BY <1>4, <1>10 DEF AddTemplate
    <3> QED BY <1>1, <1>4, <1>10, <3>1, RefreshTableDoes
  <2>2. c \in Live(fs, k) /\ fs.heap[c].id = id BY <1>4, <1>10, LookupIs
  <2>3. c \in DOMAIN fs.heap BY <2>2, InHeap
  <2>4. /\ Similar(h, g) /\ g.heap[c].ex = ex /\ g.exps = h.exps
        /\ \A u \in DOMAIN h.heap : u # c => g.heap[u].ex = h.heap[u].ex
    <3>1. c \in DOMAIN h.heap BY <1>6, <2>3
    <3>2. OnlyTemplate(h, g, c, ex) BY <2>1, <3>1, RefreshedSimilar
    <3> QED BY <3>2 DEF OnlyTemplate
  <2>5. Placed(g) /\ (Complete(h) => Complete(g))
    BY <1>3, <2>4, SimilarPlaced, SimilarComplete
  <2>6. \A u \in DOMAIN fs.heap : /\ g.heap[u].id = fs.heap[u].id
                                  /\ g.heap[u].mapId = fs.heap[u].mapId
                                  /\ g.heap[u].freed = fs.heap[u].freed
    BY <1>6, <2>4 DEF Similar
  <2>7. Templated(fs, g, k, id, ex)
    BY <1>4, <1>6, <2>2, <2>3, <2>4, <2>6 DEF Templated
  <2>8. ASSUME NEW j \in DOMAIN fs.exps, j # k, NEW u \in Live(fs, j)
        PROVE  SameTable(fs.heap[u], g.heap[u])
    <3>1. u # c
      <4>1. Live(fs, j) \cap Live(fs, k) = {} BY <2>8 DEF Placed
      <4> QED BY <2>2, <2>8, <4>1
    <3>2. u \in DOMAIN fs.heap BY <2>8, InHeap
    <3> QED BY <1>6, <2>4, <2>6, <3>1, <3>2 DEF SameTable
  <2>9. \A j \in DOMAIN fs.exps : j # k => SameChain(fs.exps[j], g.exps[j])
    BY <1>7, <2>4 DEF SameChain
  <2>10. Touches(fs, g, k) BY <1>3, <1>8, <2>4, <2>5, <2>8, <2>9 DEF Touches
  <2> QED BY <1>2, <2>5, <2>7, <2>10
<1> QED BY <1>9, <1>10

LEMMA RestKeeps ==
    ASSUME NEW S, NEW q \in Seq(S), NEW i \in DOMAIN q, i # 1, NEW j \in DOMAIN q, j # i
    PROVE  \E n \in DOMAIN Rest(q, i) : Rest(q, i)[n] = q[j]
<1>1. PICK L \in Nat : L = Len(q) /\ DOMAIN q = 1..L OBVIOUS
<1>2. PICK r : r = RemoveAt(q, i) OBVIOUS
<1>3. /\ DOMAIN r = 1..(L - 1)
      /\ \A n \in 1..(L - 1) : r[n] = q[IF n < i THEN n ELSE n + 1]
  BY Zenon, <1>1, <1>2, RemoveAtIs
<1>4. Rest(q, i) = r BY <1>2 DEF Rest
<1>5. i \in 1..L /\ j \in 1..L BY <1>1
<1>6. CASE j < i
  <2>1. j \in 1..(L - 1) BY <1>5, <1>6
  <2>2. r[j] = q[j] BY <1>3, <1>6, <2>1
  <2> QED BY <1>3, <1>4, <2>1, <2>2
<1>7. CASE j > i
  <2>1. j - 1 \in 1..(L - 1) /\ ~(j - 1 < i) /\ (j - 1) + 1 = j BY <1>5, <1>7
  <2>2. r[j - 1] = q[j] BY <1>3, <2>1
  <2> QED BY <1>3, <1>4, <2>1, <2>2
<1> QED BY <1>5, <1>6, <1>7

\* The table of an id is removed from a chain; with the head, all of it.
Withdrawn(fs, g, k, id) ==
    LET old == fs.exps[k].list
        new == g.exps[k].list
        At(j) == fs.heap[old[j]].id IN
    /\ \A n \in DOMAIN new : \E j \in DOMAIN old : new[n] = old[j] /\ At(j) # id
    /\ (1 \in DOMAIN old => At(1) # id) =>
          \A j \in DOMAIN old : At(j) # id => \E n \in DOMAIN new : new[n] = old[j]
    /\ \A u \in DOMAIN fs.heap : g.heap[u].id = fs.heap[u].id /\ g.heap[u].ex = fs.heap[u].ex
    /\ g.exps[k].cur = 0 \/ g.exps[k].cur = fs.exps[k].cur
    /\ g.exps[k].cur # 0 => \A j \in DOMAIN old : old[j] = g.exps[k].cur => At(j) # id

LEMMA RemoveTouches ==
    ASSUME NEW fs, Placed(fs), NEW k \in DOMAIN fs.exps, NEW id, NEW g, g = RemoveTable(fs, k, id)
    PROVE  Touches(fs, g, k) /\ Withdrawn(fs, g, k, id)
<1>0. Placed(g) BY RemovePlaced
<1>1. CASE InChain(fs, k, id) = {}
  <2>1. g = fs BY <1>1 DEF RemoveTable
  <2>2. \A j \in DOMAIN fs.exps[k].list : fs.heap[fs.exps[k].list[j]].id # id
    BY <1>1 DEF InChain
  <2>3. Withdrawn(fs, g, k, id) BY <2>1, <2>2 DEF Withdrawn
  <2> QED BY <1>0, <2>1, <2>3 DEF Touches, SameChain, SameTable
<1>2. CASE InChain(fs, k, id) # {}
  <2> DEFINE l == fs.exps[k].list
  <2>1. PICK i \in DOMAIN l : RemovedAt(fs, k, i, id, g) BY <1>2, RemoveTableDoes
  <2>2. PICK t : t = l[i] OBVIOUS
  <2>3. fs \in SourceType /\ fs.list \in Seq(Nat) /\ fs.exps[k] \in ExporterType
    BY Parts DEF Placed
  <2>4. l \in Seq(Nat) /\ fs.exps[k].cur \in Nat BY <2>3 DEF ExporterType
  <2>5. PICK m \in Nat : m = fs.heap[t].mapId BY <2>1, <2>2 DEF RemovedAt
  <2>6. PICK list \in Seq(Nat) : list = Cleared(fs.list, m)
    BY <2>3, ClearedIs
  <2>7. PICK rest \in Seq(Nat) : rest = Rest(l, i) BY <2>4, RestIs
  <2>8. PICK at \in [DOMAIN rest -> DOMAIN l \ {i}] :
                 /\ \A n \in DOMAIN rest : rest[n] = l[at[n]]
                 /\ \A n, j \in DOMAIN rest : at[n] = at[j] => n = j
    <3>1. Within(rest, l, i) BY <2>4, <2>7, RestIs
    <3> QED BY <3>1 DEF Within
  <2>9. PICK c \in Nat : c = IF fs.exps[k].cur = t THEN 0 ELSE fs.exps[k].cur BY <2>4
  <2>10. g = Dropped(fs, k, rest, c, list, {t})
    BY Zenon, <2>1, <2>2, <2>5, <2>6, <2>7, <2>9 DEF RemovedAt
  <2>11. /\ \A u \in DOMAIN fs.heap : /\ g.heap[u].id = fs.heap[u].id
                                      /\ g.heap[u].mapId = fs.heap[u].mapId
                                      /\ g.heap[u].ex = fs.heap[u].ex
                                      /\ u \notin {t} => g.heap[u].freed = fs.heap[u].freed
         /\ DOMAIN g.exps = DOMAIN fs.exps
         /\ \A j \in DOMAIN fs.exps : j # k => g.exps[j] = fs.exps[j]
         /\ g.exps[k].dev = fs.exps[k].dev /\ g.exps[k].sysid = fs.exps[k].sysid
         /\ g.exps[k].list = rest /\ g.exps[k].cur = c
    BY <2>3, <2>10, DroppedDoes
  <2>12. Own(fs, k) BY DEF Placed
  <2>13. \A n, j \in DOMAIN l : fs.heap[l[n]].id = fs.heap[l[j]].id => n = j BY <2>12 DEF Own
  <2>14. fs.heap[l[i]].id = id BY Zenon, <2>1 DEF RemovedAt
  <2>15. \A n \in DOMAIN rest : \E j \in DOMAIN l : rest[n] = l[j] /\ fs.heap[l[j]].id # id
    <3> SUFFICES ASSUME NEW n \in DOMAIN rest
                 PROVE  \E j \in DOMAIN l : rest[n] = l[j] /\ fs.heap[l[j]].id # id
      OBVIOUS
    <3>1. at[n] \in DOMAIN l /\ at[n] # i BY <2>8
    <3> QED BY Zenon, <2>8, <2>13, <2>14, <3>1
  <2>16. (1 \in DOMAIN l => fs.heap[l[1]].id # id) =>
            \A j \in DOMAIN l : fs.heap[l[j]].id # id => \E n \in DOMAIN rest : rest[n] = l[j]
    <3> SUFFICES ASSUME 1 \in DOMAIN l => fs.heap[l[1]].id # id,
                        NEW j \in DOMAIN l, fs.heap[l[j]].id # id
                 PROVE  \E n \in DOMAIN rest : rest[n] = l[j]
      OBVIOUS
    <3>1. i # 1 /\ j # i BY <2>14
    <3> QED BY <2>4, <2>7, <3>1, RestKeeps
  <2>17. c = 0 \/ c = fs.exps[k].cur BY <2>9
  <2>22. c # 0 => \A j \in DOMAIN l : l[j] = c => fs.heap[l[j]].id # id
    BY Zenon, <2>2, <2>9, <2>13, <2>14
  <2>18. Withdrawn(fs, g, k, id) BY <2>11, <2>15, <2>16, <2>17, <2>22 DEF Withdrawn
  <2>19. t \in Live(fs, k) BY <2>2, LiveIs
  <2>20. ASSUME NEW j \in DOMAIN fs.exps, j # k, NEW u \in Live(fs, j)
         PROVE  SameTable(fs.heap[u], g.heap[u])
    <3>1. Live(fs, j) \cap Live(fs, k) = {} BY <2>20 DEF Placed
    <3>2. u \in DOMAIN fs.heap BY <2>20, InHeap
    <3> QED BY Zenon, <2>11, <2>19, <2>20, <3>1, <3>2 DEF SameTable
  <2>21. Touches(fs, g, k) BY <1>0, <2>11, <2>20 DEF Touches, SameChain
  <2> QED BY <2>18, <2>21
<1> QED BY <1>1, <1>2

LEMMA RemoveAllTouches ==
    ASSUME NEW fs, Placed(fs), NEW k \in DOMAIN fs.exps, NEW g, g = RemoveAllTables(fs, k)
    PROVE  /\ Touches(fs, g, k) /\ g.exps[k].list = <<>> /\ g.exps[k].cur = 0 /\ Live(g, k) = {}
           /\ \A j \in DOMAIN fs.exps : j # k => Live(g, j) = Live(fs, j)
<1>0. /\ Placed(g) /\ Live(g, k) = {} /\ DOMAIN g.exps = DOMAIN fs.exps
      /\ \A j \in DOMAIN fs.exps : j # k => Live(g, j) = Live(fs, j)
  BY RemoveAllPlaced
<1>1. fs \in SourceType BY DEF Placed
<1>2. PICK T : T = Range(fs.exps[k].list) OBVIOUS
<1>3. <<>> \in Seq(Nat) OBVIOUS
<1>4. PICK none \in Seq(Nat) : none = <<>> BY <1>3
<1>5. PICK c \in Nat : c = 0 OBVIOUS
<1>6. g = Dropped(fs, k, none, c, none, T) BY <1>1, <1>2, <1>4, <1>5, RemoveAllDoes
<1>7. /\ \A u \in DOMAIN fs.heap : /\ g.heap[u].id = fs.heap[u].id
                                   /\ g.heap[u].mapId = fs.heap[u].mapId
                                   /\ g.heap[u].ex = fs.heap[u].ex
                                   /\ u \notin T => g.heap[u].freed = fs.heap[u].freed
      /\ \A j \in DOMAIN fs.exps : j # k => g.exps[j] = fs.exps[j]
      /\ g.exps[k].dev = fs.exps[k].dev /\ g.exps[k].sysid = fs.exps[k].sysid
      /\ g.exps[k].list = none /\ g.exps[k].cur = c
  BY <1>1, <1>6, DroppedDoes
<1>8. T \subseteq Live(fs, k) BY <1>2 DEF Live
<1>9. ASSUME NEW j \in DOMAIN fs.exps, j # k, NEW u \in Live(fs, j)
      PROVE  SameTable(fs.heap[u], g.heap[u])
  <2>1. Live(fs, j) \cap Live(fs, k) = {} BY <1>9 DEF Placed
  <2>2. u \in DOMAIN fs.heap BY <1>9, InHeap
  <2> QED BY <1>7, <1>8, <1>9, <2>1, <2>2 DEF SameTable
<1>10. Touches(fs, g, k) BY <1>0, <1>7, <1>9 DEF Touches, SameChain
<1> QED BY <1>0, <1>4, <1>5, <1>7, <1>10

-----------------------------------------------------------------------------
(* The invariant                                                           *)

\* Exporters are those of the source; one of v5 has its table, and the others
\* have templates of ids in use.
InUseIds(fs, k) == \A i \in DOMAIN fs.exps[k].list : fs.heap[fs.exps[k].list[i]].id \in net.ids
Member(fs, k, s) ==
    /\ fs.exps[k].dev \in Devices /\ SourceOf(fs.exps[k].dev) = s
    /\ IF fs.exps[k].dev \in V5 THEN 1 \in DOMAIN fs.exps[k].list ELSE InUseIds(fs, k)
MembersOf(fs, s) == \A k \in DOMAIN fs.exps : Member(fs, k, s)

\* An exporter whose chain and tables are the same is a member as before.
LEMMA MemberSame ==
    ASSUME NEW fs, NEW g, NEW k, NEW s, SameChain(fs.exps[k], g.exps[k]), Member(fs, k, s),
           \A i \in DOMAIN fs.exps[k].list :
              SameTable(fs.heap[fs.exps[k].list[i]], g.heap[fs.exps[k].list[i]])
    PROVE  Member(g, k, s)
BY DEF Member, InUseIds, SameChain, SameTable

Typed == /\ net \in Networks
         /\ src \in [Sources -> SourceType] /\ created \in Seq(Sources)
         /\ sysid \in 0..MaxSysId /\ routerId \in BOOLEAN
         /\ sent \in [Devices -> 0..(SeqWrap - 1)] /\ lost \subseteq (Devices \X net.ids)

Holds(s) == /\ Placed(src[s]) /\ MembersOf(src[s], s)
            /\ "reset" \notin raced => Complete(src[s])

TablesInv == Typed /\ \A s \in Sources : Holds(s)

LEMMA Constants ==
    /\ V5Layout \in Layout /\ MaxExporters \in Nat /\ SeqWrap \in Nat \ {0} /\ MaxSysId \in Nat
    /\ RouterId \in Nat /\ V5 \cap V9 = {} /\ V5 \cap Ipfix = {} /\ V9 \cap Ipfix = {}
BY SourcesAssumption DEF Layout

LEMMA Surroundings ==
    ASSUME net \in Networks
    PROVE  /\ Devices \subseteq Dev /\ \A d \in Devices : SourceOf(d) \in Sources
           /\ net.ids \subseteq TemplateIds /\ net.kinds \subseteq Kinds
           /\ net.dynamic \in BOOLEAN /\ net.routerId \in BOOLEAN
           /\ \A ex \in net.layouts : ex \in Layout /\ RouterId \notin ex
<1>1. /\ net.devices \subseteq V5 \cup V9 \cup Ipfix /\ net.ids \subseteq TemplateIds
      /\ net.kinds \subseteq {"sampler", "std"} /\ net.layouts \subseteq SUBSET (Nat \ {RouterId})
      /\ net.dynamic \in BOOLEAN /\ net.routerId \in BOOLEAN
  BY SourcesAssumption
<1>2. \A ex \in net.layouts : ex \in Layout /\ RouterId \notin ex BY <1>1 DEF Layout
<1>3. Devices \subseteq Dev /\ net.kinds \subseteq Kinds BY <1>1 DEF Devices, Dev, Kinds
<1>4. \A d \in Devices : SourceOf(d) \in Sources BY DEF Sources
<1> QED BY <1>1, <1>2, <1>3, <1>4

LEMMA CountAlike == ASSUME NEW fs \in SourceType, NEW c \in Nat
                    PROVE  /\ Alike(fs, [fs EXCEPT !.count = c])
                           /\ MapsKept(fs, [fs EXCEPT !.count = c])
<1>1. PICK g : g = [fs EXCEPT !.count = c] BY Zenon
<1>2. /\ g \in SourceType /\ g.exps = fs.exps /\ g.heap = fs.heap /\ g.list = fs.list
      /\ g.one = fs.one /\ g.all = fs.all /\ g.copy = fs.copy
  BY Zenon, <1>1 DEF SourceType
<1>3. Alike(fs, g) BY <1>2 DEF Alike, SameTable, SameChain
<1>4. MapsKept(fs, g) BY <1>2 DEF MapsKept
<1> QED BY <1>1, <1>3, <1>4

LEMMA OpenedDoes ==
    ASSUME Typed, NEW d \in Devices
    PROVE  /\ Opened(d) \in [Sources -> SourceType]
           /\ \A s \in Sources : Alike(src[s], Opened(d)[s]) /\ MapsKept(src[s], Opened(d)[s])
<1>1. src \in [Sources -> SourceType] BY DEF Typed
<1>2. CASE Opened(d) = src BY <1>1, <1>2, AlikeSelf DEF MapsKept
<1>3. CASE Opened(d) # src
  <2>1. PICK first : first = Head(Append(created, SourceOf(d))) OBVIOUS
  <2>2. Opened(d) = [src EXCEPT ![first].count = 0] BY Zenon, <1>3, <2>1 DEF Opened
  <2>3. first \in Sources
    <3>1. created \in Seq(Sources) /\ SourceOf(d) \in Sources BY Surroundings DEF Typed
    <3>2. PICK q \in Seq(Sources) : q = Append(created, SourceOf(d)) /\ Len(q) = Len(created) + 1
      BY Zenon, <3>1, AppendTyped
    <3>3. Len(created) \in Nat BY <3>1
    <3>4. 1 \in DOMAIN q BY <3>2, <3>3
    <3>5. Head(q) = q[1] BY <3>2
    <3> QED BY <2>1, <3>2, <3>4, <3>5
  <2>4. PICK f : f = [src[first] EXCEPT !.count = 0] BY Zenon
  <2>5. Alike(src[first], f) /\ MapsKept(src[first], f)
    <3>1. src[first] \in SourceType BY <1>1, <2>3
    <3>2. PICK fs \in SourceType : fs = src[first] BY <3>1
    <3>3. f = [fs EXCEPT !.count = 0] BY <2>4, <3>2
    <3>4. Alike(fs, f) /\ MapsKept(fs, f) BY Zenon, <3>3, CountAlike, 0 \in Nat
    <3> QED BY <3>2, <3>4
  <2>6. f \in SourceType BY <2>5 DEF Alike
  <2>7. Opened(d) = [src EXCEPT ![first] = f] BY <2>2, <2>4
  <2>8. \A s \in Sources : Opened(d)[s] = IF s = first THEN f ELSE src[s] BY <1>1, <2>7
  <2>9. Opened(d) \in [Sources -> SourceType] BY <1>1, <2>3, <2>6, <2>7
  <2>10. \A s \in Sources : Alike(src[s], Opened(d)[s]) /\ MapsKept(src[s], Opened(d)[s])
    <3> SUFFICES ASSUME NEW s \in Sources
                 PROVE  Alike(src[s], Opened(d)[s]) /\ MapsKept(src[s], Opened(d)[s])
      OBVIOUS
    <3>1. CASE s = first BY <2>5, <2>8, <3>1
    <3>2. CASE s # first
      <4>1. Opened(d)[s] = src[s] /\ src[s] \in SourceType BY <1>1, <2>8, <3>2
      <4> QED BY <4>1, AlikeSelf DEF MapsKept
    <3> QED BY <3>1, <3>2
  <2> QED BY <2>9, <2>10
<1> QED BY <1>2, <1>3

\* What a packet of d finds, with its exporter, beside what was there before.
Since(fs, g, d) ==
    /\ \A j \in DOMAIN fs.exps : j \in DOMAIN g.exps /\ SameChain(fs.exps[j], g.exps[j])
    /\ \A j \in DOMAIN g.exps \ DOMAIN fs.exps :
          /\ g.exps[j].dev = d /\ g.exps[j].cur = 0
          /\ IF d \in V5 THEN 1 \in DOMAIN g.exps[j].list ELSE g.exps[j].list = <<>>
    /\ \A u \in DOMAIN fs.heap : u \in DOMAIN g.heap /\ SameTable(fs.heap[u], g.heap[u])

LEMMA SinceAlike ==
    ASSUME NEW fs, NEW g, NEW h, NEW d, Since(fs, g, d), Alike(g, h)
    PROVE  Since(fs, h, d)
BY DEF Since, Alike, SameChain, SameTable

LEMMA AlikeSince == ASSUME NEW fs, NEW g, NEW h, NEW d, Alike(fs, g), Since(g, h, d)
                    PROVE  Since(fs, h, d)
BY DEF Since, Alike, SameChain, SameTable

Ready(fs, s, d) ==
    /\ Placed(fs) /\ Index(fs, d) \in DOMAIN fs.exps /\ fs.exps[Index(fs, d)].dev = d
    /\ MembersOf(fs, s) /\ ("reset" \notin raced => Complete(fs))
    /\ Since(src[s], fs, d)

LEMMA IndexIs ==
    ASSUME NEW fs, Placed(fs), NEW k \in DOMAIN fs.exps
    PROVE  Index(fs, fs.exps[k].dev) = k
<1>1. \A j \in DOMAIN fs.exps : fs.exps[j].dev = fs.exps[k].dev => j = k BY DEF Placed
<1> QED BY <1>1 DEF Index

LEMMA CheckedDoes ==
    ASSUME TablesInv, NEW d \in Devices
    PROVE  Ready(Checked(d), SourceOf(d), d)
<1> DEFINE s == SourceOf(d)
<1>1. Typed /\ Holds(s) /\ s \in Sources /\ d \in Dev
  BY Surroundings DEF TablesInv, Typed
<1>2. PICK a : a = Opened(d)[s] OBVIOUS
<1>3. Alike(src[s], a) BY <1>1, <1>2, OpenedDoes
<1>4. Placed(a) /\ ("reset" \notin raced => Complete(a))
  BY <1>1, <1>3, AlikeSimilar, SimilarPlaced, SimilarComplete DEF Holds
<1>5. PICK n \in Nat : n = sysid BY <1>1, Constants DEF Typed
<1>6. PICK b : b = GetExporter(a, d, n) OBVIOUS
<1>7. /\ Placed(b) /\ (Complete(a) => Complete(b))
      /\ Has(a, d) => b = a
      /\ ~Has(a, d) => Grown(a, b, d, AssignExporterID(n))
      /\ Index(b, d) \in DOMAIN b.exps /\ b.exps[Index(b, d)].dev = d
  BY <1>1, <1>4, <1>6, Constants, GetExporterDoes
<1>8. PICK k : k = Index(b, d) OBVIOUS
<1>9. PICK number \in Nat : number = sent[d]
  <2>1. sent[d] \in 0..(SeqWrap - 1) BY <1>1 DEF Typed
  <2> QED BY <2>1, Constants
<1>10. PICK c : c = IF d \in Ipfix THEN SyncSequence(b, k, number)
     ELSE NextInSequence(b, k, number)
  OBVIOUS
<1>11. c = Checked(d) BY <1>2, <1>5, <1>6, <1>8, <1>9, <1>10 DEF Checked
<1>12. b \in SourceType BY <1>7 DEF Placed
<1>13. CountsOnly(b, c, k)
  BY <1>7, <1>8, <1>10, <1>12, SyncCounts, NextCounts
<1>14. Alike(b, c) BY <1>7, <1>8, <1>13, CountsAlike
<1>15. Placed(c) /\ ("reset" \notin raced => Complete(c))
  BY <1>4, <1>7, <1>14, AlikeSimilar, SimilarPlaced, SimilarComplete
<1>16. k \in DOMAIN c.exps /\ c.exps[k].dev = d BY <1>7, <1>8, <1>14 DEF Alike, SameChain
<1>17. Index(c, d) = k BY <1>15, <1>16, IndexIs
<1>18. Since(a, b, d)
  <2>1. CASE Has(a, d)
    <3>1. b = a BY <1>7, <2>1
    <3> QED BY <3>1 DEF Since, SameChain, SameTable
  <2>2. CASE ~Has(a, d)
    <3>1. Grown(a, b, d, AssignExporterID(n)) BY <1>7, <2>2
    <3>2. PICK t : t = Len(a.heap) + 1 OBVIOUS
    <3>3. 1 \in DOMAIN <<t>> OBVIOUS
    <3>4. PICK l : l = <<t>> BY Zenon
    <3>5. 1 \in DOMAIN l BY <3>4
    <3>6. /\ DOMAIN b.exps = DOMAIN a.exps \cup {Len(a.exps) + 1}
          /\ \A j \in DOMAIN a.exps : SameChain(a.exps[j], b.exps[j])
          /\ \A u \in DOMAIN a.heap : u \in DOMAIN b.heap /\ SameTable(a.heap[u], b.heap[u])
      BY <3>1 DEF Grown
    <3>7. LET m == Len(a.exps) + 1 IN
          /\ b.exps[m].dev = d /\ b.exps[m].cur = 0
          /\ IF d \in V5 THEN b.exps[m].list = l ELSE b.exps[m].list = <<>>
      BY <3>1, <3>2, <3>4 DEF Grown
    <3> QED BY <3>5, <3>6, <3>7 DEF Since
  <2> QED BY <2>1, <2>2
<1>19. Since(src[s], c, d) BY <1>3, <1>14, <1>18, AlikeSince, SinceAlike
<1>20. MembersOf(c, s)
  <2> SUFFICES ASSUME NEW j \in DOMAIN c.exps PROVE Member(c, j, s)
    BY DEF MembersOf
  <2>1. CASE j \in DOMAIN src[s].exps
    <3>1. PICK o : o = src[s] OBVIOUS
    <3>2. SameChain(o.exps[j], c.exps[j]) BY <1>19, <2>1, <3>1 DEF Since
    <3>3. Placed(o) /\ Member(o, j, s) BY <1>1, <2>1, <3>1 DEF Holds, MembersOf
    <3>4. \A i \in DOMAIN o.exps[j].list :
             SameTable(o.heap[o.exps[j].list[i]], c.heap[o.exps[j].list[i]])
      <4>1. \A i \in DOMAIN o.exps[j].list : o.exps[j].list[i] \in DOMAIN o.heap
        BY <2>1, <3>1, <3>3, InHeap
      <4>2. \A u \in DOMAIN o.heap : SameTable(o.heap[u], c.heap[u]) BY <1>19, <3>1 DEF Since
      <4> QED BY <4>1, <4>2
    <3> QED BY <3>2, <3>3, <3>4, MemberSame
  <2>2. CASE j \notin DOMAIN src[s].exps
    <3>1. /\ c.exps[j].dev = d
          /\ IF d \in V5 THEN 1 \in DOMAIN c.exps[j].list ELSE c.exps[j].list = <<>>
      BY <1>19, <2>2 DEF Since
    <3> QED BY <3>1 DEF Member, InUseIds
  <2> QED BY <2>1, <2>2
<1> QED BY <1>11, <1>15, <1>16, <1>17, <1>19, <1>20 DEF Ready

-----------------------------------------------------------------------------
(* What a packet keeps                                                     *)

\* What every packet changes, with the source as it is decoded.
GotPacket(d, g) ==
    /\ net' = net
    /\ src' = [Opened(d) EXCEPT ![SourceOf(d)] = g]
    /\ created' = IF SourceOf(d) \in Range(created) THEN created ELSE Append(created, SourceOf(d))
    /\ sysid' = IF New(d) THEN Max({sysid, AssignExporterID(sysid)}) ELSE sysid
    /\ \E n \in {0, 1} : sent' = [sent EXCEPT ![d] = (@ + n) % SeqWrap]

LEMMA MaxOfTwo == ASSUME NEW a \in Nat, NEW b \in Nat
                  PROVE  Max({a, b}) = IF a >= b THEN a ELSE b
<1>1. PICK S : S = {a, b} BY Zenon
<1>2. \E x \in S : \A y \in S : x >= y BY <1>1
<1>3. PICK m : m = CHOOSE x \in S : \A y \in S : x >= y OBVIOUS
<1>4. m \in S /\ \A y \in S : m >= y BY <1>2, <1>3
<1>5. Max(S) = m BY <1>3 DEF Max
<1>6. m = IF a >= b THEN a ELSE b BY <1>1, <1>4
<1> QED BY <1>1, <1>5, <1>6

LEMMA PacketSrc ==
    ASSUME Typed, NEW d \in Devices, NEW g \in SourceType, GotPacket(d, g)
    PROVE  /\ src' \in [Sources -> SourceType] /\ src'[SourceOf(d)] = g
           /\ \A s \in Sources : s # SourceOf(d) => Alike(src[s], src'[s])
<1>1. PICK o : o = Opened(d) OBVIOUS
<1>2. o \in [Sources -> SourceType] /\ \A s \in Sources : Alike(src[s], o[s]) BY <1>1, OpenedDoes
<1>3. PICK x : x = SourceOf(d) OBVIOUS
<1>4. x \in Sources BY <1>3, Surroundings DEF Typed
<1>5. src' = [o EXCEPT ![x] = g] BY <1>1, <1>3 DEF GotPacket
<1>6. src' \in [Sources -> SourceType] BY <1>2, <1>4, <1>5
<1>7. src'[x] = g /\ \A s \in Sources : s # x => src'[s] = o[s] BY <1>2, <1>4, <1>5
<1> QED BY <1>2, <1>3, <1>6, <1>7

LEMMA SameNet == ASSUME net' = net
                 PROVE  Devices' = Devices /\ Sources' = Sources
                        /\ \A d : SourceOf(d)' = SourceOf(d)
<1>1. Devices' = Devices BY DEF Devices
<1>2. \A d : SourceOf(d)' = SourceOf(d) BY DEF SourceOf
<1> QED BY <1>1, <1>2 DEF Sources

LEMMA AlikeMembers ==
    ASSUME NEW fs, NEW g, NEW s, Placed(fs), Alike(fs, g), MembersOf(fs, s)
    PROVE  MembersOf(g, s)
<1> SUFFICES ASSUME NEW k \in DOMAIN g.exps PROVE Member(g, k, s)
  BY DEF MembersOf
<1>1. k \in DOMAIN fs.exps /\ SameChain(fs.exps[k], g.exps[k]) BY DEF Alike
<1>2. Member(fs, k, s) BY <1>1 DEF MembersOf
<1>3. \A i \in DOMAIN fs.exps[k].list :
         SameTable(fs.heap[fs.exps[k].list[i]], g.heap[fs.exps[k].list[i]])
  <2>1. \A i \in DOMAIN fs.exps[k].list : fs.exps[k].list[i] \in DOMAIN fs.heap BY <1>1, InHeap
  <2> QED BY <2>1 DEF Alike
<1> QED BY <1>1, <1>2, <1>3, MemberSame

LEMMA MembersSame == ASSUME net' = net, NEW fs, NEW s, MembersOf(fs, s)
                     PROVE  (MembersOf(fs, s))'
BY DEF MembersOf, Member, InUseIds, Devices, SourceOf

LEMMA PacketKeeps ==
    ASSUME TablesInv, NEW d \in Devices,
           NEW g, GotPacket(d, g), Placed(g), MembersOf(g, SourceOf(d)),
           raced \subseteq raced', "reset" \notin raced' => Complete(g),
           routerId' \in BOOLEAN, lost' \subseteq (Devices \X net.ids)
    PROVE  TablesInv'
<1>1. Typed /\ SourceOf(d) \in Sources /\ net' = net
  BY Surroundings DEF TablesInv, Typed, GotPacket
<1>2. g \in SourceType BY DEF Placed
<1>3. /\ src' \in [Sources -> SourceType] /\ src'[SourceOf(d)] = g
      /\ \A s \in Sources : s # SourceOf(d) => Alike(src[s], src'[s])
  BY <1>1, <1>2, PacketSrc
<1>4. Devices' = Devices /\ Sources' = Sources BY <1>1, SameNet
<1>5. created' \in Seq(Sources)
  <2>1. created \in Seq(Sources) BY <1>1 DEF Typed
  <2>2. Append(created, SourceOf(d)) \in Seq(Sources) BY <1>1, <2>1, AppendTyped
  <2> QED BY <2>1, <2>2 DEF GotPacket
<1>6. sysid' \in 0..MaxSysId
  <2>1. sysid \in 0..MaxSysId /\ MaxSysId \in Nat BY <1>1, Constants DEF Typed
  <2>2. AssignExporterID(sysid) \in 0..MaxSysId BY <2>1 DEF AssignExporterID
  <2>3. PICK a \in 0..MaxSysId : a = sysid BY <2>1
  <2>4. PICK b \in 0..MaxSysId : b = AssignExporterID(sysid) BY <2>2
  <2>5. a \in Nat /\ b \in Nat BY <2>1
  <2>6. Max({a, b}) \in 0..MaxSysId BY <2>5, MaxOfTwo
  <2> QED BY <2>1, <2>3, <2>4, <2>6 DEF GotPacket
<1>7. sent' \in [Devices -> 0..(SeqWrap - 1)]
  <2>1. sent \in [Devices -> 0..(SeqWrap - 1)] /\ SeqWrap \in Nat \ {0}
    BY <1>1, Constants DEF Typed
  <2>2. PICK n \in {0, 1} : sent' = [sent EXCEPT ![d] = (sent[d] + n) % SeqWrap]
    BY Zenon DEF GotPacket
  <2>3. PICK m \in Nat : m = sent[d] + n BY <2>1
  <2>4. m % SeqWrap \in 0..(SeqWrap - 1) BY <2>1
  <2> QED BY <2>1, <2>2, <2>3, <2>4
<1>8. Typed'
  <2>1. net \in Networks BY <1>1 DEF Typed
  <2> QED BY <1>1, <1>3, <1>4, <1>5, <1>6, <1>7, <2>1 DEF Typed
<1>9. ASSUME NEW s \in Sources
      PROVE  Placed(src'[s]) /\ MembersOf(src'[s], s)
          /\ ("reset" \notin raced' => Complete(src'[s]))
  <2>1. CASE s = SourceOf(d) BY <1>3, <2>1
  <2>2. CASE s # SourceOf(d)
    <3>1. PICK a : a = src[s] OBVIOUS
    <3>2. PICK b : b = src'[s] OBVIOUS
    <3>3. Alike(a, b) BY <1>3, <2>2, <3>1, <3>2
    <3>4. Placed(a) /\ MembersOf(a, s) /\ ("reset" \notin raced => Complete(a))
      BY <3>1 DEF TablesInv, Holds
    <3>5. Placed(b) /\ (Complete(a) => Complete(b))
      BY <3>3, <3>4, AlikeSimilar, SimilarPlaced, SimilarComplete
    <3>6. MembersOf(b, s) BY <3>3, <3>4, AlikeMembers
    <3> QED BY <3>2, <3>4, <3>5, <3>6
  <2> QED BY <2>1, <2>2
<1>10. ASSUME NEW s \in Sources PROVE Holds(s)'
  <2>1. PICK b : b = src'[s] OBVIOUS
  <2>2. MembersOf(b, s) BY <1>9, <2>1
  <2>3. (MembersOf(b, s))' BY <1>1, <2>2, MembersSame
  <2> QED BY <1>9, <2>1, <2>3 DEF Holds
<1> QED BY <1>4, <1>8, <1>10 DEF TablesInv

\* The other exporters keep what they have.
LEMMA TouchesMembers ==
    ASSUME NEW fs, NEW g, NEW k \in DOMAIN fs.exps, NEW s, Placed(fs), Touches(fs, g, k),
           MembersOf(fs, s), fs.exps[k].dev \notin V5, InUseIds(g, k)
    PROVE  MembersOf(g, s)
<1> SUFFICES ASSUME NEW j \in DOMAIN g.exps PROVE Member(g, j, s)
  BY DEF MembersOf
<1>1. j \in DOMAIN fs.exps BY DEF Touches
<1>2. Member(fs, j, s) BY <1>1 DEF MembersOf
<1>3. CASE j = k
  <2>1. g.exps[k].dev = fs.exps[k].dev BY DEF Touches
  <2> QED BY <1>2, <1>3, <2>1 DEF Member
<1>4. CASE j # k
  <2>1. SameChain(fs.exps[j], g.exps[j])
       /\ \A t \in Live(fs, j) : SameTable(fs.heap[t], g.heap[t])
    BY <1>1, <1>4 DEF Touches
  <2>2. \A i \in DOMAIN fs.exps[j].list : fs.exps[j].list[i] \in Live(fs, j) BY DEF Live, Range
  <2> QED BY <1>2, <2>1, <2>2, MemberSame
<1> QED BY <1>3, <1>4

\* An exporter that keeps its chain keeps the ids.
LEMMA ChainIds ==
    ASSUME NEW fs, NEW g, NEW k \in DOMAIN fs.exps, KeepsChain(fs, g, k), InUseIds(fs, k)
    PROVE  InUseIds(g, k)
BY DEF KeepsChain, InUseIds, SameTable

LEMMA V5Keeps == ASSUME TablesInv, NEW d \in V5 \cap Devices, V5Packet(d) PROVE TablesInv'
<1>1. PICK f : f = Checked(d) OBVIOUS
<1>2. PICK k : k = Index(f, d) OBVIOUS
<1>3. Ready(f, SourceOf(d), d) BY <1>1, CheckedDoes
<1>4. Placed(f) /\ k \in DOMAIN f.exps /\ f.exps[k].dev = d /\ MembersOf(f, SourceOf(d))
      /\ ("reset" \notin raced => Complete(f))
  BY <1>2, <1>3 DEF Ready
<1>5. PICK t : t = f.exps[k].list[1] OBVIOUS
<1>6. t \in Live(f, k)
  <2>1. 1 \in DOMAIN f.exps[k].list BY <1>4 DEF MembersOf, Member
  <2> QED BY <1>5, <2>1, LiveIs
<1>7. PICK g : g = AddRecord(f, t) OBVIOUS
<1>8. GotPacket(d, g)
  BY <1>1, <1>2, <1>5, <1>7 DEF V5Packet, Packet, GotPacket
<1>9. Alike(f, g) BY <1>4, <1>6, <1>7, RecordTouches
<1>10. /\ Placed(g) /\ MembersOf(g, SourceOf(d))
       /\ "reset" \notin raced => Complete(g)
  BY <1>4, <1>9, AlikeSimilar, SimilarPlaced, SimilarComplete, AlikeMembers
<1>11. raced' = raced /\ routerId' = routerId /\ lost' = lost BY DEF V5Packet, Packet
<1> QED BY <1>8, <1>10, <1>11, PacketKeeps DEF TablesInv, Typed

\* A template adds an id in use.
LEMMA TemplateIdsInUse ==
    ASSUME NEW fs, Placed(fs), NEW g, NEW k \in DOMAIN fs.exps, NEW id \in net.ids, NEW ex,
           Templated(fs, g, k, id, ex), InUseIds(fs, k)
    PROVE  InUseIds(g, k)
<1> SUFFICES ASSUME NEW i \in DOMAIN g.exps[k].list PROVE g.heap[g.exps[k].list[i]].id \in net.ids
  BY DEF InUseIds
<1> DEFINE l == fs.exps[k].list
<1>0. fs.exps[k] \in ExporterType BY Parts DEF Placed
<1>1. l \in Seq(Nat) BY <1>0 DEF ExporterType
<1>2. \A n \in DOMAIN l : l[n] \in DOMAIN fs.heap /\ fs.heap[l[n]].id \in net.ids
  BY InHeap DEF InUseIds
<1>3. CASE \E t \in Nat :
              /\ g.exps[k].list = Append(l, t)
              /\ \A u \in DOMAIN fs.heap : SameTable(fs.heap[u], g.heap[u])
              /\ g.heap[t].id = id
  <2>1. PICK t \in Nat :
              /\ g.exps[k].list = Append(l, t)
              /\ \A u \in DOMAIN fs.heap : SameTable(fs.heap[u], g.heap[u])
              /\ g.heap[t].id = id
    BY Zenon, <1>3
  <2>2. PICK q : q = g.exps[k].list OBVIOUS
  <2>3. PICK p : p = l OBVIOUS
  <2>4. p \in Seq(Nat) /\ q = Append(p, t) BY <1>1, <2>1, <2>2, <2>3
  <2>5. DOMAIN q = DOMAIN p \cup {Len(p) + 1} /\ q[Len(p) + 1] = t
        /\ \A n \in DOMAIN p : q[n] = p[n]
    BY <2>4, AppendedTo
  <2>6. CASE i \in DOMAIN p
    <3>1. q[i] = l[i] /\ i \in DOMAIN l BY <2>3, <2>5, <2>6
    <3>2. SameTable(fs.heap[l[i]], g.heap[l[i]]) /\ fs.heap[l[i]].id \in net.ids
      BY <1>2, <2>1, <3>1
    <3> QED BY <2>2, <3>1, <3>2 DEF SameTable
  <2>7. CASE i = Len(p) + 1 BY Zenon, <2>1, <2>2, <2>5, <2>7
  <2> QED BY <2>2, <2>5, <2>6, <2>7
<1>4. CASE \E t \in Live(fs, k) : /\ fs.heap[t].id = id
                                   /\ g.exps[k].list = l /\ g.heap[t].id = id
                                   /\ \A u \in DOMAIN fs.heap \ {t} : g.heap[u].id = fs.heap[u].id
  BY <1>2, <1>4
<1> QED BY Zenon, <1>3, <1>4 DEF Templated

LEMMA TemplateKeeps ==
    ASSUME TablesInv, NEW d \in Devices \ V5, NEW id \in net.ids, NEW ex \in net.layouts,
           Template(d, id, ex)
    PROVE  TablesInv'
<1>1. PICK f : f = Checked(d) OBVIOUS
<1>2. PICK k : k = Index(f, d) OBVIOUS
<1>3. Ready(f, SourceOf(d), d) BY <1>1, CheckedDoes
<1>4. Placed(f) /\ k \in DOMAIN f.exps /\ f.exps[k].dev = d /\ MembersOf(f, SourceOf(d))
      /\ ("reset" \notin raced => Complete(f))
  BY <1>2, <1>3 DEF Ready
<1>5. PICK i \in TemplateIds \cap net.ids : i = id BY Surroundings DEF TablesInv, Typed
<1>6. PICK x \in Layout : x = Stored(d, ex)
  <2>1. Stored(d, ex) \in Layout
    BY Constants, Surroundings DEF Stored, Layout, TablesInv, Typed
  <2> QED BY <2>1
<1>7. PICK g : g = AddTemplate(f, k, i, x) OBVIOUS
<1>8. GotPacket(d, g)
  BY Zenon, <1>1, <1>2, <1>5, <1>6, <1>7 DEF Template, Packet, GotPacket
<1>9. Touches(f, g, k) /\ Templated(f, g, k, i, x) /\ (Complete(f) => Complete(g))
  BY <1>4, <1>7, TemplateTouches
<1>13. d \notin V5 /\ InUseIds(f, k) BY <1>4 DEF MembersOf, Member
<1>14. InUseIds(g, k) BY <1>4, <1>5, <1>9, <1>13, TemplateIdsInUse
<1>10. Placed(g) /\ MembersOf(g, SourceOf(d)) /\ ("reset" \notin raced => Complete(g))
  BY <1>4, <1>9, <1>13, <1>14, TouchesMembers DEF Touches
<1>11. raced' = raced /\ routerId' \in BOOLEAN /\ lost' \subseteq lost
  BY DEF Template, Packet
<1>12. lost' \subseteq Devices \X net.ids BY <1>11 DEF TablesInv, Typed
<1> QED BY <1>8, <1>10, <1>11, <1>12, PacketKeeps

LEMMA OptionTemplateKeeps ==
    ASSUME TablesInv, NEW d \in Devices \ V5, NEW id \in net.ids, NEW kind \in net.kinds,
           OptionTemplate(d, id, kind)
    PROVE  TablesInv'
<1>1. PICK f : f = Checked(d) OBVIOUS
<1>2. PICK k : k = Index(f, d) OBVIOUS
<1>3. Ready(f, SourceOf(d), d) BY <1>1, CheckedDoes
<1>4. Placed(f) /\ k \in DOMAIN f.exps /\ f.exps[k].dev = d /\ MembersOf(f, SourceOf(d))
      /\ ("reset" \notin raced => Complete(f))
  BY <1>2, <1>3 DEF Ready
<1>5. PICK i \in TemplateIds : i = id BY Surroundings DEF TablesInv, Typed
<1>6. PICK x \in Kinds : x = kind BY Surroundings DEF TablesInv, Typed
<1>7. PICK g : g = IF d \in V9 THEN InsertOffset(f, i, x) ELSE f OBVIOUS
<1>8. GotPacket(d, g)
  BY Zenon, <1>1, <1>2, <1>5, <1>6, <1>7 DEF OptionTemplate, Packet, GotPacket
<1>9. Alike(f, g) BY <1>4, <1>7, OffsetAlike, AlikeSelf DEF Placed
<1>10. /\ Placed(g) /\ MembersOf(g, SourceOf(d))
       /\ "reset" \notin raced => Complete(g)
  BY <1>4, <1>9, AlikeSimilar, SimilarPlaced, SimilarComplete, AlikeMembers
<1>11. raced' = raced /\ routerId' = routerId /\ lost' = lost BY DEF OptionTemplate, Packet
<1> QED BY <1>8, <1>10, <1>11, PacketKeeps DEF TablesInv, Typed

LEMMA DataV9Keeps ==
    ASSUME TablesInv, NEW d \in V9 \cap Devices, NEW id \in net.ids, NEW rate \in Rates,
           DataSetV9(d, id, rate)
    PROVE  TablesInv'
<1>1. PICK f : f = Checked(d) OBVIOUS
<1>2. PICK k : k = Index(f, d) OBVIOUS
<1>3. Ready(f, SourceOf(d), d) BY <1>1, CheckedDoes
<1>4. Placed(f) /\ k \in DOMAIN f.exps /\ f.exps[k].dev = d /\ MembersOf(f, SourceOf(d))
      /\ ("reset" \notin raced => Complete(f))
  BY <1>2, <1>3 DEF Ready
<1>5. PICK i : i = id OBVIOUS
<1>7. PICK g : g = DataV9(f, k, i, rate) OBVIOUS
<1>8. GotPacket(d, g) BY <1>1, <1>2, <1>5, <1>7 DEF DataSetV9, Packet, GotPacket
<1>9. Touches(f, g, k) /\ KeepsChain(f, g, k) /\ (Complete(f) => Complete(g))
  BY <1>4, <1>7, DataV9Touches
<1>10. d \notin V5 BY Constants
<1>13. InUseIds(f, k) BY <1>4, <1>10 DEF MembersOf, Member
<1>14. InUseIds(g, k) BY <1>4, <1>9, <1>13, ChainIds
<1>11. Placed(g) /\ MembersOf(g, SourceOf(d)) /\ ("reset" \notin raced => Complete(g))
  BY Zenon, <1>4, <1>9, <1>10, <1>14, TouchesMembers DEF Touches
<1>12. raced \subseteq raced' /\ routerId' = routerId /\ lost' = lost BY DEF DataSetV9, Packet
<1> QED BY <1>8, <1>11, <1>12, PacketKeeps DEF TablesInv, Typed

LEMMA DataIpfixKeeps ==
    ASSUME TablesInv, NEW d \in Ipfix \cap Devices, NEW id \in net.ids, DataSetIpfix(d, id)
    PROVE  TablesInv'
<1>1. PICK f : f = Checked(d) OBVIOUS
<1>2. PICK k : k = Index(f, d) OBVIOUS
<1>3. Ready(f, SourceOf(d), d) BY <1>1, CheckedDoes
<1>4. Placed(f) /\ k \in DOMAIN f.exps /\ f.exps[k].dev = d /\ MembersOf(f, SourceOf(d))
      /\ ("reset" \notin raced => Complete(f))
  BY <1>2, <1>3 DEF Ready
<1>5. PICK i : i = id OBVIOUS
<1>7. PICK g : g = DataIpfix(f, k, i) OBVIOUS
<1>8. GotPacket(d, g) BY <1>1, <1>2, <1>5, <1>7 DEF DataSetIpfix, Packet, GotPacket
<1>9. Touches(f, g, k) /\ KeepsChain(f, g, k) /\ (Complete(f) => Complete(g))
  BY <1>4, <1>7, Constants, DataIpfixTouches
<1>10. d \notin V5 BY Constants
<1>13. InUseIds(f, k) BY <1>4, <1>10 DEF MembersOf, Member
<1>14. InUseIds(g, k) BY <1>4, <1>9, <1>13, ChainIds
<1>11. Placed(g) /\ MembersOf(g, SourceOf(d)) /\ ("reset" \notin raced => Complete(g))
  BY Zenon, <1>4, <1>9, <1>10, <1>14, TouchesMembers DEF Touches
<1>12. raced' = raced /\ routerId' = routerId /\ lost' = lost BY DEF DataSetIpfix, Packet
<1> QED BY <1>8, <1>11, <1>12, PacketKeeps DEF TablesInv, Typed

-----------------------------------------------------------------------------
(* Withdrawals                                                             *)

\* A chain and the ids in it.
LEMMA ChainInUse ==
    ASSUME TablesInv, NEW d \in Devices \ V5, ~New(d)
    PROVE  \A i \in DOMAIN Chain(d) : Chain(d)[i] \in net.ids
<1>1. SourceOf(d) \in Sources BY Surroundings DEF TablesInv, Typed
<1>2. PICK f : f = src[SourceOf(d)] OBVIOUS
<1>3. PICK k : k = Index(f, d) OBVIOUS
<1>4. Has(f, d) BY <1>2 DEF New
<1>5. k \in DOMAIN f.exps /\ f.exps[k].dev = d BY <1>3, <1>4 DEF Has, Index
<1>6. Member(f, k, SourceOf(d)) BY <1>1, <1>2, <1>5 DEF TablesInv, Holds, MembersOf
<1>7. InUseIds(f, k) BY <1>5, <1>6 DEF Member
<1>8. Chain(d) = [i \in DOMAIN f.exps[k].list |-> f.heap[f.exps[k].list[i]].id]
  BY <1>2, <1>3 DEF Chain, Exporter
<1> QED BY <1>7, <1>8 DEF InUseIds

LEMMA TailInUse ==
    ASSUME TablesInv, NEW d \in Devices \ V5, Chain(d) # <<>>
    PROVE  Range(Tail(Chain(d))) \subseteq net.ids
<1>1. ~New(d) BY DEF Chain
<1>2. PICK f : f = src[SourceOf(d)] OBVIOUS
<1>3. PICK k : k = Index(f, d) OBVIOUS
<1>4. SourceOf(d) \in Sources BY Surroundings DEF TablesInv, Typed
<1>5. k \in DOMAIN f.exps BY <1>1, <1>2, <1>3 DEF New, Has, Index
<1>6. f.exps[k] \in ExporterType
  <2>1. Placed(f) BY <1>2, <1>4 DEF TablesInv, Holds
  <2> QED BY <1>5, <2>1, Parts DEF Placed
<1>7. PICK l \in Seq(Nat) : l = f.exps[k].list BY <1>6 DEF ExporterType
<1>8. PICK n \in Nat : n = Len(l) /\ DOMAIN l = 1..n BY <1>7
<1>9. Chain(d) = [i \in 1..n |-> f.heap[l[i]].id]
  BY Zenon, <1>1, <1>2, <1>3, <1>7, <1>8 DEF Chain, Exporter
<1>10. PICK c : c = Chain(d) OBVIOUS
<1>11. \A i \in 1..n : c[i] \in net.ids BY <1>1, <1>9, <1>10, ChainInUse
<1>12. PICK S : S = net.ids OBVIOUS
<1>13. c \in Seq(S)
  <2>1. c \in [1..n -> S] BY <1>9, <1>10, <1>11, <1>12
  <2> QED BY <1>8, <2>1
<1>14. c # <<>> BY <1>10
<1>15. Tail(c) \in Seq(S) BY <1>13, <1>14
<1>16. PICK q \in Seq(S) : q = Tail(c) BY Zenon, <1>15
<1>17. \A i \in DOMAIN q : q[i] \in net.ids BY <1>12, <1>16
<1> QED BY <1>10, <1>16, <1>17 DEF Range

\* What is withdrawn is gone; what is left was there.
LEMMA WithdrawnInUse ==
    ASSUME NEW fs, Placed(fs), NEW g, NEW k \in DOMAIN fs.exps, NEW id, Withdrawn(fs, g, k, id),
           InUseIds(fs, k)
    PROVE  InUseIds(g, k)
<1> SUFFICES ASSUME NEW n \in DOMAIN g.exps[k].list PROVE g.heap[g.exps[k].list[n]].id \in net.ids
  BY DEF InUseIds
<1>1. PICK j \in DOMAIN fs.exps[k].list : g.exps[k].list[n] = fs.exps[k].list[j] BY DEF Withdrawn
<1>2. fs.exps[k].list[j] \in DOMAIN fs.heap BY InHeap
<1>3. g.heap[fs.exps[k].list[j]].id = fs.heap[fs.exps[k].list[j]].id BY <1>2 DEF Withdrawn
<1> QED BY <1>1, <1>3 DEF InUseIds

LEMMA WithdrawKeeps ==
    ASSUME TablesInv, NEW d \in Ipfix \cap Devices, NEW id \in net.ids, Withdraw(d, id)
    PROVE  TablesInv'
<1>1. PICK f : f = Checked(d) OBVIOUS
<1>2. PICK k : k = Index(f, d) OBVIOUS
<1>3. Ready(f, SourceOf(d), d) BY <1>1, CheckedDoes
<1>4. Placed(f) /\ k \in DOMAIN f.exps /\ f.exps[k].dev = d /\ MembersOf(f, SourceOf(d))
      /\ ("reset" \notin raced => Complete(f))
  BY <1>2, <1>3 DEF Ready
<1>5. PICK i : i = id OBVIOUS
<1>6. PICK g : g = RemoveTable(f, k, i) OBVIOUS
<1>7. GotPacket(d, g) BY <1>1, <1>2, <1>5, <1>6 DEF Withdraw, Packet, GotPacket
<1>8. Touches(f, g, k) /\ Withdrawn(f, g, k, i) BY <1>4, <1>6, RemoveTouches
<1>9. Complete(f) => Complete(g) BY <1>4, <1>6, RemovePlaced
<1>10. d \notin V5 BY Constants
<1>11. InUseIds(g, k)
  <2>1. InUseIds(f, k) BY <1>4, <1>10 DEF MembersOf, Member
  <2> QED BY <1>4, <1>8, <2>1, WithdrawnInUse
<1>12. Placed(g) /\ MembersOf(g, SourceOf(d)) /\ ("reset" \notin raced => Complete(g))
  BY Zenon, <1>4, <1>8, <1>9, <1>10, <1>11, TouchesMembers DEF Touches
<1>13. raced' = raced /\ routerId' = routerId BY DEF Withdraw, Packet
<1>14. lost' \subseteq Devices \X net.ids
  <2>1. lost \subseteq Devices \X net.ids BY DEF TablesInv, Typed
  <2>2. CASE Chain(d) # <<>>
    <3>1. Range(Tail(Chain(d))) \subseteq net.ids BY <1>10, <2>2, TailInUse
    <3>2. lost' \subseteq lost \cup {<<d, x>> : x \in Range(Tail(Chain(d)))}
      BY DEF Withdraw, Packet
    <3> QED BY <2>1, <3>1, <3>2
  <2>3. CASE Chain(d) = <<>>
    <3>1. lost' = lost BY <2>3 DEF Withdraw, Packet
    <3> QED BY <2>1, <3>1
  <2> QED BY <2>2, <2>3
<1> QED BY <1>7, <1>12, <1>13, <1>14, PacketKeeps DEF TablesInv, Typed

\* When no other exporter has tables, none is left in the source.
LEMMA NoneLeft ==
    ASSUME TablesInv, NEW d \in Devices, NEW f, Ready(f, SourceOf(d), d),
           NEW k, k = Index(f, d), NEW g, g = RemoveAllTables(f, k),
           \A e \in Others(d) : ~HasTables(e)
    PROVE  Complete(g)
<1>1. Placed(f) /\ k \in DOMAIN f.exps /\ f.exps[k].dev = d /\ MembersOf(f, SourceOf(d))
      /\ Since(src[SourceOf(d)], f, d)
  BY DEF Ready
<1>2. SourceOf(d) \in Sources BY Surroundings DEF TablesInv, Typed
<1>3. PICK o : o = src[SourceOf(d)] OBVIOUS
<1>4. Placed(o) /\ Since(o, f, d) BY <1>1, <1>2, <1>3 DEF TablesInv, Holds
<1>5. /\ Live(g, k) = {} /\ DOMAIN g.exps = DOMAIN f.exps
      /\ \A j \in DOMAIN f.exps : j # k => Live(g, j) = Live(f, j)
  BY <1>1, RemoveAllPlaced
<1>6. ASSUME NEW j \in DOMAIN f.exps, j # k PROVE Live(f, j) = {}
  <2>1. PICK e : e = f.exps[j].dev OBVIOUS
  <2>2. e # d BY <1>1, <1>6, <2>1 DEF Placed
  <2>3. j \in DOMAIN o.exps BY <1>4, <2>1, <2>2 DEF Since
  <2>4. SameChain(o.exps[j], f.exps[j]) BY <1>4, <2>3 DEF Since
  <2>5. Live(o, j) = Live(f, j) BY <2>4 DEF SameChain, Live
  <2>6. e \in Devices /\ SourceOf(e) = SourceOf(d) BY <1>1, <2>1 DEF MembersOf, Member
  <2>7. o.exps[j].dev = e BY <2>1, <2>4 DEF SameChain
  <2>8. Has(o, e) /\ Index(o, e) = j
    <3>1. Index(o, o.exps[j].dev) = j BY <1>4, <2>3, IndexIs
    <3> QED BY <2>3, <2>7, <3>1 DEF Has
  <2>9. e \in Others(d) BY <1>3, <2>2, <2>6, <2>8 DEF Others, New
  <2>10. ~HasTables(e) BY <2>9
  <2> QED BY <1>3, <2>5, <2>6, <2>8, <2>10 DEF HasTables
<1>7. \A j \in DOMAIN g.exps : Live(g, j) = {} BY <1>5, <1>6
<1> QED BY <1>7 DEF Complete

LEMMA WithdrawAllKeeps ==
    ASSUME TablesInv, NEW d \in Ipfix \cap Devices, WithdrawAll(d)
    PROVE  TablesInv'
<1>1. PICK f : f = Checked(d) OBVIOUS
<1>2. PICK k : k = Index(f, d) OBVIOUS
<1>3. Ready(f, SourceOf(d), d) BY <1>1, CheckedDoes
<1>4. Placed(f) /\ k \in DOMAIN f.exps /\ f.exps[k].dev = d /\ MembersOf(f, SourceOf(d))
  BY <1>2, <1>3 DEF Ready
<1>5. PICK g : g = RemoveAllTables(f, k) OBVIOUS
<1>6. GotPacket(d, g) BY <1>1, <1>2, <1>5 DEF WithdrawAll, Packet, GotPacket
<1>7. Touches(f, g, k) /\ g.exps[k].list = <<>> BY <1>4, <1>5, RemoveAllTouches
<1>8. d \notin V5 BY Constants
<1>9. InUseIds(g, k) BY <1>7 DEF InUseIds
<1>10. Placed(g) /\ MembersOf(g, SourceOf(d))
  BY <1>4, <1>7, <1>8, <1>9, TouchesMembers DEF Touches
<1>11. /\ raced' = IF \E e \in Others(d) : HasTables(e) THEN raced \cup {"reset"} ELSE raced
       /\ routerId' = routerId /\ lost' = lost
  BY DEF WithdrawAll, Packet
<1>12. "reset" \notin raced' => Complete(g)
  <2> SUFFICES ASSUME "reset" \notin raced' PROVE Complete(g)
    OBVIOUS
  <2>1. \A e \in Others(d) : ~HasTables(e) BY <1>11
  <2> QED BY <1>2, <1>3, <1>5, <2>1, NoneLeft
<1>13. raced \subseteq raced' BY <1>11
<1> QED BY <1>6, <1>10, <1>11, <1>12, <1>13, PacketKeeps DEF TablesInv, Typed

LEMMA LoseKeeps == ASSUME TablesInv, NEW d \in Devices, Lose(d) PROVE TablesInv'
<1>1. /\ sent' = [sent EXCEPT ![d] = (sent[d] + 1) % SeqWrap]
      /\ net' = net /\ src' = src /\ created' = created /\ sysid' = sysid
      /\ routerId' = routerId /\ lost' = lost /\ raced' = raced
  BY DEF Lose
<1>2. sent' \in [Devices -> 0..(SeqWrap - 1)]
  <2>1. sent \in [Devices -> 0..(SeqWrap - 1)] /\ SeqWrap \in Nat \ {0}
    BY Constants DEF TablesInv, Typed
  <2>2. PICK m \in Nat : m = sent[d] + 1 BY <2>1
  <2>3. m % SeqWrap \in 0..(SeqWrap - 1) BY <2>1
  <2> QED BY <1>1, <2>1, <2>2, <2>3
<1>3. Devices' = Devices /\ Sources' = Sources BY <1>1, SameNet
<1>4. Typed' BY <1>1, <1>2, <1>3 DEF TablesInv, Typed
<1>5. ASSUME NEW s \in Sources PROVE Holds(s)'
  <2>1. PICK b : b = src[s] OBVIOUS
  <2>2. Placed(b) /\ MembersOf(b, s) /\ ("reset" \notin raced => Complete(b))
    BY <2>1 DEF TablesInv, Holds
  <2>3. (MembersOf(b, s))' BY <1>1, <2>2, MembersSame
  <2>4. b = src'[s] BY <1>1, <2>1
  <2> QED BY <1>1, <2>2, <2>3, <2>4 DEF Holds
<1> QED BY <1>3, <1>4, <1>5 DEF TablesInv

-----------------------------------------------------------------------------
(* Files and restarts                                                      *)

\* All the sources are written anew.
LEMMA SourcesKeep ==
    ASSUME TablesInv, net' = net, src' \in [Sources -> SourceType],
           created' \in Seq(Sources), sysid' \in 0..MaxSysId, routerId' \in BOOLEAN,
           sent' = sent, lost' \subseteq (Devices \X net.ids),
           \A s \in Sources : Placed(src'[s]) /\ MembersOf(src'[s], s)
                              /\ ("reset" \notin raced' => Complete(src'[s]))
    PROVE  TablesInv'
<1>1. Devices' = Devices /\ Sources' = Sources BY SameNet
<1>2. Typed' BY <1>1 DEF TablesInv, Typed
<1>3. ASSUME NEW s \in Sources PROVE Holds(s)'
  <2>1. PICK b : b = src'[s] OBVIOUS
  <2>2. Placed(b) /\ MembersOf(b, s) /\ ("reset" \notin raced' => Complete(b)) BY <2>1
  <2>3. (MembersOf(b, s))' BY <2>2, MembersSame
  <2> QED BY <2>1, <2>2, <2>3 DEF Holds
<1> QED BY <1>1, <1>2, <1>3 DEF TablesInv

LEMMA RotateKeeps == ASSUME TablesInv, Rotate PROVE TablesInv'
<1>1. /\ src' = [s \in Sources |-> IF s \in Range(created) THEN NextFile(src[s]) ELSE src[s]]
      /\ net' = net /\ created' = created /\ sysid' = sysid /\ routerId' = routerId
      /\ sent' = sent /\ lost' = lost /\ raced' = raced
  BY DEF Rotate
<1>2. ASSUME NEW s \in Sources
      PROVE  /\ src'[s] \in SourceType /\ Placed(src'[s]) /\ MembersOf(src'[s], s)
             /\ "reset" \notin raced' => Complete(src'[s])
  <2>1. PICK a : a = src[s] OBVIOUS
  <2>2. Placed(a) /\ MembersOf(a, s) /\ ("reset" \notin raced => Complete(a)) /\ a \in SourceType
    BY <2>1 DEF TablesInv, Holds, Placed
  <2>3. PICK b : b = IF s \in Range(created) THEN NextFile(a) ELSE a OBVIOUS
  <2>4. Alike(a, b)
    <3>1. Listed(a) BY <2>2, PlacedListed
    <3>2. Alike(a, NextFile(a)) BY <2>2, <3>1, Constants, NextFileAlike
    <3>3. Alike(a, a) BY <2>2, AlikeSelf
    <3> QED BY <2>3, <3>2, <3>3
  <2>5. Placed(b) /\ (Complete(a) => Complete(b)) /\ MembersOf(b, s)
    BY <2>2, <2>4, AlikeSimilar, SimilarPlaced, SimilarComplete, AlikeMembers
  <2>6. src'[s] = b BY <1>1, <2>1, <2>3
  <2> QED BY <1>1, <2>2, <2>5, <2>6 DEF Placed
<1>3. src' \in [Sources -> SourceType] BY <1>1, <1>2
<1> QED BY <1>1, <1>2, <1>3, SourcesKeep DEF TablesInv, Typed

\* A collector that starts.
LEMMA SourceStarts ==
    ASSUME NEW all \in ReaderType, NEW copy \in ReaderType
    PROVE  Source(all, copy) \in SourceType /\ Source(all, copy).exps = <<>>
           /\ Source(all, copy).list = <<>> /\ Source(all, copy).heap = <<>>
<1>1. PICK f : f = Source(all, copy) OBVIOUS
<1>2. <<>> \in Seq(ExporterType) /\ <<>> \in Seq(TableType) /\ <<>> \in Seq(Nat) OBVIOUS
<1>3. <<>> \in Partial(TemplateIds, OptionType) BY EmptyPartial
<1>4. Source(all, copy) \in SourceType BY <1>2, <1>3, EmptyReader DEF Source, SourceType
<1> QED BY <1>4 DEF Source

LEMMA StartPlaced ==
    ASSUME NEW f \in SourceType, f.exps = <<>>, f.list = <<>>, NEW s
    PROVE  Placed(f) /\ MembersOf(f, s) /\ Complete(f)
<1>1. DOMAIN f.exps = {} /\ DOMAIN f.list = {} OBVIOUS
<1> QED BY <1>1 DEF Placed, MembersOf, Complete, InPlace


LEMMA StaticSources == ASSUME net \in Networks PROVE Static \in Seq(Sources)
<1>1. net.second \in SUBSET Devices /\ Devices # {} BY SourcesAssumption DEF Devices
<1>2. CASE net.second = {}
  <2>1. \A d \in Devices : SourceOf(d) = 1 BY <1>2 DEF SourceOf
  <2>2. 1 \in Sources BY <1>1, <2>1 DEF Sources
  <2>3. Static = <<1>> BY <1>2 DEF Static
  <2> QED BY <2>2, <2>3
<1>3. CASE net.second # {} /\ net.second = Devices
  <2>1. PICK d \in Devices : d \in net.second BY <1>3
  <2>2. 2 \in Sources BY <2>1 DEF Sources, SourceOf
  <2>3. Static = <<2>> BY <1>3 DEF Static
  <2> QED BY <2>2, <2>3
<1>4. CASE net.second # {} /\ net.second # Devices
  <2>1. PICK d \in Devices : d \in net.second BY <1>1, <1>4
  <2>2. PICK e \in Devices : e \notin net.second BY <1>1, <1>4
  <2>3. SourceOf(d) = 2 /\ SourceOf(e) = 1 BY <2>1, <2>2 DEF SourceOf
  <2>4. 1 \in Sources /\ 2 \in Sources BY <2>3 DEF Sources
  <2>5. Static = <<1, 2>> BY <1>4 DEF Static
  <2> QED BY <2>4, <2>5
<1> QED BY <1>2, <1>3, <1>4

LEMMA RestartKeeps == ASSUME TablesInv, Restart PROVE TablesInv'
<1>1. /\ src' = [s \in Sources |-> LET closed == FlushExporterStats(src[s])
                                   IN Source(closed.all, closed.copy)]
      /\ created' = IF net.dynamic THEN <<>> ELSE Static
      /\ sysid' = 0 /\ routerId' = net.routerId /\ lost' = {}
      /\ net' = net /\ sent' = sent
  BY DEF Restart
<1>2. ASSUME NEW s \in Sources
      PROVE  /\ src'[s] \in SourceType /\ Placed(src'[s]) /\ MembersOf(src'[s], s)
             /\ "reset" \notin raced' => Complete(src'[s])
  <2>1. PICK a \in SourceType : a = src[s] BY DEF TablesInv, Typed
  <2>2. PICK c : c = FlushExporterStats(a) OBVIOUS
  <2>3. c \in SourceType BY <2>2, FlushStatsDoes DEF StatsFlushed, Alike
  <2>4. c.all \in ReaderType /\ c.copy \in ReaderType BY <2>3 DEF SourceType
  <2>5. PICK f : f = Source(c.all, c.copy) OBVIOUS
  <2>6. f \in SourceType /\ f.exps = <<>> /\ f.list = <<>> BY <2>4, <2>5, SourceStarts
  <2>7. Placed(f) /\ MembersOf(f, s) /\ Complete(f) BY <2>6, StartPlaced
  <2>8. src'[s] = f BY <1>1, <2>1, <2>2, <2>5
  <2> QED BY <2>6, <2>7, <2>8
<1>3. src' \in [Sources -> SourceType] BY <1>1, <1>2
<1>4. created' \in Seq(Sources)
  <2>1. Static \in Seq(Sources) BY StaticSources DEF TablesInv, Typed
  <2>2. <<>> \in Seq(Sources) OBVIOUS
  <2> QED BY <1>1, <2>1, <2>2
<1>5. sysid' \in 0..MaxSysId /\ routerId' \in BOOLEAN
  BY <1>1, Constants, Surroundings DEF TablesInv, Typed
<1> QED BY <1>1, <1>2, <1>3, <1>4, <1>5, SourcesKeep

LEMMA InitTables == ASSUME Init PROVE TablesInv
<1>1. /\ net \in Networks /\ src = [s \in Sources |-> Source(NoReader, NoReader)]
      /\ created = (IF net.dynamic THEN <<>> ELSE Static)
      /\ sysid = 0 /\ routerId = net.routerId /\ lost = {} /\ sent = None
  BY DEF Init
<1>2. PICK f : f = Source(NoReader, NoReader) OBVIOUS
<1>3. f \in SourceType /\ f.exps = <<>> /\ f.list = <<>> BY <1>2, EmptyReader, SourceStarts
<1>4. \A s \in Sources : Placed(f) /\ MembersOf(f, s) /\ Complete(f) BY <1>3, StartPlaced
<1>5. src \in [Sources -> SourceType] /\ \A s \in Sources : src[s] = f BY <1>1, <1>2, <1>3
<1>6. created \in Seq(Sources)
  <2>1. Static \in Seq(Sources) BY <1>1, StaticSources
  <2>2. <<>> \in Seq(Sources) OBVIOUS
  <2> QED BY <1>1, <2>1, <2>2
<1>7. sent \in [Devices -> 0..(SeqWrap - 1)] BY <1>1, Constants DEF None
<1>8. sysid \in 0..MaxSysId /\ routerId \in BOOLEAN BY <1>1, Constants, Surroundings
<1> QED BY <1>1, <1>4, <1>5, <1>6, <1>7, <1>8 DEF TablesInv, Typed, Holds

LEMMA TablesStep == ASSUME TablesInv, [Next]_vars PROVE TablesInv'
<1>1. ASSUME NEW d \in V5 \cap Devices, V5Packet(d) PROVE TablesInv'
  BY <1>1, V5Keeps
<1>2. ASSUME NEW d \in Devices \ V5, NEW id \in net.ids,
             NEW ex \in net.layouts, Template(d, id, ex)
      PROVE  TablesInv'
  BY <1>2, TemplateKeeps
<1>3. ASSUME NEW d \in Devices \ V5, NEW id \in net.ids, NEW kind \in net.kinds,
             OptionTemplate(d, id, kind)
      PROVE  TablesInv'
  BY <1>3, OptionTemplateKeeps
<1>4. ASSUME NEW d \in V9 \cap Devices, NEW id \in net.ids, NEW rate \in Rates,
             DataSetV9(d, id, rate)
      PROVE  TablesInv'
  BY <1>4, DataV9Keeps
<1>5. ASSUME NEW d \in Ipfix \cap Devices, NEW id \in net.ids, DataSetIpfix(d, id)
      PROVE  TablesInv'
  BY <1>5, DataIpfixKeeps
<1>6. ASSUME NEW d \in Ipfix \cap Devices, NEW id \in net.ids, Withdraw(d, id)
      PROVE  TablesInv'
  BY <1>6, WithdrawKeeps
<1>7. ASSUME NEW d \in Ipfix \cap Devices, WithdrawAll(d) PROVE TablesInv'
  BY <1>7, WithdrawAllKeeps
<1>8. ASSUME NEW d \in Devices, Lose(d) PROVE TablesInv'
  BY <1>8, LoseKeeps
<1>9. ASSUME UNCHANGED vars PROVE TablesInv'
  <2>1. /\ net' = net /\ src' = src /\ created' = created /\ sysid' = sysid
        /\ routerId' = routerId /\ sent' = sent /\ lost' = lost /\ raced' = raced
    BY <1>9 DEF vars, hist
  <2>2. \A s \in Sources : Placed(src'[s]) /\ MembersOf(src'[s], s)
                           /\ ("reset" \notin raced' => Complete(src'[s]))
    BY <2>1 DEF TablesInv, Holds
  <2> QED BY <2>1, <2>2, SourcesKeep DEF TablesInv, Typed
<1> QED
  BY <1>1, <1>2, <1>3, <1>4, <1>5, <1>6, <1>7, <1>8, <1>9, RotateKeeps, RestartKeeps DEF Next

LEMMA TablesSafe == ASSUME TablesInv PROVE NothingFreedInUse
<1>1. Typed /\ \A s \in Sources : Holds(s) BY DEF TablesInv
<1>2. Open \subseteq Sources
  <2>1. created \in Seq(Sources) BY <1>1 DEF Typed
  <2>2. \A i \in DOMAIN created : created[i] \in Sources BY <2>1
  <2> QED BY <2>2 DEF Open, Range
<1>3. ASSUME NEW s \in Sources, NEW k \in DOMAIN src[s].exps
      PROVE  /\ src[s].exps[k].dev \in Devices /\ SourceOf(src[s].exps[k].dev) = s
             /\ src[s].exps[k].samplers \subseteq Samplers
             /\ \A t \in Live(src[s], k) : /\ t \in DOMAIN src[s].heap /\ ~src[s].heap[t].freed
                                           /\ "reset" \notin raced => InList(src[s], t)
  <2>1. PICK f : f = src[s] OBVIOUS
  <2>2. Placed(f) /\ Member(f, k, s) /\ ("reset" \notin raced => Complete(f))
    BY <1>1, <1>3, <2>1 DEF Holds, MembersOf
  <2>3. f.exps[k] \in ExporterType BY <1>3, <2>1, <2>2, Parts DEF Placed
  <2>4. f.exps[k].samplers \subseteq Samplers BY <2>3 DEF ExporterType
  <2>5. Sound(f, k) BY <1>3, <2>1, <2>2 DEF Placed
  <2>6. "reset" \notin raced => \A t \in Live(f, k) : InList(f, t)
    BY <1>3, <2>1, <2>2 DEF Complete
  <2> QED BY <2>1, <2>2, <2>4, <2>5, <2>6 DEF Member, Sound
<1>4. TypeOK BY <1>1, <1>2, <1>3 DEF TypeOK, Typed
<1>5. ASSUME NEW s \in Sources, NEW t \in AllLive(s)
      PROVE  ~src[s].heap[t].freed /\ ("reset" \notin raced => InList(src[s], t))
  <2>1. PICK k \in DOMAIN src[s].exps : t \in Live(src[s], k) BY <1>5 DEF AllLive
  <2> QED BY <1>3, <2>1
<1>6. ASSUME NEW s \in Sources, NEW t \in Range(src[s].list) \ {0} PROVE ~src[s].heap[t].freed
  <2>1. PICK f : f = src[s] OBVIOUS
  <2>2. InPlace(f) BY <1>1, <2>1 DEF Holds, Placed
  <2>3. PICK n \in DOMAIN f.list : t = f.list[n] BY <2>1, <1>6 DEF Range
  <2> QED BY <1>6, <2>1, <2>2, <2>3 DEF InPlace
<1> QED BY <1>2, <1>4, <1>5, <1>6 DEF NothingFreedInUse, InList

\* No table is used after it was freed, by a lookup, a cache or the next file,
\* and every map in use is in the list each file begins with, until an exporter
\* withdraws all its templates beside others that have some.
THEOREM TablesInUseStay == Spec => []NothingFreedInUse
<1>1. Init => TablesInv BY InitTables
<1>2. TablesInv /\ [Next]_vars => TablesInv' BY TablesStep
<1>3. TablesInv => NothingFreedInUse BY TablesSafe
<1> QED BY <1>1, <1>2, <1>3, PTL DEF Spec

-----------------------------------------------------------------------------
(* Templates as they were heard                                            *)

\* What an exporter has heard of its templates (h, with the lost ones in G) is
\* what its chain has: a table in the chain is as announced, a template that was
\* not lost is in the chain, and a table that is only in the cache was lost.
Told(h, t) ==
    \/ h[t.id].kind \in net.kinds
    \/ h[t.id].kind = "data" /\ h[t.id].ex = t.ex \ {RouterId}
AsHeard(fs, k, h) == \A i \in DOMAIN fs.exps[k].list : Told(h, fs.heap[fs.exps[k].list[i]])
InTheChain(fs, k, id) == \E i \in DOMAIN fs.exps[k].list : fs.heap[fs.exps[k].list[i]].id = id
AllKept(fs, k, h, G) == \A id \in net.ids : h[id].kind = "data"
    => id \in G \/ InTheChain(fs, k, id)
OfTheChain(fs, k) == \E i \in DOMAIN fs.exps[k].list : fs.exps[k].list[i] = fs.exps[k].cur
CacheKept(fs, k, G) ==
    fs.exps[k].cur # 0 => OfTheChain(fs, k) \/ fs.heap[fs.exps[k].cur].id \in G
Knows(fs, k, h, G) == AsHeard(fs, k, h) /\ AllKept(fs, k, h, G) /\ CacheKept(fs, k, G)

LEMMA ToldSame ==
    ASSUME NEW h, NEW t, NEW u, Told(h, t), u.id = t.id, u.ex = t.ex
    PROVE  Told(h, u)
BY DEF Told

LEMMA ToldOther ==
    ASSUME NEW h, NEW y, NEW t, Told(h, t), y[t.id] = h[t.id]
    PROVE  Told(y, t)
BY DEF Told

\* The chain is the same, and so are its tables.
LEMMA ChainKnows ==
    ASSUME NEW fs, NEW g, NEW k, NEW h, NEW G, g.exps[k].list = fs.exps[k].list,
           \A i \in DOMAIN fs.exps[k].list :
              SameTable(fs.heap[fs.exps[k].list[i]], g.heap[fs.exps[k].list[i]]),
           AsHeard(fs, k, h), AllKept(fs, k, h, G)
    PROVE  AsHeard(g, k, h) /\ AllKept(g, k, h, G)
<1>1. ASSUME NEW i \in DOMAIN fs.exps[k].list PROVE Told(h, g.heap[fs.exps[k].list[i]])
  <2>1. PICK t : t = fs.heap[fs.exps[k].list[i]] BY Zenon
  <2>2. PICK u : u = g.heap[fs.exps[k].list[i]] BY Zenon
  <2>3. Told(h, t) BY <2>1 DEF AsHeard
  <2>4. SameTable(t, u) BY <2>1, <2>2
  <2>5. u.id = t.id /\ u.ex = t.ex BY <2>4 DEF SameTable
  <2> QED BY <2>2, <2>3, <2>5, ToldSame
<1>2. ASSUME NEW id, InTheChain(fs, k, id) PROVE InTheChain(g, k, id)
  BY <1>2 DEF InTheChain, SameTable
<1> QED BY <1>1, <1>2 DEF AllKept, AsHeard

LEMMA KnowsSame ==
    ASSUME NEW fs, NEW g, NEW k, NEW h, NEW G, SameChain(fs.exps[k], g.exps[k]),
           \A t \in Live(fs, k) : SameTable(fs.heap[t], g.heap[t]), Knows(fs, k, h, G)
    PROVE  Knows(g, k, h, G)
<1>1. \A i \in DOMAIN fs.exps[k].list :
         SameTable(fs.heap[fs.exps[k].list[i]], g.heap[fs.exps[k].list[i]])
  BY LiveIs
<1>2. fs.exps[k].cur # 0 => SameTable(fs.heap[fs.exps[k].cur], g.heap[fs.exps[k].cur]) BY LiveIs
<1>3. g.exps[k].list = fs.exps[k].list /\ g.exps[k].cur = fs.exps[k].cur BY DEF SameChain
<1>4. AsHeard(g, k, h) /\ AllKept(g, k, h, G) BY <1>1, <1>3, ChainKnows DEF Knows
<1>5. CacheKept(g, k, G) BY <1>2, <1>3 DEF Knows, CacheKept, OfTheChain, SameTable
<1> QED BY <1>4, <1>5 DEF Knows

LEMMA KnowsChain ==
    ASSUME NEW fs, NEW g, NEW k, NEW h, NEW G, KeepsChain(fs, g, k), Knows(fs, k, h, G)
    PROVE  Knows(g, k, h, G)
<1>1. g.exps[k].list = fs.exps[k].list BY DEF KeepsChain
<1>2. \A i \in DOMAIN fs.exps[k].list :
         SameTable(fs.heap[fs.exps[k].list[i]], g.heap[fs.exps[k].list[i]])
  BY DEF KeepsChain
<1>3. AsHeard(g, k, h) /\ AllKept(g, k, h, G) BY <1>1, <1>2, ChainKnows DEF Knows
<1>4. ASSUME g.exps[k].cur # 0 PROVE OfTheChain(g, k) \/ g.heap[g.exps[k].cur].id \in G
  <2>1. CASE g.exps[k].cur = fs.exps[k].cur
    <3>1. g.heap[g.exps[k].cur].id = fs.heap[fs.exps[k].cur].id BY <1>4, <2>1 DEF KeepsChain
    <3> QED BY <1>1, <1>4, <2>1, <3>1 DEF Knows, CacheKept, OfTheChain
  <2>2. CASE g.exps[k].cur \in Range(fs.exps[k].list) BY <1>1, <2>2 DEF Range, OfTheChain
  <2> QED BY <1>4, <2>1, <2>2 DEF KeepsChain
<1> QED BY <1>3, <1>4 DEF Knows, CacheKept

\* Without tables there is nothing to know.
LEMMA KnowsNothing ==
    ASSUME NEW fs, NEW k, NEW h, NEW G, fs.exps[k].list = <<>>, fs.exps[k].cur = 0,
           \A id \in net.ids : h[id].kind # "data"
    PROVE  Knows(fs, k, h, G)
<1>1. DOMAIN fs.exps[k].list = {} OBVIOUS
<1> QED BY <1>1 DEF Knows, AsHeard, AllKept, CacheKept

Heard == [net.ids -> [kind : {"none", "data"} \cup net.kinds, ex : SUBSET Nat]]

LEMMA KindsApart == ASSUME net \in Networks
    PROVE "data" \notin net.kinds /\ "none" \notin net.kinds
BY SourcesAssumption

\* An id that becomes one of an options template.
LEMMA KnowsOptions ==
    ASSUME net \in Networks, NEW fs, NEW k, NEW h \in Heard, NEW G, Knows(fs, k, h, G),
           NEW id \in net.ids, NEW kind \in net.kinds, InUseIds(fs, k)
    PROVE  Knows(fs, k, [h EXCEPT ![id] = Announced(kind, {})], G)
<1>1. PICK x : x = [h EXCEPT ![id] = Announced(kind, {})] BY Zenon
<1>2. x[id].kind = kind /\ \A i \in net.ids : i # id => x[i] = h[i] BY <1>1 DEF Heard, Announced
<1>3. kind # "data" BY KindsApart
<1>4. AsHeard(fs, k, x)
  <2> SUFFICES ASSUME NEW i \in DOMAIN fs.exps[k].list, NEW t, t = fs.heap[fs.exps[k].list[i]]
               PROVE  Told(x, t)
    BY DEF AsHeard
  <2>1. t.id \in net.ids BY DEF InUseIds
  <2>2. Told(h, t) BY DEF Knows, AsHeard
  <2>3. CASE t.id = id BY <1>2, <2>3 DEF Told
  <2>4. CASE t.id # id
    <3>1. x[t.id] = h[t.id] BY <1>2, <2>1, <2>4
    <3> QED BY <2>2, <3>1, ToldOther
  <2> QED BY <2>3, <2>4
<1>5. AllKept(fs, k, x, G) BY <1>2, <1>3 DEF Knows, AllKept
<1> QED BY <1>1, <1>4, <1>5 DEF Knows

\* What is known of each exporter; of a new one nothing was heard.
Gone(d) == {id \in net.ids : <<d, id>> \in lost}
Follows(d) ==
    LET fs == src[SourceOf(d)] IN
    /\ \A k \in DOMAIN fs.exps : fs.exps[k].dev = d => Knows(fs, k, heard[d], Gone(d))
    /\ New(d) => \A id \in net.ids : heard[d][id].kind = "none"

TemplatesInv == TablesInv /\ heard \in [Devices -> Heard] /\ \A d \in Devices \ V5 : Follows(d)

\* A template that arrives is known, in the chain or, when it was lost, in the
\* cache only.
LEMMA KnowsTemplate ==
    ASSUME NEW fs, Placed(fs), NEW k \in DOMAIN fs.exps, NEW h \in Heard, NEW G,
           Knows(fs, k, h, G), InUseIds(fs, k),
           NEW id \in net.ids, NEW ex, NEW x, x \ {RouterId} = ex,
           NEW g, Templated(fs, g, k, id, x),
           NEW F, F = IF Lookup(fs, k, id) # 0 /\ ~InTheChain(fs, k, id) THEN G ELSE G \ {id}
    PROVE  Knows(g, k, [h EXCEPT ![id] = Announced("data", ex)], F)
<1> DEFINE l == fs.exps[k].list
<1>1. PICK y : y = [h EXCEPT ![id] = Announced("data", ex)] BY Zenon
<1>2. y[id].kind = "data" /\ y[id].ex = ex /\ \A i \in net.ids : i # id => y[i] = h[i]
  BY <1>1 DEF Heard, Announced
<1>3. \A i \in DOMAIN l : l[i] \in DOMAIN fs.heap /\ fs.heap[l[i]].id \in net.ids
  BY InHeap DEF InUseIds
<1>4. \A i \in DOMAIN l : Told(h, fs.heap[l[i]]) BY DEF Knows, AsHeard
<1>5. Own(fs, k) BY DEF Placed
<1>6. CASE \E t \in Nat \ DOMAIN fs.heap :
              /\ \A i \in DOMAIN l : fs.heap[l[i]].id # id
              /\ ~Cached(fs, k, id)
              /\ g.exps[k].list = Append(l, t) /\ g.exps[k].cur = 0
              /\ \A u \in DOMAIN fs.heap : SameTable(fs.heap[u], g.heap[u])
              /\ g.heap[t].id = id /\ g.heap[t].ex = x
  <2>1. PICK t \in Nat :
              /\ \A i \in DOMAIN l : fs.heap[l[i]].id # id
              /\ ~Cached(fs, k, id)
              /\ g.exps[k].list = Append(l, t) /\ g.exps[k].cur = 0
              /\ \A u \in DOMAIN fs.heap : SameTable(fs.heap[u], g.heap[u])
              /\ g.heap[t].id = id /\ g.heap[t].ex = x
    BY <1>6
  <2>2. fs.exps[k] \in ExporterType BY Parts DEF Placed
  <2>3. l \in Seq(Nat) BY <2>2 DEF ExporterType
  <2>4. PICK q : q = Append(l, t) BY Zenon
  <2>5. /\ DOMAIN q = DOMAIN l \cup {Len(l) + 1} /\ q[Len(l) + 1] = t
        /\ \A i \in DOMAIN l : q[i] = l[i]
    <3>1. PICK p : p = l BY Zenon
    <3>2. p \in Seq(Nat) /\ q = Append(p, t) BY <2>3, <2>4, <3>1
    <3>3. DOMAIN q = DOMAIN p \cup {Len(p) + 1} /\ q[Len(p) + 1] = t
          /\ \A i \in DOMAIN p : q[i] = p[i]
      BY <2>1, <3>2, AppendedTo
    <3> QED BY <3>1, <3>3
  <2>6. F = G \ {id}
    <3>1. InChain(fs, k, id) = {} BY <2>1 DEF InChain
    <3>2. Lookup(fs, k, id) = 0 BY <2>1, <3>1 DEF Lookup
    <3> QED BY <3>2
  <2>7. AsHeard(g, k, y)
    <3> SUFFICES ASSUME NEW i \in DOMAIN q, NEW u, u = g.heap[q[i]]
                 PROVE  Told(y, u)
      BY <2>1, <2>4 DEF AsHeard
    <3>1. CASE i = Len(l) + 1
      <4>1. u.id = id /\ u.ex = x BY <2>1, <2>5, <3>1
      <4> QED BY <1>2, <4>1 DEF Told
    <3>2. CASE i \in DOMAIN l
      <4>1. u.id = fs.heap[l[i]].id /\ u.ex = fs.heap[l[i]].ex
        BY <1>3, <2>1, <2>5, <3>2 DEF SameTable
      <4>2. u.id \in net.ids /\ u.id # id BY <1>3, <2>1, <3>2, <4>1
      <4>3. Told(h, u) BY <1>4, <3>2, <4>1, ToldSame
      <4>4. y[u.id] = h[u.id] BY <1>2, <4>2
      <4> QED BY <4>3, <4>4, ToldOther
    <3> QED BY <2>5, <3>1, <3>2
  <2>8. AllKept(g, k, y, F)
    <3> SUFFICES ASSUME NEW i \in net.ids, y[i].kind = "data" PROVE i \in F \/ InTheChain(g, k, i)
      BY DEF AllKept
    <3>1. CASE i = id
      <4>1. Len(l) + 1 \in DOMAIN q /\ g.heap[q[Len(l) + 1]].id = id BY <2>1, <2>5
      <4> QED BY <2>1, <2>4, <3>1, <4>1 DEF InTheChain
    <3>2. CASE i # id
      <4>1. h[i].kind = "data" BY <1>2, <3>2
      <4>2. CASE i \in G BY <2>6, <3>2, <4>2
      <4>3. CASE InTheChain(fs, k, i)
        <5>1. PICK n \in DOMAIN l : fs.heap[l[n]].id = i BY <4>3 DEF InTheChain
        <5>2. n \in DOMAIN q /\ g.heap[q[n]].id = i BY <1>3, <2>1, <2>5, <5>1 DEF SameTable
        <5> QED BY <2>1, <2>4, <5>2 DEF InTheChain
      <4> QED BY <4>1, <4>2, <4>3 DEF Knows, AllKept
    <3> QED BY <3>1, <3>2
  <2> QED BY <1>1, <2>1, <2>7, <2>8 DEF Knows, CacheKept
<1>7. CASE \E t \in Live(fs, k) :
              /\ t = Lookup(fs, k, id) /\ fs.heap[t].id = id
              /\ g.exps[k].list = l /\ g.exps[k].cur = t
              /\ g.heap[t].id = id /\ g.heap[t].ex = x
              /\ \A u \in DOMAIN fs.heap \ {t} : g.heap[u].id = fs.heap[u].id
                                                 /\ g.heap[u].ex = fs.heap[u].ex
  <2>1. PICK t \in Live(fs, k) :
              /\ t = Lookup(fs, k, id) /\ fs.heap[t].id = id
              /\ g.exps[k].list = l /\ g.exps[k].cur = t
              /\ g.heap[t].id = id /\ g.heap[t].ex = x
              /\ \A u \in DOMAIN fs.heap \ {t} : g.heap[u].id = fs.heap[u].id
                                                 /\ g.heap[u].ex = fs.heap[u].ex
    BY <1>7
  <2>2. t # 0
    <3>1. t \in DOMAIN fs.heap /\ fs.heap \in Seq(TableType) BY InHeap, Parts DEF Placed
    <3> QED BY <3>1
  <2>3. (\E i \in DOMAIN l : l[i] = t) \/ t = fs.exps[k].cur BY <2>1, LiveIs
  <2>4. \A i \in DOMAIN l : l[i] # t => fs.heap[l[i]].id # id
    <3> SUFFICES ASSUME NEW i \in DOMAIN l, fs.heap[l[i]].id = id PROVE l[i] = t
      OBVIOUS
    <3>1. CASE \E j \in DOMAIN l : l[j] = t BY <1>5, <2>1, <3>1 DEF Own
    <3>2. CASE t = fs.exps[k].cur BY <1>5, <2>1, <2>2, <3>2 DEF Own
    <3> QED BY <2>3, <3>1, <3>2
  <2>5. (\E i \in DOMAIN l : l[i] = t) \/ (id \in F /\ F = G)
    <3> SUFFICES ASSUME \A i \in DOMAIN l : l[i] # t PROVE id \in F /\ F = G
      OBVIOUS
    <3>1. t = fs.exps[k].cur BY <2>3
    <3>2. id \in G BY <2>1, <2>2, <3>1 DEF Knows, CacheKept, OfTheChain
    <3>3. ~InTheChain(fs, k, id) BY <2>4 DEF InTheChain
    <3> QED BY <2>1, <2>2, <3>2, <3>3
  <2>6. AsHeard(g, k, y)
    <3> SUFFICES ASSUME NEW i \in DOMAIN l, NEW u, u = g.heap[l[i]]
                 PROVE  Told(y, u)
      BY <2>1 DEF AsHeard
    <3>1. CASE l[i] = t
      <4>1. u.id = id /\ u.ex = x BY <2>1, <3>1
      <4> QED BY <1>2, <4>1 DEF Told
    <3>2. CASE l[i] # t
      <4>1. u.id = fs.heap[l[i]].id /\ u.ex = fs.heap[l[i]].ex BY <1>3, <2>1, <3>2
      <4>2. u.id \in net.ids /\ u.id # id BY <1>3, <2>4, <3>2, <4>1
      <4>3. Told(h, u) BY <1>4, <4>1, ToldSame
      <4>4. y[u.id] = h[u.id] BY <1>2, <4>2
      <4> QED BY <4>3, <4>4, ToldOther
    <3> QED BY <3>1, <3>2
  <2>7. AllKept(g, k, y, F)
    <3> SUFFICES ASSUME NEW i \in net.ids, y[i].kind = "data" PROVE i \in F \/ InTheChain(g, k, i)
      BY DEF AllKept
    <3>1. CASE i = id BY Zenon, <2>1, <2>5, <3>1 DEF InTheChain
    <3>2. CASE i # id
      <4>1. h[i].kind = "data" BY <1>2, <3>2
      <4>2. CASE i \in G BY <3>2, <4>2
      <4>3. CASE InTheChain(fs, k, i)
        <5>1. PICK n \in DOMAIN l : fs.heap[l[n]].id = i BY <4>3 DEF InTheChain
        <5>2. l[n] # t BY <2>1, <3>2, <5>1
        <5>3. g.heap[l[n]].id = i BY <1>3, <2>1, <5>1, <5>2
        <5> QED BY <2>1, <5>3 DEF InTheChain
      <4> QED BY <4>1, <4>2, <4>3 DEF Knows, AllKept
    <3> QED BY <3>1, <3>2
  <2>8. CacheKept(g, k, F) BY <2>1, <2>5 DEF CacheKept, OfTheChain
  <2> QED BY <1>1, <2>6, <2>7, <2>8 DEF Knows
<1> QED BY Zenon, <1>6, <1>7 DEF Templated

\* A withdrawn template is known to be none; those that went with the head of
\* the chain are lost.
LEMMA KnowsWithdrawn ==
    ASSUME NEW fs, Placed(fs), NEW k \in DOMAIN fs.exps, NEW h \in Heard, NEW G,
           Knows(fs, k, h, G), InUseIds(fs, k),
           NEW id \in net.ids, NEW g, Withdrawn(fs, g, k, id), NEW F, G \subseteq F,
           (1 \in DOMAIN fs.exps[k].list /\ fs.heap[fs.exps[k].list[1]].id = id) =>
              \A j \in DOMAIN fs.exps[k].list \ {1} : fs.heap[fs.exps[k].list[j]].id \in F
    PROVE  Knows(g, k, [h EXCEPT ![id] = Announced("none", {})], F)
<1> DEFINE l == fs.exps[k].list
           q == g.exps[k].list
           c == g.exps[k].cur
<1>1. PICK y : y = [h EXCEPT ![id] = Announced("none", {})] BY Zenon
<1>2. y[id].kind = "none" /\ \A i \in net.ids : i # id => y[i] = h[i]
  BY <1>1 DEF Heard, Announced
<1>3. \A i \in DOMAIN l : l[i] \in DOMAIN fs.heap /\ fs.heap[l[i]].id \in net.ids
  BY InHeap DEF InUseIds
<1>4. /\ \A n \in DOMAIN q : \E j \in DOMAIN l : q[n] = l[j] /\ fs.heap[l[j]].id # id
      /\ \A u \in DOMAIN fs.heap : g.heap[u].id = fs.heap[u].id /\ g.heap[u].ex = fs.heap[u].ex
      /\ c = 0 \/ c = fs.exps[k].cur
      /\ c # 0 => \A j \in DOMAIN l : l[j] = c => fs.heap[l[j]].id # id
  BY DEF Withdrawn
<1>5. ASSUME NEW j \in DOMAIN l, fs.heap[l[j]].id # id
      PROVE  fs.heap[l[j]].id \in F \/ \E n \in DOMAIN q : q[n] = l[j]
  <2>1. CASE 1 \in DOMAIN l /\ fs.heap[l[1]].id = id
    <3>1. j # 1 BY <1>5, <2>1
    <3> QED BY <2>1, <3>1
  <2>2. CASE ~(1 \in DOMAIN l /\ fs.heap[l[1]].id = id) BY Zenon, <1>5, <2>2 DEF Withdrawn
  <2> QED BY <2>1, <2>2
<1>6. AsHeard(g, k, y)
  <2> SUFFICES ASSUME NEW n \in DOMAIN q, NEW u, u = g.heap[q[n]]
               PROVE  Told(y, u)
    BY DEF AsHeard
  <2>1. PICK j \in DOMAIN l : q[n] = l[j] /\ fs.heap[l[j]].id # id BY <1>4
  <2>2. u.id = fs.heap[l[j]].id /\ u.ex = fs.heap[l[j]].ex BY <1>3, <1>4, <2>1
  <2>3. u.id \in net.ids /\ u.id # id BY <1>3, <2>1, <2>2
  <2>4. Told(h, fs.heap[l[j]]) BY DEF Knows, AsHeard
  <2>5. Told(h, u) BY <2>2, <2>4, ToldSame
  <2>6. y[u.id] = h[u.id] BY <1>2, <2>3
  <2> QED BY <2>5, <2>6, ToldOther
<1>7. AllKept(g, k, y, F)
  <2> SUFFICES ASSUME NEW i \in net.ids, y[i].kind = "data" PROVE i \in F \/ InTheChain(g, k, i)
    BY DEF AllKept
  <2>1. i # id /\ h[i].kind = "data" BY <1>2
  <2>2. CASE i \in G BY <2>2
  <2>3. CASE InTheChain(fs, k, i)
    <3>1. PICK j \in DOMAIN l : fs.heap[l[j]].id = i BY <2>3 DEF InTheChain
    <3>2. i \in F \/ \E n \in DOMAIN q : q[n] = l[j] BY <1>5, <2>1, <3>1
    <3>3. g.heap[l[j]].id = i BY <1>3, <1>4, <3>1
    <3> QED BY <3>2, <3>3 DEF InTheChain
  <2> QED BY <2>1, <2>2, <2>3 DEF Knows, AllKept
<1>8. ASSUME c # 0 PROVE OfTheChain(g, k) \/ g.heap[c].id \in F
  <2>1. c = fs.exps[k].cur BY <1>4, <1>8
  <2>2. c \in DOMAIN fs.heap BY <1>8, <2>1, InHeap
  <2>3. g.heap[c].id = fs.heap[c].id BY <1>4, <2>2
  <2>4. CASE OfTheChain(fs, k)
    <3>1. PICK j \in DOMAIN l : l[j] = c BY <2>1, <2>4 DEF OfTheChain
    <3>2. fs.heap[l[j]].id # id BY <1>4, <1>8, <3>1
    <3>3. fs.heap[l[j]].id \in F \/ \E n \in DOMAIN q : q[n] = l[j] BY <1>5, <3>2
    <3> QED BY <2>3, <3>1, <3>3 DEF OfTheChain
  <2>5. CASE fs.heap[fs.exps[k].cur].id \in G BY <2>1, <2>3, <2>5
  <2> QED BY <1>8, <2>1, <2>4, <2>5 DEF Knows, CacheKept
<1> QED BY <1>1, <1>6, <1>7, <1>8 DEF Knows, CacheKept

-----------------------------------------------------------------------------
(* Packets and what is known                                               *)

\* What an exporter whose packet has arrived knows, before the set is decoded.
LEMMA CheckedKnows ==
    ASSUME TemplatesInv, NEW d \in Devices \ V5,
           NEW f, f = Checked(d), NEW k, k = Index(f, d)
    PROVE  Knows(f, k, heard[d], Gone(d)) /\ InUseIds(f, k) /\ heard[d] \in Heard
<1>1. Ready(f, SourceOf(d), d) BY CheckedDoes DEF TemplatesInv
<1>2. /\ Placed(f) /\ k \in DOMAIN f.exps /\ f.exps[k].dev = d /\ MembersOf(f, SourceOf(d))
      /\ Since(src[SourceOf(d)], f, d)
  BY <1>1 DEF Ready
<1>3. PICK o : o = src[SourceOf(d)] OBVIOUS
<1>4. Placed(o)
  <2>1. SourceOf(d) \in Sources BY Surroundings DEF TemplatesInv, TablesInv, Typed
  <2> QED BY <1>3, <2>1 DEF TemplatesInv, TablesInv, Holds
<1>5. InUseIds(f, k) BY <1>2 DEF MembersOf, Member
<1>6. CASE k \in DOMAIN o.exps
  <2>1. SameChain(o.exps[k], f.exps[k]) BY <1>2, <1>3, <1>6 DEF Since
  <2>2. \A u \in DOMAIN o.heap : SameTable(o.heap[u], f.heap[u]) BY <1>2, <1>3 DEF Since
  <2>3. \A t \in Live(o, k) : SameTable(o.heap[t], f.heap[t]) BY <1>4, <1>6, <2>2, InHeap
  <2>4. o.exps[k].dev = d BY <1>2, <2>1 DEF SameChain
  <2>5. Knows(o, k, heard[d], Gone(d)) BY <1>3, <1>6, <2>4 DEF TemplatesInv, Follows
  <2>6. PICK h : h = heard[d] OBVIOUS
  <2>7. PICK G : G = Gone(d) OBVIOUS
  <2>8. Knows(f, k, h, G) BY <2>1, <2>3, <2>5, <2>6, <2>7, KnowsSame
  <2> QED BY <1>5, <2>6, <2>7, <2>8 DEF TemplatesInv
<1>7. CASE k \notin DOMAIN o.exps
  <2>1. f.exps[k].list = <<>> /\ f.exps[k].cur = 0 BY <1>2, <1>3, <1>7 DEF Since
  <2>2. New(d)
    <3> SUFFICES ASSUME NEW j \in DOMAIN o.exps, o.exps[j].dev = d PROVE FALSE
      BY <1>3 DEF New, Has
    <3>1. j \in DOMAIN f.exps /\ f.exps[j].dev = d BY <1>2, <1>3 DEF Since, SameChain
    <3>2. j = k BY <1>2, <3>1 DEF Placed
    <3> QED BY <1>7, <3>2
  <2>3. \A id \in net.ids : heard[d][id].kind = "none" BY <2>2 DEF TemplatesInv, Follows
  <2>4. PICK h : h = heard[d] OBVIOUS
  <2>5. PICK G : G = Gone(d) OBVIOUS
  <2>6. Knows(f, k, h, G) BY <2>1, <2>3, <2>4, KnowsNothing
  <2> QED BY <1>5, <2>4, <2>5, <2>6 DEF TemplatesInv
<1> QED BY <1>6, <1>7

\* The chain and the tables before a packet are the ones it finds.
LEMMA CheckedFinds ==
    ASSUME TablesInv, NEW d \in Devices \ V5, NEW f, f = Checked(d), NEW k, k = Index(f, d)
    PROVE  /\ Chain(d) = [i \in DOMAIN f.exps[k].list |-> f.heap[f.exps[k].list[i]].id]
           /\ \A id : Table(d, id) = Lookup(f, k, id)
<1>1. Ready(f, SourceOf(d), d) BY CheckedDoes
<1>2. /\ Placed(f) /\ k \in DOMAIN f.exps /\ f.exps[k].dev = d
      /\ Since(src[SourceOf(d)], f, d)
  BY <1>1 DEF Ready
<1>3. PICK o : o = src[SourceOf(d)] OBVIOUS
<1>4. Placed(o)
  <2>1. SourceOf(d) \in Sources BY Surroundings DEF TablesInv, Typed
  <2> QED BY <1>3, <2>1 DEF TablesInv, Holds
<1>5. CASE k \in DOMAIN o.exps
  <2>1. SameChain(o.exps[k], f.exps[k]) BY <1>2, <1>3, <1>5 DEF Since
  <2>2. o.exps[k].dev = d /\ o.exps[k].list = f.exps[k].list /\ o.exps[k].cur = f.exps[k].cur
    BY Zenon, <1>2, <2>1 DEF SameChain
  <2>3. Index(o, d) = k
    <3>1. Index(o, o.exps[k].dev) = k BY <1>4, <1>5, IndexIs
    <3> QED BY <2>2, <3>1
  <2>4. ~New(d) BY <1>3, <1>5, <2>2 DEF New, Has
  <2>5. /\ \A i \in DOMAIN o.exps[k].list :
              f.heap[o.exps[k].list[i]].id = o.heap[o.exps[k].list[i]].id
        /\ o.exps[k].cur # 0 => f.heap[o.exps[k].cur].id = o.heap[o.exps[k].cur].id
    BY <1>2, <1>3, <1>4, <1>5, InHeap DEF Since, SameTable
  <2>6. Chain(d) = [i \in DOMAIN f.exps[k].list |-> f.heap[f.exps[k].list[i]].id]
    <3>1. Chain(d) = [i \in DOMAIN o.exps[k].list |-> o.heap[o.exps[k].list[i]].id]
      BY <1>3, <2>3, <2>4 DEF Chain, Exporter
    <3>2. PICK l : l = f.exps[k].list OBVIOUS
    <3>3. o.exps[k].list = l BY <2>2, <3>2
    <3>4. Chain(d) = [i \in DOMAIN l |-> o.heap[l[i]].id] BY <3>1, <3>3
    <3>5. \A i \in DOMAIN l : f.heap[l[i]].id = o.heap[l[i]].id BY <2>5, <3>3
    <3>6. Chain(d) = [i \in DOMAIN l |-> f.heap[l[i]].id] BY <3>4, <3>5
    <3> QED BY <3>2, <3>6
  <2>7. ASSUME NEW id PROVE Table(d, id) = Lookup(f, k, id)
    <3>1. Table(d, id) = Lookup(o, k, id) BY <1>3, <2>3, <2>4 DEF Table
    <3>2. Cached(o, k, id) <=> Cached(f, k, id) BY <2>2, <2>5 DEF Cached
    <3>3. InChain(o, k, id) = InChain(f, k, id) BY <2>2, <2>5 DEF InChain
    <3> QED BY <2>2, <3>1, <3>2, <3>3 DEF Lookup
  <2> QED BY <2>6, <2>7
<1>6. CASE k \notin DOMAIN o.exps
  <2>1. f.exps[k].list = <<>> /\ f.exps[k].cur = 0 BY <1>2, <1>3, <1>6 DEF Since
  <2>2. New(d)
    <3> SUFFICES ASSUME NEW j \in DOMAIN o.exps, o.exps[j].dev = d PROVE FALSE
      BY <1>3 DEF New, Has
    <3>1. j \in DOMAIN f.exps /\ f.exps[j].dev = d BY <1>2, <1>3 DEF Since, SameChain
    <3>2. j = k BY <1>2, <3>1 DEF Placed
    <3> QED BY <1>6, <3>2
  <2>3. Chain(d) = <<>> /\ \A id : Table(d, id) = 0 BY <2>2 DEF Chain, Table
  <2>4. \A id : Lookup(f, k, id) = 0
    <3>1. \A id : ~Cached(f, k, id) BY <2>1 DEF Cached
    <3>2. \A id : InChain(f, k, id) = {} BY <2>1 DEF InChain
    <3> QED BY <3>1, <3>2 DEF Lookup
  <2>5. [i \in DOMAIN f.exps[k].list |-> f.heap[f.exps[k].list[i]].id] = <<>> BY <2>1
  <2> QED BY <2>3, <2>4, <2>5
<1> QED BY <1>5, <1>6

\* The others know what they knew.
LEMMA KnowsPrimed == ASSUME net' = net, NEW fs, NEW k, NEW h, NEW G, Knows(fs, k, h, G)
                     PROVE  (Knows(fs, k, h, G))'
BY DEF Knows, Told, AsHeard, AllKept, InTheChain, CacheKept, OfTheChain

LEMMA OthersFollow ==
    ASSUME TemplatesInv, NEW d \in Devices, NEW f, f = Checked(d), NEW k, k = Index(f, d),
           NEW g, Touches(f, g, k), GotPacket(d, g),
           NEW e \in Devices \ V5, e # d, heard'[e] = heard[e], Gone(e)' = Gone(e)
    PROVE  Follows(e)'
<1>1. TablesInv /\ Typed /\ net' = net BY DEF TemplatesInv, TablesInv, GotPacket
<1>2. Ready(f, SourceOf(d), d) BY <1>1, CheckedDoes
<1>3. /\ Placed(f) /\ k \in DOMAIN f.exps /\ f.exps[k].dev = d
      /\ Since(src[SourceOf(d)], f, d)
  BY <1>2 DEF Ready
<1>4. SourceOf(e) \in Sources /\ SourceOf(d) \in Sources BY <1>1, Surroundings DEF Typed
<1>5. PICK s : s = SourceOf(e) OBVIOUS
<1>6. PICK o : o = src[s] OBVIOUS
<1>7. PICK p : p = src'[s] OBVIOUS
<1>8. PICK h : h = heard[e] OBVIOUS
<1>9. PICK G : G = Gone(e) OBVIOUS
<1>10. Placed(o) BY <1>1, <1>4, <1>5, <1>6 DEF TablesInv, Holds
<1>11. Placed(g) /\ g \in SourceType BY DEF Touches, Placed
<1>12. /\ src'[SourceOf(d)] = g
       /\ \A x \in Sources : x # SourceOf(d) => Alike(src[x], src'[x])
  BY <1>1, <1>11, PacketSrc
<1>13. /\ \A j \in DOMAIN p.exps : p.exps[j].dev = e =>
             /\ j \in DOMAIN o.exps /\ SameChain(o.exps[j], p.exps[j])
             /\ \A t \in Live(o, j) : SameTable(o.heap[t], p.heap[t])
       /\ \A j \in DOMAIN o.exps : j \in DOMAIN p.exps /\ p.exps[j].dev = o.exps[j].dev
  <2>1. CASE s = SourceOf(d)
    <3>1. p = g /\ Since(o, f, d) BY <1>3, <1>6, <1>7, <1>12, <2>1
    <3>2. ASSUME NEW j \in DOMAIN p.exps, p.exps[j].dev = e
          PROVE  /\ j \in DOMAIN o.exps /\ SameChain(o.exps[j], p.exps[j])
                 /\ \A t \in Live(o, j) : SameTable(o.heap[t], p.heap[t])
      <4>1. j \in DOMAIN f.exps /\ j # k BY <1>3, <3>1, <3>2 DEF Touches
      <4>2. /\ SameChain(f.exps[j], g.exps[j])
            /\ \A t \in Live(f, j) : SameTable(f.heap[t], g.heap[t])
        BY <4>1 DEF Touches
      <4>3. f.exps[j].dev = e BY <3>1, <3>2, <4>2 DEF SameChain
      <4>4. j \in DOMAIN o.exps BY <3>1, <4>1, <4>3 DEF Since
      <4>5. SameChain(o.exps[j], f.exps[j]) BY <3>1, <4>4 DEF Since
      <4>6. Live(f, j) = Live(o, j) BY <4>5 DEF SameChain, Live
      <4>7. \A t \in Live(o, j) : SameTable(o.heap[t], f.heap[t])
        BY <1>10, <3>1, <4>4, InHeap DEF Since
      <4> QED BY <3>1, <4>2, <4>4, <4>5, <4>6, <4>7 DEF SameChain, SameTable
    <3>3. ASSUME NEW j \in DOMAIN o.exps
          PROVE j \in DOMAIN p.exps /\ p.exps[j].dev = o.exps[j].dev
      <4>1. j \in DOMAIN f.exps /\ f.exps[j].dev = o.exps[j].dev BY <3>1 DEF Since, SameChain
      <4>2. j \in DOMAIN g.exps /\ g.exps[j].dev = f.exps[j].dev BY <4>1 DEF Touches, SameChain
      <4> QED BY <3>1, <4>1, <4>2
    <3> QED BY <3>2, <3>3
  <2>2. CASE s # SourceOf(d)
    <3>1. Alike(o, p) BY <1>4, <1>5, <1>6, <1>7, <1>12, <2>2
    <3>2. \A j \in DOMAIN o.exps : \A t \in Live(o, j) : SameTable(o.heap[t], p.heap[t])
      BY <1>10, <3>1, InHeap DEF Alike
    <3> QED BY <3>1, <3>2 DEF Alike, SameChain
  <2> QED BY <2>1, <2>2
<1>14. \A j \in DOMAIN o.exps : o.exps[j].dev = e => Knows(o, j, h, G)
  BY <1>5, <1>6, <1>8, <1>9 DEF TemplatesInv, Follows
<1>15. ASSUME NEW j \in DOMAIN p.exps, p.exps[j].dev = e PROVE (Knows(p, j, h, G))'
  <2>1. /\ j \in DOMAIN o.exps /\ SameChain(o.exps[j], p.exps[j])
        /\ \A t \in Live(o, j) : SameTable(o.heap[t], p.heap[t])
    BY <1>13, <1>15
  <2>2. o.exps[j].dev = e BY <1>15, <2>1 DEF SameChain
  <2>3. Knows(p, j, h, G) BY <1>14, <2>1, <2>2, KnowsSame
  <2> QED BY <1>1, <2>3, KnowsPrimed
<1>16. SourceOf(e)' = s BY <1>1, <1>5, SameNet
<1>17. New(e)' => New(e)
  <2>1. New(e)' <=> ~\E j \in DOMAIN p.exps : p.exps[j].dev = e BY <1>7, <1>16 DEF New, Has
  <2>2. New(e) <=> ~\E j \in DOMAIN o.exps : o.exps[j].dev = e BY <1>5, <1>6 DEF New, Has
  <2> QED BY <1>13, <2>1, <2>2
<1>18. New(e)' => \A id \in net'.ids : heard'[e][id].kind = "none"
  BY <1>1, <1>17 DEF TemplatesInv, Follows
<1>19. \A j \in DOMAIN src'[SourceOf(e)'].exps :
          src'[SourceOf(e)'].exps[j].dev = e => Knows(src[SourceOf(e)], j, heard[e], Gone(e))'
  BY <1>7, <1>8, <1>9, <1>15, <1>16
<1> QED BY <1>18, <1>19 DEF Follows

LEMMA HeardSame == ASSUME net' = net PROVE Heard' = Heard
BY DEF Heard

\* A packet after which its exporter knows its templates.
LEMMA PacketFollows ==
    ASSUME TemplatesInv, TablesInv', NEW d \in Devices \ V5,
           NEW f, f = Checked(d), NEW k, k = Index(f, d),
           NEW g, Touches(f, g, k), GotPacket(d, g),
           NEW h \in Heard, heard' = [heard EXCEPT ![d] = h],
           \A e \in Devices \ {d} : \A id : <<e, id>> \in lost' <=> <<e, id>> \in lost,
           NEW F, F = {id \in net.ids : <<d, id>> \in lost'}, Knows(g, k, h, F)
    PROVE  TemplatesInv'
<1>1. TablesInv /\ Typed /\ net' = net BY DEF TemplatesInv, TablesInv, GotPacket
<1>2. Devices' = Devices /\ \A e : SourceOf(e)' = SourceOf(e) BY <1>1, SameNet
<1>3. Heard' = Heard BY <1>1, HeardSame
<1>4. heard \in [Devices -> Heard] BY DEF TemplatesInv
<1>5. heard' \in [Devices -> Heard] /\ heard'[d] = h /\ \A e \in Devices : e # d
     => heard'[e] = heard[e]
  BY <1>4
<1>6. ASSUME NEW e \in Devices \ V5, e # d PROVE Follows(e)'
  <2>1. Gone(e)' = Gone(e) BY <1>1, <1>6 DEF Gone
  <2>2. heard'[e] = heard[e] BY <1>5, <1>6
  <2> QED BY <1>6, <2>1, <2>2, OthersFollow
<1>7. Follows(d)'
  <2>1. Ready(f, SourceOf(d), d) BY <1>1, CheckedDoes
  <2>2. k \in DOMAIN f.exps /\ f.exps[k].dev = d BY <2>1 DEF Ready
  <2>3. Placed(g) /\ k \in DOMAIN g.exps /\ g.exps[k].dev = d /\ g \in SourceType
    BY <2>2 DEF Touches, Placed
  <2>4. src'[SourceOf(d)] = g BY <1>1, <2>3, PacketSrc
  <2>5. \A j \in DOMAIN g.exps : g.exps[j].dev = d => j = k BY <2>3 DEF Placed
  <2>6. PICK x : x = SourceOf(d) OBVIOUS
  <2>7. SourceOf(d)' = x /\ src'[x] = g BY <1>2, <2>4, <2>6
  <2>8. Gone(d)' = F BY <1>1 DEF Gone
  <2>9. (Knows(g, k, h, F))' BY <1>1, KnowsPrimed
  <2>10. \A j \in DOMAIN src'[SourceOf(d)'].exps :
            src'[SourceOf(d)'].exps[j].dev = d => Knows(src[SourceOf(d)], j, heard[d], Gone(d))'
    BY <1>5, <2>5, <2>7, <2>8, <2>9
  <2>11. ~New(d)' BY <2>3, <2>7 DEF New, Has
  <2> QED BY <2>10, <2>11 DEF Follows
<1> QED BY <1>2, <1>3, <1>5, <1>6, <1>7 DEF TemplatesInv

\* The packets of v5 are of no concern to the others.
LEMMA V5Follows == ASSUME TemplatesInv, NEW d \in V5 \cap Devices, V5Packet(d) PROVE TemplatesInv'
<1>1. TablesInv /\ TablesInv' BY V5Keeps DEF TemplatesInv
<1>2. PICK f : f = Checked(d) OBVIOUS
<1>3. PICK k : k = Index(f, d) OBVIOUS
<1>4. Ready(f, SourceOf(d), d) BY <1>1, <1>2, CheckedDoes
<1>5. Placed(f) /\ k \in DOMAIN f.exps /\ f.exps[k].dev = d /\ MembersOf(f, SourceOf(d))
  BY <1>3, <1>4 DEF Ready
<1>6. PICK t : t = f.exps[k].list[1] OBVIOUS
<1>7. t \in Live(f, k)
  <2>1. 1 \in DOMAIN f.exps[k].list BY <1>5 DEF MembersOf, Member
  <2> QED BY <1>6, <2>1, LiveIs
<1>8. PICK g : g = AddRecord(f, t) OBVIOUS
<1>9. GotPacket(d, g) BY <1>2, <1>3, <1>6, <1>8 DEF V5Packet, Packet, GotPacket
<1>10. Alike(f, g) BY <1>5, <1>7, <1>8, RecordTouches
<1>11. Touches(f, g, k) BY <1>5, <1>10, AlikeTouches
<1>12. net' = net /\ heard' = heard /\ lost' = lost BY DEF V5Packet, Packet
<1>13. ASSUME NEW e \in Devices \ V5 PROVE Follows(e)'
  <2>1. Gone(e)' = Gone(e) /\ heard'[e] = heard[e] BY <1>12 DEF Gone
  <2> QED BY <1>2, <1>3, <1>9, <1>11, <2>1, OthersFollow
<1> QED BY <1>1, <1>12, <1>13, HeardSame, SameNet DEF TemplatesInv

LEMMA OptionsFollow ==
    ASSUME TemplatesInv, NEW d \in Devices \ V5, NEW id \in net.ids, NEW kind \in net.kinds,
           OptionTemplate(d, id, kind)
    PROVE  TemplatesInv'
<1>1. TablesInv /\ Typed /\ TablesInv' BY OptionTemplateKeeps DEF TemplatesInv, TablesInv
<1>2. PICK f : f = Checked(d) OBVIOUS
<1>3. PICK k : k = Index(f, d) OBVIOUS
<1>4. Ready(f, SourceOf(d), d) BY <1>1, <1>2, CheckedDoes
<1>5. Placed(f) /\ k \in DOMAIN f.exps BY <1>3, <1>4 DEF Ready
<1>6. PICK i \in TemplateIds : i = id BY <1>1, Surroundings DEF Typed
<1>7. PICK x \in Kinds : x = kind BY <1>1, Surroundings DEF Typed
<1>8. PICK g : g = IF d \in V9 THEN InsertOffset(f, i, x) ELSE f OBVIOUS
<1>9. GotPacket(d, g)
  BY Zenon, <1>2, <1>3, <1>6, <1>7, <1>8 DEF OptionTemplate, Packet, GotPacket
<1>10. Alike(f, g) BY <1>5, <1>8, OffsetAlike, AlikeSelf DEF Placed
<1>11. Touches(f, g, k) /\ KeepsChain(f, g, k) BY <1>5, <1>10, AlikeTouches
<1>12. Knows(f, k, heard[d], Gone(d)) /\ InUseIds(f, k) /\ heard[d] \in Heard
  BY <1>2, <1>3, CheckedKnows
<1>13. PICK o \in Heard : o = heard[d] BY <1>12
<1>14. PICK h : h = [o EXCEPT ![id] = Announced(kind, {})] BY Zenon
<1>15. PICK F : F = Gone(d) OBVIOUS
<1>16. Knows(f, k, h, F) BY Zenon, <1>1, <1>12, <1>13, <1>14, <1>15, KnowsOptions DEF Typed
<1>17. Knows(g, k, h, F) BY <1>11, <1>16, KnowsChain
<1>18. h \in Heard BY <1>14 DEF Heard, Announced
<1>19. heard' = [heard EXCEPT ![d] = [heard[d] EXCEPT ![id] = Announced(kind, {})]]
     /\ lost' = lost
  BY DEF OptionTemplate, Packet
<1>20. heard' = [heard EXCEPT ![d] = h] BY <1>13, <1>14, <1>19
<1>21. F = {a \in net.ids : <<d, a>> \in lost'} BY <1>15, <1>19 DEF Gone
<1> QED BY Zenon, <1>1, <1>2, <1>3, <1>9, <1>11, <1>17, <1>18, <1>19, <1>20, <1>21, PacketFollows

LEMMA TemplateFollows ==
    ASSUME TemplatesInv, NEW d \in Devices \ V5, NEW id \in net.ids, NEW ex \in net.layouts,
           Template(d, id, ex)
    PROVE  TemplatesInv'
<1>1. TablesInv /\ Typed /\ TablesInv' BY TemplateKeeps DEF TemplatesInv, TablesInv
<1>2. PICK f : f = Checked(d) OBVIOUS
<1>3. PICK k : k = Index(f, d) OBVIOUS
<1>4. Ready(f, SourceOf(d), d) BY <1>1, <1>2, CheckedDoes
<1>5. Placed(f) /\ k \in DOMAIN f.exps BY <1>3, <1>4 DEF Ready
<1>6. PICK i \in TemplateIds \cap net.ids : i = id BY <1>1, Surroundings DEF Typed
<1>7. ex \in Layout /\ RouterId \notin ex BY <1>1, Surroundings DEF Typed
<1>8. PICK x \in Layout : x = Stored(d, ex)
  <2>1. Stored(d, ex) \in Layout BY <1>7, Constants DEF Stored, Layout
  <2> QED BY <2>1
<1>9. x \ {RouterId} = ex BY <1>7, <1>8 DEF Stored
<1>10. PICK g : g = AddTemplate(f, k, i, x) OBVIOUS
<1>11. GotPacket(d, g) BY Zenon, <1>2, <1>3, <1>6, <1>8, <1>10 DEF Template, Packet, GotPacket
<1>12. Touches(f, g, k) /\ Templated(f, g, k, i, x) BY <1>5, <1>10, TemplateTouches
<1>13. Knows(f, k, heard[d], Gone(d)) /\ InUseIds(f, k) /\ heard[d] \in Heard
  BY <1>2, <1>3, CheckedKnows
<1>14. PICK o \in Heard : o = heard[d] BY <1>13
<1>15. PICK h : h = [o EXCEPT ![i] = Announced("data", ex)] BY Zenon
<1>16. PICK G : G = Gone(d) OBVIOUS
<1>17. PICK F : F = IF Lookup(f, k, i) # 0 /\ ~InTheChain(f, k, i) THEN G ELSE G \ {i} BY Zenon
<1>18. Knows(g, k, h, F)
  BY Zenon, <1>5, <1>9, <1>12, <1>13, <1>14, <1>15, <1>16, <1>17, KnowsTemplate
<1>19. h \in Heard
  <2>1. Announced("data", ex) \in [kind : {"none", "data"} \cup net.kinds, ex : SUBSET Nat]
    BY <1>7 DEF Announced, Layout
  <2> QED BY <1>15, <2>1 DEF Heard
<1>20. /\ heard' = [heard EXCEPT ![d] = [heard[d] EXCEPT ![id] = Announced("data", ex)]]
       /\ lost' = IF Table(d, id) # 0 /\ id \notin Range(Chain(d)) THEN lost
          ELSE lost \ {<<d, id>>}
  BY DEF Template, Packet
<1>21. heard' = [heard EXCEPT ![d] = h] BY <1>6, <1>14, <1>15, <1>20
<1>22. Table(d, id) = Lookup(f, k, i) /\ (id \in Range(Chain(d)) <=> InTheChain(f, k, i))
  <2>1. /\ Chain(d) = [n \in DOMAIN f.exps[k].list |-> f.heap[f.exps[k].list[n]].id]
        /\ \A z : Table(d, z) = Lookup(f, k, z)
    BY <1>1, <1>2, <1>3, CheckedFinds
  <2> QED BY <1>6, <2>1 DEF Range, InTheChain
<1>23. F = {a \in net.ids : <<d, a>> \in lost'}
  BY <1>6, <1>16, <1>17, <1>20, <1>22 DEF Gone
<1>24. \A e \in Devices \ {d} : \A z : <<e, z>> \in lost' <=> <<e, z>> \in lost
  BY <1>20
<1> QED BY Zenon, <1>1, <1>2, <1>3, <1>11, <1>12, <1>18, <1>19, <1>21, <1>23, <1>24, PacketFollows

\* A data set changes no template.
LEMMA DataFollows ==
    ASSUME TemplatesInv, TablesInv', NEW d \in Devices \ V5,
           NEW f, f = Checked(d), NEW k, k = Index(f, d), NEW g, Touches(f, g, k),
           KeepsChain(f, g, k), GotPacket(d, g), heard' = heard, lost' = lost
    PROVE  TemplatesInv'
<1>1. Knows(f, k, heard[d], Gone(d)) /\ heard[d] \in Heard BY CheckedKnows
<1>2. PICK h \in Heard : h = heard[d] BY <1>1
<1>3. PICK F : F = Gone(d) OBVIOUS
<1>4. Knows(g, k, h, F) BY <1>1, <1>2, <1>3, KnowsChain
<1>5. heard' = [heard EXCEPT ![d] = h] BY <1>2 DEF TemplatesInv
<1>6. F = {a \in net.ids : <<d, a>> \in lost'} BY <1>3 DEF Gone
<1> QED BY Zenon, <1>4, <1>5, <1>6, PacketFollows

LEMMA DataV9Follows ==
    ASSUME TemplatesInv, NEW d \in V9 \cap Devices, NEW id \in net.ids, NEW rate \in Rates,
           DataSetV9(d, id, rate)
    PROVE  TemplatesInv'
<1>1. TablesInv /\ TablesInv' BY DataV9Keeps DEF TemplatesInv
<1>2. PICK f : f = Checked(d) OBVIOUS
<1>3. PICK k : k = Index(f, d) OBVIOUS
<1>4. Ready(f, SourceOf(d), d) BY <1>1, <1>2, CheckedDoes
<1>5. Placed(f) /\ k \in DOMAIN f.exps BY <1>3, <1>4 DEF Ready
<1>6. PICK i : i = id OBVIOUS
<1>7. PICK g : g = DataV9(f, k, i, rate) OBVIOUS
<1>8. GotPacket(d, g) BY <1>2, <1>3, <1>6, <1>7 DEF DataSetV9, Packet, GotPacket
<1>9. Touches(f, g, k) /\ KeepsChain(f, g, k) BY <1>5, <1>7, DataV9Touches
<1>10. d \in Devices \ V5 BY Constants
<1>11. heard' = heard /\ lost' = lost BY DEF DataSetV9, Packet
<1> QED BY <1>1, <1>2, <1>3, <1>8, <1>9, <1>10, <1>11, DataFollows

LEMMA DataIpfixFollows ==
    ASSUME TemplatesInv, NEW d \in Ipfix \cap Devices, NEW id \in net.ids, DataSetIpfix(d, id)
    PROVE  TemplatesInv'
<1>1. TablesInv /\ TablesInv' BY DataIpfixKeeps DEF TemplatesInv
<1>2. PICK f : f = Checked(d) OBVIOUS
<1>3. PICK k : k = Index(f, d) OBVIOUS
<1>4. Ready(f, SourceOf(d), d) BY <1>1, <1>2, CheckedDoes
<1>5. Placed(f) /\ k \in DOMAIN f.exps BY <1>3, <1>4 DEF Ready
<1>6. PICK i : i = id OBVIOUS
<1>7. PICK g : g = DataIpfix(f, k, i) OBVIOUS
<1>8. GotPacket(d, g) BY <1>2, <1>3, <1>6, <1>7 DEF DataSetIpfix, Packet, GotPacket
<1>9. Touches(f, g, k) /\ KeepsChain(f, g, k) BY <1>5, <1>7, Constants, DataIpfixTouches
<1>10. d \in Devices \ V5 BY Constants
<1>11. heard' = heard /\ lost' = lost BY DEF DataSetIpfix, Packet
<1> QED BY <1>1, <1>2, <1>3, <1>8, <1>9, <1>10, <1>11, DataFollows

\* What goes with the head of the chain is lost.
LEMMA TailIds ==
    ASSUME NEW S, NEW c \in Seq(S), c # <<>>, NEW j \in DOMAIN c \ {1}
    PROVE  c[j] \in Range(Tail(c))
<1>1. PICK n \in Nat : n = Len(c) /\ DOMAIN c = 1..n /\ n > 0 OBVIOUS
<1>2. j \in 2..n BY <1>1
<1>3. PICK q : q = Tail(c) BY Zenon
<1>4. q \in Seq(S) /\ Len(q) = n - 1 /\ \A i \in 1..(n - 1) : q[i] = c[i + 1] BY <1>1, <1>3
<1>5. DOMAIN q = 1..(n - 1) BY <1>1, <1>4
<1>6. j - 1 \in 1..(n - 1) /\ (j - 1) + 1 = j BY <1>2
<1>7. j - 1 \in DOMAIN q /\ q[j - 1] = c[j] BY <1>4, <1>5, <1>6
<1> QED BY <1>3, <1>7 DEF Range

LEMMA WithdrawFollows ==
    ASSUME TemplatesInv, NEW d \in Ipfix \cap Devices, NEW id \in net.ids, Withdraw(d, id)
    PROVE  TemplatesInv'
<1>1. TablesInv /\ TablesInv' BY WithdrawKeeps DEF TemplatesInv
<1>2. PICK f : f = Checked(d) OBVIOUS
<1>3. PICK k : k = Index(f, d) OBVIOUS
<1>4. Ready(f, SourceOf(d), d) BY <1>1, <1>2, CheckedDoes
<1>5. Placed(f) /\ k \in DOMAIN f.exps BY <1>3, <1>4 DEF Ready
<1>6. PICK i : i = id OBVIOUS
<1>7. PICK g : g = RemoveTable(f, k, i) OBVIOUS
<1>8. GotPacket(d, g) BY <1>2, <1>3, <1>6, <1>7 DEF Withdraw, Packet, GotPacket
<1>9. Touches(f, g, k) /\ Withdrawn(f, g, k, i) BY <1>5, <1>7, RemoveTouches
<1>10. d \in Devices \ V5 BY Constants
<1>11. Knows(f, k, heard[d], Gone(d)) /\ InUseIds(f, k) /\ heard[d] \in Heard
  BY <1>2, <1>3, <1>10, CheckedKnows
<1>12. PICK o \in Heard : o = heard[d] BY <1>11
<1>13. PICK h : h = [o EXCEPT ![i] = Announced("none", {})] BY Zenon
<1>14. PICK G : G = Gone(d) OBVIOUS
<1>15. PICK F : F = {a \in net.ids : <<d, a>> \in lost'} BY Zenon
<1>16. /\ heard' = [heard EXCEPT ![d] = [heard[d] EXCEPT ![id] = Announced("none", {})]]
       /\ lost' = IF Chain(d) # <<>> /\ Head(Chain(d)) = id
                  THEN lost \cup {<<d, z>> : z \in Range(Tail(Chain(d)))} ELSE lost
  BY DEF Withdraw, Packet
<1>17. G \subseteq F BY <1>14, <1>15, <1>16 DEF Gone
<1>18. (1 \in DOMAIN f.exps[k].list /\ f.heap[f.exps[k].list[1]].id = i) =>
          \A j \in DOMAIN f.exps[k].list \ {1} : f.heap[f.exps[k].list[j]].id \in F
  <2> SUFFICES ASSUME 1 \in DOMAIN f.exps[k].list, f.heap[f.exps[k].list[1]].id = i,
                      NEW j \in DOMAIN f.exps[k].list \ {1}
               PROVE  f.heap[f.exps[k].list[j]].id \in F
    OBVIOUS
  <2>1. PICK c : c = Chain(d) OBVIOUS
  <2>2. c = [n \in DOMAIN f.exps[k].list |-> f.heap[f.exps[k].list[n]].id]
    BY <1>1, <1>2, <1>3, <1>10, <2>1, CheckedFinds
  <2>3. f.exps[k] \in ExporterType BY <1>5, Parts DEF Placed
  <2>4. PICK n \in Nat : DOMAIN f.exps[k].list = 1..n
    <3>1. f.exps[k].list \in Seq(Nat) BY <2>3 DEF ExporterType
    <3> QED BY <3>1
  <2>5. PICK S : S = net.ids OBVIOUS
  <2>6. c \in Seq(S)
    <3>1. c \in [1..n -> S] BY <1>11, <2>2, <2>4, <2>5 DEF InUseIds
    <3> QED BY <2>4, <3>1
  <2>7. c[1] = id /\ 1 \in DOMAIN c BY <1>6, <2>2
  <2>8. c # <<>> /\ Head(c) = id BY <2>6, <2>7
  <2>9. c[j] \in Range(Tail(c)) BY Zenon, <2>2, <2>6, <2>8, TailIds
  <2>10. <<d, c[j]>> \in lost' BY <1>16, <2>1, <2>8, <2>9
  <2>11. c[j] \in net.ids BY <1>11, <2>2 DEF InUseIds
  <2> QED BY Zenon, <1>15, <2>2, <2>10, <2>11
<1>19. Knows(g, k, h, F)
  BY Zenon, <1>5, <1>6, <1>9, <1>11, <1>12, <1>13, <1>14, <1>17, <1>18, KnowsWithdrawn
<1>20. h \in Heard
  <2>1. Announced("none", {}) \in [kind : {"none", "data"} \cup net.kinds, ex : SUBSET Nat]
    BY DEF Announced
  <2> QED BY Zenon, <1>13, <2>1 DEF Heard
<1>21. heard' = [heard EXCEPT ![d] = h] BY <1>6, <1>12, <1>13, <1>16
<1>22. \A e \in Devices \ {d} : \A z : <<e, z>> \in lost' <=> <<e, z>> \in lost BY <1>16
<1> QED
  BY Zenon, <1>1, <1>2, <1>3, <1>8, <1>9, <1>10, <1>15, <1>19, <1>20, <1>21, <1>22, PacketFollows

LEMMA WithdrawAllFollows ==
    ASSUME TemplatesInv, NEW d \in Ipfix \cap Devices, WithdrawAll(d)
    PROVE  TemplatesInv'
<1>1. TablesInv /\ TablesInv' BY WithdrawAllKeeps DEF TemplatesInv
<1>2. PICK f : f = Checked(d) OBVIOUS
<1>3. PICK k : k = Index(f, d) OBVIOUS
<1>4. Ready(f, SourceOf(d), d) BY <1>1, <1>2, CheckedDoes
<1>5. Placed(f) /\ k \in DOMAIN f.exps BY <1>3, <1>4 DEF Ready
<1>6. PICK g : g = RemoveAllTables(f, k) OBVIOUS
<1>7. GotPacket(d, g) BY <1>2, <1>3, <1>6 DEF WithdrawAll, Packet, GotPacket
<1>8. Touches(f, g, k) /\ g.exps[k].list = <<>> /\ g.exps[k].cur = 0
  BY <1>5, <1>6, RemoveAllTouches
<1>9. d \in Devices \ V5 BY Constants
<1>10. PICK h : h = NoTemplates OBVIOUS
<1>11. h \in Heard /\ \A id \in net.ids : h[id].kind # "data"
  BY <1>10 DEF NoTemplates, Heard, Announced
<1>12. PICK F : F = {a \in net.ids : <<d, a>> \in lost'} BY Zenon
<1>13. Knows(g, k, h, F) BY <1>8, <1>11, KnowsNothing
<1>14. heard' = [heard EXCEPT ![d] = h] /\ lost' = lost BY <1>10 DEF WithdrawAll, Packet
<1> QED BY Zenon, <1>1, <1>2, <1>3, <1>7, <1>8, <1>9, <1>11, <1>12, <1>13, <1>14, PacketFollows

\* The sources change without the templates.
LEMMA AlikeFollows ==
    ASSUME TemplatesInv, TablesInv', net' = net, heard' = heard, lost' = lost,
           \A s \in Sources : Alike(src[s], src'[s])
    PROVE  TemplatesInv'
<1>1. ASSUME NEW e \in Devices \ V5 PROVE Follows(e)'
  <2>1. PICK s : s = SourceOf(e) OBVIOUS
  <2>2. s \in Sources BY <2>1, Surroundings DEF TemplatesInv, TablesInv, Typed
  <2>3. PICK o : o = src[s] OBVIOUS
  <2>4. PICK p : p = src'[s] OBVIOUS
  <2>5. Alike(o, p) /\ Placed(o) BY <2>2, <2>3, <2>4 DEF TemplatesInv, TablesInv, Holds
  <2>6. PICK h : h = heard[e] OBVIOUS
  <2>7. PICK G : G = Gone(e) OBVIOUS
  <2>8. ASSUME NEW j \in DOMAIN p.exps, p.exps[j].dev = e PROVE (Knows(p, j, h, G))'
    <3>1. j \in DOMAIN o.exps /\ SameChain(o.exps[j], p.exps[j]) BY <2>5, <2>8 DEF Alike
    <3>2. \A t \in Live(o, j) : SameTable(o.heap[t], p.heap[t]) BY <2>5, <3>1, InHeap DEF Alike
    <3>3. o.exps[j].dev = e BY <2>8, <3>1 DEF SameChain
    <3>4. Knows(o, j, h, G) BY <2>1, <2>3, <2>6, <2>7, <3>1, <3>3 DEF TemplatesInv, Follows
    <3>5. Knows(p, j, h, G) BY <3>1, <3>2, <3>4, KnowsSame
    <3> QED BY <3>5, KnowsPrimed
  <2>9. SourceOf(e)' = s BY <2>1, SameNet
  <2>10. Gone(e)' = G BY <2>7 DEF Gone
  <2>11. \A j \in DOMAIN src'[SourceOf(e)'].exps :
            src'[SourceOf(e)'].exps[j].dev = e => Knows(src[SourceOf(e)], j, heard[e], Gone(e))'
    BY <2>4, <2>6, <2>8, <2>9, <2>10
  <2>12. New(e)' => New(e)
    <3>1. New(e)' <=> ~\E j \in DOMAIN p.exps : p.exps[j].dev = e BY <2>4, <2>9 DEF New, Has
    <3>2. New(e) <=> ~\E j \in DOMAIN o.exps : o.exps[j].dev = e BY <2>1, <2>3 DEF New, Has
    <3> QED BY <2>5, <3>1, <3>2 DEF Alike, SameChain
  <2>13. New(e)' => \A id \in net'.ids : heard'[e][id].kind = "none"
    BY <2>12 DEF TemplatesInv, Follows
  <2> QED BY <2>11, <2>13 DEF Follows
<1> QED BY <1>1, HeardSame, SameNet DEF TemplatesInv

LEMMA LoseFollows == ASSUME TemplatesInv, NEW d \in Devices, Lose(d) PROVE TemplatesInv'
<1>1. TablesInv' BY LoseKeeps DEF TemplatesInv
<1>2. net' = net /\ heard' = heard /\ lost' = lost /\ src' = src BY DEF Lose
<1>3. \A s \in Sources : Alike(src[s], src'[s])
  BY <1>2, AlikeSelf DEF TemplatesInv, TablesInv, Typed
<1> QED BY <1>1, <1>2, <1>3, AlikeFollows

LEMMA RotateFollows == ASSUME TemplatesInv, Rotate PROVE TemplatesInv'
<1>1. TablesInv' BY RotateKeeps DEF TemplatesInv
<1>2. /\ src' = [s \in Sources |-> IF s \in Range(created) THEN NextFile(src[s]) ELSE src[s]]
      /\ net' = net /\ heard' = heard /\ lost' = lost
  BY DEF Rotate
<1>3. ASSUME NEW s \in Sources PROVE Alike(src[s], src'[s])
  <2>1. PICK a : a = src[s] OBVIOUS
  <2>2. Placed(a) /\ a \in SourceType BY Zenon, <2>1 DEF TemplatesInv, TablesInv, Holds, Placed
  <2>3. Listed(a) BY <2>2, PlacedListed
  <2>4. Alike(a, NextFile(a)) /\ Alike(a, a) BY <2>2, <2>3, Constants, NextFileAlike, AlikeSelf
  <2>5. src'[s] = IF s \in Range(created) THEN NextFile(a) ELSE a BY <1>2, <2>1
  <2> QED BY <2>1, <2>4, <2>5
<1> QED BY <1>1, <1>2, <1>3, AlikeFollows

\* Nothing was heard yet.
LEMMA UnheardIs ==
    Unheard \in [Devices -> Heard]
        /\ \A d \in Devices : \A id \in net.ids : Unheard[d][id].kind = "none"
<1>1. PICK h : h = NoTemplates OBVIOUS
<1>2. h \in Heard /\ \A id \in net.ids : h[id].kind = "none"
  BY <1>1 DEF NoTemplates, Heard, Announced
<1>3. Unheard = [d \in Devices |-> h] BY <1>1 DEF Unheard
<1> QED BY <1>2, <1>3

LEMMA RestartFollows == ASSUME TemplatesInv, Restart PROVE TemplatesInv'
<1>1. TablesInv' /\ Typed BY RestartKeeps DEF TemplatesInv, TablesInv
<1>2. /\ src' = [s \in Sources |-> LET closed == FlushExporterStats(src[s])
                                   IN Source(closed.all, closed.copy)]
      /\ net' = net /\ heard' = Unheard
  BY DEF Restart
<1>3. \A s \in Sources : src'[s].exps = <<>> BY <1>2 DEF Source
<1>4. heard' \in [Devices -> Heard]
      /\ \A d \in Devices : \A id \in net.ids : heard'[d][id].kind = "none"
  BY <1>2, UnheardIs
<1>5. ASSUME NEW e \in Devices \ V5 PROVE Follows(e)'
  <2>1. PICK s : s = SourceOf(e) OBVIOUS
  <2>2. SourceOf(e)' = s /\ s \in Sources BY <1>1, <1>2, <2>1, SameNet, Surroundings DEF Typed
  <2>3. src'[SourceOf(e)'].exps = <<>> BY <1>3, <2>2
  <2>4. DOMAIN src'[SourceOf(e)'].exps = {} BY <2>3
  <2> QED BY <1>2, <1>4, <2>4 DEF Follows
<1> QED BY <1>1, <1>2, <1>4, <1>5, HeardSame, SameNet DEF TemplatesInv

LEMMA InitTemplates == ASSUME Init PROVE TemplatesInv
<1>1. TablesInv BY InitTables
<1>2. src = [s \in Sources |-> Source(NoReader, NoReader)] /\ heard = Unheard BY DEF Init
<1>3. \A s \in Sources : src[s].exps = <<>> BY <1>2 DEF Source
<1>4. ASSUME NEW e \in Devices \ V5 PROVE Follows(e)
  <2>1. SourceOf(e) \in Sources BY <1>1, Surroundings DEF TablesInv, Typed
  <2>2. DOMAIN src[SourceOf(e)].exps = {} BY <1>3, <2>1
  <2> QED BY <1>2, <2>2, UnheardIs DEF Follows
<1> QED BY <1>1, <1>2, <1>4, UnheardIs DEF TemplatesInv

LEMMA TemplatesStep == ASSUME TemplatesInv, [Next]_vars PROVE TemplatesInv'
<1>1. ASSUME NEW d \in V5 \cap Devices, V5Packet(d) PROVE TemplatesInv'
  BY <1>1, V5Follows
<1>2. ASSUME NEW d \in Devices \ V5, NEW id \in net.ids,
             NEW ex \in net.layouts, Template(d, id, ex)
      PROVE  TemplatesInv'
  BY <1>2, TemplateFollows
<1>3. ASSUME NEW d \in Devices \ V5, NEW id \in net.ids, NEW kind \in net.kinds,
             OptionTemplate(d, id, kind)
      PROVE  TemplatesInv'
  BY <1>3, OptionsFollow
<1>4. ASSUME NEW d \in V9 \cap Devices, NEW id \in net.ids, NEW rate \in Rates,
             DataSetV9(d, id, rate)
      PROVE  TemplatesInv'
  BY <1>4, DataV9Follows
<1>5. ASSUME NEW d \in Ipfix \cap Devices, NEW id \in net.ids, DataSetIpfix(d, id)
      PROVE  TemplatesInv'
  BY <1>5, DataIpfixFollows
<1>6. ASSUME NEW d \in Ipfix \cap Devices, NEW id \in net.ids, Withdraw(d, id)
      PROVE  TemplatesInv'
  BY <1>6, WithdrawFollows
<1>7. ASSUME NEW d \in Ipfix \cap Devices, WithdrawAll(d) PROVE TemplatesInv'
  BY <1>7, WithdrawAllFollows
<1>8. ASSUME NEW d \in Devices, Lose(d) PROVE TemplatesInv'
  BY <1>8, LoseFollows
<1>9. ASSUME UNCHANGED vars PROVE TemplatesInv'
  <2>1. TablesInv' BY <1>9, TablesStep DEF TemplatesInv
  <2>2. net' = net /\ src' = src /\ heard' = heard /\ lost' = lost BY <1>9 DEF vars, hist
  <2>3. \A s \in Sources : Alike(src[s], src'[s])
    BY <2>2, AlikeSelf DEF TemplatesInv, TablesInv, Typed
  <2> QED BY <2>1, <2>2, <2>3, AlikeFollows
<1> QED
  BY <1>1, <1>2, <1>3, <1>4, <1>5, <1>6, <1>7, <1>8, <1>9, RotateFollows, RestartFollows DEF Next

LEMMA TemplatesSafe == ASSUME TemplatesInv PROVE DecodesAsAnnounced
<1> SUFFICES ASSUME NEW d \in Devices \ V5, NEW id \in net.ids, NEW t, t = Table(d, id),
                    ~New(d), heard[d][id].kind \notin net.kinds, <<d, id>> \notin lost
             PROVE  IF t = 0 THEN heard[d][id].kind = "none"
                    ELSE heard[d][id].ex = src[SourceOf(d)].heap[t].ex \ {RouterId}
  BY DEF DecodesAsAnnounced
<1>1. SourceOf(d) \in Sources BY Surroundings DEF TemplatesInv, TablesInv, Typed
<1>2. PICK f : f = src[SourceOf(d)] OBVIOUS
<1>3. PICK k : k = Index(f, d) OBVIOUS
<1>4. Placed(f) BY <1>1, <1>2 DEF TemplatesInv, TablesInv, Holds
<1>5. k \in DOMAIN f.exps /\ f.exps[k].dev = d BY <1>2, <1>3 DEF New, Has, Index
<1>6. Knows(f, k, heard[d], Gone(d)) BY <1>2, <1>5 DEF TemplatesInv, Follows
<1>7. t = Lookup(f, k, id) BY <1>2, <1>3 DEF Table
<1>8. id \notin Gone(d) BY DEF Gone
<1>9. heard[d] \in Heard BY DEF TemplatesInv
<1>10. heard[d][id].kind \in {"none", "data"} BY <1>9 DEF Heard
<1>11. CASE t = 0
  <2>1. ~InTheChain(f, k, id)
    <3>1. Lookup(f, k, id) = 0 BY <1>7, <1>11
    <3>2. \A i \in DOMAIN f.exps[k].list : f.heap[f.exps[k].list[i]].id # id
      BY <1>4, <1>5, <3>1, LookupIs
    <3> QED BY <3>2 DEF InTheChain
  <2>2. heard[d][id].kind # "data" BY <1>6, <1>8, <2>1 DEF Knows, AllKept
  <2> QED BY <1>10, <1>11, <2>2
<1>12. CASE t # 0
  <2>1. t \in Live(f, k) /\ f.heap[t].id = id BY <1>4, <1>5, <1>7, <1>12, LookupIs
  <2>2. \E i \in DOMAIN f.exps[k].list : f.exps[k].list[i] = t
    <3>1. CASE t = f.exps[k].cur
      BY <1>6, <1>8, <1>12, <2>1, <3>1 DEF Knows, CacheKept, OfTheChain
    <3> QED BY <2>1, <3>1, LiveIs
  <2>3. PICK i \in DOMAIN f.exps[k].list : f.exps[k].list[i] = t BY <2>2
  <2>4. heard[d][id].ex = f.heap[t].ex \ {RouterId}
    BY <1>6, <2>1, <2>3 DEF Knows, AsHeard, Told
  <2> QED BY <1>2, <1>12, <2>4
<1> QED BY <1>11, <1>12

\* A record is decoded with the template its exporter has sent last under its
\* id, in whatever order templates of several exporters come, are sent again,
\* replaced by options templates and withdrawn; or it is skipped.
THEOREM TemplatesFollow == Spec => []DecodesAsAnnounced
<1>1. Init => TemplatesInv BY InitTemplates
<1>2. TemplatesInv /\ [Next]_vars => TemplatesInv' BY TemplatesStep
<1>3. TemplatesInv => DecodesAsAnnounced BY TemplatesSafe
<1> QED BY <1>1, <1>2, <1>3, PTL DEF Spec
=============================================================================
