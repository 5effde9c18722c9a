---------------------------- MODULE ReaderTables ----------------------------
(***************************************************************************)
(* What a program that reads data files keeps of them: the extension maps  *)
(* (nfx.c) and the exporters with their samplers (exporter.c).  Records of *)
(* flows name both by numbers that are only unique in the run of the       *)
(* collector that wrote the file, so both tables are renumbered while      *)
(* files are read.                                                         *)
(*                                                                         *)
(* An extension map is the set of its extensions: the decoders list them   *)
(* in ascending order.                                                     *)
(***************************************************************************)
EXTENDS Integers, Sequences, FiniteSets

CONSTANT MaxExporters  \* MAX_EXPORTERS, the slots of exporter_list

Put(f, k, v) == [x \in DOMAIN f \cup {k} |-> IF x = k THEN v ELSE f[x]]

-----------------------------------------------------------------------------
(* Extension maps                                                          *)

\* map->size: a header of 10 bytes, two for each extension, a multiple of 4.
MapSize(ex) == 12 + 4 * (Cardinality(ex) \div 2)

\* The list a is the list b, or where b begins.
Begins(a, b) == a \subseteq b /\ \A x \in a, y \in b \ a : x < y

\* page is the list of all maps that were seen, slot says which one an id means.
NoMaps == [page |-> <<>>, slot |-> <<>>]

\* The comparison with the map that has the id now.
SameInSlot(maps, id, ex) ==
    /\ id \in DOMAIN maps.slot
    /\ LET old == maps.page[maps.slot[id]].ex IN
       MapSize(old) = MapSize(ex) /\ Begins(old, ex)

\* Insert_Extension_Map returns 1: the map is copied to an output file.
MapIsNew(maps, id, ex) == ~SameInSlot(maps, id, ex)

InPage(maps, ex) == {l \in DOMAIN maps.page : maps.page[l].ex = ex}

InsertExtensionMap(maps, id, ex) ==
    IF SameInSlot(maps, id, ex) THEN maps
    ELSE LET found == InPage(maps, ex)
             page  == IF found = {} THEN Append(maps.page, [ex |-> ex, id |-> id, refs |-> FALSE])
                      ELSE maps.page
             l     == IF found = {} THEN Len(page) ELSE CHOOSE i \in found : TRUE
             out   == IF id \in DOMAIN maps.slot
                      THEN [page EXCEPT ![maps.slot[id]].id = 0] ELSE page
         IN [page |-> [out EXCEPT ![l].id = id], slot |-> Put(maps.slot, id, l)]

\* A record of a flow is read with the map in its slot, which is then in use.
Resolves(maps, id) == IF id \in DOMAIN maps.slot THEN {maps.page[maps.slot[id]].ex} ELSE {}
Refer(maps, id) ==
    IF id \in DOMAIN maps.slot THEN [maps EXCEPT !.page[maps.slot[id]].refs = TRUE] ELSE maps

\* PackExtensionMapList numbers the maps in use before tables are written.
InUse(maps) == {l \in DOMAIN maps.page : maps.page[l].refs}
Packed(maps, l) == Cardinality({k \in InUse(maps) : k < l})

PackExtensionMapList(maps) ==
    [page |-> [l \in DOMAIN maps.page |->
                 IF l \in InUse(maps) THEN [maps.page[l] EXCEPT !.id = Packed(maps, l)]
                 ELSE maps.page[l]],
     slot |-> [id \in {Packed(maps, l) : l \in InUse(maps)} |->
                 CHOOSE l \in InUse(maps) : Packed(maps, l) = id]]

-----------------------------------------------------------------------------
(* Exporters                                                               *)

NoExporters == <<>>
NewExporter(sysid, dev) == [sysid |-> sysid, dev |-> dev, samplers |-> {}, failures |-> 0]

\* Slots behind id an exporter can be moved to.
FreeBehind(list, id) == {i \in id + 1 .. MaxExporters - 1 : i \notin DOMAIN list}
FirstFree(list, id) == CHOOSE i \in FreeBehind(list, id) : \A j \in FreeBehind(list, id) : i <= j

Known(list, id, dev) == id \in DOMAIN list /\ list[id].dev = dev

\* mutant: the new exporter keeps the number it has in the file
AddExporterKeeps(list, id, dev) ==
    IF id >= MaxExporters \/ Known(list, id, dev) THEN list
    ELSE IF id \notin DOMAIN list THEN Put(list, id, NewExporter(id, dev))
    ELSE IF FreeBehind(list, id) = {} THEN list
    ELSE Put(Put(list, FirstFree(list, id), list[id]), id, NewExporter(id, dev))

\* AddExporterInfo: another exporter in the slot moves away, and the new one
\* gets the number of the slot it moved to.
AddExporterInfo(list, id, dev) ==
    IF id >= MaxExporters \/ Known(list, id, dev) THEN list
    ELSE IF id \notin DOMAIN list THEN Put(list, id, NewExporter(id, dev))
    ELSE IF FreeBehind(list, id) = {} THEN list
    ELSE LET i == FirstFree(list, id)
         IN Put(Put(list, i, list[id]), id, NewExporter(i, dev))

\* The slots of a reader's list have numbers of their own.
Numbered(list) == /\ {list[i].sysid : i \in DOMAIN list} = DOMAIN list
                  /\ \A i, j \in DOMAIN list : list[i].sysid = list[j].sysid => i = j

\* It returns 1: the record is copied, with its new number.
ExporterIsNew(list, id, dev) == AddExporterInfo(list, id, dev) # list

\* AddSamplerInfo compares with the number in the file, and stores the number
\* the exporter has here.
SamplerKnown(list, id, s) == [sysid |-> id, sampler |-> s] \in list[id].samplers
AddSamplerInfo(list, id, s) ==
    IF id \notin DOMAIN list \/ SamplerKnown(list, id, s) THEN list
    ELSE [list EXCEPT ![id].samplers = @ \cup {[sysid |-> list[id].sysid, sampler |-> s]}]

\* AddExporterStat for one exporter.
AddExporterStat(list, id, failures) ==
    IF id \notin DOMAIN list THEN list ELSE [list EXCEPT ![id].failures = @ + failures]
=============================================================================
