----------------------------- MODULE FlowSource -----------------------------
(***************************************************************************)
(* One flow source of the collector as a record, with the operations of    *)
(* collector.c and of the decoders of NetFlow v5, v9 and IPFIX on it.      *)
(*                                                                         *)
(*   exps      exporters, in the order they were seen.  list is an         *)
(*             exporter's chain of translation tables, cur its one-entry   *)
(*             cache current_table (0: none), samplers its samplers        *)
(*   heap      every table that was ever allocated, with its extension map *)
(*             ex; out is the map as it was last written to a file         *)
(*   list      extension_map_list: tables by map_id, 0 for a removed map   *)
(*   opts      option_offset_table: what the option data of an id is       *)
(*   count     exporter_count;  failures  sequence failures of the file    *)
(*   one, all  readers: of the file that is written, and of all files;     *)
(*   copy      a reader of what the reader of all files writes (nfdump -w) *)
(*                                                                         *)
(* What is written reaches the readers at once; the blocks in between keep *)
(* the order.  A packet has one set with one record.                       *)
(***************************************************************************)
EXTENDS ReaderTables, SequencesExt

CONSTANTS
    V5, V9, Ipfix, \* exporters, by protocol
    TemplateIds,   \* template ids they use
    V5Layout,      \* extensions of the map for v5
    RouterId,      \* EX_ROUTER_ID, an extension no template announces
    SeqWrap,        \* sequence numbers wrap, at 2^32
    MaxSysId       \* the last id AssignExporterID gives, 65535

NoId == -1  \* INIT_ID
NoReader == [maps |-> NoMaps, exps |-> NoExporters]

Source(all, copy) ==
    [exps |-> <<>>, heap |-> <<>>, list |-> <<>>, opts |-> <<>>, count |-> 0, failures |-> 0,
     one |-> NoReader, all |-> all, copy |-> copy]

Has(fs, dev) == \E k \in DOMAIN fs.exps : fs.exps[k].dev = dev
Index(fs, dev) == CHOOSE k \in DOMAIN fs.exps : fs.exps[k].dev = dev

-----------------------------------------------------------------------------
(* Records in the file                                                     *)

\* AppendToBuffer of an extension map.
WriteMap(fs, t) ==
    LET id == fs.heap[t].mapId
        ex == fs.heap[t].ex
    IN [fs EXCEPT !.heap[t].out = ex,
                  !.one.maps  = InsertExtensionMap(@, id, ex),
                  !.all.maps  = InsertExtensionMap(@, id, ex),
                  !.copy.maps = IF MapIsNew(fs.all.maps, id, ex)
                                THEN InsertExtensionMap(@, id, ex) ELSE @]

\* Of an exporter.
WriteExporter(fs, e) ==
    LET all == AddExporterInfo(fs.all.exps, e.sysid, e.dev)
    IN [fs EXCEPT !.one.exps  = AddExporterInfo(@, e.sysid, e.dev),
                  !.all.exps  = all,
                  !.copy.exps = IF ExporterIsNew(fs.all.exps, e.sysid, e.dev)
                                THEN AddExporterInfo(@, all[e.sysid].sysid, e.dev) ELSE @]

\* Of a sampler.
WriteSampler(fs, e, s) ==
    LET old == fs.all.exps
    IN [fs EXCEPT !.one.exps  = AddSamplerInfo(@, e.sysid, s),
                  !.all.exps  = AddSamplerInfo(@, e.sysid, s),
                  !.copy.exps = IF AddSamplerInfo(old, e.sysid, s) # old
                                THEN AddSamplerInfo(@, old[e.sysid].sysid, s) ELSE @]

-----------------------------------------------------------------------------
(* Extension maps and exporters (collector.c)                              *)

\* AddExtensionMap gives a new map the next id; the id of a removed map is
\* never used again, because next_free always equals num_maps.
AddExtensionMap(fs, t) ==
    WriteMap(IF fs.heap[t].mapId # NoId THEN fs
             ELSE [fs EXCEPT !.heap[t].mapId = Len(fs.list), !.list = Append(@, t)], t)

RemoveExtensionMap(fs, t) ==
    LET slot == fs.heap[t].mapId + 1
    IN IF slot \in DOMAIN fs.list THEN [fs EXCEPT !.list[slot] = 0] ELSE fs

ReInitExtensionMapList(fs) == [fs EXCEPT !.list = <<>>]

AssignExporterID(sysid) == IF sysid >= MaxSysId THEN 0 ELSE sysid + 1

NewTable(id, ex) == [id |-> id, mapId |-> NoId, ex |-> ex, out |-> {}, freed |-> FALSE]

\* GetExporter of the decoders, with FlushInfoExporter.  For v5 it also makes
\* the map and the sampler of the packet header.
NewExporterOf(fs, dev, sysid) ==
    LET e  == [dev |-> dev, sysid |-> sysid, list |-> <<>>, cur |-> 0, samplers |-> {},
               seq |-> 0, started |-> FALSE, failures |-> 0]
        t  == Len(fs.heap) + 1
        s  == [id |-> NoId, rate |-> 1]
        v5 == [e EXCEPT !.list = <<t>>, !.samplers = {s}]
        mapped == AddExtensionMap([fs EXCEPT !.heap = Append(@, NewTable(0, V5Layout))], t)
    IN IF dev \in V5
       THEN WriteSampler(WriteExporter([mapped EXCEPT !.exps = Append(@, v5),
                                                      !.count = @ + 1], v5), v5, s)
       ELSE WriteExporter([fs EXCEPT !.exps = Append(@, e), !.count = @ + 1], e)

GetExporter(fs, dev, sysid) ==
    IF Has(fs, dev) THEN fs ELSE NewExporterOf(fs, dev, AssignExporterID(sysid))

\* FlushStdRecords writes all exporters, samplers and maps to a new file.
WriteSamplers(fs, e) == FoldLeft(LAMBDA acc, s : WriteSampler(acc, e, s), fs, SetToSeq(e.samplers))
WriteExporterInfos(fs, e) == WriteSamplers(WriteExporter(fs, e), e)
WriteListed(fs, t) == IF t = 0 THEN fs ELSE WriteMap(fs, t)
FlushStdRecords(fs) == FoldLeft(WriteListed, FoldLeft(WriteExporterInfos, fs, fs.exps), fs.list)

\* FlushExporterStats reports the first exporter_count exporters of the list
\* and resets their counters.
Reported(fs) == {k \in DOMAIN fs.exps : k <= fs.count}
\* mutant: the counters are not reset
FlushAndKeep(fs) ==
    LET told(list, k) == AddExporterStat(list, fs.exps[k].sysid, fs.exps[k].failures)
    IN [fs EXCEPT !.all.exps = FoldLeft(told, @, SetToSeq(Reported(fs)))]
FlushExporterStats(fs) ==
    LET told(list, k) == AddExporterStat(list, fs.exps[k].sysid, fs.exps[k].failures)
    IN [fs EXCEPT !.exps = [k \in DOMAIN @ |->
                              IF k \in Reported(fs) THEN [@[k] EXCEPT !.failures = 0] ELSE @[k]],
                  !.all.exps = FoldLeft(told, @, SetToSeq(Reported(fs)))]

\* The end of a file and the begin of the next one.
NextFile(fs) == FlushStdRecords([FlushExporterStats(fs) EXCEPT !.failures = 0, !.one = NoReader])

-----------------------------------------------------------------------------
(* Sequence numbers                                                        *)

Fail(fs, k, cond) ==
    IF cond THEN [fs EXCEPT !.exps[k].failures = @ + 1, !.failures = @ + 1] ELSE fs

\* v5 and v9: numbers follow each other (v5 counts records, v9 packets).
NextInSequence(fs, k, number) ==
    LET e == fs.exps[k]
        distance == (number - e.seq) % SeqWrap
    IN [Fail(fs, k, e.started /\ distance # 1)
          EXCEPT !.exps[k] = [@ EXCEPT !.seq = number, !.started = TRUE]]

\* IPFIX: the header has the number of records before, the collector counts the
\* ones it decoded.
SyncSequence(fs, k, number) ==
    LET e == fs.exps[k]
    IN [Fail(fs, k, number # e.seq /\ e.started) EXCEPT !.exps[k].seq = number]

-----------------------------------------------------------------------------
(* Templates                                                               *)

\* GetTranslationTable: the cached table, or the first in the chain; the result
\* is cached, also when there is none.
\* mutant: the id of the cached table is not compared
CachedAny(fs, k, id) == fs.exps[k].cur # 0
Cached(fs, k, id) == fs.exps[k].cur # 0 /\ fs.heap[fs.exps[k].cur].id = id
InChain(fs, k, id) == {i \in DOMAIN fs.exps[k].list : fs.heap[fs.exps[k].list[i]].id = id}
Lookup(fs, k, id) ==
    IF Cached(fs, k, id) THEN fs.exps[k].cur
    ELSE IF InChain(fs, k, id) = {} THEN 0
    ELSE fs.exps[k].list[CHOOSE i \in InChain(fs, k, id) : \A j \in InChain(fs, k, id) : i <= j]
\* The tables an exporter can still decode with.
Live(fs, k) == Range(fs.exps[k].list) \cup ({fs.exps[k].cur} \ {0})
LookedUp(fs, k, id) == [fs EXCEPT !.exps[k].cur = Lookup(fs, k, id)]

\* setup_translation_table.  A new table gets a new map.  A known one is filled
\* again: the map counts as changed when an extension differs from the old one
\* in its place, not when the list became shorter.  A changed map is written.
AddTable(fs, k, id, ex) ==
    LET t == Len(fs.heap) + 1
    IN AddExtensionMap([LookedUp(fs, k, id) EXCEPT !.heap = Append(@, NewTable(id, ex)),
                                                   !.exps[k].list = Append(@, t)], t)

\* mutant: a changed map is not written
RefreshSilently(fs, k, id, ex) ==
    [LookedUp(fs, k, id) EXCEPT !.heap[Lookup(fs, k, id)].ex = ex]
RefreshTable(fs, k, id, ex) ==
    LET t == Lookup(fs, k, id)
        refreshed == [LookedUp(fs, k, id) EXCEPT !.heap[t].ex = ex]
    IN IF Begins(ex, fs.heap[t].ex) THEN refreshed ELSE AddExtensionMap(refreshed, t)

AddTemplate(fs, k, id, ex) ==
    IF Lookup(fs, k, id) = 0 THEN AddTable(fs, k, id, ex) ELSE RefreshTable(fs, k, id, ex)

Free(fs, T) == [fs EXCEPT !.heap = [t \in DOMAIN @ |-> IF t \in T THEN [@[t] EXCEPT !.freed = TRUE]
                                                     ELSE @[t]]]

\* mutant: the cache keeps the table
RemoveCachedTable(fs, k, id) ==
    IF InChain(fs, k, id) = {} THEN fs
    ELSE LET e == fs.exps[k]
             i == CHOOSE j \in InChain(fs, k, id) : \A l \in InChain(fs, k, id) : j <= l
             rest == IF i = 1 THEN <<>> ELSE RemoveAt(e.list, i)
         IN Free(RemoveExtensionMap([fs EXCEPT !.exps[k].list = rest], e.list[i]), {e.list[i]})

\* remove_translation_table: without a parent the whole chain is dropped.
RemoveTable(fs, k, id) ==
    IF InChain(fs, k, id) = {} THEN fs
    ELSE LET e == fs.exps[k]
             i == CHOOSE j \in InChain(fs, k, id) : \A l \in InChain(fs, k, id) : j <= l
             t == e.list[i]
             rest == IF i = 1 THEN <<>> ELSE RemoveAt(e.list, i)
             left == [fs EXCEPT !.exps[k] = [@ EXCEPT !.list = rest,
                                                      !.cur = IF e.cur = t THEN 0 ELSE e.cur]]
         IN Free(RemoveExtensionMap(left, t), {t})

\* remove_all_translation_tables, then the map list of the source is emptied.
RemoveAllTables(fs, k) ==
    ReInitExtensionMapList(Free([fs EXCEPT !.exps[k] = [@ EXCEPT !.list = <<>>, !.cur = 0]],
                                Range(fs.exps[k].list)))

-----------------------------------------------------------------------------
(* Samplers and data                                                       *)

\* InsertSamplerOffset and InsertStdSamplerOffset: flags of an id are added,
\* offsets are right for the kind that came last.
OptionTable(fs, id) == IF id \in DOMAIN fs.opts THEN fs.opts[id].flags ELSE {}
InsertOffset(fs, id, kind) ==
    [fs EXCEPT !.opts = Put(@, id, [flags |-> OptionTable(fs, id) \cup {kind}, last |-> kind])]

\* mutant: the old values stay in the list
InsertAnother(fs, k, id, rate) ==
    LET s == [id |-> id, rate |-> rate]
    IN IF s \in fs.exps[k].samplers THEN fs
       ELSE WriteSampler([fs EXCEPT !.exps[k].samplers = @ \cup {s}], fs.exps[k], s)

\* InsertSampler writes a new sampler, but of a changed one the old values.
InsertSampler(fs, k, id, rate) ==
    LET e   == fs.exps[k]
        old == {s \in e.samplers : s.id = id}
        s   == [id |-> id, rate |-> rate]
    IN IF old = {} THEN WriteSampler([fs EXCEPT !.exps[k].samplers = @ \cup {s}], e, s)
       ELSE IF s \in old THEN fs
       ELSE [WriteSampler(fs, e, CHOOSE o \in old : TRUE)
               EXCEPT !.exps[k].samplers = (@ \ old) \cup {s}]

\* Process_v9_option_data: every kind the id has flags for.
Junk == 0
SamplerId(kind) == IF kind = "std" THEN NoId ELSE 1
ReadSampler(fs, k, id, kind, rate) ==
    IF kind \notin OptionTable(fs, id) THEN fs
    ELSE IF fs.opts[id].last = kind THEN InsertSampler(fs, k, SamplerId(kind), rate)
    ELSE InsertSampler(fs, k, IF kind = "std" THEN NoId ELSE Junk, Junk)
OptionData(fs, k, id, rate) ==
    ReadSampler(ReadSampler(fs, k, id, "sampler", rate), k, id, "std", rate)

\* A record of a flow names the exporter and the map of table t.
AddRecord(fs, t) ==
    LET id == fs.heap[t].mapId
    IN [fs EXCEPT !.all.maps = Refer(@, id)]

\* A data set: with a table its records are decoded; for v9 an id without a
\* table may be option data; anything else is skipped.
Decodable(fs, k, id) == Lookup(fs, k, id) # 0
DataV9(fs, k, id, rate) ==
    IF Decodable(fs, k, id) THEN AddRecord(LookedUp(fs, k, id), Lookup(fs, k, id))
    ELSE OptionData(LookedUp(fs, k, id), k, id, rate)

DataIpfix(fs, k, id) ==
    IF Decodable(fs, k, id)
    THEN [AddRecord(LookedUp(fs, k, id), Lookup(fs, k, id))
            EXCEPT !.exps[k] = [@ EXCEPT !.seq = (fs.exps[k].seq + 1) % SeqWrap, !.started = TRUE]]
    ELSE LookedUp(fs, k, id)
=============================================================================
