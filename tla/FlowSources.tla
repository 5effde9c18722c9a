---------------------------- MODULE FlowSources ----------------------------
(***************************************************************************)
(* The collector with its flow sources: packets of exporters in any order, *)
(* some of them lost, files that end and begin, and restarts.  Sources are *)
(* configured, or added when a packet of an unknown sender arrives.  The   *)
(* ids of exporters are given once for all sources.                        *)
(***************************************************************************)
EXTENDS FlowSource

CONSTANTS
    Networks,     \* what is around the collector, see below
    Rates,        \* sampling rates
    MaxPackets, MaxFiles, MaxRestarts  \* bounds

(***************************************************************************)
(* A network says what sends to the collector, and how that is started:    *)
(*   devices   the exporters that are there                                *)
(*   second    those that send from the address of the second source       *)
(*   dynamic   sources are added as they appear (option -M)                *)
(*   routerId  the router id is stored (option -T)                         *)
(*   ids       template ids in use                                         *)
(*   layouts   extensions of templates                                     *)
(*   kinds     kinds of option templates, of "sampler" and "std"           *)
(*   lost      bound: packets in a row that are lost                       *)
(***************************************************************************)
ASSUME SourcesAssumption ==
    /\ V5 \cap V9 = {} /\ V5 \cap Ipfix = {} /\ V9 \cap Ipfix = {}
    /\ SeqWrap \in Nat \ {0} /\ MaxSysId \in Nat /\ MaxExporters \in Nat
    /\ V5Layout \in SUBSET Nat /\ RouterId \in Nat
    /\ Rates \subseteq Nat /\ MaxPackets \in Nat /\ MaxFiles \in Nat /\ MaxRestarts \in Nat
    /\ \A n \in Networks :
          /\ n.devices \subseteq V5 \cup V9 \cup Ipfix /\ n.second \subseteq n.devices
          /\ n.devices # {}
          /\ n.layouts \subseteq SUBSET (Nat \ {RouterId})
          /\ n.dynamic \in BOOLEAN /\ n.routerId \in BOOLEAN
          /\ n.ids \subseteq TemplateIds /\ n.kinds \subseteq {"sampler", "std"}
          /\ n.lost < SeqWrap
    /\ Junk \notin Rates

VARIABLES
    net,      \* the network
    src,      \* the sources
    created,  \* sources that exist, in the order they were added
    sysid,    \* exporter_sysid
    routerId, \* extension_descriptor[EX_ROUTER_ID].enabled
    sent,     \* the next sequence number of an exporter
    heard,    \* history: last template of an id the collector has received
    said,     \* history: samplers an exporter has told it of
    lost,     \* history: templates dropped with the head of their chain
    missing,  \* history: packets (IPFIX: records) since the last one received
    gaps,     \* history: times there were some, and skipped data sets
    told,     \* history: failures in the exporter statistics of closed files
    short,    \* history: sources whose exporter_count was reset
    raced,    \* history: see the properties
    packets, files, restarts  \* counters for the bounds

Devices == net.devices
SourceOf(d) == IF d \in net.second THEN 2 ELSE 1
Sources == {SourceOf(d) : d \in Devices}
Static == IF net.second = {} THEN <<1>> ELSE IF net.second = Devices THEN <<2>> ELSE <<1, 2>>

hist == <<heard, said, lost, missing, gaps, told, short, raced>>
counts == <<packets, files, restarts>>
vars == <<net, src, created, sysid, routerId, sent, hist, counts>>

Announced(kind, ex) == [kind |-> kind, ex |-> ex]
NoTemplates == [id \in net.ids |-> Announced("none", {})]
Unheard == [d \in Devices |-> NoTemplates]
Unsaid == [d \in Devices |-> {}]
None == [d \in Devices |-> 0]

Init == /\ net \in Networks
        /\ src = [s \in Sources |-> Source(NoReader, NoReader)]
        /\ created = IF net.dynamic THEN <<>> ELSE Static
        /\ sysid = 0 /\ routerId = net.routerId
        /\ heard = Unheard /\ said = Unsaid /\ lost = {} /\ raced = {}
        /\ sent = None /\ missing = None /\ gaps = None /\ told = None /\ short = {}
        /\ packets = 0 /\ files = 0 /\ restarts = 0

-----------------------------------------------------------------------------
(* Packets                                                                 *)

\* GetFlowSource, or AddDynamicSource: it resets exporter_count of the first
\* source instead of the new one.
Opened(d) ==
    IF SourceOf(d) \in Range(created) THEN src
    ELSE LET first == Head(Append(created, SourceOf(d)))
         IN [src EXCEPT ![first].count = 0]

\* The packet has number n: its exporter is looked up and the number checked.
Checked(d) ==
    LET fs == GetExporter(Opened(d)[SourceOf(d)], d, sysid)
        k  == Index(fs, d)
    IN IF d \in Ipfix THEN SyncSequence(fs, k, sent[d]) ELSE NextInSequence(fs, k, sent[d])

New(d) == ~ Has(src[SourceOf(d)], d)
Exporter(d) == src[SourceOf(d)].exps[Index(src[SourceOf(d)], d)]
Started(d) == ~New(d) /\ Exporter(d).started

\* An exporter sends a packet with n numbers, and Handle decodes its set.
Packet(d, n, skipped, Handle(_, _)) ==
    LET fs == Checked(d) IN
    /\ packets < MaxPackets
    /\ packets' = packets + 1
    /\ src' = [Opened(d) EXCEPT ![SourceOf(d)] = Handle(fs, Index(fs, d))]
    /\ created' = IF SourceOf(d) \in Range(created) THEN created ELSE Append(created, SourceOf(d))
    /\ sysid' = IF New(d) THEN Max({sysid, AssignExporterID(sysid)}) ELSE sysid
    /\ sent' = [sent EXCEPT ![d] = (@ + n) % SeqWrap]
    /\ gaps' = [gaps EXCEPT ![d] = IF missing[d] > 0 /\ Started(d) THEN @ + 1 ELSE @]
    /\ missing' = [missing EXCEPT ![d] = IF skipped THEN 1 ELSE 0]
    /\ short' = IF SourceOf(d) \in Range(created) THEN short
                ELSE short \cup (Range(created) \cap {Head(Append(created, SourceOf(d)))})
    /\ UNCHANGED <<net, told, files, restarts>>

\* NetFlow v5: one record, with the map of its exporter.
V5Packet(d) ==
    /\ Packet(d, 1, FALSE, LAMBDA fs, k : AddRecord(fs, fs.exps[k].list[1]))
    /\ said' = [said EXCEPT ![d] = {[id |-> NoId, rate |-> 1]}]
    /\ UNCHANGED <<routerId, heard, lost, raced>>

\* The ids in the chain of an exporter.
Chain(d) == IF New(d) THEN <<>>
            ELSE LET fs == src[SourceOf(d)] IN
                 [i \in DOMAIN Exporter(d).list |-> fs.heap[Exporter(d).list[i]].id]
Table(d, id) == IF New(d) THEN 0 ELSE Lookup(src[SourceOf(d)], Index(src[SourceOf(d)], d), id)

\* A template of v9 or IPFIX.  The latter switches the router id off for good.
Stored(d, ex) == IF d \in V9 /\ routerId THEN ex \cup {RouterId} ELSE ex

Template(d, id, ex) ==
    /\ Packet(d, IF d \in V9 THEN 1 ELSE 0, FALSE,
              LAMBDA fs, k : AddTemplate(fs, k, id, Stored(d, ex)))
    /\ routerId' = (routerId /\ d \in V9)
    /\ heard' = [heard EXCEPT ![d][id] = Announced("data", ex)]
    /\ lost' = IF Table(d, id) # 0 /\ id \notin Range(Chain(d)) THEN lost ELSE lost \ {<<d, id>>}
    /\ UNCHANGED <<said, raced>>

\* An options template with all the fields of its kind; that of IPFIX is read
\* and forgotten.
OptionTemplate(d, id, kind) ==
    /\ Packet(d, IF d \in V9 THEN 1 ELSE 0, FALSE,
              LAMBDA fs, k : IF d \in V9 THEN InsertOffset(fs, id, kind) ELSE fs)
    /\ heard' = [heard EXCEPT ![d][id] = Announced(kind, {})]
    /\ UNCHANGED <<routerId, said, lost, raced>>

\* The lookup of a data set: in the exporter's tables, then in the options of
\* the source, whoever has announced them.
Options(d, id) == OptionTable(src[SourceOf(d)], id)
Confused(d, id) == IF heard[d][id].kind \in net.kinds
                   THEN Table(d, id) # 0 \/ Options(d, id) # {heard[d][id].kind}
                   ELSE Table(d, id) = 0 /\ Options(d, id) # {}

DataSetV9(d, id, rate) ==
    /\ Packet(d, 1, FALSE, LAMBDA fs, k : DataV9(fs, k, id, rate))
    /\ said' = IF heard[d][id].kind \in net.kinds
               THEN [said EXCEPT ![d] =
                       {s \in @ : s.id # SamplerId(heard[d][id].kind)}
                         \cup {[id |-> SamplerId(heard[d][id].kind), rate |-> rate]}]
               ELSE said
    /\ raced' = IF Confused(d, id) THEN raced \cup {"options"} ELSE raced
    /\ UNCHANGED <<routerId, heard, lost>>

DataSetIpfix(d, id) ==
    /\ Packet(d, 1, Table(d, id) = 0, LAMBDA fs, k : DataIpfix(fs, k, id))
    /\ UNCHANGED <<routerId, heard, said, lost, raced>>

\* IPFIX withdraws a template, or all of them.
Withdraw(d, id) ==
    /\ Packet(d, 0, FALSE, LAMBDA fs, k : RemoveTable(fs, k, id))
    /\ heard' = [heard EXCEPT ![d][id] = Announced("none", {})]
    /\ lost' = IF Chain(d) # <<>> /\ Head(Chain(d)) = id
               THEN lost \cup {<<d, i>> : i \in Range(Tail(Chain(d)))} ELSE lost
    /\ UNCHANGED <<routerId, said, raced>>

\* Tables other exporters of the source still have lose their place in the map
\* list, too.
Others(d) == {e \in Devices \ {d} : SourceOf(e) = SourceOf(d) /\ ~New(e)}
HasTables(d) == Live(src[SourceOf(d)], Index(src[SourceOf(d)], d)) # {}
WithdrawAll(d) ==
    /\ Packet(d, 0, FALSE, LAMBDA fs, k : RemoveAllTables(fs, k))
    /\ heard' = [heard EXCEPT ![d] = NoTemplates]
    /\ raced' = IF \E e \in Others(d) : HasTables(e) THEN raced \cup {"reset"} ELSE raced
    /\ UNCHANGED <<routerId, said, lost>>

\* A packet that does not arrive.
Lose(d) ==
    /\ missing[d] < net.lost /\ packets < MaxPackets
    /\ packets' = packets + 1
    /\ missing' = [missing EXCEPT ![d] = @ + 1]
    /\ sent' = [sent EXCEPT ![d] = (@ + 1) % SeqWrap]
    /\ UNCHANGED <<net, src, created, sysid, routerId, heard, said, lost, gaps, told, short,
                   raced, files, restarts>>

-----------------------------------------------------------------------------
(* Files and restarts                                                      *)

\* The end of a cycle closes the file of every source and opens the next one.
IsReported(d) == ~New(d) /\ Index(src[SourceOf(d)], d) \in Reported(src[SourceOf(d)])
Written == [d \in Devices |-> told[d] + IF IsReported(d) THEN Exporter(d).failures ELSE 0]

Rotate == /\ files < MaxFiles
          /\ files' = files + 1
          /\ src' = [s \in Sources |-> IF s \in Range(created) THEN NextFile(src[s]) ELSE src[s]]
          /\ told' = Written
          /\ UNCHANGED <<net, created, sysid, routerId, sent, heard, said, lost, missing, gaps,
                         short, raced, packets, restarts>>

\* The collector ends, with a last file, and is started again.  It has forgotten
\* everything; who reads all files has not.
Restart == /\ restarts < MaxRestarts
           /\ restarts' = restarts + 1
           /\ src' = [s \in Sources |->
                        LET closed == FlushExporterStats(src[s])
                        IN Source(closed.all, closed.copy)]
           /\ created' = IF net.dynamic THEN <<>> ELSE Static
           /\ sysid' = 0 /\ routerId' = net.routerId
           /\ heard' = Unheard /\ said' = Unsaid /\ missing' = None /\ lost' = {} /\ raced' = {}
           /\ told' = Written
           /\ UNCHANGED <<net, sent, gaps, short, packets, files>>

Next == \/ \E d \in V5 \cap Devices : V5Packet(d)
        \/ \E d \in Devices \ V5, id \in net.ids :
              \/ \E ex \in net.layouts : Template(d, id, ex)
              \/ \E kind \in net.kinds : OptionTemplate(d, id, kind)
        \/ \E d \in V9 \cap Devices, id \in net.ids, rate \in Rates : DataSetV9(d, id, rate)
        \/ \E d \in Ipfix \cap Devices, id \in net.ids :
              \/ DataSetIpfix(d, id)
              \/ Withdraw(d, id)
        \/ \E d \in Ipfix \cap Devices : WithdrawAll(d)
        \/ \E d \in Devices : Lose(d)
        \/ Rotate \/ Restart

Spec == Init /\ [][Next]_vars

-----------------------------------------------------------------------------
(* Properties                                                              *)

Open == Range(created)
Samplers == [id : {NoId, 0, 1}, rate : Rates \cup {Junk, 1}]

\* Type invariant.
TypeOK ==
    /\ Open \subseteq Sources /\ sysid \in 0..MaxSysId /\ routerId \in BOOLEAN
    /\ sent \in [Devices -> 0..SeqWrap - 1] /\ lost \subseteq (Devices \X net.ids)
    /\ \A s \in Sources : \A k \in DOMAIN src[s].exps :
          LET e == src[s].exps[k] IN
          /\ e.dev \in Devices /\ SourceOf(e.dev) = s /\ e.samplers \subseteq Samplers
          /\ Live(src[s], k) \subseteq DOMAIN src[s].heap

\* Tables of all exporters of a source.
AllLive(s) == UNION {Live(src[s], k) : k \in DOMAIN src[s].exps}

\* No table is used after it was freed: neither by a lookup, nor by the cache of
\* an exporter, nor by the map list when the next file begins; and every map
\* still in use is in that list, so that it is in every file, unless another
\* exporter of the source withdrew all its templates.  And the variables have
\* their types.
NothingFreedInUse ==
    /\ TypeOK
    /\ \A s \in Open :
          /\ \A t \in AllLive(s) \cup (Range(src[s].list) \ {0}) : ~src[s].heap[t].freed
          /\ "reset" \in raced \/
             \A t \in AllLive(s) : LET slot == src[s].heap[t].mapId + 1 IN
                slot \in DOMAIN src[s].list /\ src[s].list[slot] = t

\* A reader finds the map of a record as it was written: the reader of one file,
\* the one of all files before and after a restart, and the one of a copy.  Two
\* exceptions: Insert_Extension_Map keeps a map of the same size that is the
\* begin of the new one, and "reset" as above.  And every map in use has a number
\* of its own in what nfdump writes after it has sorted or aggregated, whatever
\* numbers the files had.
Finds(maps, id, ex) ==
    \E x \in Resolves(maps, id) : x = ex \/ (Begins(x, ex) /\ MapSize(x) = MapSize(ex))
OutputMapsApart(maps) ==
    LET out == PackExtensionMapList(maps) IN
    \A l \in InUse(maps) : /\ out.page[l].id \in DOMAIN out.slot
                            /\ out.slot[out.page[l].id] = l
                            /\ out.page[l].ex = maps.page[l].ex
MapsResolve ==
    \A s \in Open :
        /\ "reset" \notin raced => \A t \in AllLive(s) : LET map == src[s].heap[t] IN
              /\ Finds(src[s].one.maps, map.mapId, map.out)
              /\ Finds(src[s].all.maps, map.mapId, map.out)
              /\ Finds(src[s].copy.maps, map.mapId, map.out)
              /\ map.out # map.ex => Begins(map.ex, map.out)
        /\ OutputMapsApart(src[s].all.maps)

\* A record is decoded with the template its exporter has sent last under its
\* id, or skipped when there is none.  Exceptions: tables that were lost with
\* the head of their chain, and an id that became one of an options template.
DecodesAsAnnounced ==
    \A d \in Devices \ V5, id \in net.ids :
        LET t == Table(d, id)
            as == heard[d][id] IN
        \/ New(d) \/ as.kind \in net.kinds \/ <<d, id>> \in lost
        \/ IF t = 0 THEN as.kind = "none" ELSE as.ex = src[SourceOf(d)].heap[t].ex \ {RouterId}

\* Ids of exporters are unique over all sources, and every reader finds the
\* exporter of a record, in spite of other exporters that had its id before a
\* restart; the numbers it gives to exporters are unique as well.
Means(list, id, d) == id \in DOMAIN list /\ list[id].dev = d
ExportersResolve ==
    /\ \A d, e \in Devices : ~New(d) /\ ~New(e) /\ d # e => Exporter(d).sysid # Exporter(e).sysid
    /\ \A d \in Devices : ~New(d) =>
          LET fs == src[SourceOf(d)]
              id == Exporter(d).sysid IN
          /\ Means(fs.one.exps, id, d) /\ Means(fs.all.exps, id, d)
          /\ Means(fs.copy.exps, fs.all.exps[id].sysid, d)
    /\ \A s \in Sources : Numbered(src[s].one.exps) /\ Numbered(src[s].all.exps)

\* The samplers of a v9 exporter are the ones it has told of last, unless an id
\* stood for different things in one source ("options"), and every reader has
\* each of them with some rate: a change is only written with the next file.
SamplersAsTold ==
    \A d \in Devices \ Ipfix : New(d) \/
        /\ "options" \in raced \/ Exporter(d).samplers = said[d]
        /\ LET fs == src[SourceOf(d)]
               known(list, id) == {x.sampler.id : x \in list[id].samplers}
               ids == {x.id : x \in Exporter(d).samplers}
               id  == Exporter(d).sysid IN
           /\ ids \subseteq known(fs.one.exps, id) /\ ids \subseteq known(fs.all.exps, id)
           /\ ids \subseteq known(fs.copy.exps, fs.all.exps[id].sysid)

\* Every gap in the numbers of an exporter is counted once, in the statistics of
\* the exporter and of the file, and adds up in a reader of all files; except in
\* a source whose exporter_count was reset.  A data set of IPFIX without a
\* template counts as a gap.
Total(f(_), S) == FoldSet(LAMBDA x, acc : f(x) + acc, 0, S)
GapsCounted ==
    \A s \in Sources \ short :
        /\ src[s].failures = Total(LAMBDA k : src[s].exps[k].failures, DOMAIN src[s].exps)
        /\ \A d \in Devices : SourceOf(d) = s =>
              LET list == src[s].all.exps
                  slots == {i \in DOMAIN list : list[i].dev = d} IN
              /\ gaps[d] = told[d] + IF New(d) THEN 0 ELSE Exporter(d).failures
              /\ told[d] = Total(LAMBDA i : list[i].failures, slots)
=============================================================================
