------------------------------ MODULE FlowTable ------------------------------
(***************************************************************************)
(* The flow table of nfdump (nflowcache.c): a hash table of aggregated     *)
(* flows.  A table is a record                                             *)
(*                                                                         *)
(*   bucket  the chain of entries of every index                           *)
(*   cells   the memory of keys: an entry refers to its key, it has none   *)
(*   keymem, bidirkeymem   cells the next key is built in, 0 for none      *)
(*                                                                         *)
(* A record of a file is [key, pkts, out, flows, flags, first, last,       *)
(* router]; pkts and out stand for the packets and the bytes of the two    *)
(* directions, a key is [prot, src, dst], and src and dst are an address   *)
(* with its port.                                                          *)
(***************************************************************************)
EXTENDS Integers, Sequences, FiniteSets

CONSTANTS
    Hash,        \* the hash of a key
    IndexMask,   \* indexes are 0..IndexMask
    MaxRouters   \* MAX_ROUTER_PER_FLOW

Index == 0..IndexMask
IndexOf(hash) == hash % (IndexMask + 1)
NoKey == [prot |-> "none", src |-> "none", dst |-> "none"]

EmptyTable == [bucket |-> [i \in Index |-> <<>>], cells |-> <<>>, keymem |-> 0, bidirkeymem |-> 0]

\* New_Hash_Key with swap_flow.
SwapKey(key) == [key EXCEPT !.src = key.dst, !.dst = key.src]

Least(S) == CHOOSE x \in S : \A y \in S : x <= y
Greatest(S) == CHOOSE x \in S : \A y \in S : x >= y

\* hash_lookup_FlowTable: entries with another hash are skipped, up to the first
\* one with the same; from there on keys are compared.  0: not found.
Lookup(t, key) ==
    LET chain == t.bucket[IndexOf(Hash[key])]
        same  == {i \in DOMAIN chain : chain[i].hash = Hash[key]}
        hits  == {i \in DOMAIN chain : /\ same # {} /\ i >= Least(same)
                                       /\ t.cells[chain[i].cell] = key}
    IN IF hits = {} THEN 0 ELSE Least(hits)

\* An entry for the first record of a flow; aggr_flows 0 counts as one flow.
FlowsOf(rec) == IF rec.flows = 0 THEN 1 ELSE rec.flows
NewEntry(hash, cell, rec) ==
    [hash |-> hash, cell |-> cell, key |-> rec.key, in |-> rec.pkts, out |-> rec.out,
     flows |-> FlowsOf(rec), flags |-> rec.flags, first |-> rec.first, last |-> rec.last,
     routers |-> <<rec.router>>, srcFlags |-> rec.flags, dstFlags |-> {}, guess |-> -1]

\* hash_insert_FlowTable: the entry goes to the end of its chain.
AppendEntry(t, index, entry) == [t EXCEPT !.bucket[index] = Append(@, entry)]

\* A router is noted once, up to the number there is room for.
AddRouter(routers, router) ==
    IF Len(routers) < MaxRouters /\ \A i \in DOMAIN routers : routers[i] # router
    THEN Append(routers, router) ELSE routers

\* What both directions of an update have in common.
Merge(e, rec) ==
    [e EXCEPT !.first = Least({@, rec.first}), !.last = Greatest({@, rec.last}),
              !.flows = @ + FlowsOf(rec), !.flags = @ \cup rec.flags,
              !.routers = AddRouter(@, rec.router)]

Forward(e, rec) == [Merge(e, rec) EXCEPT !.in = @ + rec.pkts, !.out = @ + rec.out,
                                         !.srcFlags = @ \cup rec.flags]

\* Mutant of Backward: the flags are noted for the wrong direction.
BackwardFlags(e, rec) == [Merge(e, rec) EXCEPT !.out = @ + rec.pkts, !.in = @ + rec.out,
                                               !.srcFlags = @ \cup rec.flags, !.guess = 0]
\* Mutant: output counters of the record are left out.
BackwardOneWay(e, rec) == [Merge(e, rec) EXCEPT !.out = @ + rec.pkts,
                                                !.dstFlags = @ \cup rec.flags, !.guess = 0]
Backward(e, rec) == [Merge(e, rec) EXCEPT !.out = @ + rec.pkts, !.in = @ + rec.out,
                                          !.dstFlags = @ \cup rec.flags, !.guess = 0]

\* The memory for keys: taken when there is none, written with each new key.
TakeKeymem(t) == IF t.keymem # 0 THEN t
                 ELSE [t EXCEPT !.cells = Append(@, NoKey), !.keymem = Len(t.cells) + 1]
TakeBidirKeymem(t) == IF t.bidirkeymem # 0 THEN t
                      ELSE [t EXCEPT !.cells = Append(@, NoKey), !.bidirkeymem = Len(t.cells) + 1]

\* Mutant of InsertNew: the key is built again in the memory of the entry.
InsertShared(t, rec) ==
    AppendEntry(t, IndexOf(Hash[rec.key]), NewEntry(Hash[rec.key], t.keymem, rec))

\* The entry keeps the key: keymem is part of the table now.
InsertNew(t, rec) ==
    [AppendEntry(t, IndexOf(Hash[rec.key]), NewEntry(Hash[rec.key], t.keymem, rec))
       EXCEPT !.keymem = 0]

\* AddFlow; bidir for option -b or -B.
AddFlow(table, rec, bidir) ==
    LET u == TakeKeymem(table)
        t == [u EXCEPT !.cells[u.keymem] = rec.key]
        i == IndexOf(Hash[rec.key])
        hit == Lookup(t, rec.key)
        v == TakeBidirKeymem(t)
        back == [v EXCEPT !.cells[v.bidirkeymem] = SwapKey(rec.key)]
        j == IndexOf(Hash[SwapKey(rec.key)])
        backHit == Lookup(back, SwapKey(rec.key))
    IN IF hit # 0 THEN [t EXCEPT !.bucket[i][hit] = Forward(@, rec)]
       ELSE IF ~bidir \/ rec.key.prot \notin {"tcp", "udp"} THEN InsertNew(t, rec)
       ELSE IF backHit # 0 THEN [back EXCEPT !.bucket[j][backHit] = Backward(@, rec)]
       ELSE InsertNew(back, rec)

\* InsertFlow: for sorting only, every record is an entry of the first chain.
InsertFlow(t, rec) == AppendEntry(t, 0, NewEntry(0, 0, rec))

\* All entries, in the order of the indexes.
Chained(bucket, last) ==
    LET upTo[i \in 0..(IndexMask + 1)] == IF i = 0 THEN <<>> ELSE upTo[i - 1] \o bucket[i - 1]
    IN upTo[last + 1]
Entries(t) == Chained(t.bucket, IndexMask)
=============================================================================
