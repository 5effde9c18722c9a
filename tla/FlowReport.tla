----------------------------- MODULE FlowReport -----------------------------
(***************************************************************************)
(* nfdump collects records in its flow table and reports the table: it     *)
(* prints it as it is (option -a, -b, -B) or sorted (-O, -s), or writes it *)
(* to a file, which is then read again with other options.  process_data   *)
(* and main of nfdump.c call AddFlow or InsertFlow for every record, then  *)
(* PrintFlowTable or PrintFlowStat of nfstat.c, or ExportFlowTable of      *)
(* nfexport.c.                                                             *)
(***************************************************************************)
EXTENDS FlowTable, HeapSort, SequencesExt

CONSTANTS
    Records,     \* records of data files
    Confs,       \* options, see below
    Low,         \* sources and destinations with a port below 1024
    Known,       \* those with a port of the services file, with the protocol
    MaxRecords   \* bound: records of the first file

(***************************************************************************)
(* Options: aggregate (AddFlow instead of InsertFlow), bidir (-b), guess   *)
(* (-B), order ("none", "packets" or "tstart"), stat (-s: PrintFlowStat),  *)
(* topN (-n, 0 for all), more (-l +<n>, 0 for no limit), to ("text",       *)
(* "elastic" or "file").                                                   *)
(***************************************************************************)
ASSUME ConfsAssumption ==
    \A c \in Confs : /\ c.guess => c.bidir
                     /\ c.bidir => c.aggregate
                     /\ c.aggregate \/ c.order # "none"
                     /\ c.stat => c.order # "none" /\ c.aggregate /\ c.to = "text"

VARIABLES
    conf,     \* the options
    table,    \* the flow table
    phase,    \* "read", "printed" or "exported"
    out,      \* rows that were printed, or records that were exported
    todo,     \* records of the exported file that are not yet read again
    read,     \* history: how often each record of the first file was read
    applied,  \* history: what was done to them: a subset of {"aggregate", "bidir"}
    again,    \* an exported file is read
    aborted   \* the sender gave up before the end of the table

vars == <<conf, table, phase, out, todo, read, applied, again, aborted>>

Init == /\ conf \in Confs
        /\ table = EmptyTable
        /\ phase = "read" /\ out = <<>> /\ todo = <<>>
        /\ read = [r \in Records |-> 0]
        /\ applied = {} /\ again = FALSE /\ aborted = FALSE

-----------------------------------------------------------------------------
(* Reading                                                                 *)

Enter(rec) ==
    /\ table' = IF conf.aggregate THEN AddFlow(table, rec, conf.bidir) ELSE InsertFlow(table, rec)
    /\ applied' = applied \cup (IF conf.aggregate THEN {"aggregate"} ELSE {})
                          \cup (IF conf.bidir THEN {"bidir"} ELSE {})

Total(f) == FoldFunction(+, 0, f)

Read(rec) == /\ phase = "read" /\ ~again /\ Total(read) < MaxRecords
             /\ Enter(rec)
             /\ read' = [read EXCEPT ![rec] = @ + 1]
             /\ UNCHANGED <<conf, phase, out, todo, again, aborted>>

ReadBack == /\ phase = "read" /\ todo # <<>>
            /\ Enter(Head(todo))
            /\ todo' = Tail(todo)
            /\ UNCHANGED <<conf, phase, out, read, again, aborted>>

\* All of the file is in the table, and it is not empty.
Complete == phase = "read" /\ todo = <<>> /\ table # EmptyTable

-----------------------------------------------------------------------------
(* The direction of a flow                                                 *)

High(e) == e \notin Low
Asked(refused, asking) == "S" \in asking /\ "R" \notin asking /\ "S" \notin refused /\ "R" \in refused

\* How sure it is that dst is the server, 0 for not at all: a port below 1024,
\* a reset from the one side for a SYN from the other, a known service.
GuessRule(prot, src, dst, srcFlags, dstFlags) ==
    CASE High(src) /\ dst \in Low -> 90
      [] High(src) /\ High(dst) /\ prot = "tcp" /\ Asked(dstFlags, srcFlags) -> 80
      [] /\ High(src) /\ High(dst)
         /\ ~(prot = "tcp" /\ Asked(srcFlags, dstFlags))
         /\ <<prot, src>> \notin Known /\ <<prot, dst>> \in Known -> 70
      [] OTHER -> 0

\* The guess for an entry, and whether its row is swapped.
Guess(e) == GuessRule(e.key.prot, e.key.src, e.key.dst, e.srcFlags, e.dstFlags)
GuessBack(e) == GuessRule(e.key.prot, e.key.dst, e.key.src, e.dstFlags, e.srcFlags)

Plain(e, at) == [at |-> at, prot |-> e.key.prot, src |-> e.key.src, dst |-> e.key.dst,
                 in |-> e.in, out |-> e.out, guess |-> e.guess]

SwapFlow(row) == [row EXCEPT !.src = row.dst, !.dst = row.src, !.in = row.out, !.out = row.in]

Row(e, at, guess) ==
    IF ~guess \/ e.key.prot \notin {"tcp", "udp"} THEN Plain(e, at)
    ELSE IF GuessBack(e) > Guess(e) THEN SwapFlow([Plain(e, at) EXCEPT !.guess = GuessBack(e)])
    ELSE [Plain(e, at) EXCEPT !.guess = Guess(e)]

-----------------------------------------------------------------------------
(* Printing                                                                *)

Entry(at) == table.bucket[at[1]][at[2]]

\* The places of the entries up to an index.
Places(last) == Chained([i \in Index |-> [k \in DOMAIN table.bucket[i] |-> <<i, k>>]], last)

\* Entries above the limit for input packets.
Passing(places) == SelectSeq(places, LAMBDA at : conf.more = 0 \/ Entry(at).in > conf.more)

\* The loops that print run while i < IndexMask: the last index is left out.
Printed == Passing(Places(IndexMask - 1))

FirstOf(seq, n) == IF n = 0 \/ n > Len(seq) THEN seq ELSE SubSeq(seq, 1, n)

\* PrintFlowTable without an order: topN stops text output only, and a direction
\* is guessed when there are packets in both.
Unsorted ==
    LET places == IF conf.to = "elastic" THEN Printed ELSE FirstOf(Printed, conf.topN)
        row(at) == Row(Entry(at), at, conf.guess /\ Entry(at).in > 0 /\ Entry(at).out > 0)
    IN [k \in DOMAIN places |-> row(places[k])]

Count(e) == IF conf.order = "packets" THEN e.in ELSE e.first
SortList == [k \in DOMAIN Printed |-> [count |-> Count(Entry(Printed[k])), at |-> Printed[k]]]
SortedList(topN) == IF Len(SortList) < 2 THEN SortList ELSE heapSort(SortList, topN)

\* PrintSortedFlowcache: from the end for a descending order.
PrintSorted(list, ascending, guess) ==
    LET rows == IF ascending THEN list ELSE [k \in DOMAIN list |-> list[Len(list) + 1 - k]]
        row(k) == Row(Entry(rows[k].at), rows[k].at, guess)
    IN [k \in DOMAIN FirstOf(rows, conf.topN) |-> row(k)]

\* PrintFlowTable with an order sorts everything and prints topN; PrintFlowStat
\* sorts topN, prints the greatest first, and guesses nothing.
Rows == IF conf.stat THEN PrintSorted(SortedList(conf.topN), FALSE, FALSE)
        ELSE IF conf.order # "none" THEN PrintSorted(SortedList(0), conf.order = "tstart", conf.guess)
        ELSE Unsorted

PrintTable == /\ Complete /\ conf.to # "file"
              /\ phase' = "printed"
              /\ out' = Rows
              /\ UNCHANGED <<conf, table, todo, read, applied, again, aborted>>

\* The bulk sender has no memory for a row: the loop ends.
PrintAbort == /\ Complete /\ conf.to = "elastic"
              /\ phase' = "printed" /\ aborted' = TRUE
              /\ \E k \in 0..(Len(Rows) - 1) : out' = FirstOf(Rows, k)
              /\ UNCHANGED <<conf, table, todo, read, applied, again>>

-----------------------------------------------------------------------------
(* Exporting                                                               *)

\* A record of the file: the counters of the entry with the fields of its first
\* record, merged.
Exported(e) == [key |-> e.key, pkts |-> e.in, out |-> e.out, flows |-> e.flows,
                flags |-> e.flags, first |-> e.first, last |-> e.last, router |-> e.routers[1]]

\* All indexes are written, in order or sorted by date; limits do not count.
Export == /\ Complete /\ conf.to = "file"
          /\ phase' = "exported"
          /\ LET places == Places(IndexMask)
                 list == [k \in DOMAIN places |-> [count |-> Entry(places[k]).first, at |-> places[k]]]
                 sorted == IF Len(list) < 2 \/ conf.order # "tstart" THEN list ELSE heapSort(list, 0)
             IN out' = [k \in DOMAIN sorted |-> Exported(Entry(sorted[k].at))]
          /\ UNCHANGED <<conf, table, todo, read, applied, again, aborted>>

\* nfdump is called again with the exported file.
Reread == /\ phase = "exported" /\ ~again
          /\ again' = TRUE
          /\ conf' \in {c \in Confs : c.to # "file"}
          /\ todo' = out /\ out' = <<>>
          /\ table' = EmptyTable /\ phase' = "read"
          /\ UNCHANGED <<read, applied, aborted>>

Next == \/ \E rec \in Records : Read(rec)
        \/ ReadBack \/ PrintTable \/ PrintAbort \/ Export \/ Reread

Spec == Init /\ [][Next]_vars

-----------------------------------------------------------------------------
(* Properties                                                              *)

\* What was read, by key.
Sum(f(_), S) == FoldSet(LAMBDA r, acc : read[r] * f(r) + acc, 0, S)
Of(key) == {r \in Records : r.key = key /\ read[r] > 0}
Paired(key) == "bidir" \in applied /\ key.prot \in {"tcp", "udp"} /\ key # SwapKey(key)
BackOf(key) == IF Paired(key) THEN Of(SwapKey(key)) ELSE {}
Sent(key) == Sum(LAMBDA r : r.pkts, Of(key)) + Sum(LAMBDA r : r.out, BackOf(key))
Received(key) == Sum(LAMBDA r : r.out, Of(key)) + Sum(LAMBDA r : r.pkts, BackOf(key))

\* Every entry of the table.
AllPlaces == Range(Places(IndexMask))

\* Type invariant.
TypeOK ==
    /\ conf \in Confs /\ phase \in {"read", "printed", "exported"}
    /\ \A at \in AllPlaces :
          /\ Entry(at).in \in Nat /\ Entry(at).out \in Nat /\ Entry(at).guess \in {-1, 0}
          /\ Len(Entry(at).routers) \in 1..MaxRouters
    /\ table.keymem \in 0..Len(table.cells) /\ table.bidirkeymem \in 0..Len(table.cells)

\* An aggregated flow is one entry: it has a key of its own, which no other
\* entry and no later record is built in, the lookup finds it, and the opposite
\* direction has no entry (AddFlow and its static key memory).  And the variables
\* have their types.
OneEntryPerFlow ==
    /\ TypeOK
    /\ conf.aggregate => \A at \in AllPlaces :
          LET e == Entry(at) IN
          /\ table.cells[e.cell] = e.key /\ e.cell \notin {table.keymem, table.bidirkeymem}
          /\ at = <<IndexOf(Hash[e.key]), Lookup(table, e.key)>>
          /\ conf.bidir /\ e.key.prot \in {"tcp", "udp"} /\ e.key # SwapKey(e.key)
               => Lookup(table, SwapKey(e.key)) = 0

\* The table accounts for every record, whatever order they came in and through
\* which file: an entry has the packets of both directions, the number of flows
\* and their time span, and every key that was read is found.
Accounted ==
    ("aggregate" \in applied /\ todo = <<>> /\ table # EmptyTable) =>
        /\ \A at \in AllPlaces :
              LET e == Entry(at)
                  both == Of(e.key) \cup BackOf(e.key) IN
              /\ e.in = Sent(e.key) /\ e.out = Received(e.key)
              /\ e.flows = Sum(FlowsOf, both)
              /\ e.first = Least({r.first : r \in both}) /\ e.last = Greatest({r.last : r \in both})
              /\ e.flags = UNION {r.flags : r \in both}
        /\ \A r \in Records : read[r] > 0 =>
              \E at \in AllPlaces : Entry(at).key \in {r.key} \cup
                                      IF Paired(r.key) THEN {SwapKey(r.key)} ELSE {}

\* The evidence in the records of both directions decides a row: its source is
\* the side that looks like the client, with the packets that side sent, whichever
\* direction came first, and whether rows are sorted or not (a table that is
\* printed unsorted needs packets in both directions).  The flags of the
\* directions do not survive an export.
FlagsOf(key) == UNION {r.flags : r \in Of(key)}
ClientFirst ==
    phase = "printed" => \A k \in DOMAIN out :
        LET row == out[k]
            key == [prot |-> row.prot, src |-> row.src, dst |-> row.dst] IN
        /\ conf.aggregate => row.in = Sent(key) /\ row.out = Received(key)
        /\ conf.guess /\ ~conf.stat /\ ~again /\ row.prot \in {"tcp", "udp"}
           /\ (conf.order # "none" \/ (row.in > 0 /\ row.out > 0)) =>
              LET there == GuessRule(row.prot, row.src, row.dst, FlagsOf(key), FlagsOf(SwapKey(key)))
                  back  == GuessRule(row.prot, row.dst, row.src, FlagsOf(SwapKey(key)), FlagsOf(key))
              IN row.guess = there /\ back <= there

\* Every entry above the limit is printed once, except those of the last index;
\* of a number of rows the first ones are printed, or the greatest ones in
\* their order.
RowsComplete ==
    phase = "printed" =>
        LET shown == {out[k].at : k \in DOMAIN out}
            due == Range(Printed)
            count(at) == IF conf.order = "tstart" /\ ~conf.stat
                         THEN 0 - Count(Entry(at)) ELSE Count(Entry(at)) IN
        /\ Cardinality(shown) = Len(out) /\ shown \subseteq due
        /\ ~aborted => \/ shown = due
                       \/ conf.topN > 0 /\ Len(out) = conf.topN
        /\ ~aborted /\ conf.order # "none" =>
              /\ \A k, l \in DOMAIN out : k < l => count(out[k].at) >= count(out[l].at)
              /\ \A at \in shown, other \in due \ shown : count(at) >= count(other)
=============================================================================
