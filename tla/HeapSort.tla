------------------------------ MODULE HeapSort ------------------------------
(***************************************************************************)
(* heapSort of heapsort_inline.c on a sequence of elements with a count,   *)
(* positions from 0 as in the code.                                        *)
(***************************************************************************)
EXTENDS Integers, Sequences

LOCAL At(s, i) == s[i + 1].count
Exchange(s, i, j) == [s EXCEPT ![i + 1] = s[j + 1], ![j + 1] = s[i + 1]]

\* The greatest of a node and its two children below size; a child wins only
\* when it is greater, the right one against the left.
LOCAL Winner(s, size, node) ==
    LET left == IF 2 * node + 1 < size /\ At(s, 2 * node + 1) > At(s, node)
                THEN 2 * node + 1 ELSE node
    IN IF 2 * node + 2 < size /\ At(s, 2 * node + 2) > At(s, left) THEN 2 * node + 2 ELSE left

RECURSIVE siftDown(_, _, _)
siftDown(s, size, node) ==
    LET w == Winner(s, size, node)
    IN IF w = node THEN s ELSE siftDown(Exchange(s, node, w), size, w)

RECURSIVE Heapify(_, _)
Heapify(s, node) == IF node < 0 THEN s ELSE Heapify(siftDown(s, Len(s), node), node - 1)

\* The greatest element goes to position i, down to the position after maxindex.
RECURSIVE Extract(_, _, _)
Extract(s, i, maxindex) ==
    IF i <= maxindex THEN s
    ELSE Extract(siftDown(Exchange(s, 0, i), i, 0), i - 1, maxindex)

\* Mutant of heapSort: one element less is sorted.
heapSortShort(s, topN) ==
    Extract(Heapify(s, Len(s) - 1), Len(s) - 1,
            IF topN >= Len(s) - 1 \/ topN = 0 THEN 0 ELSE Len(s) - topN)

\* Only the topN greatest are sorted, to the end of the array; all for 0.
heapSort(s, topN) ==
    Extract(Heapify(s, Len(s) - 1), Len(s) - 1,
            IF topN >= Len(s) - 1 \/ topN = 0 THEN 0 ELSE Len(s) - 1 - topN)
=============================================================================
