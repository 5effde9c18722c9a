----------------------------- MODULE MCPcapFlow -----------------------------
(***************************************************************************)
(* PcapFlow for TLC.  The nodes of the pool are interchangeable, and so    *)
(* are the UDP flows: no action and no property looks at more than which   *)
(* is which, and only the order of the first free list, one of many alike, *)
(* is chosen.                                                              *)
(***************************************************************************)
EXTENDS PcapFlow, TLC

MCSymmetry == Permutations(Nodes) \cup Permutations(UdpKeys)
=============================================================================
