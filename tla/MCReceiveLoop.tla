---------------------------- MODULE MCReceiveLoop ----------------------------
(***************************************************************************)
(* Networks for ReceiveLoop: sources that are added when they send, which   *)
(* may fail; one or two sources of the command line.                       *)
(***************************************************************************)
EXTENDS ReceiveLoop

MCNetworks == {[static |-> 0, dynamic |-> TRUE, launcher |-> FALSE, packets |-> 2, faults |-> 1],
               [static |-> 1, dynamic |-> FALSE, launcher |-> FALSE, packets |-> 1, faults |-> 0],
               [static |-> 2, dynamic |-> FALSE, launcher |-> TRUE, packets |-> 1, faults |-> 0]}
=============================================================================
