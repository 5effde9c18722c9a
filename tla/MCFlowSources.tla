--------------------------- MODULE MCFlowSources ---------------------------
(***************************************************************************)
(* Networks for FlowSources: a v9 and an IPFIX exporter with many layouts  *)
(* of their templates at one configured source; and one exporter of v5,    *)
(* two of v9 and one of IPFIX with samplers and lost packets, at two       *)
(* sources that are added as they appear.                                  *)
(***************************************************************************)
EXTENDS FlowSources

Layouts == [devices |-> {"c", "d"}, second |-> {}, dynamic |-> FALSE, routerId |-> TRUE,
            ids |-> {1, 2}, layouts |-> {{5}, {5, 6}, {7}}, kinds |-> {}, lost |-> 0]
Exporters == [devices |-> {"a", "b", "c", "d"}, second |-> {"c"}, dynamic |-> TRUE,
              routerId |-> FALSE, ids |-> {1}, layouts |-> {{5}},
              kinds |-> {"sampler", "std"}, lost |-> 1]

MCNetworks == {Layouts, Exporters}
=============================================================================
