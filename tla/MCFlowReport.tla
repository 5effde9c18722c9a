---------------------------- MODULE MCFlowReport ----------------------------
(***************************************************************************)
(* Values for FlowReport: both directions of a flow to a low port, of one  *)
(* between high ports that is refused, of one to a known service, and of   *)
(* one that is not TCP or UDP.  Keys share hashes and indexes.             *)
(***************************************************************************)
EXTENDS FlowReport

Rec(prot, src, dst, pkts, o, flags, time, router) ==
    [key |-> [prot |-> prot, src |-> src, dst |-> dst], pkts |-> pkts, out |-> o, flows |-> 0,
     flags |-> flags, first |-> time, last |-> time + 1, router |-> router]

MCLow == {"www"}
MCKnown == {<<"tcp", "db">>}
MCRecords == {Rec("tcp", "a", "www", 1, 0, {"S"}, 1, "r1"), Rec("tcp", "www", "a", 2, 0, {"S"}, 2, "r2"),
              Rec("tcp", "a", "www", 2, 1, {"R"}, 4, "r3"),
              Rec("tcp", "a", "b", 1, 0, {"S"}, 3, "r1"), Rec("tcp", "b", "a", 3, 0, {"R"}, 2, "r1"),
              Rec("tcp", "a", "db", 1, 2, {"S"}, 1, "r2"), Rec("tcp", "db", "a", 2, 0, {}, 3, "r2"),
              Rec("icmp", "a", "b", 1, 0, {}, 2, "r1"), Rec("icmp", "b", "a", 2, 0, {}, 1, "r3")}

\* Both directions of a flow have one index or two; the refused flow and its
\* reverse have one hash.
MCHash == [k \in {r.key : r \in MCRecords} \cup {SwapKey(r.key) : r \in MCRecords} |->
             CASE k.prot = "icmp" -> IF k.src = "a" THEN 1 ELSE 3
               [] k.dst = "b" \/ k.src = "b" -> 0
               [] k.src = "a" -> IF k.dst = "www" THEN 2 ELSE 4
               [] OTHER -> IF k.src = "www" THEN 0 ELSE 5]

Conf(aggregate, bidir, guess, order, stat, topN, more, to) ==
    [aggregate |-> aggregate, bidir |-> bidir, guess |-> guess, order |-> order, stat |-> stat,
     topN |-> topN, more |-> more, to |-> to]

MCConfs == {Conf(FALSE, FALSE, FALSE, "tstart", FALSE, 2, 0, "text"),
            Conf(TRUE, FALSE, FALSE, "packets", TRUE, 2, 0, "text"),
            Conf(TRUE, TRUE, TRUE, "none", FALSE, 2, 1, "text"),
            Conf(TRUE, TRUE, TRUE, "none", FALSE, 0, 0, "elastic"),
            Conf(TRUE, TRUE, TRUE, "packets", FALSE, 0, 0, "text"),
            Conf(TRUE, TRUE, TRUE, "packets", TRUE, 1, 1, "text"),
            Conf(FALSE, FALSE, FALSE, "tstart", FALSE, 0, 0, "file"),
            Conf(TRUE, FALSE, FALSE, "none", FALSE, 0, 0, "file"),
            Conf(TRUE, TRUE, FALSE, "tstart", FALSE, 0, 0, "file")}
=============================================================================
