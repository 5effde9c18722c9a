---------------------------- MODULE MCAccounting ----------------------------
(***************************************************************************)
(* Scenes for Accounting: an auto-expiring collector with processes that   *)
(* are killed, over three slots, and that also restarts, over two slots; a *)
(* collector without auto-expire and nfexpire with all its modes, from a   *)
(* missing and an existing stat file, with a restart or with two runs of   *)
(* nfexpire; launcher and nfexpire together.                               *)
(***************************************************************************)
EXTENDS Accounting

Auto == [auto |-> TRUE, nfexpire |-> FALSE, modes |-> {}, args |-> {0},
         stat |-> "limits", limit |-> 4, size |-> 2,
         slots |-> 3, runs |-> 2, restarts |-> 1, crashes |-> 1]
Manual(stat) == [auto |-> FALSE, nfexpire |-> TRUE,
         modes |-> {"list", "rescan", "expire", "update"}, args |-> {0, 2},
         stat |-> stat, limit |-> 3, size |-> 2,
         slots |-> 2, runs |-> 2, restarts |-> 1, crashes |-> 0]
Both == [auto |-> TRUE, nfexpire |-> TRUE,
         modes |-> {"list", "rescan", "expire"}, args |-> {0},
         stat |-> "limits", limit |-> 2, size |-> 1,
         slots |-> 3, runs |-> 1, restarts |-> 0, crashes |-> 0]

MCScenes == {[Auto EXCEPT !.restarts = 0],
             [Auto EXCEPT !.slots = 2],
             [Manual("limits") EXCEPT !.runs = 1], [Manual("none") EXCEPT !.runs = 1],
             [Manual("limits") EXCEPT !.restarts = 0], Both}

\* nfexpire sets limits while an auto-expiring collector runs.
ParallelScenes == {[Both EXCEPT !.modes = {"update"}, !.args = {0, 2}, !.runs = 2]}
=============================================================================
