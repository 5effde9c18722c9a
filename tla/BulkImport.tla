----------------------------- MODULE BulkImport -----------------------------
(***************************************************************************)
(* What the bulk sender of nfdump's elastic_db output promises, with no    *)
(* buffers and no threads: every document handed to it is settled (the     *)
(* server took it, or it was given up) at most once, nothing is settled    *)
(* before it was handed over, and a run that reports success has settled   *)
(* all that it was given.                                                  *)
(***************************************************************************)
EXTENDS Naturals

CONSTANT NumDocs        \* flow records of the table that is printed

VARIABLES given,        \* documents handed to the sender so far
          indexed,      \* documents the server has taken
          givenUp,      \* documents that will never be sent (again)
          outcome       \* "running", "exit0" or "exit255"

bvars == <<given, indexed, givenUp, outcome>>

Settled == indexed \cup givenUp

Init == given = {} /\ indexed = {} /\ givenUp = {} /\ outcome = "running"

\* A document is handed over; it may be given up at once (no memory for it).
Give == /\ outcome = "running"
        /\ \E d \in (1..NumDocs) \ given :
              /\ given' = given \cup {d}
              /\ givenUp' \in {givenUp, givenUp \cup {d}}
        /\ UNCHANGED <<indexed, outcome>>

\* Some unsettled documents are settled by one request to the server.
Settle == /\ outcome = "running"
          /\ \E batch \in SUBSET (given \ Settled) : \E ok \in SUBSET batch :
                /\ indexed' = indexed \cup ok
                /\ givenUp' = givenUp \cup (batch \ ok)
          /\ UNCHANGED <<given, outcome>>

\* Success is only reported when nothing is left unsettled.
Finish == /\ outcome = "running"
          /\ given = Settled
          /\ outcome' = "exit0"
          /\ UNCHANGED <<given, indexed, givenUp>>

Abort == /\ outcome = "running"
         /\ outcome' = "exit255"
         /\ UNCHANGED <<given, indexed, givenUp>>

Next == Give \/ Settle \/ Finish \/ Abort

Spec == Init /\ [][Next]_bvars
=============================================================================
