----------------------------- MODULE ElasticBulk -----------------------------
(***************************************************************************)
(* The bulk sender of src/Capture/nfelastic/bin/elastic.c, driven by       *)
(* PrintFlowTable (nfstat.c) and ended by main (nfdump.c).                 *)
(*                                                                         *)
(* The main thread appends one JSON document per flow to next_thread.  A   *)
(* full buffer is moved to the next slot of the ring tm[], and a thread is *)
(* created that posts it.  A slot is reused only after its old thread was  *)
(* joined.  A buffer is the set of its documents and its size in bytes:    *)
(* bulkdata is NULL exactly when the set is empty.                         *)
(***************************************************************************)
EXTENDS Integers, FiniteSets

CONSTANTS
    NumDocs,      \* flows in the table
    MaxThreads,   \* max_threads
    DocSizes,     \* sizes a document may have
    MaxBulkSize   \* ELASTICSEARCH_MAX_BULK_SIZE

ASSUME NumDocsAssumption    == NumDocs \in Nat
ASSUME MaxThreadsAssumption == MaxThreads \in Nat \ {0}
ASSUME SizeAssumption       == DocSizes \subseteq Nat \ {0} /\ MaxBulkSize \in Nat

VARIABLES
    pc,              \* where the main thread is
    printed,         \* documents formatted so far
    stop,            \* PrintFlowTable's stop: a realloc failed
    final,           \* the NULL call (last flush) has been made
    next_thread,     \* buffer being filled
    tm,              \* ring of slots
    current_thread,  \* slot used last
    waitIdx,         \* i of wait_for_elasticsearch_threads
    worker,          \* state of the thread created for a slot
    arg,             \* documents of the buffer a thread has read from its slot
    indexed,         \* documents the server stored
    failed,          \* documents of requests that failed (only logged)
    dropped          \* documents realloc had no memory for

bulkVars == <<pc, printed, stop, final, next_thread, tm, current_thread, waitIdx,
              worker, arg, indexed, failed, dropped>>

Slots   == 0..(MaxThreads - 1)
Docs    == 1..NumDocs
MainPC  == {"collect", "send", "join", "create", "wait", "exit0", "exit255"}
Active  == {"started", "posting"}

\* init_thread
NoThread  == [thread |-> FALSE, bulkdata |-> {}, bulksize |-> 0]
NoBuffer  == [bulkdata |-> {}, bulksize |-> 0]

init_elasticsearch ==
    /\ tm = [t \in Slots |-> NoThread]
    /\ next_thread = NoBuffer
    /\ current_thread = 0

BulkInit == /\ init_elasticsearch
            /\ pc = "collect" /\ printed = 0 /\ stop = FALSE /\ final = FALSE
            /\ waitIdx = 0
            /\ worker = [t \in Slots |-> "none"]
            /\ arg = [t \in Slots |-> {}]
            /\ indexed = {} /\ failed = {} /\ dropped = {}

-----------------------------------------------------------------------------
(* collect_and_send_elasticsearch_bulk_data, the main thread.              *)

serverVars == <<worker, arg, indexed, failed>>

\* A document is appended; the buffer is sent when it reached the limit.
CollectDocument ==
    /\ pc = "collect" /\ ~stop /\ printed < NumDocs
    /\ \E needed \in DocSizes :
          next_thread' = [bulkdata |-> next_thread.bulkdata \cup {printed + 1},
                          bulksize |-> next_thread.bulksize + needed]
    /\ printed' = printed + 1
    /\ pc' = IF next_thread'.bulksize >= MaxBulkSize THEN "send" ELSE "collect"
    /\ UNCHANGED <<stop, final, tm, current_thread, waitIdx, dropped>>
    /\ UNCHANGED serverVars

\* realloc returns NULL: ULONG_MAX is returned and PrintFlowTable stops.
CollectNoMemory ==
    /\ pc = "collect" /\ ~stop /\ printed < NumDocs
    /\ printed' = printed + 1
    /\ dropped' = dropped \cup {printed + 1}
    /\ stop' = TRUE
    /\ UNCHANGED <<pc, final, next_thread, tm, current_thread, waitIdx>>
    /\ UNCHANGED serverVars

\* The call with NULL that PrintFlowTable makes after its loop.
CollectLast ==
    /\ pc = "collect" /\ (stop \/ printed = NumDocs)
    /\ final' = TRUE
    /\ pc' = IF next_thread.bulkdata # {} THEN "send" ELSE "wait"
    /\ UNCHANGED <<printed, stop, next_thread, tm, current_thread, waitIdx, dropped>>
    /\ UNCHANGED serverVars

\* The next slot of the ring is taken.
NextSlot ==
    /\ pc = "send"
    /\ current_thread' = (current_thread + 1) % MaxThreads
    /\ pc' = IF tm[current_thread'].thread THEN "join" ELSE "create"
    /\ UNCHANGED <<printed, stop, final, next_thread, tm, waitIdx, dropped>>
    /\ UNCHANGED serverVars

\* Mutant of JoinSlot: the slot is recycled without waiting for its thread.
RecycleSlot ==
    /\ pc = "join"
    /\ tm' = [tm EXCEPT ![current_thread] = NoThread]
    /\ pc' = "create"
    /\ UNCHANGED <<printed, stop, final, next_thread, current_thread, waitIdx,
                   worker, arg, indexed, failed, dropped>>

\* pthread_join on the slot's old thread, then free and init_thread.
JoinSlot ==
    /\ pc = "join"
    /\ worker[current_thread] = "returned"
    /\ tm' = [tm EXCEPT ![current_thread] = NoThread]
    /\ worker' = [worker EXCEPT ![current_thread] = "none"]
    /\ pc' = "create"
    /\ UNCHANGED <<printed, stop, final, next_thread, current_thread, waitIdx,
                   arg, indexed, failed, dropped>>

\* Mutant of CreateThread: next_thread is not reset after the hand-over.
CreateThreadKeepBuffer ==
    /\ pc = "create"
    /\ tm' = [tm EXCEPT ![current_thread] =
                 [thread |-> TRUE, bulkdata |-> next_thread.bulkdata,
                  bulksize |-> next_thread.bulksize]]
    /\ worker' = [worker EXCEPT ![current_thread] = "started"]
    /\ pc' = IF final THEN "wait" ELSE "collect"
    /\ UNCHANGED <<printed, stop, final, next_thread, current_thread, waitIdx,
                   arg, indexed, failed, dropped>>

\* The buffer moves to the slot and pthread_create starts its thread.
CreateThread ==
    /\ pc = "create"
    /\ tm' = [tm EXCEPT ![current_thread] =
                 [thread |-> TRUE, bulkdata |-> next_thread.bulkdata,
                  bulksize |-> next_thread.bulksize]]
    /\ worker' = [worker EXCEPT ![current_thread] = "started"]
    /\ next_thread' = NoBuffer
    /\ pc' = IF final THEN "wait" ELSE "collect"
    /\ UNCHANGED <<printed, stop, final, current_thread, waitIdx,
                   arg, indexed, failed, dropped>>

\* pthread_create fails: exit(255) ends the process and all its threads.
CreateFails ==
    /\ pc = "create"
    /\ pc' = "exit255"
    /\ UNCHANGED <<printed, stop, final, next_thread, tm, current_thread,
                   waitIdx, dropped>>
    /\ UNCHANGED serverVars

\* Mutant of WaitThread: only the slot used last is joined.
WaitLastOnly ==
    /\ pc = "wait" /\ waitIdx < MaxThreads
    /\ waitIdx = current_thread /\ tm[waitIdx].thread => worker[waitIdx] = "returned"
    /\ waitIdx' = waitIdx + 1
    /\ UNCHANGED <<pc, printed, stop, final, next_thread, tm, current_thread,
                   worker, arg, indexed, failed, dropped>>

\* Mutant of WaitThread: slots that never had a thread are joined too.
WaitEverySlot ==
    /\ pc = "wait" /\ waitIdx < MaxThreads
    /\ worker[waitIdx] = "returned"
    /\ worker' = [worker EXCEPT ![waitIdx] = "none"]
    /\ waitIdx' = waitIdx + 1
    /\ UNCHANGED <<pc, printed, stop, final, next_thread, tm, current_thread,
                   arg, indexed, failed, dropped>>

\* One round of wait_for_elasticsearch_threads; main then returns 0.
WaitThread ==
    /\ pc = "wait" /\ waitIdx < MaxThreads
    /\ IF tm[waitIdx].thread
       THEN /\ worker[waitIdx] = "returned"
            /\ worker' = [worker EXCEPT ![waitIdx] = "none"]
            /\ tm' = [tm EXCEPT ![waitIdx] = [thread |-> TRUE, bulkdata |-> {},
                                             bulksize |-> @.bulksize]]
       ELSE UNCHANGED <<worker, tm>>
    /\ waitIdx' = waitIdx + 1
    /\ UNCHANGED <<pc, printed, stop, final, next_thread, current_thread,
                   arg, indexed, failed, dropped>>

Return ==
    /\ pc = "wait" /\ waitIdx = MaxThreads
    /\ pc' = "exit0"
    /\ UNCHANGED <<printed, stop, final, next_thread, tm, current_thread,
                   waitIdx, dropped>>
    /\ UNCHANGED serverVars

-----------------------------------------------------------------------------
(* send_elasticsearch_bulk_data, one thread per slot.                      *)

Alive == pc \notin {"exit0", "exit255"}

\* The thread reads bulkdata and bulksize from its slot.
ReadArg(t) ==
    /\ Alive /\ worker[t] = "started"
    /\ arg' = [arg EXCEPT ![t] = tm[t].bulkdata]
    /\ worker' = [worker EXCEPT ![t] = "posting"]
    /\ UNCHANGED <<pc, printed, stop, final, next_thread, tm, current_thread,
                   waitIdx, indexed, failed, dropped>>

\* The request ends.  The server may have stored any part of the documents
\* (all, none after a transport error, some with "errors": true): the thread
\* logs what it sees and returns NULL in every case.
Post(t) ==
    /\ Alive /\ worker[t] = "posting"
    /\ \E stored \in SUBSET arg[t] :
          /\ indexed' = indexed \cup stored
          /\ failed' = failed \cup (arg[t] \ stored)
    /\ worker' = [worker EXCEPT ![t] = "returned"]
    /\ UNCHANGED <<pc, printed, stop, final, next_thread, tm, current_thread,
                   waitIdx, arg, dropped>>

-----------------------------------------------------------------------------
Main == \/ CollectDocument \/ CollectNoMemory \/ CollectLast \/ NextSlot \/ JoinSlot
        \/ CreateThread \/ CreateFails \/ WaitThread \/ Return

BulkNext == Main \/ \E t \in Slots : ReadArg(t) \/ Post(t)

\* A runnable thread is scheduled, and a request ends (it is answered, or
\* the TCP connection to the server breaks).
BulkFairness == WF_bulkVars(Main) /\ \A t \in Slots : WF_bulkVars(ReadArg(t) \/ Post(t))

BulkSpec == BulkInit /\ [][BulkNext]_bulkVars /\ BulkFairness

-----------------------------------------------------------------------------
(* Properties.                                                             *)

\* Type invariant of the sender's state.
BulkTypeOK ==
    /\ pc \in MainPC
    /\ printed \in 0..NumDocs
    /\ stop \in BOOLEAN /\ final \in BOOLEAN
    /\ next_thread \in [bulkdata : SUBSET Docs, bulksize : Nat]
    /\ tm \in [Slots -> [thread : BOOLEAN, bulkdata : SUBSET Docs, bulksize : Nat]]
    /\ current_thread \in Slots
    /\ waitIdx \in 0..MaxThreads
    /\ worker \in [Slots -> {"none", "started", "posting", "returned"}]
    /\ arg \in [Slots -> SUBSET Docs]
    /\ indexed \subseteq Docs /\ failed \subseteq Docs /\ dropped \subseteq Docs

\* A thread of the pool only ever works on a buffer its slot still owns: the
\* main thread neither frees the buffer nor puts another one into the slot
\* between pthread_create and the end of the request (elastic.c joins first).
BufferOwned ==
    \A t \in Slots :
        /\ worker[t] # "none" => tm[t].thread /\ tm[t].bulkdata # {}
        /\ worker[t] = "posting" => arg[t] = tm[t].bulkdata

\* The documents that are still to be sent by a thread of the pool.
InFlight(t) == IF worker[t] \in Active THEN tm[t].bulkdata ELSE {}

Finished == indexed \cup failed \cup dropped

\* Every document printed so far is in exactly one place: the buffer that is
\* being filled, the buffer of exactly one thread that has not sent it yet, or
\* the set of documents that were sent (or dropped).  No document is posted
\* twice and none vanishes when a buffer moves from next_thread to tm[].
OnePlace ==
    /\ \A d \in Docs : d <= printed <=> \/ d \in next_thread.bulkdata \cup Finished
                                      \/ \E t \in Slots : d \in InFlight(t)
    /\ next_thread.bulkdata \cap Finished = {}
    /\ \A t \in Slots : InFlight(t) \cap (next_thread.bulkdata \cup Finished) = {}
    /\ \A s, t \in Slots : s # t => InFlight(s) \cap InFlight(t) = {}

\* How the main thread's position, the buffer it holds and the slots belong
\* together: what makes BufferOwned and OnePlace inductive.
Handover ==
    /\ pc \in {"send", "join", "create"} => next_thread.bulkdata # {}
    /\ pc \in {"wait", "exit0"} => next_thread.bulkdata = {}
    /\ pc = "create" => worker[current_thread] = "none"
    /\ pc \notin {"wait", "exit0"} =>
          waitIdx = 0 /\ \A t \in Slots : tm[t].thread => worker[t] # "none"
    /\ pc = "wait" => \A t \in Slots : t < waitIdx => worker[t] = "none"
    /\ pc = "exit0" => \A t \in Slots : worker[t] = "none"

BulkIInv == BulkTypeOK /\ BufferOwned /\ OnePlace /\ Handover

\* The sender implements its abstract promise: a run that ends with exit code 0
\* has joined every thread and left no document behind in a buffer, whatever
\* order the threads finished in.
Abstract == INSTANCE BulkImport WITH
    given   <- 1..printed,
    givenUp <- failed \cup dropped,
    outcome <- IF pc \in {"exit0", "exit255"} THEN pc ELSE "running"

Implements == Abstract!Spec

\* nfdump ends: the main thread never waits for ever in a pthread_join.
Terminates == <>(pc \in {"exit0", "exit255"})
=============================================================================
