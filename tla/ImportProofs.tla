---------------------------- MODULE ImportProofs ----------------------------
(***************************************************************************)
(* Proofs about the import into Elasticsearch: of ElasticBulk, the threads *)
(* with which nfdump posts the documents of one file, for any number of    *)
(* documents and threads, and of RotateImport, the script that has nfdump  *)
(* import one file after the other, for any number of files, of runs of    *)
(* the script and of faults.                                               *)
(***************************************************************************)
EXTENDS ElasticBulk, RotateImport, FiniteSetTheorems, WellFoundedInduction, TLAPS

-----------------------------------------------------------------------------
(* ElasticBulk                                                             *)

\* The type invariant holds initially and is preserved by every step.
LEMMA TypeInit == BulkInit => BulkTypeOK
<1> SUFFICES ASSUME BulkInit PROVE BulkTypeOK
  OBVIOUS
<1> USE NumDocsAssumption, MaxThreadsAssumption
    DEF BulkInit, init_elasticsearch, NoThread, NoBuffer
<1>1. tm \in [Slots -> [thread : BOOLEAN, bulkdata : SUBSET Docs, bulksize : Nat]]
  <2>1. NoThread \in [thread : BOOLEAN, bulkdata : SUBSET Docs, bulksize : Nat]
    OBVIOUS
  <2> QED BY <2>1
<1>2. /\ current_thread \in Slots /\ waitIdx \in 0..MaxThreads
      /\ printed \in 0..NumDocs
  BY DEF Slots
<1>3. /\ next_thread \in [bulkdata : SUBSET Docs, bulksize : Nat]
      /\ worker \in [Slots -> {"none", "started", "posting", "returned"}]
      /\ arg \in [Slots -> SUBSET Docs]
  OBVIOUS
<1> QED BY <1>1, <1>2, <1>3 DEF BulkTypeOK, MainPC

LEMMA TypeStep == BulkTypeOK /\ [BulkNext]_bulkVars => BulkTypeOK'
<1> SUFFICES ASSUME BulkTypeOK, [BulkNext]_bulkVars PROVE BulkTypeOK'
  OBVIOUS
<1> USE NumDocsAssumption, MaxThreadsAssumption, SizeAssumption
    DEF BulkTypeOK, MainPC, Slots, Docs, serverVars, NoThread, NoBuffer
<1>1. CASE CollectDocument BY SMTT(40), <1>1 DEF CollectDocument
<1>2. CASE CollectNoMemory BY <1>2 DEF CollectNoMemory
<1>3. CASE CollectLast BY <1>3 DEF CollectLast
<1>4. CASE NextSlot BY <1>4 DEF NextSlot
<1>5. CASE JoinSlot BY <1>5 DEF JoinSlot
<1>6. CASE CreateThread BY <1>6 DEF CreateThread
<1>7. CASE CreateFails BY <1>7 DEF CreateFails
<1>8. CASE WaitThread
  <2>1. waitIdx \in Slots /\ waitIdx' \in 0..MaxThreads
    BY SMTT(40), <1>8 DEF WaitThread
  <2>2. tm[waitIdx].bulksize \in Nat
    BY <2>1
  <2>3. CASE tm[waitIdx].thread
    <3> DEFINE freed == [thread |-> TRUE, bulkdata |-> {}, bulksize |-> tm[waitIdx].bulksize]
    <3>0. freed \in [thread : BOOLEAN, bulkdata : SUBSET Docs, bulksize : Nat]
      BY <2>2
    <3>a. tm' = [tm EXCEPT ![waitIdx] = freed]
      BY <1>8, <2>1, <2>3 DEF WaitThread
    <3> HIDE DEF freed
    <3>1. tm' \in [Slots -> [thread : BOOLEAN, bulkdata : SUBSET Docs, bulksize : Nat]]
      BY <3>0, <3>a
    <3>2. worker' \in [Slots -> {"none", "started", "posting", "returned"}]
      BY <1>8, <2>1, <2>3 DEF WaitThread
    <3> QED BY <1>8, <2>1, <3>1, <3>2 DEF WaitThread
  <2>4. CASE ~tm[waitIdx].thread
    BY <1>8, <2>1, <2>4 DEF WaitThread
  <2> QED BY <2>3, <2>4
<1>9. CASE Return BY <1>9 DEF Return
<1>10. ASSUME NEW t \in Slots, ReadArg(t) PROVE BulkTypeOK' BY <1>10 DEF ReadArg
<1>11. ASSUME NEW t \in Slots, Post(t) PROVE BulkTypeOK' BY <1>11 DEF Post
<1>12. CASE UNCHANGED bulkVars BY <1>12 DEF bulkVars
<1> QED BY <1>1, <1>2, <1>3, <1>4, <1>5, <1>6, <1>7, <1>8, <1>9, <1>10, <1>11,
           <1>12 DEF BulkNext, Main

-----------------------------------------------------------------------------
\* The slots and the main thread's position stay consistent.
LEMMA SlotsInit == BulkInit => BufferOwned /\ Handover
BY MaxThreadsAssumption
   DEF BulkInit, init_elasticsearch, BufferOwned, Handover, NoThread, NoBuffer

LEMMA SlotsStep == BulkTypeOK /\ BufferOwned /\ Handover /\ [BulkNext]_bulkVars
                     => BufferOwned' /\ Handover'
<1> SUFFICES ASSUME BulkTypeOK, BufferOwned, Handover, [BulkNext]_bulkVars
             PROVE  BufferOwned' /\ Handover'
  OBVIOUS
<1> USE MaxThreadsAssumption, SizeAssumption
    DEF BufferOwned, Handover, BulkTypeOK, MainPC, serverVars, NoThread, NoBuffer
<1>1. CASE CollectDocument BY <1>1 DEF CollectDocument
<1>2. CASE CollectNoMemory BY <1>2 DEF CollectNoMemory
<1>3. CASE CollectLast BY <1>3 DEF CollectLast, Slots
<1>4. CASE NextSlot
  <2>1. current_thread' \in Slots BY <1>4 DEF NextSlot, Slots
  <2> QED BY <1>4, <2>1 DEF NextSlot
<1>5. CASE JoinSlot BY <1>5 DEF JoinSlot
<1>6. CASE CreateThread BY <1>6 DEF CreateThread, Slots
<1>7. CASE CreateFails BY <1>7 DEF CreateFails
<1>8. CASE WaitThread
  <2>1. waitIdx \in Slots BY <1>8 DEF WaitThread, Slots
  <2>2. \A t \in Slots : t < waitIdx + 1 => t < waitIdx \/ t = waitIdx
    BY <2>1 DEF Slots
  <2> QED BY <1>8, <2>1, <2>2 DEF WaitThread
<1>9. CASE Return BY <1>9 DEF Return, Slots
<1>10. ASSUME NEW t \in Slots, ReadArg(t) PROVE BufferOwned' /\ Handover'
  BY <1>10 DEF ReadArg, Alive
<1>11. ASSUME NEW t \in Slots, Post(t) PROVE BufferOwned' /\ Handover'
  BY <1>11 DEF Post, Alive
<1>12. CASE UNCHANGED bulkVars BY <1>12 DEF bulkVars
<1> QED BY <1>1, <1>2, <1>3, <1>4, <1>5, <1>6, <1>7, <1>8, <1>9, <1>10, <1>11,
           <1>12 DEF BulkNext, Main

-----------------------------------------------------------------------------
\* Documents neither vanish nor appear in two places.
LEMMA PlaceInit == BulkInit => OnePlace
BY DEF BulkInit, init_elasticsearch, OnePlace, InFlight, Finished, NoThread, NoBuffer,
       Docs, Active

LEMMA PlaceStep == BulkTypeOK /\ BufferOwned /\ Handover /\ OnePlace /\ [BulkNext]_bulkVars
                     => OnePlace'
<1> SUFFICES ASSUME BulkTypeOK, BufferOwned, Handover, OnePlace, [BulkNext]_bulkVars
             PROVE  OnePlace'
  OBVIOUS
<1> USE NumDocsAssumption, MaxThreadsAssumption, SizeAssumption
    DEF BufferOwned, OnePlace, InFlight, Finished, BulkTypeOK, Active,
        serverVars, NoThread, NoBuffer
<1>1. CASE CollectDocument BY <1>1 DEF CollectDocument, Docs
<1>2. CASE CollectNoMemory BY <1>2 DEF CollectNoMemory, Docs
<1>3. CASE CollectLast BY <1>3 DEF CollectLast
<1>4. CASE NextSlot BY <1>4 DEF NextSlot
<1>5. CASE JoinSlot BY <1>5 DEF JoinSlot
<1>6. CASE CreateThread BY <1>6 DEF CreateThread, Handover
<1>7. CASE CreateFails BY <1>7 DEF CreateFails
<1>8. CASE WaitThread
  <2>1. waitIdx \in Slots BY <1>8 DEF WaitThread, Slots
  <2>2. CASE tm[waitIdx].thread
    <3>1. \A t \in Slots : InFlight(t)' = InFlight(t)
      BY <1>8, <2>1, <2>2 DEF WaitThread
    <3> QED BY SMTT(40), <1>8, <3>1 DEF WaitThread
  <2>3. CASE ~tm[waitIdx].thread BY <1>8, <2>3 DEF WaitThread
  <2> QED BY <2>2, <2>3
<1>9. CASE Return BY <1>9 DEF Return
<1>10. ASSUME NEW t \in Slots, ReadArg(t) PROVE OnePlace' BY <1>10 DEF ReadArg
<1>11. ASSUME NEW t \in Slots, Post(t) PROVE OnePlace' BY <1>11 DEF Post
<1>12. CASE UNCHANGED bulkVars BY <1>12 DEF bulkVars
<1> QED BY <1>1, <1>2, <1>3, <1>4, <1>5, <1>6, <1>7, <1>8, <1>9, <1>10, <1>11,
           <1>12 DEF BulkNext, Main

-----------------------------------------------------------------------------
\* Type correctness of the bulk sender.
THEOREM BulkTypeCorrect == BulkSpec => []BulkTypeOK
<1> QED BY TypeInit, TypeStep, PTL DEF BulkSpec

\* The inductive invariant.
THEOREM BulkInductive == BulkSpec => []BulkIInv
<1>1. BulkInit => BulkIInv
  BY TypeInit, SlotsInit, PlaceInit DEF BulkIInv
<1>2. BulkIInv /\ [BulkNext]_bulkVars => BulkIInv'
  BY TypeStep, SlotsStep, PlaceStep DEF BulkIInv
<1> QED BY <1>1, <1>2, PTL DEF BulkSpec

\* No thread of the pool works on a buffer that was freed or replaced: for any
\* ring size, the join in collect_and_send_elasticsearch_bulk_data is enough.
THEOREM NoUseAfterFree == BulkSpec => []BufferOwned
<1>1. BulkIInv => BufferOwned BY DEF BulkIInv
<1> QED BY <1>1, BulkInductive, PTL

\* Every printed document is in exactly one place, at any time.
THEOREM NoDocumentLostOrDoubled == BulkSpec => []OnePlace
<1>1. BulkIInv => OnePlace BY DEF BulkIInv
<1> QED BY <1>1, BulkInductive, PTL

-----------------------------------------------------------------------------
\* Refinement: every step of the sender is a step of BulkImport or a stutter.
LEMMA ImplInit == BulkInit => Abstract!Init
BY DEF BulkInit, Abstract!Init

LEMMA ImplStep == BulkIInv /\ BulkIInv' /\ [BulkNext]_bulkVars => [Abstract!Next]_(Abstract!bvars)
<1> SUFFICES ASSUME BulkIInv, BulkIInv', [BulkNext]_bulkVars
             PROVE  [Abstract!Next]_(Abstract!bvars)
  OBVIOUS
<1> USE NumDocsAssumption DEF serverVars
<1>a. BulkTypeOK /\ OnePlace /\ Handover /\ BufferOwned BY DEF BulkIInv
<1>1. CASE CollectDocument
  <2>1. Abstract!Give
    <3>1. /\ printed + 1 \in (1..NumDocs) \ (1..printed)
          /\ 1..(printed + 1) = (1..printed) \cup {printed + 1}
      BY SMTT(40), <1>1, <1>a DEF CollectDocument, BulkTypeOK
    <3> QED BY <1>1, <3>1 DEF CollectDocument, Abstract!Give
  <2> QED BY <2>1 DEF Abstract!Next
<1>2. CASE CollectNoMemory
  <2>1. Abstract!Give
    <3>1. /\ printed + 1 \in (1..NumDocs) \ (1..printed)
          /\ 1..(printed + 1) = (1..printed) \cup {printed + 1}
      BY SMTT(40), <1>2, <1>a DEF CollectNoMemory, BulkTypeOK
    <3> QED BY <1>2, <3>1 DEF CollectNoMemory, Abstract!Give
  <2> QED BY <2>1 DEF Abstract!Next
<1>3. CASE CollectLast \/ NextSlot \/ JoinSlot \/ CreateThread \/ WaitThread
  BY <1>3 DEF CollectLast, NextSlot, JoinSlot, CreateThread, WaitThread, Abstract!bvars
<1>4. CASE CreateFails
  BY <1>4 DEF CreateFails, Abstract!Next, Abstract!Abort
<1>5. CASE Return
  <2>1. \A t \in Slots : InFlight(t) = {}
    <3>1. pc' = "exit0" /\ worker' = worker
      BY <1>5 DEF Return
    <3>2. \A t \in Slots : worker'[t] = "none"
      BY <3>1 DEF BulkIInv, Handover
    <3> QED BY <3>1, <3>2 DEF InFlight, Active
  <2>2. next_thread.bulkdata = {}
    BY <1>5, <1>a DEF Return, Handover
  <2>3. 1..printed = indexed \cup failed \cup dropped
    <3>1. \A d \in Docs : d <= printed <=> d \in Finished
      BY <2>1, <2>2, <1>a DEF OnePlace
    <3>2. Finished \subseteq Docs BY <1>a DEF BulkTypeOK, Finished
    <3>3. 1..printed = {d \in Docs : d <= printed} BY <1>a DEF BulkTypeOK, Docs
    <3> QED BY <3>1, <3>2, <3>3 DEF Finished
  <2> QED BY <1>5, <2>3 DEF Return, Abstract!Next, Abstract!Finish, Abstract!Settled
<1>6. ASSUME NEW t \in Slots, ReadArg(t) PROVE [Abstract!Next]_(Abstract!bvars)
  BY <1>6 DEF ReadArg, Abstract!bvars
<1>7. ASSUME NEW t \in Slots, Post(t) PROVE [Abstract!Next]_(Abstract!bvars)
  <2>1. arg[t] \subseteq 1..printed /\ arg[t] \cap Finished = {}
    BY <1>7, <1>a DEF Post, BufferOwned, OnePlace, InFlight, Active, BulkTypeOK, Docs
  <2>2. PICK kept \in SUBSET arg[t] :
          /\ indexed' = indexed \cup kept
          /\ failed' = failed \cup (arg[t] \ kept)
    BY <1>7 DEF Post
  <2>3. arg[t] \in SUBSET ((1..printed) \ Abstract!Settled)
    BY <2>1 DEF Finished, Abstract!Settled
  <2>4. failed' \cup dropped' = (failed \cup dropped) \cup (arg[t] \ kept)
    BY <1>7, <2>2 DEF Post
  <2>5. Abstract!Settle
    BY <1>7, <2>2, <2>3, <2>4 DEF Post, Alive, Abstract!Settle
  <2> QED BY <2>5 DEF Abstract!Next
<1>8. CASE UNCHANGED bulkVars
  BY <1>8 DEF bulkVars, Abstract!bvars
<1> QED BY <1>1, <1>2, <1>3, <1>4, <1>5, <1>6, <1>7, <1>8 DEF BulkNext, Main

\* The ring of threads implements the abstract sender: success is reported only
\* when every document was sent or given up, and none is sent twice.
THEOREM Refinement == BulkSpec => Implements
<1>1. BulkInit => Abstract!Init BY ImplInit
<1>2. BulkIInv /\ BulkIInv' /\ [BulkNext]_bulkVars => [Abstract!Next]_(Abstract!bvars) BY ImplStep
<1> QED BY <1>1, <1>2, BulkInductive, PTL DEF BulkSpec, Implements, Abstract!Spec

-----------------------------------------------------------------------------
(* RotateImport                                                            *)

(* A set of numbers that is not empty has a minimum.                          *)
LEMMA MinInSet == ASSUME NEW T \in SUBSET Nat, T # {}
                  PROVE  Min(T) \in T
<1> DEFINE less == {ss \in Nat \X Nat : ss[1] < ss[2]}
<1>1. IsWellFoundedOn(less, Nat) BY NatLessThanWellFounded DEF OpToRel
<1>2. PICK x \in T : \A y \in T : <<y, x>> \notin less BY <1>1, WFMin
<1>3. \A y \in T : ~(y < x) BY <1>2
<1>4. \E z \in T : \A y \in T : z <= y BY <1>3
<1> QED BY <1>4 DEF Min

-----------------------------------------------------------------------------
(* The type of the variables, which TypeOK states in part.                    *)
PC == {"off", "check", "write", "glob", "next", "import", "posting", "losing",
       "sleep", "mv", "rm"}

\* The positions at which a run has a file.
AtFile == {"import", "posting", "losing", "sleep", "mv"}

Typed == /\ where \in [Files -> {"none", "data", "backup", "expired"}]
         /\ pidfile \in BOOLEAN /\ up \in BOOLEAN
         /\ run \in [Runs -> [pc : PC, todo : SUBSET Files, file : 0..MaxFiles]]
         /\ \A r \in Runs : run[r].pc \in AtFile => run[r].file \in Files
         /\ stored \in [Files -> Nat] /\ sent \in [Files -> Nat]
         /\ faults \in 0..MaxFaults

LEMMA Bounds == MaxFiles \in Nat /\ MaxFaults \in Nat
BY BoundsAssumption

LEMMA FaultBounded == ASSUME faults \in 0..MaxFaults, Fault
                      PROVE  faults' \in 0..MaxFaults
BY Bounds DEF Fault

LEMMA IdleType == /\ Idle \in [pc : PC, todo : SUBSET Files, file : 0..MaxFiles]
                  /\ Idle.pc = "off"
BY Bounds DEF Idle, PC, Files

LEMMA MinFile == ASSUME NEW T \in SUBSET Files, T # {}
                 PROVE  Min(T) \in T
BY Bounds, MinInSet DEF Files

LEMMA TypedInit == Init => Typed
<1> SUFFICES ASSUME Init PROVE Typed
  OBVIOUS
<1>1. \A r \in Runs : run[r] = Idle BY DEF Init
<1>2. run \in [Runs -> [pc : PC, todo : SUBSET Files, file : 0..MaxFiles]]
  BY IdleType DEF Init
<1>3. \A r \in Runs : run[r].pc \notin AtFile BY <1>1, IdleType DEF AtFile
<1>4. where \in [Files -> {"none", "data", "backup", "expired"}] BY DEF Init
<1>5. stored \in [Files -> Nat] /\ sent \in [Files -> Nat] BY DEF Init
<1>6. faults \in 0..MaxFaults BY Bounds DEF Init
<1> QED BY <1>2, <1>3, <1>4, <1>5, <1>6 DEF Init, Typed

LEMMA TypedStep == Typed /\ [Next]_vars => Typed'
<1> SUFFICES ASSUME Typed, [Next]_vars PROVE Typed'
  OBVIOUS
<1> USE Bounds DEF Typed, At, GoTo, PC, AtFile
<1>1. CASE Collect BY <1>1 DEF Collect
<1>2. CASE Expire BY <1>2 DEF Expire
<1>3. CASE ServerDown
  <2>1. run' = [r \in Runs |-> IF run[r].pc = "posting" THEN [run[r] EXCEPT !.pc = "losing"]
                                                       ELSE run[r]]
    BY <1>3 DEF ServerDown
  <2>2. ASSUME NEW r \in Runs
        PROVE  /\ run'[r] \in [pc : PC, todo : SUBSET Files, file : 0..MaxFiles]
               /\ run'[r].pc \in AtFile => run'[r].file \in Files
    BY <2>1
  <2> QED BY <1>3, <2>1, <2>2, FaultBounded DEF ServerDown
<1>4. CASE ServerUp BY <1>4 DEF ServerUp
<1>5. ASSUME NEW r \in Runs, Cron(r) PROVE Typed' BY <1>5 DEF Cron
<1>6. ASSUME NEW r \in Runs, Kill(r) PROVE Typed' BY <1>6, FaultBounded, IdleType DEF Kill
<1>7. ASSUME NEW r \in Runs, NfdumpAborts(r) PROVE Typed'
  BY <1>7, FaultBounded DEF NfdumpAborts
<1>8. ASSUME NEW r \in Runs, MoveFails(r) PROVE Typed'
  BY <1>8, FaultBounded DEF MoveFails
<1>9. ASSUME NEW r \in Runs, CheckPid(r) PROVE Typed' BY <1>9 DEF CheckPid
<1>10. ASSUME NEW r \in Runs, WritePid(r) PROVE Typed' BY <1>10 DEF WritePid
<1>11. ASSUME NEW r \in Runs, Glob(r) PROVE Typed' BY <1>11 DEF Glob, In
<1>12. ASSUME NEW r \in Runs, NextName(r) PROVE Typed'
  <2>1. CASE run[r].todo = {} BY <1>12, <2>1 DEF NextName
  <2>2. CASE run[r].todo # {}
    <3> DEFINE next == [pc |-> "import", todo |-> run[r].todo \ {Min(run[r].todo)},
                        file |-> Min(run[r].todo)]
    <3>1. run[r].todo \in SUBSET Files OBVIOUS
    <3>2. Min(run[r].todo) \in Files BY <2>2, <3>1, MinFile
    <3>3. /\ next \in [pc : PC, todo : SUBSET Files, file : 0..MaxFiles]
          /\ next.file \in Files
      BY <3>1, <3>2 DEF Files
    <3>4. run' = [run EXCEPT ![r] = next] BY <1>12, <2>2 DEF NextName
    <3> HIDE DEF next
    <3> QED BY <1>12, <3>3, <3>4 DEF NextName
  <2> QED BY <2>1, <2>2
<1>13. ASSUME NEW r \in Runs, NfdumpRefuses(r) PROVE Typed' BY <1>13 DEF NfdumpRefuses
<1>14. ASSUME NEW r \in Runs, NfdumpStarts(r) PROVE Typed'
  <2>1. run[r].file \in Files /\ sent[run[r].file] + 1 \in Nat BY <1>14 DEF NfdumpStarts
  <2>2. sent' \in [Files -> Nat] BY <1>14, <2>1 DEF NfdumpStarts
  <2> QED BY <1>14, <2>2 DEF NfdumpStarts
<1>15. ASSUME NEW r \in Runs, NfdumpEnds(r) PROVE Typed'
  <2>1. run[r].file \in Files /\ stored[run[r].file] + 1 \in Nat BY <1>15 DEF NfdumpEnds
  <2>2. stored' \in [Files -> Nat] BY <1>15, <2>1 DEF NfdumpEnds
  <2> QED BY <1>15, <2>2 DEF NfdumpEnds
<1>16. ASSUME NEW r \in Runs, NfdumpLoses(r) PROVE Typed' BY <1>16 DEF NfdumpLoses
<1>17. ASSUME NEW r \in Runs, Retry(r) PROVE Typed' BY <1>17 DEF Retry
<1>18. ASSUME NEW r \in Runs, Move(r) PROVE Typed' BY <1>18 DEF Move
<1>19. ASSUME NEW r \in Runs, MoveMissing(r) PROVE Typed' BY <1>19 DEF MoveMissing
<1>20. ASSUME NEW r \in Runs, RemovePid(r) PROVE Typed'
  BY <1>20, IdleType DEF RemovePid
<1>21. CASE UNCHANGED vars BY <1>21 DEF vars
<1> QED BY <1>1, <1>2, <1>3, <1>4, <1>5, <1>6, <1>7, <1>8, <1>9, <1>10, <1>11, <1>12,
           <1>13, <1>14, <1>15, <1>16, <1>17, <1>18, <1>19, <1>20, <1>21 DEF Next, Script
-----------------------------------------------------------------------------
(* The pid file.  A run that has seen no pid file is as good as an owner: the *)
(* exclusion has to begin there, before the file exists.                      *)
OwnerPC == {"glob", "next", "import", "posting", "losing", "sleep", "mv", "rm"}

Solo == "overlap" \notin raced =>
          /\ \A p, q \in Runs :
                {run[p].pc, run[q].pc} \subseteq OwnerPC \cup {"write"} => p = q
          /\ \A p \in Runs : run[p].pc \in OwnerPC => pidfile

LEMMA SoloInit == Init => Solo
BY DEF Init, Solo, OwnerPC, Idle

LEMMA SoloStep == Typed /\ Solo /\ [Next]_vars => Solo'
<1> SUFFICES ASSUME Typed, Solo, [Next]_vars PROVE Solo'
  OBVIOUS
<1> USE DEF Typed, Solo, OwnerPC, At, GoTo, Fault, Idle
<1>1. CASE Collect BY <1>1 DEF Collect
<1>2. CASE Expire BY <1>2 DEF Expire
<1>3. CASE ServerDown BY <1>3 DEF ServerDown
<1>4. CASE ServerUp BY <1>4 DEF ServerUp
<1>5. ASSUME NEW r \in Runs, Cron(r) PROVE Solo' BY <1>5 DEF Cron
<1>6. ASSUME NEW r \in Runs, Kill(r) PROVE Solo' BY <1>6 DEF Kill
<1>7. ASSUME NEW r \in Runs, NfdumpAborts(r) PROVE Solo' BY <1>7 DEF NfdumpAborts
<1>8. ASSUME NEW r \in Runs, MoveFails(r) PROVE Solo' BY <1>8 DEF MoveFails
<1>9. ASSUME NEW r \in Runs, CheckPid(r) PROVE Solo'
  BY <1>9 DEF CheckPid, Overlap
<1>10. ASSUME NEW r \in Runs, WritePid(r) PROVE Solo' BY <1>10 DEF WritePid
<1>11. ASSUME NEW r \in Runs, Glob(r) PROVE Solo' BY <1>11 DEF Glob
<1>12. ASSUME NEW r \in Runs, NextName(r) PROVE Solo' BY <1>12 DEF NextName
<1>13. ASSUME NEW r \in Runs, NfdumpRefuses(r) PROVE Solo' BY <1>13 DEF NfdumpRefuses
<1>14. ASSUME NEW r \in Runs, NfdumpStarts(r) PROVE Solo' BY <1>14 DEF NfdumpStarts
<1>15. ASSUME NEW r \in Runs, NfdumpEnds(r) PROVE Solo' BY <1>15 DEF NfdumpEnds
<1>16. ASSUME NEW r \in Runs, NfdumpLoses(r) PROVE Solo' BY <1>16 DEF NfdumpLoses
<1>17. ASSUME NEW r \in Runs, Retry(r) PROVE Solo' BY <1>17 DEF Retry
<1>18. ASSUME NEW r \in Runs, Move(r) PROVE Solo' BY <1>18 DEF Move
<1>19. ASSUME NEW r \in Runs, MoveMissing(r) PROVE Solo' BY <1>19 DEF MoveMissing
<1>20. ASSUME NEW r \in Runs, RemovePid(r) PROVE Solo' BY <1>20 DEF RemovePid
<1>21. CASE UNCHANGED vars BY <1>21 DEF vars
<1> QED BY <1>1, <1>2, <1>3, <1>4, <1>5, <1>6, <1>7, <1>8, <1>9, <1>10, <1>11, <1>12,
           <1>13, <1>14, <1>15, <1>16, <1>17, <1>18, <1>19, <1>20, <1>21 DEF Next, Script

-----------------------------------------------------------------------------
(* The documents of a file are posted before they are stored, and stored or  *)
(* lost before the file is moved.                                            *)
Posting(f) == {r \in Runs : run[r].pc = "posting" /\ run[r].file = f}

Counted == \A f \in Files : /\ IsFiniteSet(Posting(f))
                            /\ stored[f] + Cardinality(Posting(f)) <= sent[f]

Posted == \A r \in Runs : run[r].pc \in {"posting", "losing", "mv"} =>
                            sent[run[r].file] >= 1

StoredInv == "unsent" \notin raced =>
               /\ \A r \in Runs : run[r].pc = "mv" => stored[run[r].file] >= 1
               /\ \A f \in Files : where[f] = "backup" => stored[f] >= 1

\* A file whose documents were posted is out of the way, or it is in the hands
\* of a run that will move it.
Once == raced \cap {"killed", "overlap", "aborted", "mv"} = {} =>
          \A f \in Files :
             /\ sent[f] <= 1
             /\ sent[f] = 1 => \/ where[f] \in {"backup", "expired"}
                              \/ \E r \in Runs : /\ run[r].pc \in {"posting", "losing", "mv"}
                                                 /\ run[r].file = f

\* A run only works on files that the collector had finished.
Seen == \A r \in Runs : /\ \A f \in run[r].todo : where[f] # "none"
                        /\ run[r].pc \in AtFile => where[run[r].file] # "none"

IInv == Typed /\ Seen /\ Solo /\ Counted /\ Posted /\ StoredInv /\ Once

LEMMA PostedInit == Init => Seen /\ Posted /\ StoredInv /\ Once
BY DEF Init, Seen, AtFile, Posted, StoredInv, Once, Idle, Files

LEMMA SeenStep == Typed /\ Seen /\ [Next]_vars => Seen'
<1> SUFFICES ASSUME Typed, Seen, [Next]_vars PROVE Seen'
  OBVIOUS
<1> USE DEF Typed, Seen, In, At, GoTo, Fault, Idle, AtFile
<1>1. CASE Collect BY <1>1 DEF Collect
<1>2. CASE Expire BY <1>2 DEF Expire
<1>3. CASE ServerDown BY <1>3 DEF ServerDown
<1>4. CASE ServerUp BY <1>4 DEF ServerUp
<1>5. ASSUME NEW r \in Runs, Cron(r) PROVE Seen' BY <1>5 DEF Cron
<1>6. ASSUME NEW r \in Runs, Kill(r) PROVE Seen' BY <1>6 DEF Kill
<1>7. ASSUME NEW r \in Runs, NfdumpAborts(r) PROVE Seen' BY <1>7 DEF NfdumpAborts
<1>8. ASSUME NEW r \in Runs, MoveFails(r) PROVE Seen' BY <1>8 DEF MoveFails
<1>9. ASSUME NEW r \in Runs, CheckPid(r) PROVE Seen' BY <1>9 DEF CheckPid
<1>10. ASSUME NEW r \in Runs, WritePid(r) PROVE Seen' BY <1>10 DEF WritePid
<1>11. ASSUME NEW r \in Runs, Glob(r) PROVE Seen' BY <1>11 DEF Glob
<1>12. ASSUME NEW r \in Runs, NextName(r) PROVE Seen'
  <2>1. run[r].todo # {} => Min(run[r].todo) \in run[r].todo BY MinFile
  <2> QED BY <1>12, <2>1 DEF NextName
<1>13. ASSUME NEW r \in Runs, NfdumpRefuses(r) PROVE Seen' BY <1>13 DEF NfdumpRefuses
<1>14. ASSUME NEW r \in Runs, NfdumpStarts(r) PROVE Seen' BY <1>14 DEF NfdumpStarts
<1>15. ASSUME NEW r \in Runs, NfdumpEnds(r) PROVE Seen' BY <1>15 DEF NfdumpEnds
<1>16. ASSUME NEW r \in Runs, NfdumpLoses(r) PROVE Seen' BY <1>16 DEF NfdumpLoses
<1>17. ASSUME NEW r \in Runs, Retry(r) PROVE Seen' BY <1>17 DEF Retry
<1>18. ASSUME NEW r \in Runs, Move(r) PROVE Seen' BY <1>18 DEF Move
<1>19. ASSUME NEW r \in Runs, MoveMissing(r) PROVE Seen' BY <1>19 DEF MoveMissing
<1>20. ASSUME NEW r \in Runs, RemovePid(r) PROVE Seen' BY <1>20 DEF RemovePid
<1>21. CASE UNCHANGED vars BY <1>21 DEF vars
<1> QED BY <1>1, <1>2, <1>3, <1>4, <1>5, <1>6, <1>7, <1>8, <1>9, <1>10, <1>11, <1>12,
           <1>13, <1>14, <1>15, <1>16, <1>17, <1>18, <1>19, <1>20, <1>21 DEF Next, Script

LEMMA PostedStep == Typed /\ Posted /\ [Next]_vars => Posted'
<1> SUFFICES ASSUME Typed, Posted, [Next]_vars PROVE Posted'
  OBVIOUS
<1> USE DEF Typed, Posted, At, GoTo, Fault, Idle, AtFile
<1>1. CASE Collect BY <1>1 DEF Collect
<1>2. CASE Expire BY <1>2 DEF Expire
<1>3. CASE ServerDown BY <1>3 DEF ServerDown
<1>4. CASE ServerUp BY <1>4 DEF ServerUp
<1>5. ASSUME NEW r \in Runs, Cron(r) PROVE Posted' BY <1>5 DEF Cron
<1>6. ASSUME NEW r \in Runs, Kill(r) PROVE Posted' BY <1>6 DEF Kill
<1>7. ASSUME NEW r \in Runs, NfdumpAborts(r) PROVE Posted' BY <1>7 DEF NfdumpAborts
<1>8. ASSUME NEW r \in Runs, MoveFails(r) PROVE Posted' BY <1>8 DEF MoveFails
<1>9. ASSUME NEW r \in Runs, CheckPid(r) PROVE Posted' BY <1>9 DEF CheckPid
<1>10. ASSUME NEW r \in Runs, WritePid(r) PROVE Posted' BY <1>10 DEF WritePid
<1>11. ASSUME NEW r \in Runs, Glob(r) PROVE Posted' BY <1>11 DEF Glob
<1>12. ASSUME NEW r \in Runs, NextName(r) PROVE Posted' BY <1>12 DEF NextName
<1>13. ASSUME NEW r \in Runs, NfdumpRefuses(r) PROVE Posted' BY <1>13 DEF NfdumpRefuses
<1>14. ASSUME NEW r \in Runs, NfdumpStarts(r) PROVE Posted' BY <1>14 DEF NfdumpStarts
<1>15. ASSUME NEW r \in Runs, NfdumpEnds(r) PROVE Posted' BY <1>15 DEF NfdumpEnds
<1>16. ASSUME NEW r \in Runs, NfdumpLoses(r) PROVE Posted' BY <1>16 DEF NfdumpLoses
<1>17. ASSUME NEW r \in Runs, Retry(r) PROVE Posted' BY <1>17 DEF Retry
<1>18. ASSUME NEW r \in Runs, Move(r) PROVE Posted' BY <1>18 DEF Move
<1>19. ASSUME NEW r \in Runs, MoveMissing(r) PROVE Posted' BY <1>19 DEF MoveMissing
<1>20. ASSUME NEW r \in Runs, RemovePid(r) PROVE Posted' BY <1>20 DEF RemovePid
<1>21. CASE UNCHANGED vars BY <1>21 DEF vars
<1> QED BY <1>1, <1>2, <1>3, <1>4, <1>5, <1>6, <1>7, <1>8, <1>9, <1>10, <1>11, <1>12,
           <1>13, <1>14, <1>15, <1>16, <1>17, <1>18, <1>19, <1>20, <1>21 DEF Next, Script

LEMMA StoredStep == Typed /\ StoredInv /\ [Next]_vars => StoredInv'
<1> SUFFICES ASSUME Typed, StoredInv, [Next]_vars PROVE StoredInv'
  OBVIOUS
<1> USE DEF Typed, StoredInv, At, GoTo, Fault, Idle, AtFile
<1>1. CASE Collect BY <1>1 DEF Collect
<1>2. CASE Expire BY <1>2 DEF Expire
<1>3. CASE ServerDown BY <1>3 DEF ServerDown
<1>4. CASE ServerUp BY <1>4 DEF ServerUp
<1>5. ASSUME NEW r \in Runs, Cron(r) PROVE StoredInv' BY <1>5 DEF Cron
<1>6. ASSUME NEW r \in Runs, Kill(r) PROVE StoredInv' BY <1>6 DEF Kill
<1>7. ASSUME NEW r \in Runs, NfdumpAborts(r) PROVE StoredInv' BY <1>7 DEF NfdumpAborts
<1>8. ASSUME NEW r \in Runs, MoveFails(r) PROVE StoredInv' BY <1>8 DEF MoveFails
<1>9. ASSUME NEW r \in Runs, CheckPid(r) PROVE StoredInv' BY <1>9 DEF CheckPid
<1>10. ASSUME NEW r \in Runs, WritePid(r) PROVE StoredInv' BY <1>10 DEF WritePid
<1>11. ASSUME NEW r \in Runs, Glob(r) PROVE StoredInv' BY <1>11 DEF Glob
<1>12. ASSUME NEW r \in Runs, NextName(r) PROVE StoredInv' BY <1>12 DEF NextName
<1>13. ASSUME NEW r \in Runs, NfdumpRefuses(r) PROVE StoredInv' BY <1>13 DEF NfdumpRefuses
<1>14. ASSUME NEW r \in Runs, NfdumpStarts(r) PROVE StoredInv' BY <1>14 DEF NfdumpStarts
<1>15. ASSUME NEW r \in Runs, NfdumpEnds(r) PROVE StoredInv' BY <1>15 DEF NfdumpEnds
<1>16. ASSUME NEW r \in Runs, NfdumpLoses(r) PROVE StoredInv' BY <1>16 DEF NfdumpLoses
<1>17. ASSUME NEW r \in Runs, Retry(r) PROVE StoredInv' BY <1>17 DEF Retry
<1>18. ASSUME NEW r \in Runs, Move(r) PROVE StoredInv' BY <1>18 DEF Move
<1>19. ASSUME NEW r \in Runs, MoveMissing(r) PROVE StoredInv' BY <1>19 DEF MoveMissing
<1>20. ASSUME NEW r \in Runs, RemovePid(r) PROVE StoredInv' BY <1>20 DEF RemovePid
<1>21. CASE UNCHANGED vars BY <1>21 DEF vars
<1> QED BY <1>1, <1>2, <1>3, <1>4, <1>5, <1>6, <1>7, <1>8, <1>9, <1>10, <1>11, <1>12,
           <1>13, <1>14, <1>15, <1>16, <1>17, <1>18, <1>19, <1>20, <1>21 DEF Next, Script

LEMMA OnceStep == Typed /\ Solo /\ Seen /\ Once /\ [Next]_vars => Once'
<1> SUFFICES ASSUME Typed, Solo, Seen, Once, [Next]_vars PROVE Once'
  OBVIOUS
<1> USE DEF Typed, Once, At, GoTo, Fault, Idle, AtFile
<1>1. CASE Collect
  <2>1. Min(In("none")) \in In("none") BY <1>1, MinFile DEF Collect, In
  <2> QED BY <1>1, <2>1 DEF Collect, In
<1>2. CASE Expire BY <1>2 DEF Expire
<1>3. CASE ServerDown BY <1>3 DEF ServerDown
<1>4. CASE ServerUp BY <1>4 DEF ServerUp
<1>5. ASSUME NEW r \in Runs, Cron(r) PROVE Once' BY <1>5 DEF Cron
<1>6. ASSUME NEW r \in Runs, Kill(r) PROVE Once' BY <1>6 DEF Kill
<1>7. ASSUME NEW r \in Runs, NfdumpAborts(r) PROVE Once' BY <1>7 DEF NfdumpAborts
<1>8. ASSUME NEW r \in Runs, MoveFails(r) PROVE Once' BY <1>8 DEF MoveFails
<1>9. ASSUME NEW r \in Runs, CheckPid(r) PROVE Once' BY <1>9 DEF CheckPid
<1>10. ASSUME NEW r \in Runs, WritePid(r) PROVE Once' BY <1>10 DEF WritePid
<1>11. ASSUME NEW r \in Runs, Glob(r) PROVE Once' BY <1>11 DEF Glob
<1>12. ASSUME NEW r \in Runs, NextName(r) PROVE Once' BY <1>12 DEF NextName
<1>13. ASSUME NEW r \in Runs, NfdumpRefuses(r) PROVE Once' BY <1>13 DEF NfdumpRefuses
<1>14. ASSUME NEW r \in Runs, NfdumpStarts(r) PROVE Once'
  <2> SUFFICES ASSUME raced \cap {"killed", "overlap", "aborted", "mv"} = {} PROVE Once'
    BY <1>14 DEF NfdumpStarts
  <2> DEFINE f == run[r].file
  <2>1. f \in Files /\ where[f] = "data" /\ run[r].pc = "import"
    BY <1>14 DEF NfdumpStarts
  <2>2. \A q \in Runs : run[q].pc \in {"posting", "losing", "mv"} => q = r
    BY <2>1 DEF Solo, OwnerPC
  <2>3. sent[f] = 0
    <3>1. sent[f] # 1 BY <2>1, <2>2
    <3>2. sent[f] \in Nat /\ sent[f] <= 1 BY <2>1
    <3> QED BY <3>1, <3>2
  <2>4. sent' = [sent EXCEPT ![f] = 1]
    BY <1>14, <2>1, <2>3 DEF NfdumpStarts
  <2>5. run' = [run EXCEPT ![r].pc = "posting"] /\ where' = where
    BY <1>14 DEF NfdumpStarts
  <2>6. run'[r].pc = "posting" /\ run'[r].file = f
    BY <2>5
  <2>7. ASSUME NEW g \in Files, g # f
        PROVE  /\ sent'[g] <= 1
               /\ sent'[g] = 1 => where'[g] \in {"backup", "expired"}
    BY <2>1, <2>2, <2>4, <2>5, <2>7
  <2> QED BY <2>1, <2>4, <2>6, <2>7
<1>15. ASSUME NEW r \in Runs, NfdumpEnds(r) PROVE Once' BY <1>15 DEF NfdumpEnds
<1>16. ASSUME NEW r \in Runs, NfdumpLoses(r) PROVE Once' BY <1>16 DEF NfdumpLoses
<1>17. ASSUME NEW r \in Runs, Retry(r) PROVE Once' BY <1>17 DEF Retry
<1>18. ASSUME NEW r \in Runs, Move(r) PROVE Once' BY <1>18 DEF Move
<1>19. ASSUME NEW r \in Runs, MoveMissing(r) PROVE Once'
  BY <1>19 DEF MoveMissing, Seen
<1>20. ASSUME NEW r \in Runs, RemovePid(r) PROVE Once' BY <1>20 DEF RemovePid
<1>21. CASE UNCHANGED vars BY <1>21 DEF vars
<1> QED BY <1>1, <1>2, <1>3, <1>4, <1>5, <1>6, <1>7, <1>8, <1>9, <1>10, <1>11, <1>12,
           <1>13, <1>14, <1>15, <1>16, <1>17, <1>18, <1>19, <1>20, <1>21 DEF Next, Script

(* The number of runs that post a file's documents bounds what is sent but   *)
(* not stored yet.                                                            *)
LEMMA CountedInit == Init => Counted
<1> SUFFICES ASSUME Init, NEW f \in Files
             PROVE  /\ IsFiniteSet(Posting(f))
                    /\ stored[f] + Cardinality(Posting(f)) <= sent[f]
  BY DEF Counted
<1>1. Posting(f) = {} BY DEF Init, Posting, Idle
<1> QED BY <1>1, FS_EmptySet DEF Init

\* A step that leaves both counts alone and lets nobody post.
LEMMA CountedQuiet ==
    ASSUME Typed, Counted, NEW r \in Runs, UNCHANGED <<stored, sent>>,
           \A q \in Runs \ {r} : run'[q] = run[q],
           run'[r].pc = "posting" => run'[r] = run[r]
    PROVE  Counted'
<1> SUFFICES ASSUME NEW f \in Files
             PROVE  /\ IsFiniteSet(Posting(f)')
                    /\ stored[f] + Cardinality(Posting(f)') <= sent[f]
  BY DEF Counted
<1>1. Posting(f)' \in SUBSET Posting(f) BY DEF Posting
<1>2. /\ IsFiniteSet(Posting(f)) /\ stored[f] + Cardinality(Posting(f)) <= sent[f]
      /\ stored[f] \in Nat /\ sent[f] \in Nat
  BY DEF Counted, Typed
<1>3. /\ IsFiniteSet(Posting(f)') /\ Cardinality(Posting(f)') <= Cardinality(Posting(f))
  BY <1>1, <1>2, FS_Subset
<1>4. Cardinality(Posting(f)') \in Nat /\ Cardinality(Posting(f)) \in Nat
  BY <1>2, <1>3, FS_CardinalityType
<1> QED BY <1>2, <1>3, <1>4

LEMMA CountedStep == Typed /\ Counted /\ [Next]_vars => Counted'
<1> SUFFICES ASSUME Typed, Counted, [Next]_vars PROVE Counted'
  OBVIOUS
<1>1. CASE Collect BY <1>1 DEF Collect, Counted, Posting
<1>2. CASE Expire BY <1>2 DEF Expire, Counted, Posting
<1>3. CASE ServerDown
  <2> SUFFICES ASSUME NEW f \in Files
               PROVE  /\ IsFiniteSet(Posting(f)')
                      /\ stored[f] + Cardinality(Posting(f)') <= sent[f]
    BY <1>3 DEF ServerDown, Counted
  <2>1. Posting(f)' = {} BY <1>3 DEF ServerDown, Posting, At, Typed
  <2>2. Cardinality(Posting(f)) \in Nat BY FS_CardinalityType DEF Counted
  <2> QED BY <2>1, <2>2, FS_EmptySet DEF Counted, Typed
<1>4. CASE ServerUp BY <1>4 DEF ServerUp, Counted, Posting
<1>5. ASSUME NEW r \in Runs, Cron(r) PROVE Counted'
  BY <1>5, CountedQuiet DEF Cron, Typed, At, GoTo, Idle
<1>6. ASSUME NEW r \in Runs, Kill(r) PROVE Counted'
  BY <1>6, CountedQuiet DEF Kill, Typed, At, GoTo, Idle
<1>7. ASSUME NEW r \in Runs, NfdumpAborts(r) PROVE Counted'
  BY <1>7, CountedQuiet DEF NfdumpAborts, Typed, At, GoTo, Idle
<1>8. ASSUME NEW r \in Runs, MoveFails(r) PROVE Counted'
  BY <1>8, CountedQuiet DEF MoveFails, Typed, At, GoTo, Idle
<1>9. ASSUME NEW r \in Runs, CheckPid(r) PROVE Counted'
  BY <1>9, CountedQuiet DEF CheckPid, Typed, At, GoTo, Idle
<1>10. ASSUME NEW r \in Runs, WritePid(r) PROVE Counted'
  BY <1>10, CountedQuiet DEF WritePid, Typed, At, GoTo, Idle
<1>11. ASSUME NEW r \in Runs, Glob(r) PROVE Counted'
  BY <1>11, CountedQuiet DEF Glob, Typed, At, GoTo, Idle
<1>12. ASSUME NEW r \in Runs, NextName(r) PROVE Counted'
  BY <1>12, CountedQuiet DEF NextName, Typed, At, GoTo, Idle
<1>13. ASSUME NEW r \in Runs, NfdumpRefuses(r) PROVE Counted'
  BY <1>13, CountedQuiet DEF NfdumpRefuses, Typed, At, GoTo, Idle
<1>14. ASSUME NEW r \in Runs, NfdumpStarts(r) PROVE Counted'
  <2> SUFFICES ASSUME NEW f \in Files
               PROVE  /\ IsFiniteSet(Posting(f)')
                      /\ stored'[f] + Cardinality(Posting(f)') <= sent'[f]
    BY DEF Counted
  <2>1. /\ IsFiniteSet(Posting(f)) /\ stored[f] + Cardinality(Posting(f)) <= sent[f]
        /\ stored[f] \in Nat /\ sent[f] \in Nat /\ Cardinality(Posting(f)) \in Nat
    BY FS_CardinalityType DEF Counted, Typed
  <2>2. CASE f = run[r].file
    <3>1. Posting(f)' = Posting(f) \cup {r} /\ r \notin Posting(f)
      BY <1>14, <2>2 DEF NfdumpStarts, Posting, At, GoTo, Typed
    <3>2. sent'[f] = sent[f] + 1 /\ stored'[f] = stored[f]
      BY <1>14, <2>2 DEF NfdumpStarts, Typed
    <3>3. /\ IsFiniteSet(Posting(f)')
          /\ Cardinality(Posting(f)') = Cardinality(Posting(f)) + 1
      BY <2>1, <3>1, FS_AddElement
    <3> QED BY <2>1, <3>2, <3>3
  <2>3. CASE f # run[r].file
    <3>1. Posting(f)' = Posting(f) BY <1>14, <2>3 DEF NfdumpStarts, Posting, At, GoTo, Typed
    <3>2. sent'[f] = sent[f] /\ stored'[f] = stored[f] BY <1>14, <2>3 DEF NfdumpStarts, Typed
    <3> QED BY <2>1, <3>1, <3>2
  <2> QED BY <2>2, <2>3
<1>15. ASSUME NEW r \in Runs, NfdumpEnds(r) PROVE Counted'
  <2> SUFFICES ASSUME NEW f \in Files
               PROVE  /\ IsFiniteSet(Posting(f)')
                      /\ stored'[f] + Cardinality(Posting(f)') <= sent'[f]
    BY DEF Counted
  <2>1. /\ IsFiniteSet(Posting(f)) /\ stored[f] + Cardinality(Posting(f)) <= sent[f]
        /\ stored[f] \in Nat /\ sent[f] \in Nat /\ Cardinality(Posting(f)) \in Nat
    BY FS_CardinalityType DEF Counted, Typed
  <2>2. CASE f = run[r].file
    <3>1. Posting(f)' = Posting(f) \ {r} /\ r \in Posting(f)
      BY <1>15, <2>2 DEF NfdumpEnds, Posting, At, GoTo, Typed
    <3>2. sent'[f] = sent[f] /\ stored'[f] = stored[f] + 1
      BY <1>15, <2>2 DEF NfdumpEnds, Typed
    <3>3. /\ IsFiniteSet(Posting(f)')
          /\ Cardinality(Posting(f)') = Cardinality(Posting(f)) - 1
      BY <2>1, <3>1, FS_RemoveElement
    <3> QED BY <2>1, <3>2, <3>3
  <2>3. CASE f # run[r].file
    <3>1. Posting(f)' = Posting(f) BY <1>15, <2>3 DEF NfdumpEnds, Posting, At, GoTo, Typed
    <3>2. sent'[f] = sent[f] /\ stored'[f] = stored[f] BY <1>15, <2>3 DEF NfdumpEnds, Typed
    <3> QED BY <2>1, <3>1, <3>2
  <2> QED BY <2>2, <2>3
<1>16. ASSUME NEW r \in Runs, NfdumpLoses(r) PROVE Counted'
  BY <1>16, CountedQuiet DEF NfdumpLoses, Typed, At, GoTo, Idle
<1>17. ASSUME NEW r \in Runs, Retry(r) PROVE Counted'
  BY <1>17, CountedQuiet DEF Retry, Typed, At, GoTo, Idle
<1>18. ASSUME NEW r \in Runs, Move(r) PROVE Counted'
  BY <1>18, CountedQuiet DEF Move, Typed, At, GoTo, Idle
<1>19. ASSUME NEW r \in Runs, MoveMissing(r) PROVE Counted'
  BY <1>19, CountedQuiet DEF MoveMissing, Typed, At, GoTo, Idle
<1>20. ASSUME NEW r \in Runs, RemovePid(r) PROVE Counted'
  BY <1>20, CountedQuiet DEF RemovePid, Typed, At, GoTo, Idle
<1>21. CASE UNCHANGED vars BY <1>21 DEF vars, Counted, Posting
<1> QED BY <1>1, <1>2, <1>3, <1>4, <1>5, <1>6, <1>7, <1>8, <1>9, <1>10, <1>11, <1>12,
           <1>13, <1>14, <1>15, <1>16, <1>17, <1>18, <1>19, <1>20, <1>21 DEF Next, Script

-----------------------------------------------------------------------------
LEMMA Invariance == Spec => []IInv
<1>1. Init => IInv
  BY TypedInit, SoloInit, PostedInit, CountedInit DEF IInv
<1>2. IInv /\ [Next]_vars => IInv'
  BY TypedStep, SoloStep, SeenStep, PostedStep, StoredStep, OnceStep, CountedStep DEF IInv
<1> QED BY <1>1, <1>2, PTL DEF Spec

\* Type correctness: no more documents are stored than posted, and a file that
\* is handed to mv was posted, however the runs of the script overlap.
THEOREM TypeCorrect == Spec => []TypeOK
<1>1. IInv => TypeOK
  <2> SUFFICES ASSUME IInv PROVE TypeOK
    OBVIOUS
  <2>1. \A f \in Files : stored[f] <= sent[f]
    <3> SUFFICES ASSUME NEW f \in Files PROVE stored[f] <= sent[f]
      OBVIOUS
    <3>1. /\ Cardinality(Posting(f)) \in Nat
          /\ stored[f] + Cardinality(Posting(f)) <= sent[f]
          /\ stored[f] \in Nat /\ sent[f] \in Nat
      BY FS_CardinalityType DEF IInv, Counted, Typed
    <3> QED BY <3>1
  <2>2. \A r \in Runs : At(r, "mv") => sent[run[r].file] >= 1
    BY DEF IInv, Posted, At
  <2> QED BY <2>1, <2>2 DEF IInv, Typed, TypeOK
<1> QED BY <1>1, Invariance, PTL

\* Two runs of nfdump_rotate.sh only import at the same time when both looked
\* for the pid file before either had written it.
THEOREM Exclusion == Spec => []OneImporter
<1>1. IInv => OneImporter
  BY DEF IInv, Solo, OwnerPC, OneImporter, Owners
<1> QED BY <1>1, Invariance, PTL

\* A file in the backup directory is stored in Elasticsearch, unless the server
\* failed while nfdump was posting.
THEOREM NothingMovedUnstored == Spec => []StoredBeforeMove
<1>1. IInv => StoredBeforeMove
  BY DEF IInv, StoredInv, StoredBeforeMove, In
<1> QED BY <1>1, Invariance, PTL

\* No file is posted twice by runs of the script that are not disturbed.
THEOREM NothingPostedTwice == Spec => []PostedOnce
<1>1. IInv => PostedOnce
  BY DEF IInv, Once, PostedOnce
<1> QED BY <1>1, Invariance, PTL
=============================================================================
