---------------------------- MODULE RotateImport ----------------------------
(***************************************************************************)
(* The way of a finished data file into Elasticsearch: nfdump_rotate.sh,   *)
(* started by cron every minute, imports the files of the data directory   *)
(* with nfdump, one after the other, and moves each to the backup          *)
(* directory.  A pid file keeps a second run of the script away.           *)
(*                                                                         *)
(* A file is its number in the order of the names; what nfdump does with   *)
(* the server is reduced to its exit code and to whether the documents     *)
(* arrived (ElasticBulk has the details).                                  *)
(***************************************************************************)
EXTENDS Integers, FiniteSets, FiniteSetsExt

CONSTANTS
    MaxFiles,       \* bound: files the collector finishes
    Runs,           \* bound: runs of the script that exist at the same time
    MaxFaults,      \* bound: killed runs, failing calls of mv, aborts of nfdump,
                    \* and failures of the server
    MayExpire       \* nfexpire is used on the data directory

ASSUME BoundsAssumption == {MaxFiles, MaxFaults} \subseteq Nat
ASSUME MayExpireAssumption == MayExpire \in BOOLEAN

VARIABLES
    where,          \* of each file: "none", "data", "backup", "expired"
    pidfile,        \* $PIDFILE exists
    run,            \* the runs: [pc, todo, file]
    up,             \* Elasticsearch answers
    stored,         \* how often all documents of a file were stored
    sent,           \* how often nfdump posted documents of a file at all
    faults,
    raced           \* what disturbed the import (history)

vars == <<where, pidfile, run, up, stored, sent, faults, raced>>

Files == 1..MaxFiles
Idle  == [pc |-> "off", todo |-> {}, file |-> 0]

Init == /\ where = [f \in Files |-> "none"]
        /\ pidfile = FALSE /\ run = [r \in Runs |-> Idle]
        /\ up = TRUE
        /\ stored = [f \in Files |-> 0] /\ sent = [f \in Files |-> 0]
        /\ faults = 0 /\ raced = {}

In(place)   == {f \in Files : where[f] = place}
At(r, pc)   == run[r].pc = pc
GoTo(r, pc) == run' = [run EXCEPT ![r].pc = pc]

\* The runs that own the pid file, or believe so.
Owners == {r \in Runs : run[r].pc \in {"glob", "next", "import", "posting", "losing",
                                "sleep", "mv", "rm"}}

\* One of the failures the bound allows.
Fault == faults < MaxFaults /\ faults' = faults + 1

-----------------------------------------------------------------------------
(* The surroundings                                                        *)

\* The collector renames nfcapd.current to the name of the next slot.
Collect ==
    /\ In("none") # {}
    /\ where' = [where EXCEPT ![Min(In("none"))] = "data"]
    /\ UNCHANGED <<pidfile, run, up, stored, sent, faults, raced>>

\* nfexpire removes the oldest file.
Expire ==
    /\ MayExpire /\ In("data") # {}
    /\ where' = [where EXCEPT ![Min(In("data"))] = "expired"]
    /\ UNCHANGED <<pidfile, run, up, stored, sent, faults, raced>>

\* The server fails: what nfdump posts from now on is lost.
ServerDown ==
    /\ up /\ Fault
    /\ up' = FALSE
    /\ run' = [r \in Runs |-> IF At(r, "posting") THEN [run[r] EXCEPT !.pc = "losing"]
                                                  ELSE run[r]]
    /\ UNCHANGED <<where, pidfile, stored, sent, raced>>

ServerUp ==
    /\ ~up
    /\ up' = TRUE
    /\ UNCHANGED <<where, pidfile, run, stored, sent, faults, raced>>

\* A run is killed, by a restart of the container for instance.
Kill(r) ==
    /\ ~At(r, "off") /\ Fault
    /\ run' = [run EXCEPT ![r] = Idle]
    /\ raced' = raced \cup {"killed"}
    /\ UNCHANGED <<where, pidfile, up, stored, sent>>

-----------------------------------------------------------------------------
(* One run of the script                                                   *)

\* docker inspect; without an address the script ends.
Cron(r) ==
    /\ At(r, "off")
    /\ GoTo(r, "check")
    /\ UNCHANGED <<where, pidfile, up, stored, sent, faults, raced>>

\* The check and the creation of the pid file are two steps: another run is
\* between them.
Overlap(r) == IF ~pidfile /\ \E q \in Runs \ {r} : At(q, "write") THEN {"overlap"} ELSE {}

\* Mutant of CheckPid: the pid file is not looked at.
CheckNothing(r) ==
    /\ At(r, "check")
    /\ GoTo(r, "write")
    /\ raced' = raced \cup Overlap(r)
    /\ UNCHANGED <<where, pidfile, up, stored, sent, faults>>

\* [ -f $PIDFILE ]: "already running or has been interrupted".
CheckPid(r) ==
    /\ At(r, "check")
    /\ GoTo(r, IF pidfile THEN "off" ELSE "write")
    /\ raced' = raced \cup Overlap(r)
    /\ UNCHANGED <<where, pidfile, up, stored, sent, faults>>

WritePid(r) ==
    /\ At(r, "write")
    /\ pidfile' = TRUE
    /\ GoTo(r, "glob")
    /\ UNCHANGED <<where, up, stored, sent, faults, raced>>

\* for file in $FILES: the names are expanded once.
Glob(r) ==
    /\ At(r, "glob")
    /\ run' = [run EXCEPT ![r] = [pc |-> "next", todo |-> In("data"), file |-> 0]]
    /\ UNCHANGED <<where, pidfile, up, stored, sent, faults, raced>>

NextName(r) ==
    /\ At(r, "next")
    /\ run' = [run EXCEPT ![r] =
                 IF @.todo = {} THEN [@ EXCEPT !.pc = "rm"]
                 ELSE [pc |-> "import", todo |-> @.todo \ {Min(@.todo)}, file |-> Min(@.todo)]]
    /\ UNCHANGED <<where, pidfile, up, stored, sent, faults, raced>>

\* nfdump fails before it posts anything: the file cannot be read (exit 250),
\* or the server does not tell its version (exit 255).
NfdumpRefuses(r) ==
    /\ At(r, "import")
    /\ where[run[r].file] # "data" \/ ~up
    /\ GoTo(r, "sleep")
    /\ raced' = IF where[run[r].file] # "data" THEN raced \cup {"vanished"} ELSE raced
    /\ UNCHANGED <<where, pidfile, up, stored, sent, faults>>

NfdumpStarts(r) ==
    /\ At(r, "import")
    /\ where[run[r].file] = "data" /\ up
    /\ GoTo(r, "posting")
    /\ sent' = [sent EXCEPT ![run[r].file] = @ + 1]
    /\ UNCHANGED <<where, pidfile, up, stored, faults, raced>>

\* nfdump returns 0, whether the bulk requests succeeded ...
NfdumpEnds(r) ==
    /\ At(r, "posting")
    /\ stored' = [stored EXCEPT ![run[r].file] = @ + 1]
    /\ GoTo(r, "mv")
    /\ UNCHANGED <<where, pidfile, up, sent, faults, raced>>

\* ... or not.
NfdumpLoses(r) ==
    /\ At(r, "losing")
    /\ raced' = raced \cup {"unsent"}
    /\ GoTo(r, "mv")
    /\ UNCHANGED <<where, pidfile, up, stored, sent, faults>>

\* nfdump ends with an error after it has posted some documents: it cannot
\* create a thread.
NfdumpAborts(r) ==
    /\ run[r].pc \in {"posting", "losing"} /\ Fault
    /\ GoTo(r, "sleep")
    /\ raced' = raced \cup {"aborted"}
    /\ UNCHANGED <<where, pidfile, up, stored, sent>>

\* Mutant of Retry: one attempt is enough.
RetryOnce(r) ==
    /\ At(r, "sleep")
    /\ GoTo(r, "mv")
    /\ UNCHANGED <<where, pidfile, up, stored, sent, faults, raced>>

\* while [ $? -ne 0 ]: sleep 30 and call nfdump again.
Retry(r) ==
    /\ At(r, "sleep")
    /\ GoTo(r, "import")
    /\ UNCHANGED <<where, pidfile, up, stored, sent, faults, raced>>

\* Mutant of Move: the file stays where it is.
MoveNothing(r) ==
    /\ At(r, "mv")
    /\ GoTo(r, "next")
    /\ UNCHANGED <<where, pidfile, up, stored, sent, faults, raced>>

Move(r) ==
    /\ At(r, "mv") /\ where[run[r].file] = "data"
    /\ where' = [where EXCEPT ![run[r].file] = "backup"]
    /\ GoTo(r, "next")
    /\ UNCHANGED <<pidfile, up, stored, sent, faults, raced>>

\* mv fails, because the file is gone or the backup directory is full, and
\* nobody looks at its exit code.
MoveMissing(r) ==
    /\ At(r, "mv") /\ where[run[r].file] # "data"
    /\ GoTo(r, "next")
    /\ UNCHANGED <<where, pidfile, up, stored, sent, faults, raced>>

MoveFails(r) ==
    /\ At(r, "mv") /\ where[run[r].file] = "data" /\ Fault
    /\ raced' = raced \cup {"mv"}
    /\ GoTo(r, "next")
    /\ UNCHANGED <<where, pidfile, up, stored, sent>>

\* Mutant of RemovePid: the pid file stays.
KeepPid(r) ==
    /\ At(r, "rm")
    /\ run' = [run EXCEPT ![r] = Idle]
    /\ UNCHANGED <<where, pidfile, up, stored, sent, faults, raced>>

\* rm $PIDFILE
RemovePid(r) ==
    /\ At(r, "rm")
    /\ pidfile' = FALSE
    /\ run' = [run EXCEPT ![r] = Idle]
    /\ UNCHANGED <<where, up, stored, sent, faults, raced>>

-----------------------------------------------------------------------------
Script(r) == \/ CheckPid(r) \/ WritePid(r) \/ Glob(r) \/ NextName(r)
             \/ NfdumpRefuses(r) \/ NfdumpStarts(r) \/ NfdumpEnds(r) \/ NfdumpLoses(r)
             \/ Retry(r) \/ Move(r) \/ MoveMissing(r) \/ RemovePid(r)

Next == \/ Collect \/ Expire \/ ServerDown \/ ServerUp
        \/ \E r \in Runs : Cron(r) \/ Kill(r) \/ NfdumpAborts(r) \/ MoveFails(r) \/ Script(r)

\* Cron starts the script again and again, and a run goes on.  The server comes
\* back after a failure, and after the last one of the model it stays.
Fairness == WF_vars(ServerUp) /\ \A r \in Runs : WF_vars(Cron(r)) /\ WF_vars(Script(r))

Spec == Init /\ [][Next]_vars /\ Fairness

-----------------------------------------------------------------------------
(* Properties                                                              *)

\* Type invariant; a file is only handed to mv after nfdump has posted it.
TypeOK == /\ where \in [Files -> {"none", "data", "backup", "expired"}]
          /\ \A r \in Runs : run[r].todo \subseteq Files /\ run[r].file \in 0..MaxFiles
          /\ pidfile \in BOOLEAN /\ up \in BOOLEAN
          /\ faults \in 0..MaxFaults
          /\ \A f \in Files : stored[f] <= sent[f]
          /\ \A r \in Runs : At(r, "mv") => sent[run[r].file] >= 1

\* Two runs of the script do not import at the same time, unless both looked
\* for the pid file before either had written it.
OneImporter == "overlap" \notin raced =>
                  (\A p, q \in Owners : p = q) /\ (Owners # {} => pidfile)

\* A file is only moved out of the way when its documents are stored, however
\* often the server failed, unless it failed while nfdump was posting.
StoredBeforeMove ==
    "unsent" \notin raced => \A f \in In("backup") : stored[f] >= 1

\* The documents of a file are posted at most once, unless a run was killed,
\* overlapped with another, aborted, or could not move its file.
PostedOnce ==
    raced \cap {"killed", "overlap", "aborted", "mv"} = {}
        => \A f \in Files : sent[f] <= 1

\* Every file gets to the backup directory in the end: nothing else can block
\* the import than a killed run, whose pid file stays, or a file that vanished
\* from the list, which is tried again for ever.
EveryFileMoved ==
    \A f \in Files : where[f] = "data" ~> \/ where[f] \in {"backup", "expired"}
                                         \/ raced \cap {"killed", "vanished"} # {}
=============================================================================
