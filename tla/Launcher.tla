------------------------------ MODULE Launcher ------------------------------
(***************************************************************************)
(* The collector and its launcher (launcher in launch.c; the end of a      *)
(* cycle, kill_launcher and IntHandler in nfcapd.c).  The launcher was     *)
(* forked before its signal handlers exist.  At the end of a cycle the     *)
(* collector writes the name and the time of the new file to shared memory *)
(* and sends SIGHUP; at the end of its life it sends SIGTERM, waits, sends *)
(* SIGTERM again and then waits for the exit of the launcher.              *)
(*                                                                         *)
(* A signal takes effect when it is sent: it wakes a process that sleeps   *)
(* in select or waitpid, and is not queued.  There is one flow source.     *)
(*                                                                         *)
(* LInit, LNext, LSpec, lvars and LTypeOK are what other modules call      *)
(* Init, Next, ...: LauncherProofs extends this module and ExpireDir.      *)
(***************************************************************************)
EXTENDS Integers

CONSTANTS
    MaxCycles,    \* bound: rotations before the collector has to stop
    Process,      \* option -x: a command is run for every new file
    Expire,       \* option -e: do_expire is run in every cycle
    CmdTooLong,   \* the command does not expand for a real file name
    MayStop       \* the collector may be told to stop

ASSUME MaxCyclesAssumption == MaxCycles \in Nat
ASSUME OptionsAssumption == {Process, Expire, CmdTooLong, MayStop} \subseteq BOOLEAN

VARIABLES
    cpc,             \* the collector: "run", "comm", "signal", "kill", "wait",
                     \* "waitpid", "gone"
    cycle,           \* files it has finished
    cdone,           \* its done
    launcher_alive,
    comm,            \* commbuff: [fname, tstamp], as cycle numbers
    lpc,             \* the launcher
    launch, done, child_exit,     \* what its signal handler sets
    expanded,        \* the file name its command line holds so far
    kids, zombies,   \* commands that run, and that wait to be reaped
    ran,             \* how often a command was run for a file
    torn,            \* a command was run with the time of another file (history)
    expired,         \* cycle at the beginning of the last do_expire (history)
    late             \* a file was finished when the launcher was not idle (history)

collectorVars == <<cpc, cycle, cdone, comm, late>>
handlerVars   == <<launch, done, child_exit>>
workVars      == <<expanded, kids, zombies, ran, torn, expired>>
lvars == <<collectorVars, launcher_alive, lpc, handlerVars, workVars>>

LInit ==
    /\ cpc = "run" /\ cycle = 0 /\ cdone = FALSE /\ launcher_alive = TRUE
    /\ comm = [fname |-> 0, tstamp |-> 0]
    /\ lpc = "boot"
    /\ launch = FALSE /\ done = 0 /\ child_exit = 0
    /\ expanded = 0 /\ kids = 0 /\ zombies = 0
    /\ ran = [n \in 1..(MaxCycles + 1) |-> 0]
    /\ torn = FALSE /\ expired = 0 /\ late = FALSE

-----------------------------------------------------------------------------
(* Signals to the launcher                                                 *)

\* select and waitpid return; everything else goes on.
Woken == CASE lpc = "select" -> "wake" [] lpc = "last" -> "exit" [] OTHER -> lpc

\* The launcher ends, and the collector gets SIGCHLD.
Die == lpc' = "dead" /\ launcher_alive' = FALSE

\* SignalHandler; without a handler SIGHUP and SIGTERM end the process.
Hup == IF lpc = "boot" THEN Die /\ UNCHANGED handlerVars
       ELSE lpc' = Woken /\ launch' = TRUE /\ UNCHANGED <<launcher_alive, done, child_exit>>

Term == IF lpc = "boot" \/ done > 1 THEN Die /\ UNCHANGED handlerVars
        ELSE lpc' = Woken /\ done' = done + 1 /\ UNCHANGED <<launcher_alive, launch, child_exit>>

Unsignalled == UNCHANGED <<launcher_alive, lpc, handlerVars>>

-----------------------------------------------------------------------------
(* The collector                                                           *)

Stop == /\ MayStop /\ ~cdone /\ cpc # "gone"
        /\ cdone' = TRUE
        /\ UNCHANGED <<cpc, cycle, comm, late, workVars>> /\ Unsignalled

\* The launcher and its commands are done with all files.
IdleLauncher == lpc = "select" /\ ~launch /\ kids = 0

\* Mutant of Rotate: the launcher is signalled before commbuff is written.
RotateSignalFirst ==
    /\ cpc = "run" /\ (cycle < MaxCycles \/ (cdone /\ cycle = MaxCycles))
    /\ cycle' = cycle + 1
    /\ late' = (late \/ ~IdleLauncher)
    /\ comm' = comm
    /\ cpc' = "comm"
    /\ IF launcher_alive THEN Hup ELSE Unsignalled
    /\ UNCHANGED <<cdone, workVars>>

\* A file is finished, and the books are updated: commbuff->fname.
Rotate ==
    /\ cpc = "run" /\ (cycle < MaxCycles \/ (cdone /\ cycle = MaxCycles))
    /\ cycle' = cycle + 1
    /\ late' = (late \/ ~IdleLauncher)
    /\ comm' = [comm EXCEPT !.fname = cycle + 1]
    /\ cpc' = "comm"
    /\ UNCHANGED <<cdone, workVars>> /\ Unsignalled

\* commbuff->tstring and tstamp.
CommTime ==
    /\ cpc = "comm"
    /\ comm' = [fname |-> cycle, tstamp |-> cycle]
    /\ cpc' = "signal"
    /\ UNCHANGED <<cycle, cdone, late, workVars>> /\ Unsignalled

\* SIGHUP; a dead launcher is only logged, and never started again.
SignalLauncher ==
    /\ cpc = "signal"
    /\ IF launcher_alive THEN Hup ELSE Unsignalled
    /\ cpc' = IF cdone THEN "kill" ELSE "run"
    /\ UNCHANGED <<cycle, cdone, comm, late, workVars>>

\* kill_launcher: SIGTERM.
Kill ==
    /\ cpc = "kill"
    /\ IF launcher_alive THEN Term /\ cpc' = "wait" ELSE Unsignalled /\ cpc' = "waitpid"
    /\ UNCHANGED <<cycle, cdone, comm, late, workVars>>

LauncherEnded ==
    /\ cpc = "wait" /\ ~launcher_alive
    /\ cpc' = "waitpid"
    /\ UNCHANGED <<cycle, cdone, comm, late, workVars>> /\ Unsignalled

\* Mutant of Timeout: no second SIGTERM.
TimeoutNoTerm ==
    /\ cpc = "wait" /\ launcher_alive /\ lpc # "sleep"
    /\ cpc' = "waitpid"
    /\ UNCHANGED <<cycle, cdone, comm, late, workVars>> /\ Unsignalled

\* LAUNCHER_TIMEOUT seconds are over: SIGTERM again.  They are longer than the
\* launcher needs from its test of done to select.
Timeout ==
    /\ cpc = "wait" /\ launcher_alive /\ lpc # "sleep"
    /\ Term
    /\ cpc' = "waitpid"
    /\ UNCHANGED <<cycle, cdone, comm, late, workVars>>

WaitPid ==
    /\ cpc = "waitpid" /\ lpc = "dead"
    /\ cpc' = "gone"
    /\ UNCHANGED <<cycle, cdone, comm, late, workVars>> /\ Unsignalled

-----------------------------------------------------------------------------
(* The launcher                                                            *)

At(pc) == lpc = pc
GoTo(pc) == lpc' = pc /\ UNCHANGED <<collectorVars, launcher_alive>>

\* sigaction
Boot == At("boot") /\ GoTo("test") /\ UNCHANGED <<handlerVars, workVars>>

\* while ( !done ), ...
Test == /\ At("test")
        /\ GoTo(IF done > 0 THEN "last" ELSE "sleep")
        /\ UNCHANGED <<handlerVars, workVars>>

\* ... and select, which does not know of a signal that came in between.
Sleep == At("sleep") /\ GoTo("select") /\ UNCHANGED <<handlerVars, workVars>>

FirstJob == IF Process THEN "fname" ELSE "expire"

\* if ( launch ) launch = 0
Wake == /\ At("wake")
        /\ IF launch THEN GoTo(FirstJob) ELSE GoTo("reap")
        /\ launch' = FALSE
        /\ UNCHANGED <<done, child_exit, workVars>>

\* cmd_expand reads %f.  A command that is too long is tried again and again.
ExpandName ==
    /\ At("fname") /\ ~CmdTooLong
    /\ expanded' = comm.fname
    /\ GoTo("tstamp")
    /\ UNCHANGED <<handlerVars, kids, zombies, ran, torn, expired>>

\* cmd_expand reads %t, and cmd_execute starts the command.
Execute ==
    /\ At("tstamp")
    /\ ran' = [ran EXCEPT ![expanded] = @ + 1]
    /\ torn' = (torn \/ comm.tstamp # expanded)
    /\ kids' = kids + 1
    /\ GoTo("expire")
    /\ UNCHANGED <<handlerVars, expanded, zombies, expired>>

\* do_expire; the books are read at its beginning.
BeginExpire ==
    /\ At("expire")
    /\ IF Expire THEN expired' = cycle /\ GoTo("expiring") ELSE expired' = expired /\ GoTo("reap")
    /\ UNCHANGED <<handlerVars, expanded, kids, zombies, ran, torn>>

\* Mutant of EndExpire: launch is reset after the work.
EndExpireReset ==
    /\ At("expiring")
    /\ GoTo("reap")
    /\ launch' = FALSE
    /\ UNCHANGED <<done, child_exit, workVars>>

EndExpire == At("expiring") /\ GoTo("reap") /\ UNCHANGED <<handlerVars, workVars>>

\* if ( child_exit ) waitpid until there is no zombie, ...
Reap == /\ At("reap")
        /\ IF child_exit > 0 THEN zombies' = 0 /\ GoTo("reaped")
                             ELSE zombies' = zombies /\ GoTo("test")
        /\ UNCHANGED <<handlerVars, expanded, kids, ran, torn, expired>>

\* ... and child_exit = 0.
Reaped == /\ At("reaped")
          /\ GoTo("test")
          /\ child_exit' = 0
          /\ UNCHANGED <<launch, done, workVars>>

\* The final waitpid returns when there is a zombie, or no child at all.
Last == /\ At("last") /\ (zombies > 0 \/ kids = 0)
        /\ GoTo("exit")
        /\ UNCHANGED <<handlerVars, workVars>>

Exit == /\ At("exit") /\ Die
        /\ UNCHANGED <<collectorVars, handlerVars, workVars>>

\* A command ends: SIGCHLD.
KidExit ==
    /\ kids > 0
    /\ kids' = kids - 1
    /\ IF lpc = "dead" THEN zombies' = zombies /\ lpc' = lpc /\ child_exit' = child_exit
       ELSE zombies' = zombies + 1 /\ lpc' = Woken /\ child_exit' = child_exit + 1
    /\ UNCHANGED <<collectorVars, launcher_alive, launch, done, expanded, ran, torn, expired>>

-----------------------------------------------------------------------------
CollectorNext == \/ Rotate \/ CommTime \/ SignalLauncher \/ Kill \/ LauncherEnded
                 \/ Timeout \/ WaitPid

LauncherNext == \/ Boot \/ Test \/ Sleep \/ Wake \/ ExpandName \/ Execute \/ BeginExpire
                \/ EndExpire \/ Reap \/ Reaped \/ Last \/ Exit

LNext == Stop \/ CollectorNext \/ LauncherNext \/ KidExit

\* The alarm makes the collector rotate at the end of a cycle; both processes
\* and the commands are scheduled, and a command ends.  Nothing makes the
\* operator stop the collector.
Fairness == WF_lvars(CollectorNext) /\ WF_lvars(LauncherNext) /\ WF_lvars(KidExit)

LSpec == LInit /\ [][LNext]_lvars /\ Fairness

-----------------------------------------------------------------------------
(* Properties                                                              *)

\* Type invariant; launcher_alive is what SIGCHLD says.
LTypeOK ==
    /\ cycle \in 0..(MaxCycles + 1) /\ expired \in 0..(MaxCycles + 1)
    /\ comm \in [fname : 0..(MaxCycles + 1), tstamp : 0..(MaxCycles + 1)]
    /\ launch \in BOOLEAN /\ done \in 0..2 /\ child_exit \in Nat
    /\ cdone \in BOOLEAN /\ torn \in BOOLEAN /\ late \in BOOLEAN
    /\ kids \in Nat /\ zombies \in Nat /\ expanded \in Nat
    /\ ran \in [1..(MaxCycles + 1) -> Nat]
    /\ launcher_alive \in BOOLEAN /\ (launcher_alive <=> lpc # "dead")

\* The last cycle the launcher was signalled for.
Signalled == IF cpc \in {"comm", "signal"} THEN cycle - 1 ELSE cycle

\* A SIGHUP is never forgotten while the launcher lives: a cycle that was
\* signalled and is not expired yet is still marked in launch, or the launcher
\* is on its way to do_expire, however many signals came during its work.
HupRemembered ==
    Expire /\ expired < Signalled =>
        launch \/ lpc \in {"fname", "tstamp", "expire", "last", "exit", "dead"}

\* A SIGHUP between the last look at launch and select does not wake the
\* launcher.  But whatever wakes it next, the SIGHUP of a later cycle or the end
\* of a command, it then catches up with every cycle signalled until then.
\* And when it is done before the next file is finished, it runs the command of
\* every file, the last one before a shutdown included.
CatchesUp ==
    /\ \A n \in 1..MaxCycles : lpc = "wake" /\ Signalled >= n ~> expired >= n
    /\ \A n \in 1..(MaxCycles + 1) : cycle = n ~> ran[n] = 1 \/ late

\* A collector that is told to stop does stop: the second SIGTERM wakes the
\* launcher that missed the first one before select.
ShutdownEnds == cdone ~> cpc = "gone"

\* When the launcher and its commands are done before the next file is finished,
\* every file's command is run at most once, with the time of that file.
CommandOnce == ~late => ~torn /\ \A n \in 1..(MaxCycles + 1) : ran[n] <= 1
=============================================================================
