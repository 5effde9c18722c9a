----------------------------- MODULE ReceiveLoop -----------------------------
(***************************************************************************)
(* The main loop of the collector nfcapd (run in nfcapd.c): it waits for a *)
(* packet, rotates the files of all flow sources at the end of a time      *)
(* slot, and adds the packet to the buffer of its source.  Signals end the *)
(* wait: SIGALRM some time after the slot, SIGTERM to stop, SIGCHLD when   *)
(* the launcher dies; between the tests of the loop they only set          *)
(* variables.  Buffers, open files, names and file descriptors are here;   *)
(* what is in the records is in FlowSource, the books are in Accounting.   *)
(***************************************************************************)
EXTENDS Integers, Sequences, FiniteSets, FiniteSetsExt

CONSTANTS
    NSources,      \* senders
    Networks,      \* how it is started and bounds, see below
    Twin,          \* length of a time slot
    Overdue,       \* OVERDUE_TIME
    BufferSize,    \* records that fit into a buffer
    MaxFaults,     \* bound: calls that fail
    MaxClock       \* bound: the end of time

(***************************************************************************)
(* A network: static, the number of sources of the command line; dynamic,  *)
(* option -M; launcher, there is one and it may die; packets and faults,   *)
(* bounds: packets that arrive, calls that fail.                           *)
(***************************************************************************)
ASSUME SlotsAssumption ==
    Twin \in Nat \ {0} /\ Overdue \in Nat \ {0} /\ BufferSize \in Nat \ {0}
ASSUME NetworksAssumption ==
    /\ NSources \in Nat /\ MaxFaults \in Nat /\ MaxClock \in Nat
    /\ \A n \in Networks : /\ n.static \in 0..NSources /\ n.faults \in 0..MaxFaults
                           /\ n.dynamic \in BOOLEAN /\ n.launcher \in BOOLEAN

Source == 1..NSources
SlotTimes == {t \in 0..MaxClock : \E i \in 0..MaxClock : t = i * Twin}
NoFd == 0                            \* fd = -1
Fd == 1..(NSources + MaxFaults + 1)   \* a failed write can leave one open

VARIABLES
    now,        \* the clock
    net,        \* how the collector was started
    pc,         \* position in the loop
    cnt,        \* what recvfrom returned: "data", "zero" or "error"
    pkt,        \* the sender of the packet at hand
    t_now, t_start, done, periodic_trigger,
    alarm,      \* when SIGALRM is due, 0 for never
    fs,         \* flow sources in the order of the list
    k,          \* the source that is rotated
    src,        \* per source: buffer (of records), fd, current (its file), books
    fds,        \* open files by descriptor
    file,       \* contents of all files
    stored,     \* files that have their final name: per source and slot, 0 for none
    launcher,   \* [alive, told: slots it was told of]
    sent,       \* history: source and time of every record
    lost,       \* history: records that were given up
    since,      \* history: first slot of every source
    faults,     \* faults so far
    marks       \* history: "behind", "early", "zero", "far", "stale", "skipped", "fatal"

disk == <<src, fds, file, stored>>
timeVars == <<t_now, t_start, alarm, periodic_trigger>>
hist == <<sent, lost, since, faults>>
vars == <<now, net, pc, cnt, pkt, timeVars, done, fs, k, disk, launcher, hist, marks>>

-----------------------------------------------------------------------------
(* Files                                                                   *)

\* OpenNewFile on the current file of a source: a file that is still there is
\* truncated.  "nofile": open fails; "header": a write fails after it, and the
\* descriptor that is kept is closed.
Opened(d, s, outcome) ==
    LET new == d.src[s].current = 0
        ino == IF new THEN Len(d.file) + 1 ELSE d.src[s].current
        fd  == Min({n \in Fd : d.fds[n] = 0})
        at  == [d EXCEPT !.file = IF new THEN Append(@, {}) ELSE [@ EXCEPT ![ino] = {}],
                         !.lost = IF new THEN @ ELSE @ \cup d.file[ino],
                         !.src[s].current = ino, !.src[s].fd = fd]
    IN CASE outcome = "ok"     -> [at EXCEPT !.fds[fd] = ino]
         [] outcome = "header" -> at
         [] outcome = "nofile" -> [d EXCEPT !.src[s].fd = NoFd]

\* WriteBlock: what cannot be written stays in the buffer.
Writable(d, s, ok) == ok /\ d.src[s].fd # NoFd /\ d.fds[d.src[s].fd] # 0
\* Mutant of Written: the buffer is not emptied.
WrittenKept(d, s, ok) ==
    IF ~Writable(d, s, ok) THEN d
    ELSE [d EXCEPT !.file[d.fds[d.src[s].fd]] = @ \cup d.src[s].buffer]
Written(d, s, ok) ==
    IF ~Writable(d, s, ok) THEN d
    ELSE [d EXCEPT !.file[d.fds[d.src[s].fd]] = @ \cup d.src[s].buffer, !.src[s].buffer = {}]

\* CloseUpdateFile: a buffer that cannot be written keeps the file open.
Closed(d, s, ok) ==
    LET w == Written(d, s, ok) IN
    IF w.src[s].buffer # {} \/ w.src[s].fd = NoFd THEN w ELSE [w EXCEPT !.fds[w.src[s].fd] = 0]

\* rename and UpdateBooks.
Renamed(d, s, slot) ==
    [d EXCEPT !.stored[s][slot] = d.src[s].current, !.src[s].current = 0, !.src[s].books = @ + 1]

Disk == [src |-> src, fds |-> fds, file |-> file, stored |-> stored, lost |-> lost]
SetDisk(d) == /\ src' = d.src /\ fds' = d.fds /\ file' = d.file
              /\ stored' = d.stored /\ lost' = d.lost

Outcomes == {"ok", "nofile", "header"}
Faults(ok) == IF ok THEN 0 ELSE 1
Allowed(n) == /\ faults + n <= net.faults
              /\ faults' = faults + n

-----------------------------------------------------------------------------
\* The sources of the command line have their files open.
Init ==
    /\ now = 0 /\ net \in Networks
    /\ pc = "top" /\ cnt = "zero" /\ pkt = 0
    /\ t_now = 0 /\ t_start = 0 /\ done = FALSE /\ periodic_trigger = FALSE
    /\ alarm = Twin + Overdue
    /\ fs = [i \in 1..net.static |-> i] /\ k = 0
    /\ src = [s \in Source |-> [buffer |-> {}, books |-> 0,
                                fd |-> IF s <= net.static THEN s ELSE NoFd,
                                current |-> IF s <= net.static THEN s ELSE 0]]
    /\ fds = [n \in Fd |-> IF n <= net.static THEN n ELSE 0]
    /\ file = [i \in 1..net.static |-> {}]
    /\ stored = [s \in Source |-> [t \in SlotTimes |-> 0]]
    /\ launcher = [alive |-> net.launcher, told |-> {}]
    /\ sent = <<>> /\ lost = {} /\ since = [s \in Source |-> 0]
    /\ faults = 0 /\ marks = {}

-----------------------------------------------------------------------------
(* Time and signals                                                        *)

Tick == /\ now < MaxClock /\ pc # "end"
        /\ now' = now + 1
        /\ UNCHANGED <<net, pc, cnt, pkt, timeVars, done, fs, k, disk, launcher, hist, marks>>

\* Mutant of Interrupt: the system call is restarted.
InterruptRestart == UNCHANGED <<pc, cnt>>

\* A signal ends recvfrom when the loop waits in it, and nothing else.
Interrupt == IF pc = "recvfrom" THEN pc' = "test" /\ cnt' = "error"
             ELSE UNCHANGED <<pc, cnt>>

\* An alarm after the test for the end of the slot and before the wait is lost.
Alarm == /\ alarm # 0 /\ now >= alarm /\ pc # "end"
         /\ alarm' = 0 /\ periodic_trigger' = TRUE
         /\ Interrupt
         /\ marks' = marks \cup (IF pc \in {"top", "call", "dispatch"} THEN {"early"} ELSE {})
         /\ UNCHANGED <<now, net, pkt, t_now, t_start, done, fs, k, disk, launcher, hist>>

Terminate == /\ ~done /\ pc # "end"
             /\ done' = TRUE
             /\ Interrupt
             /\ UNCHANGED <<now, net, pkt, timeVars, fs, k, disk, launcher, hist, marks>>

LauncherDies == /\ launcher.alive /\ pc # "end"
                /\ launcher' = [launcher EXCEPT !.alive = FALSE]
                /\ Interrupt
                /\ UNCHANGED <<now, net, pkt, timeVars, done, fs, k, disk, hist, marks>>

-----------------------------------------------------------------------------
(* The loop                                                                *)

At(place) == pc = place
Goto(place) == pc' = place

\* done is tested, then recvfrom is called; cnt keeps its value when done.
Top == /\ At("top")
       /\ Goto(IF done THEN "test" ELSE "call")
       /\ UNCHANGED <<now, net, cnt, pkt, timeVars, done, fs, k, disk, launcher, hist, marks>>

Call == /\ At("call")
        /\ Goto("recvfrom")
        /\ UNCHANGED <<now, net, cnt, pkt, timeVars, done, fs, k, disk, launcher, hist, marks>>

\* A packet; an empty one is not looked at.
Receive == /\ At("recvfrom") /\ Len(sent) < net.packets
           /\ Goto("test")
           /\ \/ cnt' = "zero" /\ UNCHANGED pkt
              \/ cnt' = "data" /\ pkt' \in Source
           /\ UNCHANGED <<now, net, timeVars, done, fs, k, disk, launcher, hist, marks>>

\* Another error of recvfrom: the loop starts over.
ReceiveFails == /\ At("recvfrom")
                /\ Allowed(1)
                /\ Goto("top") /\ cnt' = "error"
                /\ UNCHANGED <<now, net, pkt, timeVars, done, fs, k, disk, launcher,
                               sent, lost, since, marks>>

\* Mutant of Test: the end of a slot belongs to it.
TestInclusive ==
    /\ At("test")
    /\ t_now' = now
    /\ IF now - t_start > Twin \/ done
       THEN Goto("rotate") /\ alarm' = 0 /\ k' = 1
       ELSE Goto("dispatch") /\ UNCHANGED <<alarm, k>>
    /\ marks' = marks \cup (IF now - t_start >= 2 * Twin THEN {"behind"} ELSE {})
    /\ UNCHANGED <<now, net, cnt, pkt, t_start, periodic_trigger, done, fs, disk, launcher, hist>>

\* The end of the slot, or of the collector.
Test ==
    /\ At("test")
    /\ t_now' = now
    /\ IF now - t_start >= Twin \/ done
       THEN Goto("rotate") /\ alarm' = 0 /\ k' = 1
       ELSE Goto("dispatch") /\ UNCHANGED <<alarm, k>>
    /\ marks' = marks \cup (IF now - t_start >= 2 * Twin THEN {"behind"} ELSE {})
    /\ UNCHANGED <<now, net, cnt, pkt, t_start, periodic_trigger, done, fs, disk, launcher, hist>>

\* One source: its block is written, its file is closed and renamed, and the
\* next one opened.  A file that cannot be opened ends the loop over the sources.
Rotate ==
    /\ At("rotate") /\ k <= Len(fs)
    /\ \E write, rename \in BOOLEAN, open \in IF done THEN {"ok"} ELSE Outcomes :
       LET s == fs[k]
           closed == Closed(Disk, s, write)
           named == rename /\ closed.src[s].current # 0
           renamed == IF named THEN Renamed(closed, s, t_start) ELSE closed
       IN /\ Allowed(Faults(write) + Faults(rename) + Faults(open = "ok"))
          /\ SetDisk(IF done THEN renamed ELSE Opened(renamed, s, open))
          /\ k' = IF open = "ok" THEN k + 1 ELSE Len(fs) + 1
          /\ marks' = marks \cup (IF open = "header" THEN {"stale"} ELSE {})
    /\ UNCHANGED <<now, net, pc, cnt, pkt, timeVars, done, fs, launcher, sent, since>>

\* Mutant of NextSlot: the loop catches up with the clock.
NextSlotCatchUp ==
    /\ At("rotate") /\ k > Len(fs)
    /\ launcher' = [launcher EXCEPT !.told = IF launcher.alive THEN @ \cup {t_start} ELSE @]
    /\ IF done THEN Goto("end") /\ UNCHANGED <<t_start, alarm>>
       ELSE /\ Goto("dispatch")
            /\ t_start' = t_now - (t_now % Twin)
            /\ alarm' = now + Twin + Overdue
    /\ UNCHANGED <<now, net, cnt, pkt, t_now, periodic_trigger, done, fs, k, disk, hist, marks>>

\* The launcher is signalled, the alarm is set for the next slot: with the time
\* the loop read before the rotation, and not at all for 0.
NextSlot ==
    /\ At("rotate") /\ k > Len(fs)
    /\ launcher' = [launcher EXCEPT !.told = IF launcher.alive THEN @ \cup {t_start} ELSE @]
    /\ LET wait == t_start + 2 * Twin + Overdue - t_now IN
       IF done THEN Goto("end") /\ UNCHANGED <<t_start, alarm, marks>>
       ELSE /\ Goto("dispatch")
            /\ t_start' = t_start + Twin
            /\ alarm' = IF wait > 0 THEN now + wait ELSE 0
            /\ marks' = (marks \ {"early", "zero", "far"})
                        \cup (IF wait = 0 THEN {"zero"} ELSE IF wait < 0 THEN {"far"} ELSE {})
    /\ UNCHANGED <<now, net, cnt, pkt, t_now, periodic_trigger, done, fs, k, disk, hist>>

\* No data: an alarm first, then the end; everything else goes on.
NoData ==
    /\ At("dispatch") /\ cnt # "data"
    /\ LET stop == cnt = "error" /\ ~periodic_trigger /\ done IN
       /\ Goto(IF stop THEN "end" ELSE "top")
       /\ marks' = marks \cup (IF stop THEN {"skipped"} ELSE {})
    /\ periodic_trigger' = IF cnt = "error" THEN FALSE ELSE periodic_trigger
    /\ UNCHANGED <<now, net, cnt, pkt, t_now, t_start, alarm, done, fs, k, disk, launcher, hist>>

Listed(s) == \E i \in DOMAIN fs : fs[i] = s

\* A packet of an unknown sender without -M.
Ignore == /\ At("dispatch") /\ cnt = "data" /\ ~Listed(pkt) /\ ~net.dynamic
          /\ Goto("top")
          /\ UNCHANGED <<now, net, cnt, pkt, timeVars, done, fs, k, disk, launcher, hist, marks>>

\* The records of a packet go to the buffer of a source; a full buffer is
\* written first, and when that fails the rest of the packet is given up.
Buffered(d, s, ok) ==
    LET r == Len(sent) + 1
        full == Cardinality(d.src[s].buffer) = BufferSize
        w == IF full THEN Written(d, s, ok) ELSE d
    IN IF full /\ w.src[s].buffer # {} THEN [d EXCEPT !.lost = @ \cup {r}]
       ELSE [w EXCEPT !.src[s].buffer = @ \cup {r}]

Note(s) == sent' = Append(sent, [src |-> s, time |-> t_now])

Process ==
    /\ At("dispatch") /\ cnt = "data" /\ Listed(pkt)
    /\ \E ok \in BOOLEAN : /\ Allowed(Faults(ok))
                           /\ SetDisk(Buffered(Disk, pkt, ok))
    /\ Note(pkt)
    /\ Goto("top")
    /\ UNCHANGED <<now, net, cnt, pkt, timeVars, done, fs, k, launcher, since, marks>>

\* AddDynamicSource: a source without a file ends the collector.
AddSource ==
    /\ At("dispatch") /\ cnt = "data" /\ ~Listed(pkt) /\ net.dynamic
    /\ fs' = Append(fs, pkt)
    /\ since' = [since EXCEPT ![pkt] = t_start]
    /\ \/ /\ Allowed(0)
          /\ SetDisk(Buffered(Opened(Disk, pkt, "ok"), pkt, TRUE))
          /\ Note(pkt) /\ Goto("top") /\ UNCHANGED marks
       \/ /\ Allowed(1)
          /\ SetDisk(Opened(Disk, pkt, "nofile"))
          /\ Goto("end") /\ marks' = marks \cup {"fatal"} /\ UNCHANGED sent
    /\ UNCHANGED <<now, net, cnt, pkt, timeVars, done, k, launcher>>

-----------------------------------------------------------------------------
Step == \/ Top \/ Call \/ Test \/ Rotate \/ NextSlot
        \/ NoData \/ Ignore \/ Process \/ AddSource

Next == Tick \/ Alarm \/ Terminate \/ LauncherDies \/ Receive \/ ReceiveFails \/ Step

\* Time passes, the alarm is delivered and the loop goes on; neither packets nor
\* signals to stop need come.
Fairness == WF_vars(Tick) /\ WF_vars(Alarm) /\ WF_vars(Step)

Spec == Init /\ [][Next]_vars /\ Fairness

-----------------------------------------------------------------------------
(* Properties                                                              *)

Stored(s) == {t \in SlotTimes : stored[s][t] # 0}

\* Type invariant.
TypeOK ==
    /\ now \in 0..MaxClock /\ t_now \in 0..now /\ alarm \in Nat
    /\ pc \in {"top", "call", "recvfrom", "test", "rotate", "dispatch", "end"}
    /\ cnt \in {"data", "zero", "error"}
    /\ t_start \in SlotTimes /\ t_start <= now /\ launcher.told \subseteq SlotTimes
    /\ \A s \in Source : /\ src[s].buffer \subseteq DOMAIN sent /\ src[s].fd \in Fd \cup {NoFd}
                         /\ src[s].current \in 0..Len(file)
    /\ \A n \in Fd : fds[n] \in 0..Len(file)

\* Where a record is: in the buffer of a source, or in a file.
Places(r) == {<<"buffer", s>> : s \in {s \in Source : r \in src[s].buffer}}
             \cup {<<"file", i>> : i \in {i \in DOMAIN file : r \in file[i]}}
FilesOf(s) == {src[s].current} \cup {stored[s][t] : t \in SlotTimes}

\* Every record that was not given up is in one place, and that place belongs to
\* its source.  It does not hold after a file was closed for a failed write and
\* its descriptor kept: the descriptor can become that of another source.
\* And the variables have their types.
OneOwnPlace ==
    /\ TypeOK
    /\ "stale" \notin marks => \A r \in DOMAIN sent :
          \/ r \in lost /\ Places(r) = {}
          \/ /\ r \notin lost /\ Cardinality(Places(r)) = 1
             /\ Places(r) \subseteq {<<"buffer", sent[r].src>>}
                                    \cup {<<"file", i>> : i \in FilesOf(sent[r].src)}

\* Without faults a file has the packets of its slot: none that came before it,
\* and none that came after it unless the loop was kept from running for a slot.
InOwnSlot ==
    faults = 0 => \A s \in Source : \A t \in Stored(s) : \A r \in file[stored[s][t]] :
        /\ sent[r].time >= t
        /\ sent[r].time < t + Twin \/ "behind" \in marks

\* When the launcher is told of a slot, every source has its file of it, and
\* those of all slots before; the books have as many.  A collector that was
\* stopped has stored every record, except when SIGTERM comes after the test for
\* the end, while the loop handles another interrupted wait: the loop ends and
\* the last files keep their working names ("skipped").
SlotsComplete ==
    faults = 0 =>
        /\ \A i \in DOMAIN fs : LET s == fs[i] IN
              /\ \A slot \in launcher.told : \A t \in SlotTimes :
                    since[s] <= t /\ t <= slot => t \in Stored(s)
              /\ src[s].books = Cardinality(Stored(s))
        /\ pc = "end" /\ "skipped" \notin marks =>
              \A r \in DOMAIN sent :
                 \E t \in Stored(sent[r].src) : r \in file[stored[sent[r].src][t]]

\* The loop waits, and no alarm will come.
Unarmed == pc = "recvfrom" /\ alarm = 0

\* That only is excused when an alarm came between the test and the wait, or when
\* the last rotation was so late that the next alarm was due already: alarm(0) is
\* no alarm, and a negative number one in a hundred years.
Excused == marks \cap {"early", "zero", "far"} # {}

\* The alarm is due after the end of the model's time.
Beyond == alarm > MaxClock

\* collector.h: "if nfcapd does not get any data, wake up the receive system call
\* at least after OVERDUE_TIME seconds after the time window".  A slot that is
\* overdue is rotated, packets or not, but for the excuses.  And a collector that
\* is told to stop does, though the signal may come just before the wait: then
\* the alarm ends it.
Late == pc # "end" /\ now >= t_start + Twin + Overdue
SlotEnds == (Late \/ done) ~> (\/ ~Late /\ (done => pc = "end")
                               \/ Unarmed /\ Excused
                               \/ Beyond)
=============================================================================
