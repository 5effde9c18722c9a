------------------------- MODULE ReceiveLoopProofs --------------------------
(* Proofs about ReceiveLoop, for any number of flow sources, any length of a  *)
(* slot and any clock: where the records are as long as no call fails, and    *)
(* that each of them is in one place of its source when calls do fail.        *)
EXTENDS ReceiveLoop, FiniteSetTheorems, WellFoundedInduction, TLAPS

-----------------------------------------------------------------------------
(* The inductive invariant                                                    *)

\* What the variables are.
SrcType == [buffer : SUBSET Nat, books : Nat, fd : Nat, current : Nat]
Typed ==
    /\ net \in Networks /\ now \in 0..MaxClock /\ t_now \in 0..now
    /\ t_start \in SlotTimes /\ t_start <= now /\ k \in Nat
    /\ fs \in Seq(Source) /\ \A i, j \in DOMAIN fs : fs[i] = fs[j] => i = j
    /\ src \in [Source -> SrcType] /\ fds \in [Fd -> Nat] /\ file \in Seq(SUBSET Nat)
    /\ stored \in [Source -> [SlotTimes -> Nat]]
    /\ sent \in Seq([src : Source, time : Nat])
    /\ since \in [Source -> SlotTimes]

\* Only records that came are kept.
Known == /\ \A s \in Source : src[s].buffer \subseteq DOMAIN sent
         /\ \A i \in DOMAIN file : file[i] \subseteq DOMAIN sent

\* A source that the rotation has been at.
Rotated(s) == \/ pc = "rotate" /\ \E i \in DOMAIN fs : i < k /\ fs[i] = s
              \/ pc = "end" /\ "skipped" \notin marks /\ Listed(s)

\* Files and descriptors: an open file is one source's, has not been renamed, and
\* the source's descriptor is its own.
FilesApart ==
    /\ \A s \in Source : src[s].current <= Len(file)
    /\ \A s \in Source : \A t \in SlotTimes : stored[s][t] <= Len(file)
    /\ \A s \in Source : src[s].current # 0 =>
          /\ src[s].fd \in Fd /\ fds[src[s].fd] = src[s].current
          /\ \A o \in Source : o # s => src[o].current # src[s].current
          /\ \A o \in Source : \A t \in SlotTimes : stored[o][t] # src[s].current
    /\ \A n \in Fd : fds[n] # 0 => \E s \in Source : Listed(s) /\ src[s].fd = n

\* A source that is not listed has nothing; a listed one has an open file, except
\* in the last rotation, and nothing in it after a rotation.
SourcesOpen ==
    \A s \in Source :
       /\ ~Listed(s) => src[s].buffer = {} /\ src[s].current = 0
       /\ Listed(s) /\ ~Rotated(s) => src[s].current # 0
       /\ Listed(s) /\ src[s].current = 0 => done
       /\ Rotated(s) => /\ src[s].buffer = {}
                        /\ src[s].current # 0 => file[src[s].current] = {}

\* What is not stored yet came in the slot, or the loop is behind.
InSlot(r) == /\ sent[r].time >= t_start
             /\ sent[r].time < t_start + Twin \/ "behind" \in marks
Unstored(s) == src[s].buffer \cup (IF src[s].current = 0 THEN {} ELSE file[src[s].current])
OpenInSlot == \A s \in Source : \A r \in Unstored(s) : InSlot(r)

\* The clock of the loop.
Clocked ==
    /\ pc = "rotate" => /\ k >= 1
                        /\ ~done => t_now >= t_start + Twin
                        /\ t_now < t_start + 2 * Twin \/ "behind" \in marks
    /\ pc = "dispatch" => /\ t_now >= t_start
                          /\ t_now < t_start + Twin \/ "behind" \in marks

\* What recvfrom returned.
Packet == cnt = "data" => pkt \in Source

\* A source has a file of every slot since it was added, and of no other.
StoredSlots ==
    \A s \in Source :
       /\ Listed(s) => since[s] <= t_start
       /\ \A t \in SlotTimes :
             stored[s][t] # 0 <=> /\ Listed(s) /\ since[s] <= t
                                  /\ t < t_start \/ (t = t_start /\ Rotated(s))
       /\ IsFiniteSet(Stored(s)) /\ src[s].books = Cardinality(Stored(s))

StoredInSlot ==
    \A s \in Source : \A t \in Stored(s) : \A r \in file[stored[s][t]] :
       /\ sent[r].time >= t
       /\ sent[r].time < t + Twin \/ "behind" \in marks

\* No record is missing.
Somewhere(r) == LET s == sent[r].src IN
                \/ r \in Unstored(s)
                \/ \E t \in Stored(s) : r \in file[stored[s][t]]
AllSomewhere == \A r \in DOMAIN sent : Somewhere(r)

\* The launcher is told of a slot when it is over.
ToldOver ==
    /\ "skipped" \in marks => pc = "end"
    /\ \A slot \in launcher.told :
          /\ slot \in SlotTimes
          /\ slot < t_start \/ (slot = t_start /\ pc = "end" /\ "skipped" \notin marks)

Sound == /\ Typed /\ Known /\ FilesApart /\ SourcesOpen /\ OpenInSlot /\ Clocked
         /\ StoredSlots /\ StoredInSlot /\ AllSomewhere /\ ToldOver
         /\ Packet
IInv == faults \in Nat /\ (faults = 0 => Sound)

-----------------------------------------------------------------------------
(* Slots                                                                      *)

LEMMA Bounds == /\ NSources \in Nat /\ MaxFaults \in Nat /\ MaxClock \in Nat
                /\ Twin \in Nat /\ Twin > 0 /\ Overdue \in Nat /\ Overdue > 0
BY SlotsAssumption, NetworksAssumption

LEMMA SlotIsNat == SlotTimes \subseteq Nat /\ 0 \in SlotTimes
<1>1. 0 = 0 * Twin BY Bounds
<1> QED BY <1>1, Bounds DEF SlotTimes

LEMMA TimesGrow == ASSUME NEW i \in Nat, NEW j \in Nat, NEW c \in Nat, i <= j
                   PROVE  i * c <= j * c
<1>1. PICK d \in Nat : j = i + d BY j - i \in Nat, j = i + (j - i)
<1>2. j * c = i * c + d * c BY <1>1
<1>3. d * c \in Nat /\ i * c \in Nat OBVIOUS
<1> QED BY <1>2, <1>3

\* The slot after a slot that is over, and that there is none between them.
LEMMA NextSlotTime == ASSUME NEW t \in SlotTimes, t + Twin <= MaxClock
                      PROVE  t + Twin \in SlotTimes
<1>1. PICK i \in 0..MaxClock : t = i * Twin BY DEF SlotTimes
<1>2. t + Twin = (i + 1) * Twin BY <1>1, Bounds
<1>3. i <= t
  <2>1. i * 1 <= i * Twin BY Bounds
  <2> QED BY <1>1, <2>1, Bounds
<1>4. i + 1 \in 0..MaxClock BY <1>3, Bounds, SlotIsNat
<1>5. t + Twin \in 0..MaxClock BY Bounds, SlotIsNat
<1> QED BY <1>2, <1>4, <1>5 DEF SlotTimes

LEMMA NoSlotBetween == ASSUME NEW t \in SlotTimes, NEW u \in SlotTimes, t < u + Twin
                       PROVE  t <= u
<1>1. PICK i \in 0..MaxClock : t = i * Twin BY DEF SlotTimes
<1>2. PICK j \in 0..MaxClock : u = j * Twin BY DEF SlotTimes
<1>3. CASE i <= j BY <1>1, <1>2, <1>3, TimesGrow, Bounds
<1>4. CASE i > j
  <2>1. (j + 1) * Twin <= i * Twin BY <1>4, TimesGrow, Bounds
  <2>2. (j + 1) * Twin = j * Twin + Twin BY Bounds
  <2> QED BY <1>1, <1>2, <2>1, <2>2, SlotIsNat, Bounds
<1> QED BY <1>3, <1>4

-----------------------------------------------------------------------------
(* Steps that leave the disk and the slot alone                               *)

diskVars == <<net, fs, src, fds, file, stored, sent, since, t_start>>

LEMMA QuietStep ==
    ASSUME Sound, UNCHANGED diskVars,
           now' \in 0..MaxClock, now <= now', t_now' \in 0..now', k' \in Nat,
           done => done', "behind" \in marks => "behind" \in marks',
           \A s \in Source : Rotated(s)' <=> Rotated(s),
           Clocked', ToldOver', Packet'
    PROVE  Sound'
<1>1. Typed' BY SlotIsNat, Bounds DEF Typed, Sound, diskVars
<1>2. Known' BY DEF Known, Sound, diskVars
<1>3. FilesApart' BY DEF FilesApart, Sound, diskVars, Listed
<1>4. SourcesOpen' BY DEF SourcesOpen, Sound, diskVars, Listed
<1>5. OpenInSlot' BY DEF OpenInSlot, Sound, diskVars, InSlot, Unstored
<1>6. StoredSlots' BY DEF StoredSlots, Sound, diskVars, Listed, Stored
<1>7. StoredInSlot' BY DEF StoredInSlot, Sound, diskVars, Stored
<1>8. AllSomewhere' BY DEF AllSomewhere, Somewhere, Sound, diskVars, Unstored, Stored
<1> QED BY <1>1, <1>2, <1>3, <1>4, <1>5, <1>6, <1>7, <1>8 DEF Sound

LEMMA ElementOf == ASSUME NEW S, NEW q \in Seq(S), NEW i \in DOMAIN q PROVE q[i] \in S
OBVIOUS

LEMMA SentType == ASSUME Sound, NEW r \in DOMAIN sent
                  PROVE  sent[r].src \in Source /\ sent[r].time \in Nat
<1>1. sent \in Seq([src : Source, time : Nat]) BY DEF Sound, Typed
<1>2. sent[r] \in [src : Source, time : Nat] BY <1>1, ElementOf
<1> QED BY <1>2

\* A step between the places of the loop, or none, with nothing rotated.
LEMMA MoveStep ==
    ASSUME Sound, UNCHANGED diskVars, now' = now, t_now' = t_now, k' = k, done => done',
           pc # "end", pc' = pc \/ (pc # "rotate" /\ pc' \in {"top", "call", "recvfrom", "test"}),
           marks' = marks \/ marks' = marks \cup {"early"}, launcher'.told = launcher.told,
           Packet'
    PROVE  Sound'
<1>1. now' \in 0..MaxClock /\ now <= now' /\ t_now' \in 0..now' /\ k' \in Nat
  BY Bounds DEF Sound, Typed
<1>2. \A s \in Source : Rotated(s)' <=> Rotated(s) BY DEF Rotated, diskVars
<1>3. Clocked' BY DEF Clocked, Sound, diskVars
<1>4. ToldOver' BY DEF ToldOver, Sound, diskVars
<1>5. "behind" \in marks => "behind" \in marks' OBVIOUS
<1> QED BY <1>1, <1>2, <1>3, <1>4, <1>5, QuietStep

LEMMA SignalSteps ==
    ASSUME Sound, Alarm \/ Terminate \/ LauncherDies \/ Top \/ Call \/ Receive \/ Ignore
    PROVE  Sound'
<1>1. CASE Alarm
  BY <1>1, MoveStep DEF Alarm, Interrupt, Packet, Sound, diskVars, disk, hist
<1>2. CASE Terminate
  BY <1>2, MoveStep DEF Terminate, Interrupt, Packet, Sound, diskVars, disk, hist, timeVars
<1>3. CASE LauncherDies
  BY <1>3, MoveStep DEF LauncherDies, Interrupt, Packet, Sound, diskVars, disk, hist, timeVars
<1>4. CASE Top BY <1>4, MoveStep DEF Top, At, Goto, Packet, Sound, diskVars, disk, hist, timeVars
<1>5. CASE Call BY <1>5, MoveStep DEF Call, At, Goto, Packet, Sound, diskVars, disk, hist, timeVars
<1>6. CASE Receive BY <1>6, MoveStep DEF Receive, At, Goto, Packet, Sound, diskVars, disk, hist, timeVars
<1>7. CASE Ignore BY <1>7, MoveStep DEF Ignore, At, Goto, Packet, Sound, diskVars, disk, hist, timeVars
<1> QED BY <1>1, <1>2, <1>3, <1>4, <1>5, <1>6, <1>7

LEMMA TickStep == ASSUME Sound, Tick PROVE Sound'
<1>1. /\ UNCHANGED diskVars /\ pc' = pc /\ marks' = marks /\ k' = k /\ done' = done
      /\ t_now' = t_now /\ launcher' = launcher
  BY DEF Tick, diskVars, disk, hist, timeVars
<1>2. now' \in 0..MaxClock /\ now <= now' /\ t_now' \in 0..now' /\ k' \in Nat
  BY <1>1, Bounds DEF Tick, Sound, Typed
<1>3. \A s \in Source : Rotated(s)' <=> Rotated(s) BY <1>1 DEF Rotated, Listed, diskVars
<1>4. Clocked' BY <1>1 DEF Clocked, Sound, diskVars
<1>5. ToldOver' BY <1>1 DEF ToldOver, Sound, diskVars
<1>6. Packet' BY DEF Tick, Packet, Sound
<1> QED BY <1>1, <1>2, <1>3, <1>4, <1>5, <1>6, QuietStep

LEMMA TestStep == ASSUME Sound, Test PROVE Sound'
<1>1. /\ UNCHANGED diskVars /\ now' = now /\ done' = done /\ launcher' = launcher
      /\ pc = "test" /\ t_now' = now
  BY DEF Test, At, diskVars, disk, hist
<1>2. /\ pc' \in {"rotate", "dispatch"} /\ k' \in {1, k}
      /\ pc' = "rotate" => k' = 1 /\ (done \/ now - t_start >= Twin)
      /\ pc' = "dispatch" => now - t_start < Twin
      /\ marks' = marks \cup (IF now - t_start >= 2 * Twin THEN {"behind"} ELSE {})
  <2>1. now - t_start \in Int BY SlotIsNat DEF Sound, Typed
  <2> QED BY <2>1, Bounds DEF Test, Goto
<1>3. now \in Nat /\ t_start \in Nat /\ t_start <= now /\ now \in 0..MaxClock
  BY SlotIsNat DEF Sound, Typed
<1>4. now' \in 0..MaxClock /\ now <= now' /\ t_now' \in 0..now' /\ k' \in Nat
  BY <1>1, <1>2, <1>3 DEF Sound, Typed
<1>5. \A s \in Source : Rotated(s)' <=> Rotated(s)
  <2> SUFFICES ASSUME NEW s \in Source PROVE ~Rotated(s)' /\ ~Rotated(s)
    OBVIOUS
  <2>1. ~Rotated(s) BY <1>1 DEF Rotated
  <2>2. ~(\E i \in DOMAIN fs : i < 1 /\ fs[i] = s) BY DEF Sound, Typed
  <2>3. ~Rotated(s)' BY <1>1, <1>2, <2>2 DEF Rotated, diskVars
  <2> QED BY <2>1, <2>3
<1>6. Clocked'
  <2>1. "behind" \in marks' \/ now < t_start + 2 * Twin BY <1>2, <1>3, Bounds
  <2>2. CASE pc' = "rotate" BY <1>1, <1>2, <1>3, <2>1, <2>2, Bounds DEF Clocked, diskVars
  <2>3. CASE pc' = "dispatch" BY <1>1, <1>2, <1>3, <2>3, Bounds DEF Clocked, diskVars
  <2> QED BY <1>2, <2>2, <2>3
<1>7. ToldOver' BY <1>1, <1>2 DEF ToldOver, Sound, diskVars
<1>8. Packet' BY DEF Test, Packet, Sound
<1> QED BY <1>1, <1>2, <1>4, <1>5, <1>6, <1>7, <1>8, QuietStep

LEMMA NoDataStep == ASSUME Sound, NoData PROVE Sound'
<1>1. /\ UNCHANGED diskVars /\ now' = now /\ done' = done /\ launcher' = launcher
      /\ pc = "dispatch" /\ t_now' = t_now /\ k' = k
  BY DEF NoData, At, diskVars, disk, hist
<1>2. \/ pc' = "end" /\ marks' = marks \cup {"skipped"}
      \/ pc' = "top" /\ marks' = marks
  BY DEF NoData, Goto
<1>3. now' \in 0..MaxClock /\ now <= now' /\ t_now' \in 0..now' /\ k' \in Nat
  BY <1>1, Bounds DEF Sound, Typed
<1>4. \A s \in Source : Rotated(s)' <=> Rotated(s) BY <1>1, <1>2 DEF Rotated
<1>5. Clocked' BY <1>1, <1>2 DEF Clocked
<1>6. ToldOver' BY <1>1, <1>2 DEF ToldOver, Sound, diskVars
<1>7. "behind" \in marks => "behind" \in marks' BY <1>2
<1>8. Packet' BY DEF NoData, Packet, Sound
<1> QED BY <1>1, <1>3, <1>4, <1>5, <1>6, <1>7, <1>8, QuietStep

LEMMA InitSound == Init => IInv
<1> SUFFICES ASSUME Init PROVE Sound
  <2>1. Init => faults = 0 BY DEF Init
  <2> QED BY <2>1 DEF IInv
<1> USE Bounds, SlotIsNat
<1>0. net \in Networks /\ net.static \in 0..NSources BY NetworksAssumption DEF Init
<1>1. /\ now = 0 /\ t_now = 0 /\ t_start = 0 /\ k = 0 /\ pc = "top" /\ marks = {}
      /\ sent = <<>> /\ launcher.told = {}
  BY DEF Init
<1>2. /\ DOMAIN fs = 1..net.static /\ \A i \in 1..net.static : fs[i] = i
      /\ fs \in Seq(Source)
  <2>1. fs = [i \in 1..net.static |-> i] BY DEF Init
  <2>2. fs \in [1..net.static -> Source] BY <1>0, <2>1 DEF Source
  <2> QED BY <1>0, <2>1, <2>2
<1>3. \A s \in Source : Listed(s) <=> s <= net.static BY <1>0, <1>2 DEF Listed, Source
<1>4. \A s \in Source : src[s] = [buffer |-> {}, books |-> 0,
                                  fd |-> IF s <= net.static THEN s ELSE NoFd,
                                  current |-> IF s <= net.static THEN s ELSE 0]
  BY DEF Init
<1>5. \A s \in Source : /\ src[s].buffer = {} /\ src[s].books = 0
                        /\ src[s].fd = IF s <= net.static THEN s ELSE NoFd
                        /\ src[s].current = IF s <= net.static THEN s ELSE 0
  <2> SUFFICES ASSUME NEW s \in Source
               PROVE  /\ src[s].buffer = {} /\ src[s].books = 0
                      /\ src[s].fd = IF s <= net.static THEN s ELSE NoFd
                      /\ src[s].current = IF s <= net.static THEN s ELSE 0
    OBVIOUS
  <2>1. PICK a, b : /\ a = IF s <= net.static THEN s ELSE NoFd
                    /\ b = IF s <= net.static THEN s ELSE 0
    OBVIOUS
  <2>2. src[s] = [buffer |-> {}, books |-> 0, fd |-> a, current |-> b] BY <1>4, <2>1
  <2> QED BY <2>1, <2>2
<1>6. DOMAIN file = 1..net.static /\ Len(file) = net.static
      /\ (\A i \in 1..net.static : file[i] = {}) /\ file \in Seq(SUBSET Nat)
  <2>1. file = [i \in 1..net.static |-> {}] BY DEF Init
  <2>2. file \in [1..net.static -> SUBSET Nat] BY <2>1
  <2> QED BY <1>0, <2>1, <2>2
<1>7. stored = [s \in Source |-> [t \in SlotTimes |-> 0]] BY DEF Init
<1>8. \A s \in Source : Stored(s) = {} BY <1>7 DEF Stored
<1>9. \A s \in Source : ~Rotated(s) BY <1>1 DEF Rotated
<1>10. Typed
  <2>1. src \in [Source -> SrcType]
    <3>1. ASSUME NEW s \in Source PROVE src[s] \in SrcType
      <4>1. PICK a \in Nat : a = IF s <= net.static THEN s ELSE 0 BY <1>0 DEF Source
      <4>2. src[s] = [buffer |-> {}, books |-> 0, fd |-> a, current |-> a]
        BY <1>4, <4>1 DEF NoFd
      <4> QED BY <4>2 DEF SrcType
    <3> QED BY <3>1 DEF Init
  <2>2. fds \in [Fd -> Nat] BY <1>0 DEF Init, Fd
  <2>3. since \in [Source -> SlotTimes] BY DEF Init
  <2> QED BY <1>0, <1>1, <1>2, <1>6, <1>7, <2>1, <2>2, <2>3 DEF Typed
<1>11. Known BY <1>5, <1>6 DEF Known
<1>12. FilesApart
  <2>1. \A s \in Source : src[s].current <= Len(file) BY <1>0, <1>5, <1>6 DEF Source
  <2>2. \A s \in Source : \A t \in SlotTimes : stored[s][t] = 0 BY <1>7
  <2>3. \A n \in Fd : fds[n] = IF n <= net.static THEN n ELSE 0 BY DEF Init
  <2>4. ASSUME NEW s \in Source, src[s].current # 0
        PROVE  /\ src[s].fd \in Fd /\ fds[src[s].fd] = src[s].current
               /\ \A o \in Source : o # s => src[o].current # src[s].current
    BY <1>0, <1>5, <2>3, <2>4 DEF Source, Fd
  <2>5. ASSUME NEW n \in Fd, fds[n] # 0
        PROVE  n \in Source /\ Listed(n) /\ src[n].fd = n
    BY <1>0, <1>3, <1>5, <2>3, <2>5 DEF Source, Fd
  <2>6. \A s \in Source : \A t \in SlotTimes : stored[s][t] <= Len(file)
    BY <1>0, <1>6, <2>2
  <2>7. \A s \in Source : src[s].current # 0 =>
           \A o \in Source : \A t \in SlotTimes : stored[o][t] # src[s].current
    BY <2>2
  <2>8. \A n \in Fd : fds[n] # 0 => \E s \in Source : Listed(s) /\ src[s].fd = n
    BY <2>5
  <2>9. \A s \in Source : src[s].current # 0 =>
           /\ src[s].fd \in Fd /\ fds[src[s].fd] = src[s].current
           /\ \A o \in Source : o # s => src[o].current # src[s].current
    BY <2>4
  <2> QED BY <2>1, <2>6, <2>7, <2>8, <2>9 DEF FilesApart
<1>13. SourcesOpen BY <1>0, <1>3, <1>5, <1>9 DEF SourcesOpen, Source
<1>14. OpenInSlot
  <2> SUFFICES ASSUME NEW s \in Source PROVE Unstored(s) = {}
    BY DEF OpenInSlot
  <2> QED BY <1>0, <1>5, <1>6 DEF Unstored, Source
<1>15. Clocked BY <1>1 DEF Clocked
<1>16. StoredSlots
  <2>1. \A s \in Source : since[s] = 0 BY DEF Init
  <2>2. \A s \in Source : IsFiniteSet(Stored(s)) /\ src[s].books = Cardinality(Stored(s))
    BY <1>5, <1>8, FS_EmptySet
  <2>3. \A s \in Source : \A t \in SlotTimes : stored[s][t] = 0 BY <1>7
  <2> QED BY <1>1, <1>9, <2>1, <2>2, <2>3 DEF StoredSlots
<1>17. StoredInSlot BY <1>8 DEF StoredInSlot
<1>18. AllSomewhere BY <1>1 DEF AllSomewhere
<1>19. ToldOver BY <1>1 DEF ToldOver
<1>20. Packet BY DEF Init, Packet
<1> QED BY <1>10, <1>11, <1>12, <1>13, <1>14, <1>15, <1>16, <1>17, <1>18, <1>19, <1>20 DEF Sound

\* The end of a rotation: every source has been rotated.
LEMMA NextSlotStep == ASSUME Sound, NextSlot PROVE Sound'
<1> USE Bounds, SlotIsNat
<1>1. /\ UNCHANGED <<net, fs, src, fds, file, stored, sent, since, now, t_now, k, done>>
      /\ pc = "rotate" /\ k > Len(fs)
      /\ launcher'.told \in {launcher.told, launcher.told \cup {t_start}}
  BY DEF NextSlot, At, disk, hist
<1>2. \/ done /\ pc' = "end" /\ t_start' = t_start /\ marks' = marks
      \/ /\ ~done /\ pc' = "dispatch" /\ t_start' = t_start + Twin
         /\ "behind" \in marks <=> "behind" \in marks'
         /\ "skipped" \in marks <=> "skipped" \in marks'
  BY DEF NextSlot, Goto
<1>3. \A s \in Source : Listed(s)' <=> Listed(s) BY <1>1 DEF Listed
<1>4. \A s \in Source : Listed(s) <=> Rotated(s)
  BY <1>1 DEF Sound, Typed, Rotated, Listed
<1>5. "skipped" \notin marks BY <1>1 DEF Sound, ToldOver
<1>6. Packet' BY DEF NextSlot, Packet, Sound
<1>7. CASE done
  <2>1. pc' = "end" /\ t_start' = t_start /\ marks' = marks BY <1>2, <1>7
  <2>2. \A s \in Source : Rotated(s)' <=> Rotated(s) BY <1>3, <1>4, <1>5, <2>1 DEF Rotated
  <2>3. Clocked' BY <2>1 DEF Clocked
  <2>4. ToldOver' BY <1>1, <1>5, <2>1 DEF ToldOver, Sound, Typed
  <2>5. now' \in 0..MaxClock /\ now <= now' /\ t_now' \in 0..now' /\ k' \in Nat
    BY <1>1 DEF Sound, Typed
  <2> QED BY <1>1, <1>6, <2>1, <2>2, <2>3, <2>4, <2>5, QuietStep DEF diskVars
<1>8. CASE ~done
  <2>1. /\ pc' = "dispatch" /\ t_start' = t_start + Twin
        /\ "behind" \in marks <=> "behind" \in marks'
        /\ "skipped" \notin marks'
    BY <1>2, <1>5, <1>8
  <2>2. t_now < t_start + 2 * Twin \/ "behind" \in marks
    BY <1>1, <1>8 DEF Sound, Clocked
  <2>3. t_now \in Nat /\ t_start \in Nat /\ now \in Nat /\ t_now <= now /\ now <= MaxClock
    BY DEF Sound, Typed
  <2>4. t_now >= t_start + Twin BY <1>1, <1>8 DEF Sound, Clocked
  <2>5. t_start' \in SlotTimes /\ t_start' <= now'
    BY <1>1, <2>1, <2>3, <2>4, NextSlotTime DEF Sound, Typed
  <2>6. \A s \in Source : ~Rotated(s)' BY <2>1 DEF Rotated
  <2>7. \A s \in Source : Unstored(s)' = {}
    <3>1. \A s \in Source : Unstored(s) = {}
      BY <1>4 DEF Sound, SourcesOpen, Unstored
    <3> QED BY <1>1, <3>1 DEF Unstored
  <2>8. Typed' BY <1>1, <2>5 DEF Typed, Sound
  <2>9. Known' BY <1>1 DEF Known, Sound
  <2>10. FilesApart' BY ZenonT(40), <1>1, <1>3 DEF FilesApart, Sound
  <2>11. SourcesOpen' BY <1>1, <1>3, <1>4, <1>8, <2>6 DEF SourcesOpen, Sound
  <2>12. OpenInSlot' BY <2>7 DEF OpenInSlot
  <2>13. Clocked' BY <1>1, <2>1, <2>2, <2>3, <2>4 DEF Clocked
  <2>14. StoredSlots'
    <3> SUFFICES ASSUME NEW s \in Source
                 PROVE  /\ Listed(s)' => since'[s] <= t_start'
                        /\ \A t \in SlotTimes :
                              stored'[s][t] # 0 <=> /\ Listed(s)' /\ since'[s] <= t
                                                    /\ t < t_start' \/ (t = t_start' /\ Rotated(s)')
                        /\ IsFiniteSet(Stored(s)') /\ src'[s].books = Cardinality(Stored(s)')
      BY DEF StoredSlots
    <3>1. Stored(s)' = Stored(s) BY <1>1 DEF Stored
    <3>2. IsFiniteSet(Stored(s)') /\ src'[s].books = Cardinality(Stored(s)')
      BY <1>1, <3>1 DEF Sound, StoredSlots
    <3>3. since[s] \in Nat BY DEF Sound, Typed
    <3>4. Listed(s)' => since'[s] <= t_start'
      BY <1>1, <1>3, <2>1, <2>3, <3>3 DEF Sound, StoredSlots
    <3>5. ASSUME NEW t \in SlotTimes
          PROVE  stored'[s][t] # 0 <=> /\ Listed(s)' /\ since'[s] <= t
                                       /\ t < t_start' \/ (t = t_start' /\ Rotated(s)')
      <4>1. stored[s][t] # 0 <=> /\ Listed(s) /\ since[s] <= t
                                 /\ t < t_start \/ (t = t_start /\ Rotated(s))
        BY DEF Sound, StoredSlots
      <4>2. t \in Nat OBVIOUS
      <4>3. t < t_start + Twin <=> t <= t_start
        BY <2>3, <4>2, NoSlotBetween DEF Sound, Typed
      <4> QED BY <1>1, <1>3, <1>4, <2>1, <2>3, <2>6, <4>1, <4>2, <4>3
    <3> QED BY <3>2, <3>4, <3>5
  <2>15. StoredInSlot' BY <1>1, <2>1 DEF StoredInSlot, Sound, Stored
  <2>16. AllSomewhere'
    <3> SUFFICES ASSUME NEW r \in DOMAIN sent PROVE Somewhere(r)'
      BY <1>1 DEF AllSomewhere
    <3>1. sent[r].src \in Source BY SentType
    <3>2. Somewhere(r) BY DEF Sound, AllSomewhere
    <3> QED BY <1>1, <3>1, <3>2 DEF Somewhere, Unstored, Stored
  <2>17. ToldOver'
    <3>1. \A slot \in launcher.told : slot \in SlotTimes /\ slot <= t_start
      <4> SUFFICES ASSUME NEW slot \in launcher.told
                   PROVE  slot \in SlotTimes /\ slot <= t_start
        OBVIOUS
      <4>1. slot \in SlotTimes /\ (slot < t_start \/ slot = t_start) BY DEF Sound, ToldOver
      <4>2. slot \in Nat BY <4>1
      <4> QED BY <2>3, <4>1, <4>2
    <3>2. t_start \in SlotTimes BY DEF Sound, Typed
    <3>3. \A slot \in launcher'.told : slot \in SlotTimes /\ slot <= t_start
      BY <1>1, <2>3, <3>1, <3>2
    <3>4. \A slot \in launcher'.told : slot \in SlotTimes /\ slot < t_start'
      <4> SUFFICES ASSUME NEW slot \in launcher'.told
                   PROVE  slot \in SlotTimes /\ slot < t_start'
        OBVIOUS
      <4>1. slot \in Nat /\ slot <= t_start BY <3>3
      <4> QED BY <2>1, <2>3, <3>3, <4>1
    <3> QED BY <2>1, <3>4 DEF ToldOver
  <2> QED BY <2>8, <2>9, <2>10, <2>11, <2>12, <2>13, <2>14, <2>15, <2>16, <2>17, <1>6 DEF Sound
<1> QED BY <1>7, <1>8

-----------------------------------------------------------------------------
(* Steps of one source, when no call fails                                    *)

\* What a source with an open file has.
LEMMA OpenSource ==
    ASSUME Sound, NEW s \in Source, src[s].current # 0
    PROVE  /\ src[s] \in SrcType
           /\ src[s].fd \in Fd /\ src[s].fd # NoFd /\ fds[src[s].fd] = src[s].current
           /\ src[s].current \in DOMAIN file
<1>1. src[s] \in SrcType BY DEF Sound, Typed
<1>2. src[s].fd \in Fd /\ fds[src[s].fd] = src[s].current BY DEF Sound, FilesApart
<1>3. src[s].fd # NoFd BY <1>2, Bounds DEF Fd, NoFd
<1>4. src[s].current \in Nat BY <1>1 DEF SrcType
<1>5. file \in Seq(SUBSET Nat) BY DEF Sound, Typed
<1>6. src[s].current <= Len(file) BY DEF Sound, FilesApart
<1>7. src[s].current \in DOMAIN file BY <1>4, <1>5, <1>6
<1> QED BY <1>1, <1>2, <1>3, <1>7

\* WriteBlock moves the buffer of an open file into it.
LEMMA WrittenIs ==
    ASSUME Sound, NEW s \in Source, src[s].current # 0
    PROVE  Written(Disk, s, TRUE) =
             [src |-> [src EXCEPT ![s].buffer = {}], fds |-> fds,
              file |-> [file EXCEPT ![src[s].current] = @ \cup src[s].buffer],
              stored |-> stored, lost |-> lost]
<1>1. src[s].fd # NoFd /\ fds[src[s].fd] = src[s].current BY OpenSource
<1>2. Writable(Disk, s, TRUE) BY <1>1 DEF Writable, Disk
<1>3. Disk = [src |-> src, fds |-> fds, file |-> file, stored |-> stored, lost |-> lost]
  BY DEF Disk
<1> QED BY <1>1, <1>2, <1>3 DEF Written

LEMMA ProcessEffect ==
    ASSUME Sound, Process, faults \in Nat, faults' = 0
    PROVE  /\ pkt \in Source /\ src[pkt].current # 0 /\ Listed(pkt)
           /\ fds' = fds /\ stored' = stored
           /\ \/ file' = file /\ src' = [src EXCEPT ![pkt].buffer = @ \cup {Len(sent) + 1}]
              \/ /\ file' = [file EXCEPT ![src[pkt].current] = @ \cup src[pkt].buffer]
                 /\ src' = [src EXCEPT ![pkt].buffer = {Len(sent) + 1}]
<1>1. Listed(pkt) /\ pc = "dispatch" BY DEF Process, At
<1>2. pkt \in Source
  <2>1. PICK i \in DOMAIN fs : fs[i] = pkt BY <1>1 DEF Listed
  <2>2. fs \in Seq(Source) BY DEF Sound, Typed
  <2> QED BY <2>1, <2>2, ElementOf
<1>3. src[pkt].current # 0 BY <1>1, <1>2 DEF Sound, SourcesOpen, Rotated
<1>4. SetDisk(Buffered(Disk, pkt, TRUE))
  <2>1. PICK ok \in BOOLEAN : Allowed(Faults(ok)) /\ SetDisk(Buffered(Disk, pkt, ok))
    BY DEF Process
  <2>2. faults' = faults + Faults(ok) BY <2>1 DEF Allowed
  <2>3. Faults(ok) = 0 BY <2>2 DEF Faults
  <2>4. ok = TRUE BY <2>3 DEF Faults
  <2> QED BY <2>1, <2>4
<1>5. Disk = [src |-> src, fds |-> fds, file |-> file, stored |-> stored, lost |-> lost]
  BY DEF Disk
<1>6. src \in [Source -> SrcType] BY DEF Sound, Typed
<1>7. PICK w : w = Written(Disk, pkt, TRUE) OBVIOUS
<1>8. w = [src |-> [src EXCEPT ![pkt].buffer = {}], fds |-> fds,
           file |-> [file EXCEPT ![src[pkt].current] = @ \cup src[pkt].buffer],
           stored |-> stored, lost |-> lost]
  BY <1>2, <1>3, <1>7, WrittenIs
<1>9. w.src[pkt].buffer = {} BY <1>2, <1>6, <1>8 DEF SrcType
<1>10. CASE Cardinality(src[pkt].buffer) = BufferSize
  <2>1. Buffered(Disk, pkt, TRUE) = [w EXCEPT !.src[pkt].buffer = @ \cup {Len(sent) + 1}]
    BY <1>5, <1>7, <1>9, <1>10 DEF Buffered
  <2>2. [w.src EXCEPT ![pkt].buffer = @ \cup {Len(sent) + 1}]
          = [src EXCEPT ![pkt].buffer = {Len(sent) + 1}]
    BY <1>2, <1>6, <1>8 DEF SrcType
  <2>3. src' = [src EXCEPT ![pkt].buffer = {Len(sent) + 1}]
    BY <1>4, <1>8, <2>1, <2>2 DEF SetDisk
  <2>4. /\ fds' = fds /\ stored' = stored
        /\ file' = [file EXCEPT ![src[pkt].current] = @ \cup src[pkt].buffer]
    BY <1>4, <1>8, <2>1 DEF SetDisk
  <2> QED BY <1>1, <1>2, <1>3, <2>3, <2>4
<1>11. CASE Cardinality(src[pkt].buffer) # BufferSize
  <2>1. Buffered(Disk, pkt, TRUE) = [Disk EXCEPT !.src[pkt].buffer = @ \cup {Len(sent) + 1}]
    BY <1>5, <1>11 DEF Buffered
  <2> QED BY <1>1, <1>2, <1>3, <1>4, <1>5, <2>1 DEF SetDisk
<1> QED BY <1>10, <1>11

\* One more record.
LEMMA SentGrows ==
    ASSUME Sound, NEW s \in Source, sent' = Append(sent, [src |-> s, time |-> t_now])
    PROVE  /\ sent' \in Seq([src : Source, time : Nat])
           /\ Len(sent) \in Nat /\ DOMAIN sent = 1..Len(sent)
           /\ DOMAIN sent' = DOMAIN sent \cup {Len(sent) + 1}
           /\ \A r \in DOMAIN sent : sent'[r] = sent[r]
           /\ sent'[Len(sent) + 1].src = s /\ sent'[Len(sent) + 1].time = t_now
<1>1. sent \in Seq([src : Source, time : Nat]) /\ t_now \in Nat BY Bounds DEF Sound, Typed
<1>2. PICK e : e = [src |-> s, time |-> t_now] OBVIOUS
<1>3. e \in [src : Source, time : Nat] /\ e.src = s /\ e.time = t_now BY <1>1, <1>2
<1>4. sent' = Append(sent, e) BY <1>2
<1> QED BY <1>1, <1>3, <1>4

LEMMA ProcessStep == ASSUME Sound, Process, faults \in Nat, faults' = 0 PROVE Sound'
<1> USE Bounds, SlotIsNat
<1>0. PICK s \in Source, r \in Nat : s = pkt /\ r = Len(sent) + 1
  <2>1. pkt \in Source BY ProcessEffect
  <2>2. Len(sent) + 1 \in Nat BY DEF Sound, Typed
  <2> QED BY <2>1, <2>2
<1>1. /\ src[s].current # 0 /\ Listed(s) /\ fds' = fds /\ stored' = stored
      /\ \/ file' = file /\ src' = [src EXCEPT ![s].buffer = @ \cup {r}]
         \/ /\ file' = [file EXCEPT ![src[s].current] = @ \cup src[s].buffer]
            /\ src' = [src EXCEPT ![s].buffer = {r}]
  BY <1>0, ProcessEffect
<1>2. /\ sent' = Append(sent, [src |-> s, time |-> t_now])
      /\ UNCHANGED <<now, net, timeVars, done, fs, k, launcher, since, marks>>
      /\ pc = "dispatch" /\ pc' = "top"
  BY <1>0 DEF Process, Note, At, Goto
<1>3. /\ sent' \in Seq([src : Source, time : Nat])
      /\ Len(sent) \in Nat /\ DOMAIN sent = 1..Len(sent)
      /\ DOMAIN sent' = DOMAIN sent \cup {r} /\ r \notin DOMAIN sent
      /\ \A q \in DOMAIN sent : sent'[q] = sent[q]
      /\ sent'[r].src = s /\ sent'[r].time = t_now
  <2>1. Len(sent) \in Nat /\ DOMAIN sent = 1..Len(sent) BY <1>2, SentGrows
  <2>2. r \notin DOMAIN sent BY <1>0, <2>1
  <2>3. /\ sent' \in Seq([src : Source, time : Nat])
        /\ DOMAIN sent' = DOMAIN sent \cup {r}
        /\ sent'[r].src = s /\ sent'[r].time = t_now
    BY <1>0, <1>2, SentGrows
  <2>4. \A q \in DOMAIN sent : sent'[q] = sent[q] BY <1>2, SentGrows
  <2> QED BY <2>1, <2>2, <2>3, <2>4
<1>4. src \in [Source -> SrcType] /\ file \in Seq(SUBSET Nat) /\ r \in Nat
  BY <1>0, <1>3 DEF Sound, Typed
<1>5. src[s] \in SrcType /\ src[s].current \in DOMAIN file /\ src[s].buffer \subseteq Nat
  BY <1>1, OpenSource DEF SrcType
<1>6. /\ src' \in [Source -> SrcType]
      /\ \A o \in Source : o # s => src'[o] = src[o]
      /\ src'[s].current = src[s].current /\ src'[s].fd = src[s].fd
      /\ src'[s].books = src[s].books
      /\ src'[s].buffer = src[s].buffer \cup {r} \/ src'[s].buffer = {r}
  <2>1. PICK b \in SUBSET Nat : /\ b = src[s].buffer \cup {r} \/ b = {r}
                                /\ src' = [src EXCEPT ![s].buffer = b]
    BY <1>1, <1>4, <1>5
  <2> QED BY <1>1, <1>4, <2>1 DEF SrcType
<1>7. /\ file' \in Seq(SUBSET Nat) /\ DOMAIN file' = DOMAIN file /\ Len(file') = Len(file)
      /\ \A i \in DOMAIN file : i # src[s].current => file'[i] = file[i]
      /\ \/ file'[src[s].current] = file[src[s].current]
            /\ src'[s].buffer = src[s].buffer \cup {r}
         \/ file'[src[s].current] = file[src[s].current] \cup src[s].buffer
            /\ src'[s].buffer = {r}
  <2>1. CASE file' = file /\ src' = [src EXCEPT ![s].buffer = @ \cup {r}]
    BY <1>1, <1>4, <2>1 DEF SrcType
  <2>2. CASE /\ file' = [file EXCEPT ![src[s].current] = @ \cup src[s].buffer]
             /\ src' = [src EXCEPT ![s].buffer = {r}]
    <3>1. src'[s].buffer = {r} BY <1>1, <1>4, <2>2 DEF SrcType
    <3>2. PICK c \in DOMAIN file : c = src[s].current BY <1>5
    <3>3. file[c] \in SUBSET Nat BY <1>4, ElementOf
    <3>4. PICK e \in SUBSET Nat : e = file[c] \cup src[s].buffer BY <1>5, <3>3
    <3>5. file' = [file EXCEPT ![c] = e] BY <2>2, <3>2, <3>4
    <3>6. /\ file' \in Seq(SUBSET Nat) /\ DOMAIN file' = DOMAIN file /\ Len(file') = Len(file)
          /\ \A i \in DOMAIN file : i # c => file'[i] = file[i]
          /\ file'[c] = e
      BY <1>4, <3>2, <3>5
    <3> QED BY <3>1, <3>2, <3>4, <3>6
  <2> QED BY <1>1, <2>1, <2>2
<1>8. \A o \in Source : Listed(o)' <=> Listed(o) BY <1>2 DEF Listed
<1>9. \A o \in Source : ~Rotated(o) /\ ~Rotated(o)' BY <1>2 DEF Rotated
<1>10. Unstored(s)' = Unstored(s) \cup {r}
  BY <1>1, <1>6, <1>7 DEF Unstored
<1>11. \A o \in Source : o # s => Unstored(o)' = Unstored(o)
  <2> SUFFICES ASSUME NEW o \in Source, o # s PROVE Unstored(o)' = Unstored(o)
    OBVIOUS
  <2>1. CASE src[o].current = 0 BY <1>6, <2>1 DEF Unstored
  <2>2. CASE src[o].current # 0
    <3>1. src[o].current # src[s].current BY <1>1, <2>2 DEF Sound, FilesApart
    <3>2. src[o].current \in DOMAIN file BY <2>2, OpenSource
    <3> QED BY <1>6, <1>7, <3>1, <3>2 DEF Unstored
  <2> QED BY <2>1, <2>2
<1>12. \A o \in Source : Stored(o)' = Stored(o) BY <1>1 DEF Stored
<1>13. \A o \in Source : \A t \in Stored(o) :
          /\ stored[o][t] \in DOMAIN file /\ stored'[o][t] = stored[o][t]
          /\ file'[stored[o][t]] = file[stored[o][t]]
  <2> SUFFICES ASSUME NEW o \in Source, NEW t \in Stored(o)
               PROVE  stored[o][t] \in DOMAIN file /\ stored[o][t] # src[s].current
    BY <1>1, <1>7
  <2>1. t \in SlotTimes /\ stored[o][t] # 0 BY DEF Stored
  <2>2. stored[o][t] \in Nat /\ stored[o][t] <= Len(file)
    BY <2>1 DEF Sound, Typed, FilesApart
  <2>3. stored[o][t] # src[s].current BY <1>1, <2>1 DEF Sound, FilesApart
  <2> QED BY <1>4, <2>1, <2>2, <2>3
<1>14. Typed' BY <1>1, <1>2, <1>3, <1>6, <1>7 DEF Typed, Sound, timeVars
<1>15. Known' BY <1>1, <1>3, <1>5, <1>6, <1>7 DEF Known, Sound
<1>16. FilesApart' BY <1>1, <1>6, <1>7, <1>8 DEF FilesApart, Sound
<1>17. SourcesOpen' BY <1>1, <1>2, <1>6, <1>8, <1>9 DEF SourcesOpen, Sound
<1>18. OpenInSlot'
  <2> SUFFICES ASSUME NEW o \in Source, NEW q \in Unstored(o)' PROVE InSlot(q)'
    BY DEF OpenInSlot
  <2>1. CASE q = r BY <1>2, <1>3, <2>1 DEF Sound, Clocked, InSlot, timeVars
  <2>2. CASE q # r
    <3>1. q \in Unstored(o) BY <1>10, <1>11, <2>2
    <3>2. q \in DOMAIN sent
      <4>1. CASE src[o].current = 0 BY <3>1, <4>1 DEF Sound, Known, Unstored
      <4>2. CASE src[o].current # 0
        BY <3>1, <4>2, OpenSource DEF Sound, Known, Unstored
      <4> QED BY <4>1, <4>2
    <3>3. InSlot(q) BY <3>1 DEF Sound, OpenInSlot
    <3> QED BY <1>2, <1>3, <3>2, <3>3 DEF InSlot, timeVars
  <2> QED BY <2>1, <2>2
<1>19. Clocked' BY <1>2 DEF Clocked
<1>20. StoredSlots'
  BY <1>1, <1>2, <1>6, <1>8, <1>9, <1>12 DEF StoredSlots, Sound, timeVars
<1>21. StoredInSlot'
  <2> SUFFICES ASSUME NEW o \in Source, NEW t \in Stored(o), NEW q \in file[stored[o][t]]
               PROVE  /\ sent'[q].time >= t
                      /\ sent'[q].time < t + Twin \/ "behind" \in marks'
    BY <1>12, <1>13 DEF StoredInSlot
  <2>1. q \in DOMAIN sent BY <1>13 DEF Sound, Known
  <2> QED BY <1>2, <1>3, <2>1 DEF Sound, StoredInSlot
<1>22. AllSomewhere'
  <2> SUFFICES ASSUME NEW q \in DOMAIN sent' PROVE Somewhere(q)'
    BY DEF AllSomewhere
  <2>1. CASE q = r BY <1>3, <1>10, <2>1 DEF Somewhere
  <2>2. CASE q \in DOMAIN sent
    <3>1. PICK o \in Source : o = sent[q].src BY <2>2, SentType
    <3>2. sent'[q].src = o BY <1>3, <2>2, <3>1
    <3>3. \/ q \in Unstored(o)
          \/ \E t \in Stored(o) : q \in file[stored[o][t]]
      BY <2>2, <3>1 DEF Sound, AllSomewhere, Somewhere
    <3>4. \/ q \in Unstored(o)'
          \/ \E t \in Stored(o)' : q \in file'[stored'[o][t]]
      BY <1>10, <1>11, <1>12, <1>13, <3>3
    <3> QED BY <3>2, <3>4 DEF Somewhere
  <2> QED BY <1>3, <2>1, <2>2
<1>23. ToldOver' BY <1>2 DEF ToldOver, Sound, timeVars
<1>24. Packet' BY <1>2 DEF Process, Packet, Sound
<1> QED BY <1>14, <1>15, <1>16, <1>17, <1>18, <1>19, <1>20, <1>21, <1>22, <1>23, <1>24
        DEF Sound

-----------------------------------------------------------------------------
(* Opening files                                                              *)

\* A set of numbers that is not empty has a minimum.
LEMMA MinInSet == ASSUME NEW T \in SUBSET Nat, T # {}
                  PROVE  Min(T) \in T
<1> DEFINE less == {ss \in Nat \X Nat : ss[1] < ss[2]}
<1>1. IsWellFoundedOn(less, Nat) BY NatLessThanWellFounded DEF OpToRel
<1>2. PICK x \in T : \A y \in T : <<y, x>> \notin less BY <1>1, WFMin
<1>3. \A y \in T : ~(y < x) BY <1>2
<1>4. \E z \in T : \A y \in T : z <= y BY <1>3
<1> QED BY <1>4 DEF Min

\* A descriptor is free: every used one belongs to a source, and there are more
\* descriptors than sources.
LEMMA FreeFd == ASSUME Sound PROVE \E n \in Fd : fds[n] = 0
<1> SUFFICES ASSUME \A n \in Fd : fds[n] # 0 PROVE FALSE
  OBVIOUS
<1>1. \A n \in Fd : \E s \in Source : src[s].fd = n BY DEF Sound, FilesApart
<1>2. PICK f : f = [n \in Fd |-> CHOOSE s \in Source : src[s].fd = n] OBVIOUS
<1>3. f \in [Fd -> Source] /\ \A n \in Fd : src[f[n]].fd = n BY <1>1, <1>2
<1>4. /\ IsFiniteSet(Fd) /\ Cardinality(Fd) = NSources + MaxFaults + 1
      /\ IsFiniteSet(Source) /\ Cardinality(Source) = NSources
  BY Bounds, FS_Interval DEF Fd, Source
<1>5. Cardinality(Source) < Cardinality(Fd) BY <1>4, Bounds
<1>6. \E x, y \in Fd : x # y /\ f[x] = f[y] BY <1>3, <1>4, <1>5, FS_PigeonHole
<1> QED BY <1>3, <1>6

LEMMA AddSourceEffect ==
    ASSUME Sound, AddSource, faults \in Nat, faults' = 0
    PROVE  /\ pkt \in Source /\ ~Listed(pkt)
           /\ stored' = stored /\ file' = Append(file, {})
           /\ sent' = Append(sent, [src |-> pkt, time |-> t_now])
           /\ pc = "dispatch" /\ pc' = "top" /\ marks' = marks
           /\ src' \in [Source -> SrcType] /\ \A o \in Source : o # pkt => src'[o] = src[o]
           /\ src'[pkt].buffer = {Len(sent) + 1} /\ src'[pkt].books = src[pkt].books
           /\ src'[pkt].current = Len(file) + 1
           /\ src'[pkt].fd \in Fd /\ fds[src'[pkt].fd] = 0
           /\ fds' = [fds EXCEPT ![src'[pkt].fd] = Len(file) + 1]
<1>1. pkt \in Source /\ ~Listed(pkt) /\ pc = "dispatch"
  BY DEF AddSource, At, Sound, Packet
<1>2. /\ SetDisk(Buffered(Opened(Disk, pkt, "ok"), pkt, TRUE))
      /\ Note(pkt) /\ Goto("top") /\ marks' = marks
  <2>1. ~Allowed(1) BY DEF Allowed
  <2> QED BY <2>1 DEF AddSource
<1>3. src[pkt].buffer = {} /\ src[pkt].current = 0 /\ src[pkt] \in SrcType
  BY <1>1 DEF Sound, SourcesOpen, Typed
<1>4. Disk = [src |-> src, fds |-> fds, file |-> file, stored |-> stored, lost |-> lost]
  BY DEF Disk
<1>5. PICK n : n = Min({m \in Fd : fds[m] = 0}) OBVIOUS
<1>6. n \in Fd /\ fds[n] = 0
  <2>1. {m \in Fd : fds[m] = 0} \in SUBSET Nat BY Bounds DEF Fd
  <2>2. {m \in Fd : fds[m] = 0} # {} BY FreeFd
  <2> QED BY <1>5, <2>1, <2>2, MinInSet
<1>7. PICK d : d = Opened(Disk, pkt, "ok") OBVIOUS
<1>8. PICK ino \in Nat : ino = Len(file) + 1 BY DEF Sound, Typed
<1>9. d = [src |-> [src EXCEPT ![pkt].current = ino, ![pkt].fd = n],
           fds |-> [fds EXCEPT ![n] = ino], file |-> Append(file, {}),
           stored |-> stored, lost |-> lost]
  BY <1>3, <1>4, <1>5, <1>7, <1>8 DEF Opened
<1>10. /\ d.src \in [Source -> SrcType] /\ \A o \in Source : o # pkt => d.src[o] = src[o]
       /\ d.src[pkt].buffer = {} /\ d.src[pkt].books = src[pkt].books
       /\ d.src[pkt].fd = n /\ d.src[pkt].current = ino
  <2>1. src \in [Source -> SrcType] /\ n \in Nat BY <1>6, Bounds DEF Sound, Typed, Fd
  <2>2. d.src = [src EXCEPT ![pkt].current = ino, ![pkt].fd = n] BY <1>9
  <2> QED BY <1>1, <1>3, <2>1, <2>2 DEF SrcType
<1>13. Cardinality(d.src[pkt].buffer) # BufferSize
  BY <1>10, FS_EmptySet, SlotsAssumption
<1>14. Buffered(d, pkt, TRUE) = [d EXCEPT !.src[pkt].buffer = @ \cup {Len(sent) + 1}]
  BY <1>13 DEF Buffered
<1>15. PICK r \in Nat : r = Len(sent) + 1 BY DEF Sound, Typed
<1>16. /\ src' \in [Source -> SrcType] /\ \A o \in Source : o # pkt => src'[o] = src[o]
       /\ src'[pkt].buffer = {r} /\ src'[pkt].books = src[pkt].books
       /\ src'[pkt].fd = n /\ src'[pkt].current = ino
  <2>1. src' = [d.src EXCEPT ![pkt].buffer = @ \cup {r}]
    BY <1>2, <1>7, <1>9, <1>14, <1>15 DEF SetDisk
  <2>2. src' = [d.src EXCEPT ![pkt].buffer = {r}] BY <1>10, <2>1
  <2> QED BY <1>1, <1>10, <2>2 DEF SrcType
<1>17. fds' = [fds EXCEPT ![n] = ino] /\ file' = Append(file, {}) /\ stored' = stored
  <2>1. PICK e : e = Buffered(d, pkt, TRUE) OBVIOUS
  <2>2. e.fds = d.fds /\ e.file = d.file /\ e.stored = d.stored BY ZenonT(40), <1>9, <1>14, <2>1
  <2>3. fds' = e.fds /\ file' = e.file /\ stored' = e.stored BY <1>2, <1>7, <2>1 DEF SetDisk
  <2> QED BY <1>9, <2>2, <2>3
<1> QED BY <1>1, <1>2, <1>6, <1>8, <1>15, <1>16, <1>17 DEF Note, Goto

LEMMA AddSourceStep == ASSUME Sound, AddSource, faults \in Nat, faults' = 0 PROVE Sound'
<1> USE Bounds, SlotIsNat
<1>0. PICK s \in Source, r \in Nat, ino \in Nat, n \in Fd :
         s = pkt /\ r = Len(sent) + 1 /\ ino = Len(file) + 1 /\ n = src'[pkt].fd
  <2>1. pkt \in Source /\ src'[pkt].fd \in Fd BY AddSourceEffect
  <2>2. Len(sent) + 1 \in Nat /\ Len(file) + 1 \in Nat BY DEF Sound, Typed
  <2> QED BY <2>1, <2>2
<1>1. /\ ~Listed(s) /\ stored' = stored /\ file' = Append(file, {})
      /\ sent' = Append(sent, [src |-> s, time |-> t_now])
      /\ pc = "dispatch" /\ pc' = "top" /\ marks' = marks
      /\ src' \in [Source -> SrcType] /\ \A o \in Source : o # s => src'[o] = src[o]
      /\ src'[s].buffer = {r} /\ src'[s].books = src[s].books
      /\ src'[s].current = ino /\ src'[s].fd = n
      /\ fds[n] = 0 /\ fds' = [fds EXCEPT ![n] = ino]
  BY <1>0, AddSourceEffect
<1>2. /\ UNCHANGED <<now, net, cnt, pkt, timeVars, done, k, launcher>>
      /\ fs' = Append(fs, s) /\ since' = [since EXCEPT ![s] = t_start]
  BY <1>0 DEF AddSource
<1>3. /\ sent' \in Seq([src : Source, time : Nat])
      /\ Len(sent) \in Nat /\ DOMAIN sent = 1..Len(sent)
      /\ DOMAIN sent' = DOMAIN sent \cup {r} /\ r \notin DOMAIN sent
      /\ \A q \in DOMAIN sent : sent'[q] = sent[q]
      /\ sent'[r].src = s /\ sent'[r].time = t_now
  <2>1. Len(sent) \in Nat /\ DOMAIN sent = 1..Len(sent) BY <1>1, SentGrows
  <2>2. r \notin DOMAIN sent BY <1>0, <2>1
  <2>3. /\ sent' \in Seq([src : Source, time : Nat])
        /\ DOMAIN sent' = DOMAIN sent \cup {r}
        /\ sent'[r].src = s /\ sent'[r].time = t_now
    BY <1>0, <1>1, SentGrows
  <2>4. \A q \in DOMAIN sent : sent'[q] = sent[q] BY <1>1, SentGrows
  <2> QED BY <2>1, <2>2, <2>3, <2>4
<1>4. /\ Len(file) \in Nat /\ DOMAIN file = 1..Len(file) /\ ino \in Nat
      /\ file' \in Seq(SUBSET Nat) /\ Len(file') = ino
      /\ DOMAIN file' = DOMAIN file \cup {ino} /\ ino \notin DOMAIN file
      /\ \A i \in DOMAIN file : file'[i] = file[i]
      /\ file'[ino] = {}
  <2>1. file \in Seq(SUBSET Nat) BY DEF Sound, Typed
  <2> QED BY <1>0, <1>1, <2>1
<1>5. /\ fs' \in Seq(Source) /\ \A i, j \in DOMAIN fs' : fs'[i] = fs'[j] => i = j
      /\ \A o \in Source : Listed(o)' <=> Listed(o) \/ o = s
  <2>1. fs \in Seq(Source) BY DEF Sound, Typed
  <2>2. /\ fs' \in Seq(Source) /\ Len(fs) \in Nat
        /\ DOMAIN fs = 1..Len(fs) /\ DOMAIN fs' = 1..(Len(fs) + 1)
        /\ \A i \in DOMAIN fs : fs'[i] = fs[i]
        /\ fs'[Len(fs) + 1] = s
    BY <1>2, <2>1
  <2>3. \A i \in DOMAIN fs : fs[i] # s BY <1>1 DEF Listed
  <2>4. ASSUME NEW i \in DOMAIN fs', NEW j \in DOMAIN fs', fs'[i] = fs'[j]
        PROVE  i = j
    <3>1. CASE i \in DOMAIN fs /\ j \in DOMAIN fs
      BY <2>2, <2>4, <3>1 DEF Sound, Typed
    <3>2. CASE i = Len(fs) + 1 BY <2>2, <2>3, <2>4, <3>2
    <3>3. CASE j = Len(fs) + 1 BY <2>2, <2>3, <2>4, <3>3
    <3> QED BY <2>2, <3>1, <3>2, <3>3
  <2>5. \A o \in Source : Listed(o)' <=> Listed(o) \/ o = s BY <2>2 DEF Listed
  <2> QED BY <2>2, <2>4, <2>5
<1>6. \A o \in Source : ~Rotated(o) /\ ~Rotated(o)' BY <1>1 DEF Rotated
<1>7. src[s].buffer = {} /\ src[s].current = 0 BY <1>1 DEF Sound, SourcesOpen
<1>8. Unstored(s) = {} /\ Unstored(s)' = {r}
  <2>1. Unstored(s) = {} BY <1>7 DEF Unstored
  <2>2. Unstored(s)' = {r} \cup (IF ino = 0 THEN {} ELSE {}) BY <1>1, <1>4 DEF Unstored
  <2> QED BY <2>1, <2>2
<1>9. \A o \in Source : o # s => Unstored(o)' = Unstored(o)
  <2> SUFFICES ASSUME NEW o \in Source, o # s PROVE Unstored(o)' = Unstored(o)
    OBVIOUS
  <2>1. CASE src[o].current = 0 BY <1>1, <2>1 DEF Unstored
  <2>2. CASE src[o].current # 0
    <3>1. src[o].current \in DOMAIN file BY <2>2, OpenSource
    <3> QED BY <1>1, <1>4, <3>1 DEF Unstored
  <2> QED BY <2>1, <2>2
<1>10. \A o \in Source : Stored(o)' = Stored(o) BY <1>1 DEF Stored
<1>11. \A o \in Source : \A t \in Stored(o) :
          /\ stored[o][t] \in DOMAIN file /\ stored'[o][t] = stored[o][t]
          /\ file'[stored[o][t]] = file[stored[o][t]]
  <2> SUFFICES ASSUME NEW o \in Source, NEW t \in Stored(o)
               PROVE  stored[o][t] \in DOMAIN file
    BY <1>1, <1>4
  <2>1. t \in SlotTimes /\ stored[o][t] # 0 BY DEF Stored
  <2>2. stored[o][t] \in Nat /\ stored[o][t] <= Len(file)
    BY <2>1 DEF Sound, Typed, FilesApart
  <2> QED BY <1>4, <2>1, <2>2
<1>12. Typed'
  <2>1. since' \in [Source -> SlotTimes] /\ fds' \in [Fd -> Nat]
    BY <1>1, <1>2, <1>4 DEF Sound, Typed
  <2> QED BY <1>1, <1>2, <1>3, <1>4, <1>5, <2>1 DEF Typed, Sound, timeVars
<1>13. Known' BY <1>1, <1>3, <1>4 DEF Known, Sound
<1>14. FilesApart'
  <2>1. \A o \in Source : src[o].current \in Nat /\ src[o].current <= Len(file)
    BY DEF Sound, Typed, FilesApart, SrcType
  <2>2. \A o \in Source : \A t \in SlotTimes :
           stored[o][t] \in Nat /\ stored[o][t] <= Len(file)
    BY DEF Sound, Typed, FilesApart
  <2>3. \A o \in Source : src'[o].current <= Len(file')
    BY SMTT(40), <1>1, <1>4, <2>1
  <2>4. \A o \in Source : \A t \in SlotTimes : stored'[o][t] <= Len(file')
    BY <1>0, <1>1, <1>4, <2>2
  <2>5. ASSUME NEW o \in Source, src'[o].current # 0
        PROVE  /\ src'[o].fd \in Fd /\ fds'[src'[o].fd] = src'[o].current
               /\ \A p \in Source : p # o => src'[p].current # src'[o].current
               /\ \A p \in Source : \A t \in SlotTimes : stored'[p][t] # src'[o].current
    <3>1. CASE o = s
      <4>1. fds'[n] = ino BY <1>1 DEF Sound, Typed
      <4>2. ino > Len(file) BY <1>0, <1>4
      <4>3. src'[o].fd \in Fd /\ fds'[src'[o].fd] = src'[o].current BY <1>1, <3>1, <4>1
      <4>4. ASSUME NEW p \in Source, p # o PROVE src'[p].current # ino
        <5>1. src'[p] = src[p] BY <1>1, <3>1, <4>4
        <5> QED BY <1>4, <2>1, <4>2, <5>1
      <4>5. ASSUME NEW p \in Source, NEW t \in SlotTimes PROVE stored'[p][t] # ino
        BY <1>1, <1>4, <2>2, <4>2
      <4> QED BY <1>1, <3>1, <4>3, <4>4, <4>5
    <3>2. CASE o # s
      <4>1. src'[o] = src[o] /\ src[o].current # 0 BY <1>1, <2>5, <3>2
      <4>2. src[o].fd \in Fd /\ fds[src[o].fd] = src[o].current BY <4>1, OpenSource
      <4>3. src[o].fd # n BY <1>1, <4>1, <4>2
      <4>4. fds'[src[o].fd] = src[o].current BY <1>1, <4>2, <4>3 DEF Sound, Typed
      <4>5. ino # src[o].current BY <1>0, <1>4, <2>1
      <4>6. \A p \in Source : p # o => src'[p].current # src[o].current
        BY <1>1, <4>1, <4>5 DEF Sound, FilesApart
      <4>7. \A p \in Source : \A t \in SlotTimes : stored'[p][t] # src[o].current
        BY <1>1, <4>1 DEF Sound, FilesApart
      <4> QED BY <4>1, <4>2, <4>4, <4>6, <4>7
    <3> QED BY <3>1, <3>2
  <2>6. ASSUME NEW m \in Fd, fds'[m] # 0
        PROVE  \E o \in Source : Listed(o)' /\ src'[o].fd = m
    <3>1. CASE m = n BY <1>1, <1>5, <3>1
    <3>2. CASE m # n
      <4>1. fds[m] # 0 BY <1>1, <2>6, <3>2 DEF Sound, Typed
      <4>2. PICK o \in Source : Listed(o) /\ src[o].fd = m BY <4>1 DEF Sound, FilesApart
      <4> QED BY <1>1, <1>5, <4>2
    <3> QED BY <3>1, <3>2
  <2> QED BY <2>3, <2>4, <2>5, <2>6 DEF FilesApart
<1>15. SourcesOpen'
  <2>1. ino # 0 BY <1>0, <1>4
  <2> QED BY <1>1, <1>2, <1>5, <1>6, <2>1 DEF SourcesOpen, Sound
<1>16. OpenInSlot'
  <2> SUFFICES ASSUME NEW o \in Source, NEW q \in Unstored(o)' PROVE InSlot(q)'
    BY DEF OpenInSlot
  <2>1. CASE o = s
    <3>1. q = r BY <1>8, <2>1
    <3> QED BY <1>1, <1>2, <1>3, <3>1 DEF Sound, Clocked, InSlot, timeVars
  <2>2. CASE o # s
    <3>1. q \in Unstored(o) BY <1>9, <2>2
    <3>2. q \in DOMAIN sent
      <4>1. CASE src[o].current = 0 BY <3>1, <4>1 DEF Sound, Known, Unstored
      <4>2. CASE src[o].current # 0
        BY <3>1, <4>2, OpenSource DEF Sound, Known, Unstored
      <4> QED BY <4>1, <4>2
    <3>3. InSlot(q) BY <3>1 DEF Sound, OpenInSlot
    <3> QED BY <1>1, <1>2, <1>3, <3>2, <3>3 DEF InSlot, timeVars
  <2> QED BY <2>1, <2>2
<1>17. Clocked' BY <1>1 DEF Clocked
<1>18. StoredSlots'
  <2> SUFFICES ASSUME NEW o \in Source
               PROVE  /\ Listed(o)' => since'[o] <= t_start'
                      /\ \A t \in SlotTimes :
                            stored'[o][t] # 0 <=> /\ Listed(o)' /\ since'[o] <= t
                                                  /\ t < t_start' \/ (t = t_start' /\ Rotated(o)')
                      /\ IsFiniteSet(Stored(o)') /\ src'[o].books = Cardinality(Stored(o)')
    BY DEF StoredSlots
  <2>1. IsFiniteSet(Stored(o)') /\ src'[o].books = Cardinality(Stored(o)')
    BY <1>1, <1>10 DEF Sound, StoredSlots
  <2>2. t_start \in Nat /\ t_start' = t_start /\ since \in [Source -> SlotTimes]
    BY <1>2 DEF Sound, Typed, timeVars
  <2>3. CASE o = s
    <3>1. since'[o] = t_start BY <1>2, <2>2, <2>3
    <3>2. \A t \in SlotTimes : stored'[o][t] = 0
      BY <1>1, <2>3 DEF Sound, StoredSlots
    <3>3. ASSUME NEW t \in SlotTimes PROVE ~(t_start <= t /\ t < t_start)
      <4>1. t \in Nat OBVIOUS
      <4> QED BY <2>2, <4>1
    <3>4. \A t \in SlotTimes :
             ~(since'[o] <= t /\ (t < t_start' \/ (t = t_start' /\ Rotated(o)')))
      BY <1>6, <2>2, <3>1, <3>3
    <3>5. since'[o] <= t_start' BY <2>2, <3>1
    <3> QED BY <2>1, <3>2, <3>4, <3>5
  <2>4. CASE o # s
    <3>1. since'[o] = since[o] BY <1>2, <2>2, <2>4
    <3> QED BY <1>1, <1>5, <1>6, <2>1, <2>2, <2>4, <3>1 DEF Sound, StoredSlots
  <2> QED BY <2>3, <2>4
<1>19. StoredInSlot'
  <2> SUFFICES ASSUME NEW o \in Source, NEW t \in Stored(o), NEW q \in file[stored[o][t]]
               PROVE  /\ sent'[q].time >= t
                      /\ sent'[q].time < t + Twin \/ "behind" \in marks'
    BY <1>10, <1>11 DEF StoredInSlot
  <2>1. q \in DOMAIN sent BY <1>11 DEF Sound, Known
  <2> QED BY <1>1, <1>3, <2>1 DEF Sound, StoredInSlot
<1>20. AllSomewhere'
  <2> SUFFICES ASSUME NEW q \in DOMAIN sent' PROVE Somewhere(q)'
    BY DEF AllSomewhere
  <2>1. CASE q = r BY <1>3, <1>8, <2>1 DEF Somewhere
  <2>2. CASE q \in DOMAIN sent
    <3>1. PICK o \in Source : o = sent[q].src BY <2>2, SentType
    <3>2. sent'[q].src = o BY <1>3, <2>2, <3>1
    <3>3. \/ q \in Unstored(o)
          \/ \E t \in Stored(o) : q \in file[stored[o][t]]
      BY <2>2, <3>1 DEF Sound, AllSomewhere, Somewhere
    <3>4. \/ q \in Unstored(o)'
          \/ \E t \in Stored(o)' : q \in file'[stored'[o][t]]
      BY <1>8, <1>9, <1>10, <1>11, <3>3
    <3> QED BY <3>2, <3>4 DEF Somewhere
  <2> QED BY <1>3, <2>1, <2>2
<1>21. ToldOver' BY <1>1, <1>2 DEF ToldOver, Sound, timeVars
<1>22. Packet' BY <1>2 DEF Packet, Sound
<1> QED BY <1>12, <1>13, <1>14, <1>15, <1>16, <1>17, <1>18, <1>19, <1>20, <1>21, <1>22
        DEF Sound
-----------------------------------------------------------------------------
(* The rotation of one source                                                 *)

\* The source that is rotated has its file still open.
LEMMA RotatedSource ==
    ASSUME Sound, Rotate
    PROVE  /\ k \in DOMAIN fs /\ fs[k] \in Source /\ Listed(fs[k]) /\ ~Rotated(fs[k])
           /\ src[fs[k]].current # 0
<1>1. pc = "rotate" /\ k <= Len(fs) BY DEF Rotate, At
<1>2. fs \in Seq(Source) /\ k \in Nat /\ k >= 1 BY <1>1 DEF Sound, Typed, Clocked
<1>3. k \in DOMAIN fs BY <1>1, <1>2
<1>4. fs[k] \in Source BY <1>2, <1>3, ElementOf
<1>5. Listed(fs[k]) BY <1>3 DEF Listed
<1>6. ~Rotated(fs[k])
  <2>1. \A i \in DOMAIN fs : fs[i] = fs[k] => i = k BY <1>3 DEF Sound, Typed
  <2>2. \A i \in DOMAIN fs : i < k => i # k BY <1>2
  <2> QED BY <1>1, <2>1, <2>2 DEF Rotated
<1> QED BY <1>3, <1>4, <1>5, <1>6 DEF Sound, SourcesOpen

\* Its block is written, and its file closed and renamed.
LEMMA RenamedIs ==
    ASSUME Sound, NEW s \in Source, src[s].current # 0
    PROVE  /\ Closed(Disk, s, TRUE).src[s].current = src[s].current
           /\ \E d :
              /\ d = Renamed(Closed(Disk, s, TRUE), s, t_start)
              /\ d = [src |-> d.src, fds |-> d.fds, file |-> d.file,
                      stored |-> d.stored, lost |-> d.lost]
              /\ d.src \in [Source -> SrcType] /\ \A o \in Source : o # s => d.src[o] = src[o]
              /\ d.src[s].buffer = {} /\ d.src[s].books = src[s].books + 1
              /\ d.src[s].current = 0 /\ d.src[s].fd = src[s].fd
              /\ d.fds = [fds EXCEPT ![src[s].fd] = 0]
              /\ d.file = [file EXCEPT ![src[s].current] = @ \cup src[s].buffer]
              /\ d.stored = [stored EXCEPT ![s][t_start] = src[s].current]
<1>0. PICK d : d = Renamed(Closed(Disk, s, TRUE), s, t_start) OBVIOUS
<1>1. PICK w : w = Written(Disk, s, TRUE) OBVIOUS
<1>2. w = [src |-> [src EXCEPT ![s].buffer = {}], fds |-> fds,
           file |-> [file EXCEPT ![src[s].current] = @ \cup src[s].buffer],
           stored |-> stored, lost |-> lost]
  BY <1>1, WrittenIs
<1>3. src \in [Source -> SrcType] /\ src[s] \in SrcType BY DEF Sound, Typed
<1>4. /\ w.src \in [Source -> SrcType] /\ \A o \in Source : o # s => w.src[o] = src[o]
      /\ w.src[s].buffer = {} /\ w.src[s].books = src[s].books
      /\ w.src[s].current = src[s].current /\ w.src[s].fd = src[s].fd
  <2>1. w.src = [src EXCEPT ![s].buffer = {}] BY <1>2
  <2> QED BY <1>3, <2>1 DEF SrcType
<1>5. PICK c : c = Closed(Disk, s, TRUE) OBVIOUS
<1>6. c = [w EXCEPT !.fds[w.src[s].fd] = 0]
  <2>1. w.src[s].fd # NoFd BY <1>4, OpenSource
  <2> QED BY <1>1, <1>4, <1>5, <2>1 DEF Closed
<1>7. /\ c.src = w.src /\ c.fds = [fds EXCEPT ![src[s].fd] = 0] /\ c.file = w.file
      /\ c.stored = stored
  BY <1>2, <1>4, <1>6
<1>8. c = [src |-> c.src, fds |-> c.fds, file |-> c.file, stored |-> c.stored,
           lost |-> c.lost]
  BY <1>2, <1>6
<1>9. d = [c EXCEPT !.stored[s][t_start] = c.src[s].current,
                    !.src[s].current = 0, !.src[s].books = @ + 1]
  BY <1>0, <1>5 DEF Renamed
<1>10. /\ d.src = [c.src EXCEPT ![s].current = 0, ![s].books = @ + 1]
       /\ d.stored = [c.stored EXCEPT ![s][t_start] = c.src[s].current]
       /\ d.fds = c.fds /\ d.file = c.file
  BY <1>8, <1>9
<1>11. /\ d.src \in [Source -> SrcType] /\ \A o \in Source : o # s => d.src[o] = src[o]
       /\ d.src[s].buffer = {} /\ d.src[s].books = src[s].books + 1
       /\ d.src[s].current = 0 /\ d.src[s].fd = src[s].fd
  <2>1. d.src = [w.src EXCEPT ![s].current = 0, ![s].books = @ + 1] BY <1>7, <1>10
  <2> QED BY <1>3, <1>4, <2>1 DEF SrcType
<1>12. c.src[s].current = src[s].current BY <1>4, <1>7
<1>13. d = [src |-> d.src, fds |-> d.fds, file |-> d.file,
            stored |-> d.stored, lost |-> d.lost]
  BY <1>8, <1>9
<1>14. /\ d.fds = [fds EXCEPT ![src[s].fd] = 0]
       /\ d.file = [file EXCEPT ![src[s].current] = @ \cup src[s].buffer]
       /\ d.stored = [stored EXCEPT ![s][t_start] = src[s].current]
  BY <1>2, <1>7, <1>10, <1>12
<1>15. Closed(Disk, s, TRUE).src[s].current = src[s].current BY <1>5, <1>12
<1> QED BY <1>0, <1>11, <1>13, <1>14, <1>15

\* With the file that is opened for the next slot, unless the collector stops.
LEMMA RotateEffect ==
    ASSUME Sound, Rotate, faults \in Nat, faults' = 0, NEW s \in Source, s = fs[k]
    PROVE  /\ src' \in [Source -> SrcType] /\ \A o \in Source : o # s => src'[o] = src[o]
           /\ src'[s].buffer = {} /\ src'[s].books = src[s].books + 1
           /\ stored' = [stored EXCEPT ![s][t_start] = src[s].current]
           /\ k' = k + 1 /\ marks' = marks
           /\ \/ /\ done /\ src'[s].current = 0
                 /\ fds' = [fds EXCEPT ![src[s].fd] = 0]
                 /\ file' = [file EXCEPT ![src[s].current] = @ \cup src[s].buffer]
              \/ /\ ~done /\ src'[s].current = Len(file) + 1
                 /\ src'[s].fd \in Fd /\ (fds[src'[s].fd] = 0 \/ src'[s].fd = src[s].fd)
                 /\ fds' = [[fds EXCEPT ![src[s].fd] = 0]
                              EXCEPT ![src'[s].fd] = Len(file) + 1]
                 /\ file' = Append([file EXCEPT ![src[s].current] = @ \cup src[s].buffer], {})
<1>1. src[s].current # 0 BY RotatedSource
<1>2. PICK d :
         /\ d = Renamed(Closed(Disk, s, TRUE), s, t_start)
         /\ d = [src |-> d.src, fds |-> d.fds, file |-> d.file,
                 stored |-> d.stored, lost |-> d.lost]
         /\ d.src \in [Source -> SrcType] /\ \A o \in Source : o # s => d.src[o] = src[o]
         /\ d.src[s].buffer = {} /\ d.src[s].books = src[s].books + 1
         /\ d.src[s].current = 0 /\ d.src[s].fd = src[s].fd
         /\ d.fds = [fds EXCEPT ![src[s].fd] = 0]
         /\ d.file = [file EXCEPT ![src[s].current] = @ \cup src[s].buffer]
         /\ d.stored = [stored EXCEPT ![s][t_start] = src[s].current]
  BY <1>1, RenamedIs
<1>3. Closed(Disk, s, TRUE).src[s].current # 0 BY <1>1, RenamedIs
<1>4. /\ SetDisk(IF done THEN d ELSE Opened(d, s, "ok"))
      /\ k' = k + 1 /\ marks' = marks
  <2>1. PICK write \in BOOLEAN, rename \in BOOLEAN, open \in Outcomes :
           LET closed == Closed(Disk, fs[k], write)
               named == rename /\ closed.src[fs[k]].current # 0
               renamed == IF named THEN Renamed(closed, fs[k], t_start) ELSE closed
           IN /\ Allowed(Faults(write) + Faults(rename) + Faults(open = "ok"))
              /\ SetDisk(IF done THEN renamed ELSE Opened(renamed, fs[k], open))
              /\ k' = IF open = "ok" THEN k + 1 ELSE Len(fs) + 1
              /\ marks' = marks \cup (IF open = "header" THEN {"stale"} ELSE {})
    BY SMTT(40) DEF Rotate, Outcomes
  <2>2. faults' = faults + (Faults(write) + Faults(rename) + Faults(open = "ok"))
    BY <2>1 DEF Allowed
  <2>3. Faults(write) = 0 /\ Faults(rename) = 0 /\ Faults(open = "ok") = 0
    BY <2>2 DEF Faults
  <2>4. write = TRUE /\ rename = TRUE /\ open = "ok"
    BY <2>3 DEF Faults
  <2> QED BY <1>2, <1>3, <2>1, <2>4
<1>5. CASE done BY <1>2, <1>4, <1>5 DEF SetDisk
<1>6. CASE ~done
  <2>1. PICK n : n = Min({m \in Fd : d.fds[m] = 0}) OBVIOUS
  <2>2. src[s].fd \in Fd /\ fds \in [Fd -> Nat] BY <1>1, OpenSource DEF Sound, Typed
  <2>3. n \in Fd /\ d.fds[n] = 0
    <3>1. {m \in Fd : d.fds[m] = 0} \in SUBSET Nat BY Bounds DEF Fd
    <3>2. src[s].fd \in {m \in Fd : d.fds[m] = 0} BY <1>2, <2>2
    <3> QED BY <2>1, <3>1, <3>2, MinInSet
  <2>4. fds[n] = 0 \/ n = src[s].fd BY <1>2, <2>2, <2>3
  <2>5. PICK ino \in Nat : ino = Len(file) + 1 /\ ino = Len(d.file) + 1
    <3>1. file \in Seq(SUBSET Nat) BY DEF Sound, Typed
    <3>2. Len(d.file) = Len(file)
      <4>1. d.file = [file EXCEPT ![src[s].current] = @ \cup src[s].buffer] BY <1>2
      <4> QED BY <3>1, <4>1
    <3> QED BY <3>1, <3>2
  <2>6. PICK e : e = Opened(d, s, "ok") OBVIOUS
  <2>7. e = [src |-> [d.src EXCEPT ![s].current = ino, ![s].fd = n],
             fds |-> [d.fds EXCEPT ![n] = ino], file |-> Append(d.file, {}),
             stored |-> d.stored, lost |-> d.lost]
    BY ZenonT(40), <1>2, <2>1, <2>5, <2>6 DEF Opened
  <2>8. /\ src' = [d.src EXCEPT ![s].current = ino, ![s].fd = n]
        /\ fds' = [d.fds EXCEPT ![n] = ino] /\ file' = Append(d.file, {})
        /\ stored' = d.stored
    <3>1. SetDisk(e) BY <1>4, <1>6, <2>6
    <3>2. src' = e.src /\ fds' = e.fds /\ file' = e.file /\ stored' = e.stored
      BY <3>1 DEF SetDisk
    <3> QED BY <2>7, <3>2
  <2>9. n \in Nat BY <2>3, Bounds DEF Fd
  <2>10. /\ src' \in [Source -> SrcType] /\ \A o \in Source : o # s => src'[o] = d.src[o]
         /\ src'[s].buffer = {} /\ src'[s].books = src[s].books + 1
         /\ src'[s].current = ino /\ src'[s].fd = n
    <3>1. /\ d.src \in [Source -> SrcType] /\ d.src[s].buffer = {}
          /\ d.src[s].books = src[s].books + 1
      BY <1>2
    <3> QED BY <2>8, <2>9, <3>1 DEF SrcType
  <2> QED BY ZenonT(40), <1>2, <1>4, <1>6, <2>3, <2>4, <2>5, <2>8, <2>10
<1> QED BY <1>5, <1>6

LEMMA RotateStep == ASSUME Sound, Rotate, faults \in Nat, faults' = 0 PROVE Sound'
<1> USE Bounds, SlotIsNat
<1>0. PICK s \in Source, c \in Nat, f \in Fd, b \in SUBSET Nat :
         s = fs[k] /\ c = src[s].current /\ f = src[s].fd /\ b = src[s].buffer
  <2>1. fs[k] \in Source /\ src[fs[k]].current # 0 BY RotatedSource
  <2>2. src[fs[k]] \in SrcType /\ src[fs[k]].fd \in Fd BY <2>1, OpenSource
  <2> QED BY <2>1, <2>2 DEF SrcType
<1>1. /\ Listed(s) /\ ~Rotated(s) /\ c # 0 /\ c \in DOMAIN file /\ fds[f] = c
  BY <1>0, RotatedSource, OpenSource
<1>2. /\ src' \in [Source -> SrcType] /\ \A o \in Source : o # s => src'[o] = src[o]
      /\ src'[s].buffer = {} /\ src'[s].books = src[s].books + 1
      /\ stored' = [stored EXCEPT ![s][t_start] = c]
      /\ k' = k + 1 /\ marks' = marks
  BY <1>0, RotateEffect
<1>3. \/ /\ done /\ src'[s].current = 0
         /\ fds' = [fds EXCEPT ![f] = 0]
         /\ file' = [file EXCEPT ![c] = @ \cup b]
      \/ /\ ~done /\ src'[s].current = Len(file) + 1
         /\ src'[s].fd \in Fd /\ (fds[src'[s].fd] = 0 \/ src'[s].fd = f)
         /\ fds' = [[fds EXCEPT ![f] = 0] EXCEPT ![src'[s].fd] = Len(file) + 1]
         /\ file' = Append([file EXCEPT ![c] = @ \cup b], {})
  BY <1>0, RotateEffect
<1>4. /\ UNCHANGED <<now, net, cnt, pkt, timeVars, done, fs, launcher, sent, since>>
      /\ pc = "rotate" /\ pc' = "rotate" /\ k \in DOMAIN fs
  <2>1. k \in DOMAIN fs BY RotatedSource
  <2> QED BY <2>1 DEF Rotate, At
<1>5. /\ file \in Seq(SUBSET Nat) /\ Len(file) \in Nat /\ DOMAIN file = 1..Len(file)
      /\ fds \in [Fd -> Nat] /\ t_start \in SlotTimes /\ t_start \in Nat /\ k \in Nat
      /\ fs \in Seq(Source)
  BY DEF Sound, Typed
<1>6. /\ file' \in Seq(SUBSET Nat) /\ DOMAIN file \subseteq DOMAIN file'
      /\ \A i \in DOMAIN file : i # c => file'[i] = file[i]
      /\ file'[c] = file[c] \cup b
      /\ \A i \in DOMAIN file' : i \notin DOMAIN file => file'[i] = {}
      /\ Len(file') \in Nat /\ Len(file) <= Len(file')
      /\ src'[s].current # 0 => /\ src'[s].current = Len(file) + 1
                                /\ Len(file') = Len(file) + 1
                                /\ file'[Len(file) + 1] = {}
  <2>1. file[c] \in SUBSET Nat BY <1>1, <1>5, ElementOf
  <2>2. PICK e \in SUBSET Nat : e = file[c] \cup b BY <2>1
  <2>3. PICK g : g = [file EXCEPT ![c] = e] OBVIOUS
  <2>4. /\ g \in Seq(SUBSET Nat) /\ Len(g) = Len(file) /\ DOMAIN g = DOMAIN file
        /\ g[c] = e /\ \A i \in DOMAIN file : i # c => g[i] = file[i]
    BY <1>1, <1>5, <2>3
  <2>5. CASE file' = g /\ src'[s].current = 0 BY <1>5, <2>2, <2>4, <2>5
  <2>6. CASE file' = Append(g, {}) /\ src'[s].current = Len(file) + 1
    <3>1. /\ file' \in Seq(SUBSET Nat) /\ Len(file') = Len(file) + 1
          /\ DOMAIN file' = 1..(Len(file) + 1)
          /\ \A i \in DOMAIN file : file'[i] = g[i]
          /\ file'[Len(file) + 1] = {}
      BY <1>5, <2>4, <2>6
    <3>2. \A i \in DOMAIN file' : i \notin DOMAIN file => i = Len(file) + 1
      BY <1>5, <3>1
    <3> QED BY <1>1, <1>5, <2>2, <2>4, <2>6, <3>1, <3>2
  <2> QED BY <1>3, <2>2, <2>3, <2>5, <2>6
<1>7. /\ fds' \in [Fd -> Nat]
      /\ \A m \in Fd : m # f /\ fds[m] # 0 => fds'[m] = fds[m]
      /\ \A m \in Fd : fds'[m] # 0 =>
            (m # f /\ fds[m] # 0) \/ (m = src'[s].fd /\ src'[s].current # 0)
      /\ src'[s].current # 0 => src'[s].fd \in Fd /\ fds'[src'[s].fd] = src'[s].current
  <2>1. CASE fds' = [fds EXCEPT ![f] = 0] /\ src'[s].current = 0 BY <1>5, <2>1
  <2>2. CASE /\ src'[s].current = Len(file) + 1
             /\ src'[s].fd \in Fd /\ (fds[src'[s].fd] = 0 \/ src'[s].fd = f)
             /\ fds' = [[fds EXCEPT ![f] = 0] EXCEPT ![src'[s].fd] = Len(file) + 1]
    <3>1. PICK n \in Fd, ino \in Nat : n = src'[s].fd /\ ino = Len(file) + 1
      BY <1>5, <2>2
    <3>2. /\ fds' \in [Fd -> Nat] /\ fds'[n] = ino
          /\ \A m \in Fd : m # n => fds'[m] = IF m = f THEN 0 ELSE fds[m]
      BY <1>5, <2>2, <3>1
    <3>3. fds[n] = 0 \/ n = f BY <2>2, <3>1
    <3> QED BY <1>5, <2>2, <3>1, <3>2, <3>3
  <2> QED BY <1>3, <2>1, <2>2
<1>8. /\ stored' \in [Source -> [SlotTimes -> Nat]] /\ stored'[s][t_start] = c
      /\ \A o \in Source : \A t \in SlotTimes :
            o # s \/ t # t_start => stored'[o][t] = stored[o][t]
  BY <1>2, <1>5 DEF Sound, Typed
<1>9. /\ \A o \in Source : Listed(o)' <=> Listed(o)
      /\ \A o \in Source : o # s => (Rotated(o)' <=> Rotated(o))
      /\ Rotated(s)'
  <2>1. \A o \in Source : Listed(o)' <=> Listed(o) BY <1>4 DEF Listed
  <2>2. Rotated(s)' BY <1>0, <1>2, <1>4, <1>5 DEF Rotated
  <2>3. ASSUME NEW o \in Source, o # s PROVE Rotated(o)' <=> Rotated(o)
    <3>1. \A i \in DOMAIN fs : fs[i] = o => (i < k <=> i < k + 1)
      BY <1>0, <1>5, <2>3
    <3> QED BY <1>2, <1>4, <3>1 DEF Rotated
  <2> QED BY <2>1, <2>2, <2>3
<1>10. \A o \in Source : o # s /\ src[o].current # 0 =>
          /\ src[o].current # c /\ src[o].current \in DOMAIN file /\ src[o].fd # f
          /\ src[o].fd \in Fd /\ fds[src[o].fd] = src[o].current
  <2> SUFFICES ASSUME NEW o \in Source, o # s, src[o].current # 0
               PROVE  /\ src[o].current # c /\ src[o].current \in DOMAIN file
                      /\ src[o].fd # f
                      /\ src[o].fd \in Fd /\ fds[src[o].fd] = src[o].current
    OBVIOUS
  <2>1. src[o].current # c BY <1>0, <1>1 DEF Sound, FilesApart
  <2> QED BY <1>1, <2>1, OpenSource
<1>11. Unstored(s) = b \cup file[c] /\ Unstored(s)' = {}
  <2>1. Unstored(s) = b \cup file[c] BY <1>0, <1>1 DEF Unstored
  <2>2. src'[s].current # 0 => file'[src'[s].current] = {} BY <1>6
  <2> QED BY <1>2, <2>1, <2>2 DEF Unstored
<1>12. \A o \in Source : o # s => Unstored(o)' = Unstored(o)
  BY <1>2, <1>6, <1>10 DEF Unstored
<1>13. \A o \in Source : \A t \in Stored(o) :
          /\ stored[o][t] \in DOMAIN file /\ stored[o][t] # c
          /\ ~(o = s /\ t = t_start) /\ stored'[o][t] = stored[o][t]
          /\ file'[stored[o][t]] = file[stored[o][t]]
  <2> SUFFICES ASSUME NEW o \in Source, NEW t \in Stored(o)
               PROVE  /\ stored[o][t] \in DOMAIN file /\ stored[o][t] # c
                      /\ ~(o = s /\ t = t_start)
    BY <1>6, <1>8 DEF Stored
  <2>1. t \in SlotTimes /\ stored[o][t] # 0 BY DEF Stored
  <2>2. stored[o][t] \in Nat /\ stored[o][t] <= Len(file)
    BY <2>1 DEF Sound, Typed, FilesApart
  <2>3. stored[o][t] # c BY <1>0, <1>1, <2>1 DEF Sound, FilesApart
  <2>4. ~(o = s /\ t = t_start) BY <1>1, <1>5, <2>1 DEF Sound, StoredSlots
  <2> QED BY <1>5, <2>1, <2>2, <2>3, <2>4
<1>14. /\ Stored(s)' = Stored(s) \cup {t_start} /\ t_start \notin Stored(s)
       /\ \A o \in Source : o # s => Stored(o)' = Stored(o)
  <2>1. t_start \notin Stored(s) BY <1>13
  <2>2. Stored(s)' = Stored(s) \cup {t_start} BY <1>1, <1>5, <1>8 DEF Stored
  <2>3. \A o \in Source : o # s => Stored(o)' = Stored(o) BY <1>8 DEF Stored
  <2> QED BY <2>1, <2>2, <2>3
<1>15. Typed'
  <2>1. k' \in Nat BY <1>2, <1>5
  <2> QED BY <1>2, <1>4, <1>6, <1>7, <1>8, <2>1 DEF Typed, Sound, timeVars
<1>16. Known'
  <2>1. \A o \in Source : src'[o].buffer \subseteq DOMAIN sent'
    BY <1>2, <1>4 DEF Known, Sound
  <2>2. b \subseteq DOMAIN sent BY <1>0 DEF Known, Sound
  <2>3. \A i \in DOMAIN file' : file'[i] \subseteq DOMAIN sent'
    BY <1>4, <1>6, <2>2 DEF Known, Sound
  <2> QED BY <2>1, <2>3 DEF Known
<1>17. FilesApart'
  <2>1. \A o \in Source : src[o].current \in Nat /\ src[o].current <= Len(file)
    BY DEF Sound, Typed, FilesApart, SrcType
  <2>2. \A o \in Source : \A t \in SlotTimes :
           stored'[o][t] \in Nat /\ stored'[o][t] <= Len(file)
    <3>1. c <= Len(file) BY <1>1, <1>5
    <3>2. ASSUME NEW o \in Source, NEW t \in SlotTimes
          PROVE  stored'[o][t] <= Len(file)
      <4>1. stored[o][t] <= Len(file) BY DEF Sound, FilesApart
      <4>2. CASE o = s /\ t = t_start BY <1>8, <3>1, <4>2
      <4>3. CASE o # s \/ t # t_start BY <1>8, <4>1, <4>3
      <4> QED BY <4>2, <4>3
    <3> QED BY <1>8, <3>2
  <2>3. \A o \in Source : src'[o].current <= Len(file')
    <3> SUFFICES ASSUME NEW o \in Source PROVE src'[o].current <= Len(file')
      OBVIOUS
    <3>1. CASE o = s BY <1>5, <1>6, <3>1
    <3>2. CASE o # s
      <4>1. src'[o] = src[o] BY <1>2, <3>2
      <4>2. src[o].current \in Nat /\ src[o].current <= Len(file) BY <2>1
      <4>3. Len(file) \in Nat /\ Len(file') \in Nat /\ Len(file) <= Len(file') BY <1>5, <1>6
      <4> QED BY <4>1, <4>2, <4>3
    <3> QED BY <3>1, <3>2
  <2>4. \A o \in Source : \A t \in SlotTimes : stored'[o][t] <= Len(file')
    BY <1>5, <1>6, <2>2
  <2>5. ASSUME NEW o \in Source, src'[o].current # 0
        PROVE  /\ src'[o].fd \in Fd /\ fds'[src'[o].fd] = src'[o].current
               /\ \A p \in Source : p # o => src'[p].current # src'[o].current
               /\ \A p \in Source : \A t \in SlotTimes : stored'[p][t] # src'[o].current
    <3>1. CASE o = s
      <4>1. src'[o].current = Len(file) + 1 BY <1>6, <2>5, <3>1
      <4>2. src'[o].fd \in Fd /\ fds'[src'[o].fd] = src'[o].current
        BY <1>7, <2>5, <3>1
      <4>3. ASSUME NEW p \in Source, p # o PROVE src'[p].current # src'[o].current
        <5>1. src'[p] = src[p] BY <1>2, <3>1, <4>3
        <5>2. src[p].current \in Nat /\ src[p].current <= Len(file) BY <2>1
        <5> QED BY <1>5, <4>1, <5>1, <5>2
      <4>4. ASSUME NEW p \in Source, NEW t \in SlotTimes
            PROVE  stored'[p][t] # src'[o].current
        <5>1. stored'[p][t] \in Nat /\ stored'[p][t] <= Len(file) BY <2>2
        <5> QED BY <1>5, <4>1, <5>1
      <4> QED BY <4>2, <4>3, <4>4
    <3>2. CASE o # s
      <4>1. src'[o] = src[o] /\ src[o].current # 0 BY <1>2, <2>5, <3>2
      <4>2. /\ src[o].current # c /\ src[o].fd # f /\ src[o].fd \in Fd
            /\ fds[src[o].fd] = src[o].current
        BY <1>10, <3>2, <4>1
      <4>3. fds'[src[o].fd] = src[o].current BY <1>7, <4>1, <4>2
      <4>4. ASSUME NEW p \in Source, p # o PROVE src'[p].current # src[o].current
        <5>1. CASE p = s
          <6>1. src[o].current <= Len(file) /\ src[o].current \in Nat BY <2>1
          <6> QED BY <1>5, <1>6, <4>1, <5>1, <6>1
        <5>2. CASE p # s
          <6>1. src'[p] = src[p] BY <1>2, <5>2
          <6> QED BY <4>1, <4>4, <6>1 DEF Sound, FilesApart
        <5> QED BY <5>1, <5>2
      <4>5. ASSUME NEW p \in Source, NEW t \in SlotTimes
            PROVE  stored'[p][t] # src[o].current
        <5>1. CASE p = s /\ t = t_start BY <1>8, <4>2, <5>1
        <5>2. CASE p # s \/ t # t_start
          <6>1. stored'[p][t] = stored[p][t] BY <1>8, <5>2
          <6> QED BY <4>1, <6>1 DEF Sound, FilesApart
        <5> QED BY <5>1, <5>2
      <4> QED BY <4>1, <4>2, <4>3, <4>4, <4>5
    <3> QED BY <3>1, <3>2
  <2>6. ASSUME NEW m \in Fd, fds'[m] # 0
        PROVE  \E o \in Source : Listed(o)' /\ src'[o].fd = m
    <3>1. CASE m # f /\ fds[m] # 0
      <4>1. PICK o \in Source : Listed(o) /\ src[o].fd = m BY <3>1 DEF Sound, FilesApart
      <4>2. o # s BY <1>0, <3>1, <4>1
      <4> QED BY <1>2, <1>9, <4>1, <4>2
    <3>2. CASE m = src'[s].fd BY <1>1, <1>9, <3>2
    <3> QED BY <1>7, <2>6, <3>1, <3>2
  <2> QED BY <2>3, <2>4, <2>5, <2>6 DEF FilesApart
<1>18. SourcesOpen'
  <2> SUFFICES ASSUME NEW o \in Source
               PROVE  /\ ~Listed(o)' => src'[o].buffer = {} /\ src'[o].current = 0
                      /\ Listed(o)' /\ ~Rotated(o)' => src'[o].current # 0
                      /\ Listed(o)' /\ src'[o].current = 0 => done'
                      /\ Rotated(o)' => /\ src'[o].buffer = {}
                                        /\ src'[o].current # 0 =>
                                              file'[src'[o].current] = {}
    BY DEF SourcesOpen
  <2>1. CASE o = s
    <3>1. src'[s].current = 0 => done' BY <1>3, <1>4, <1>5
    <3> QED BY <1>1, <1>2, <1>6, <1>9, <2>1, <3>1
  <2>2. CASE o # s
    <3>1. src'[o] = src[o] /\ (Listed(o)' <=> Listed(o)) /\ (Rotated(o)' <=> Rotated(o))
      BY <1>2, <1>9, <2>2
    <3>2. src[o].current # 0 => file'[src[o].current] = file[src[o].current]
      BY <1>6, <1>10, <2>2
    <3> QED BY <1>4, <3>1, <3>2 DEF Sound, SourcesOpen
  <2> QED BY <2>1, <2>2
<1>19. OpenInSlot'
  <2> SUFFICES ASSUME NEW o \in Source, NEW q \in Unstored(o)' PROVE InSlot(q)'
    BY DEF OpenInSlot
  <2>1. o # s /\ q \in Unstored(o) BY <1>11, <1>12
  <2>2. InSlot(q) BY <2>1 DEF Sound, OpenInSlot
  <2> QED BY <1>2, <1>4, <2>2 DEF InSlot, timeVars
<1>20. Clocked'
  <2>1. k' >= 1 BY <1>2, <1>5
  <2> QED BY <1>2, <1>4, <2>1 DEF Clocked, Sound, timeVars
<1>21. StoredSlots'
  <2> SUFFICES ASSUME NEW o \in Source
               PROVE  /\ Listed(o)' => since'[o] <= t_start'
                      /\ \A t \in SlotTimes :
                            stored'[o][t] # 0 <=> /\ Listed(o)' /\ since'[o] <= t
                                                  /\ t < t_start' \/ (t = t_start' /\ Rotated(o)')
                      /\ IsFiniteSet(Stored(o)') /\ src'[o].books = Cardinality(Stored(o)')
    BY DEF StoredSlots
  <2>1. t_start' = t_start /\ since' = since BY <1>4 DEF timeVars
  <2>2. /\ Listed(o) => since[o] <= t_start
        /\ IsFiniteSet(Stored(o)) /\ src[o].books = Cardinality(Stored(o))
    BY DEF Sound, StoredSlots
  <2>3. \A t \in SlotTimes :
           stored[o][t] # 0 <=> /\ Listed(o) /\ since[o] <= t
                                /\ t < t_start \/ (t = t_start /\ Rotated(o))
    BY DEF Sound, StoredSlots
  <2>4. CASE o = s
    <3>1. IsFiniteSet(Stored(s)') /\ Cardinality(Stored(s)') = Cardinality(Stored(s)) + 1
      BY <1>14, <2>2, <2>4, FS_AddElement
    <3>2. ASSUME NEW t \in SlotTimes
          PROVE  stored'[s][t] # 0 <=> /\ Listed(s)' /\ since'[s] <= t
                                       /\ t < t_start' \/ (t = t_start' /\ Rotated(s)')
      <4>1. CASE t = t_start BY <1>1, <1>8, <1>9, <2>1, <2>2, <2>4, <4>1
      <4>2. CASE t # t_start BY <1>8, <1>9, <2>1, <2>3, <2>4, <4>2
      <4> QED BY <4>1, <4>2
    <3> QED BY <1>2, <1>9, <2>1, <2>2, <2>4, <3>1, <3>2
  <2>5. CASE o # s
    <3>1. src'[o] = src[o] /\ (Listed(o)' <=> Listed(o)) /\ (Rotated(o)' <=> Rotated(o))
          /\ Stored(o)' = Stored(o)
      BY <1>2, <1>9, <1>14, <2>5
    <3> QED BY <1>8, <2>1, <2>2, <2>3, <2>5, <3>1
  <2> QED BY <2>4, <2>5
<1>22. StoredInSlot'
  <2> SUFFICES ASSUME NEW o \in Source, NEW t \in Stored(o)', NEW q \in file'[stored'[o][t]]
               PROVE  /\ sent[q].time >= t
                      /\ sent[q].time < t + Twin \/ "behind" \in marks
    BY <1>2, <1>4 DEF StoredInSlot
  <2>1. CASE t \in Stored(o)
    <3>1. q \in file[stored[o][t]] BY <1>13, <2>1
    <3> QED BY <2>1, <3>1 DEF Sound, StoredInSlot
  <2>2. CASE o = s /\ t = t_start
    <3>1. q \in Unstored(s) BY <1>6, <1>8, <1>11, <2>2
    <3>2. InSlot(q) BY <3>1 DEF Sound, OpenInSlot
    <3> QED BY <2>2, <3>2 DEF InSlot
  <2> QED BY <1>14, <2>1, <2>2
<1>23. AllSomewhere'
  <2> SUFFICES ASSUME NEW q \in DOMAIN sent PROVE Somewhere(q)'
    BY <1>4 DEF AllSomewhere
  <2>1. PICK o \in Source : o = sent[q].src BY SentType
  <2>2. \/ q \in Unstored(o)
        \/ \E t \in Stored(o) : q \in file[stored[o][t]]
    BY <2>1 DEF Sound, AllSomewhere, Somewhere
  <2>3. \/ q \in Unstored(o)'
        \/ \E t \in Stored(o)' : q \in file'[stored'[o][t]]
    <3>1. CASE q \in Unstored(s) /\ o = s
      <4>1. q \in file'[stored'[s][t_start]] BY <1>6, <1>8, <1>11, <3>1
      <4> QED BY <1>14, <3>1, <4>1
    <3>2. CASE q \in Unstored(o) /\ o # s BY <1>12, <3>2
    <3>3. CASE \E t \in Stored(o) : q \in file[stored[o][t]]
      <4>1. PICK t \in Stored(o) : q \in file[stored[o][t]] BY <3>3
      <4>2. q \in file'[stored'[o][t]] BY <1>13, <4>1
      <4>3. t \in Stored(o)' BY <1>14
      <4> QED BY <4>2, <4>3
    <3> QED BY <2>2, <3>1, <3>2, <3>3
  <2>4. sent'[q].src = o BY <1>4, <2>1
  <2> QED BY <2>3, <2>4 DEF Somewhere
<1>24. ToldOver' BY <1>2, <1>4 DEF ToldOver, Sound, timeVars
<1>25. Packet' BY <1>4 DEF Packet, Sound
<1> QED BY <1>15, <1>16, <1>17, <1>18, <1>19, <1>20, <1>21, <1>22, <1>23, <1>24, <1>25
        DEF Sound

-----------------------------------------------------------------------------
(* The theorems                                                               *)

\* Faults are counted.
LEMMA FaultsCounted ==
    ASSUME faults \in Nat, [Next]_vars
    PROVE  faults' \in Nat /\ (faults' = 0 => faults = 0)
<1>1. CASE UNCHANGED faults BY <1>1
<1>2. ASSUME NEW n \in Nat, Allowed(n)
      PROVE  faults' \in Nat /\ (faults' = 0 => faults = 0)
  <2>1. faults' = faults + n BY <1>2 DEF Allowed
  <2> QED BY <2>1
<1>3. \A ok : Faults(ok) \in Nat BY DEF Faults
<1>4. CASE UNCHANGED vars BY <1>1, <1>4 DEF vars, hist
<1>5. CASE Tick BY <1>1, <1>5 DEF Tick, hist
<1>6. CASE Alarm BY <1>1, <1>6 DEF Alarm, hist
<1>7. CASE Terminate BY <1>1, <1>7 DEF Terminate, hist
<1>8. CASE LauncherDies BY <1>1, <1>8 DEF LauncherDies, hist
<1>9. CASE Receive BY <1>1, <1>9 DEF Receive, hist
<1>10. CASE ReceiveFails BY <1>2, <1>10 DEF ReceiveFails
<1>11. CASE Top BY <1>1, <1>11 DEF Top, hist
<1>12. CASE Call BY <1>1, <1>12 DEF Call, hist
<1>13. CASE Test BY <1>1, <1>13 DEF Test, hist
<1>14. CASE Rotate
  <2>1. PICK write, rename, open :
           Allowed(Faults(write) + Faults(rename) + Faults(open = "ok"))
    BY <1>14 DEF Rotate
  <2>2. Faults(write) + Faults(rename) + Faults(open = "ok") \in Nat BY <1>3
  <2> QED BY <1>2, <2>1, <2>2
<1>15. CASE NextSlot BY <1>1, <1>15 DEF NextSlot, hist
<1>16. CASE NoData BY <1>1, <1>16 DEF NoData, hist
<1>17. CASE Ignore BY <1>1, <1>17 DEF Ignore, hist
<1>18. CASE Process
  <2>1. PICK ok \in BOOLEAN : Allowed(Faults(ok)) BY <1>18 DEF Process
  <2> QED BY <1>2, <1>3, <2>1
<1>19. CASE AddSource BY <1>2, <1>19 DEF AddSource
<1> QED BY <1>4, <1>5, <1>6, <1>7, <1>8, <1>9, <1>10, <1>11, <1>12, <1>13, <1>14, <1>15,
           <1>16, <1>17, <1>18, <1>19 DEF Next, Step

\* Every step keeps the invariant.
LEMMA StepSound == IInv /\ [Next]_vars => IInv'
<1> SUFFICES ASSUME IInv, [Next]_vars PROVE IInv'
  OBVIOUS
<1>1. faults' \in Nat /\ (faults' = 0 => faults = 0) BY FaultsCounted DEF IInv
<1> SUFFICES ASSUME faults' = 0 PROVE Sound'
  BY <1>1 DEF IInv
<1>2. Sound /\ faults = 0 /\ faults \in Nat BY <1>1 DEF IInv
<1>3. CASE UNCHANGED vars
  <2>1. /\ UNCHANGED diskVars /\ now' = now /\ t_now' = t_now /\ k' = k /\ done' = done
        /\ pc' = pc /\ marks' = marks /\ launcher' = launcher /\ cnt' = cnt /\ pkt' = pkt
    BY <1>3 DEF vars, diskVars, disk, timeVars, hist
  <2>2. now' \in 0..MaxClock /\ now <= now' /\ t_now' \in 0..now' /\ k' \in Nat
    BY <1>2, <2>1, Bounds DEF Sound, Typed
  <2>3. \A s \in Source : Rotated(s)' <=> Rotated(s) BY <2>1 DEF Rotated, Listed, diskVars
  <2>4. Clocked' BY <1>2, <2>1 DEF Clocked, Sound, diskVars
  <2>5. ToldOver' /\ Packet' BY <1>2, <2>1 DEF ToldOver, Packet, Sound, diskVars
  <2> QED BY <1>2, <2>1, <2>2, <2>3, <2>4, <2>5, QuietStep
<1>4. CASE Tick BY <1>2, <1>4, TickStep
<1>5. CASE Alarm \/ Terminate \/ LauncherDies \/ Top \/ Call \/ Receive \/ Ignore
  BY <1>2, <1>5, SignalSteps
<1>6. ~ReceiveFails
  <2>1. ReceiveFails => faults' = faults + 1 BY DEF ReceiveFails, Allowed
  <2> QED BY <1>2, <2>1
<1>7. CASE Test BY <1>2, <1>7, TestStep
<1>8. CASE Rotate BY <1>2, <1>8, RotateStep
<1>9. CASE NextSlot BY <1>2, <1>9, NextSlotStep
<1>10. CASE NoData BY <1>2, <1>10, NoDataStep
<1>11. CASE Process BY <1>2, <1>11, ProcessStep
<1>12. CASE AddSource BY <1>2, <1>12, AddSourceStep
<1> QED BY <1>3, <1>4, <1>5, <1>6, <1>7, <1>8, <1>9, <1>10, <1>11, <1>12 DEF Next, Step

\* What the loop knows of its sources, files and slots holds always, as long as
\* no call has failed.
THEOREM LoopSound == Spec => []IInv
<1>1. Init => IInv BY InitSound
<1>2. IInv /\ [Next]_vars => IInv' BY StepSound
<1> QED BY <1>1, <1>2, PTL DEF Spec

\* A stored file has the packets of its slot (Process and Rotate of nfcapd.c): for
\* any number of senders, and however packets, alarms and the rotation interleave.
THEOREM SlotKept == Spec => []InOwnSlot
<1>1. IInv => InOwnSlot
  <2>1. IInv /\ faults = 0 => StoredInSlot BY DEF IInv, Sound
  <2> QED BY <2>1 DEF StoredInSlot, InOwnSlot
<1> QED BY <1>1, LoopSound, PTL

\* What the launcher is told, the books and the records of a collector that was
\* stopped: no slot of a source is missing and no record is left behind.
THEOREM SlotsStored == Spec => []SlotsComplete
<1>1. IInv => SlotsComplete
  <2> SUFFICES ASSUME Sound
               PROVE  /\ \A i \in DOMAIN fs : LET s == fs[i] IN
                            /\ \A slot \in launcher.told : \A t \in SlotTimes :
                                  since[s] <= t /\ t <= slot => t \in Stored(s)
                            /\ src[s].books = Cardinality(Stored(s))
                      /\ pc = "end" /\ "skipped" \notin marks =>
                            \A r \in DOMAIN sent :
                               \E t \in Stored(sent[r].src) : r \in file[stored[sent[r].src][t]]
    BY DEF IInv, SlotsComplete
  <2>1. ASSUME NEW i \in DOMAIN fs, NEW slot \in launcher.told, NEW t \in SlotTimes,
               since[fs[i]] <= t, t <= slot
        PROVE  t \in Stored(fs[i])
    <3>1. PICK s \in Source : s = fs[i] /\ Listed(s)
      <4>1. fs \in Seq(Source) BY DEF Sound, Typed
      <4> QED BY <4>1, ElementOf DEF Listed
    <3>2. /\ slot \in SlotTimes
          /\ slot < t_start \/ (slot = t_start /\ pc = "end" /\ "skipped" \notin marks)
      BY DEF Sound, ToldOver
    <3>3. t \in Nat /\ slot \in Nat /\ t_start \in Nat
      BY <3>2, SlotIsNat DEF Sound, Typed
    <3>4. t < t_start \/ (t = t_start /\ Rotated(s))
      <4>1. CASE slot < t_start BY <2>1, <3>3, <4>1
      <4>2. CASE slot = t_start /\ pc = "end" /\ "skipped" \notin marks
        <5>1. Rotated(s) BY <3>1, <4>2 DEF Rotated
        <5> QED BY <2>1, <3>3, <4>2, <5>1
      <4> QED BY <3>2, <4>1, <4>2
    <3>5. stored[s][t] # 0 BY <2>1, <3>1, <3>4 DEF Sound, StoredSlots
    <3> QED BY <3>1, <3>5 DEF Stored
  <2>2. ASSUME NEW i \in DOMAIN fs PROVE src[fs[i]].books = Cardinality(Stored(fs[i]))
    <3>1. fs \in Seq(Source) BY DEF Sound, Typed
    <3>2. fs[i] \in Source BY <3>1, ElementOf
    <3> QED BY <3>2 DEF Sound, StoredSlots
  <2>3. ASSUME pc = "end", "skipped" \notin marks, NEW r \in DOMAIN sent
        PROVE  \E t \in Stored(sent[r].src) : r \in file[stored[sent[r].src][t]]
    <3>1. PICK s \in Source : s = sent[r].src BY SentType
    <3>2. \/ r \in Unstored(s)
          \/ \E t \in Stored(s) : r \in file[stored[s][t]]
      BY <3>1 DEF Sound, AllSomewhere, Somewhere
    <3>3. Unstored(s) = {}
      <4>1. CASE Listed(s)
        <5>1. Rotated(s) BY <2>3, <4>1 DEF Rotated
        <5> QED BY <5>1 DEF Sound, SourcesOpen, Unstored
      <4>2. CASE ~Listed(s) BY <4>2 DEF Sound, SourcesOpen, Unstored
      <4> QED BY <4>1, <4>2
    <3> QED BY <3>1, <3>2, <3>3
  <2> QED BY <2>1, <2>2, <2>3
<1> QED BY <1>1, LoopSound, PTL

-----------------------------------------------------------------------------
(* The calls on files, whether they succeed or fail                           *)

\* What Opened, Written, Closed, Renamed and Buffered work on.
DiskType == [src : [Source -> SrcType], fds : [Fd -> Nat], file : Seq(SUBSET Nat),
             stored : [Source -> [SlotTimes -> Nat]], lost : SUBSET Nat]

\* With the first n records.
Sane(d, n) ==
    /\ d \in DiskType /\ d.lost \subseteq 1..n
    /\ \A s \in Source : /\ d.src[s].buffer \subseteq 1..n
                         /\ d.src[s].fd \in Fd \cup {NoFd}
                         /\ d.src[s].current \in 0..Len(d.file)
    /\ \A m \in Fd : d.fds[m] \in 0..Len(d.file)
    /\ \A i \in DOMAIN d.file : d.file[i] \subseteq 1..n

\* What the calls do, as relations.
Others(d, e, s) == \A o \in Source : o # s => e.src[o] = d.src[o]

\* WriteBlock: nothing, or the buffer is moved to the file of the descriptor.
IsWritten(d, e, s) ==
    \/ e = d
    \/ /\ e \in DiskType /\ Others(d, e, s)
       /\ e.fds = d.fds /\ e.stored = d.stored /\ e.lost = d.lost
       /\ e.src[s].fd = d.src[s].fd /\ e.src[s].current = d.src[s].current
       /\ e.src[s].buffer = {}
       /\ d.src[s].fd \in Fd /\ d.fds[d.src[s].fd] \in DOMAIN d.file
       /\ Len(e.file) = Len(d.file)
       /\ \A j \in DOMAIN d.file :
             e.file[j] = IF j = d.fds[d.src[s].fd] THEN d.file[j] \cup d.src[s].buffer
                         ELSE d.file[j]

IsClosed(d, e, s) ==
    /\ e \in DiskType /\ e.src = d.src /\ e.file = d.file /\ e.stored = d.stored
    /\ e.lost = d.lost
    /\ \A m \in Fd : e.fds[m] = d.fds[m] \/ (m = d.src[s].fd /\ e.fds[m] = 0)

IsRenamed(d, e, s, slot) ==
    /\ e \in DiskType /\ Others(d, e, s)
    /\ e.fds = d.fds /\ e.file = d.file /\ e.lost = d.lost
    /\ e.src[s].fd = d.src[s].fd /\ e.src[s].buffer = d.src[s].buffer
    /\ e.src[s].current = 0
    /\ \A o \in Source, t \in SlotTimes :
          e.stored[o][t] = IF o = s /\ t = slot THEN d.src[s].current ELSE d.stored[o][t]

\* A source loses its descriptor.
IsUnopened(d, e, s) ==
    /\ e \in DiskType /\ Others(d, e, s)
    /\ e.fds = d.fds /\ e.file = d.file /\ e.stored = d.stored /\ e.lost = d.lost
    /\ e.src[s].buffer = d.src[s].buffer /\ e.src[s].current = d.src[s].current
    /\ e.src[s].fd = NoFd

\* A new file, or one that is truncated.
IsOpened(d, e, s) ==
    /\ e \in DiskType /\ Others(d, e, s) /\ e.stored = d.stored
    /\ e.src[s].buffer = d.src[s].buffer
    /\ e.src[s].fd \in Fd /\ d.fds[e.src[s].fd] = 0
    /\ \A m \in Fd : m # e.src[s].fd => e.fds[m] = d.fds[m]
    /\ e.fds[e.src[s].fd] \in {0, e.src[s].current}
    /\ e.src[s].current # 0
    /\ e.file[e.src[s].current] = {}
    /\ \A i \in DOMAIN d.file : i # e.src[s].current => e.file[i] = d.file[i]
    /\ \/ /\ d.src[s].current = 0 /\ e.src[s].current = Len(d.file) + 1
          /\ Len(e.file) = Len(d.file) + 1 /\ e.lost = d.lost
       \/ /\ e.src[s].current = d.src[s].current /\ d.src[s].current \in DOMAIN d.file
          /\ Len(e.file) = Len(d.file) /\ e.lost = d.lost \cup d.file[d.src[s].current]

\* A record is added to a buffer, or given up.
IsAdded(d, e, s, r) ==
    /\ e \in DiskType /\ Others(d, e, s)
    /\ e.fds = d.fds /\ e.file = d.file /\ e.stored = d.stored
    /\ e.src[s].fd = d.src[s].fd /\ e.src[s].current = d.src[s].current
    /\ \/ e.lost = d.lost \cup {r} /\ e.src[s].buffer = d.src[s].buffer
       \/ e.lost = d.lost /\ e.src[s].buffer = d.src[s].buffer \cup {r}

LEMMA DiskParts ==
    ASSUME NEW d \in DiskType
    PROVE  /\ d = [src |-> d.src, fds |-> d.fds, file |-> d.file, stored |-> d.stored,
                   lost |-> d.lost]
           /\ d.src \in [Source -> SrcType] /\ d.fds \in [Fd -> Nat]
           /\ d.file \in Seq(SUBSET Nat) /\ d.lost \in SUBSET Nat
           /\ d.stored \in [Source -> [SlotTimes -> Nat]]
BY DEF DiskType

LEMMA DiskFields ==
    ASSUME NEW d \in DiskType, NEW s \in Source
    PROVE  /\ d = [src |-> d.src, fds |-> d.fds, file |-> d.file, stored |-> d.stored,
                   lost |-> d.lost]
           /\ d.src \in [Source -> SrcType] /\ d.fds \in [Fd -> Nat]
           /\ d.file \in Seq(SUBSET Nat) /\ d.lost \in SUBSET Nat
           /\ d.stored \in [Source -> [SlotTimes -> Nat]]
           /\ d.src[s] \in SrcType
           /\ d.src[s].buffer \in SUBSET Nat /\ d.src[s].books \in Nat
           /\ d.src[s].fd \in Nat /\ d.src[s].current \in Nat
<1>1. /\ d = [src |-> d.src, fds |-> d.fds, file |-> d.file, stored |-> d.stored,
              lost |-> d.lost]
      /\ d.src \in [Source -> SrcType] /\ d.fds \in [Fd -> Nat]
      /\ d.file \in Seq(SUBSET Nat) /\ d.lost \in SUBSET Nat
      /\ d.stored \in [Source -> [SlotTimes -> Nat]]
  BY DiskParts
<1>2. d.src[s] \in SrcType BY <1>1
<1> QED BY <1>1, <1>2 DEF SrcType

LEMMA FileChanges ==
    ASSUME NEW q \in Seq(SUBSET Nat), NEW i \in DOMAIN q, NEW x \in SUBSET Nat, NEW u,
           u = [q EXCEPT ![i] = x]
    PROVE  /\ u \in Seq(SUBSET Nat) /\ Len(u) = Len(q)
           /\ u[i] = x /\ \A j \in DOMAIN q : j # i => u[j] = q[j]
OBVIOUS

LEMMA WrittenRel ==
    ASSUME NEW n \in Nat, NEW d, Sane(d, n), NEW s \in Source, NEW ok \in BOOLEAN,
           NEW e, e = Written(d, s, ok)
    PROVE  /\ IsWritten(d, e, s)
           /\ ok /\ d.src[s].fd \in Fd /\ d.fds[d.src[s].fd] # 0 => e.src[s].buffer = {}
<1>0. d \in DiskType BY DEF Sane
<1>1. CASE ~Writable(d, s, ok)
  <2>1. e = d BY <1>1 DEF Written
  <2>2. d.src[s].fd \in Fd => d.src[s].fd # NoFd BY Bounds DEF Fd, NoFd
  <2> QED BY <1>1, <2>1, <2>2 DEF IsWritten, Writable
<1>2. CASE Writable(d, s, ok)
  <2>1. PICK f : f = d.src[s].fd OBVIOUS
  <2>2. PICK i : i = d.fds[f] OBVIOUS
  <2>3. f \in Fd /\ i # 0 BY <1>2, <2>1, <2>2 DEF Writable, Sane
  <2>4. i \in 1..Len(d.file) BY <2>2, <2>3, <1>0, DiskFields DEF Sane
  <2>5. i \in DOMAIN d.file BY <2>4, <1>0, DiskFields
  <2>6. PICK x \in SUBSET Nat : x = d.file[i] \cup d.src[s].buffer
    <3>1. d.file[i] \in SUBSET Nat BY <1>0, <2>5, DiskFields, ElementOf
    <3>2. d.src[s].buffer \in SUBSET Nat BY <1>0, DiskFields
    <3> QED BY <3>1, <3>2
  <2>7. PICK u : u = [d.file EXCEPT ![i] = x] OBVIOUS
  <2>8. PICK v : v = [d.src EXCEPT ![s].buffer = {}] OBVIOUS
  <2>9. e = [d EXCEPT !.file[i] = x, !.src[s].buffer = {}]
    BY <1>2, <2>1, <2>2, <2>6 DEF Written
  <2>10. e = [src |-> v, fds |-> d.fds, file |-> u, stored |-> d.stored, lost |-> d.lost]
    <3>1. d = [src |-> d.src, fds |-> d.fds, file |-> d.file, stored |-> d.stored,
               lost |-> d.lost]
      BY <1>0, DiskFields
    <3> QED BY <2>7, <2>8, <2>9, <3>1
  <2>11. /\ u \in Seq(SUBSET Nat) /\ Len(u) = Len(d.file)
         /\ u[i] = x /\ \A j \in DOMAIN d.file : j # i => u[j] = d.file[j]
    BY <1>0, <2>5, <2>7, DiskFields, FileChanges
  <2>12. /\ v \in [Source -> SrcType] /\ \A o \in Source : o # s => v[o] = d.src[o]
         /\ v[s].buffer = {} /\ v[s].fd = d.src[s].fd /\ v[s].current = d.src[s].current
    BY <1>0, <2>8, DiskFields DEF SrcType
  <2>13. /\ e \in DiskType /\ e.src = v /\ e.fds = d.fds /\ e.file = u
         /\ e.stored = d.stored /\ e.lost = d.lost
    <3>1. /\ d.fds \in [Fd -> Nat] /\ d.stored \in [Source -> [SlotTimes -> Nat]]
          /\ d.lost \in SUBSET Nat
      BY <1>0, DiskParts
    <3> QED BY <2>10, <2>11, <2>12, <3>1 DEF DiskType
  <2>14. IsWritten(d, e, s)
    BY <2>1, <2>2, <2>3, <2>5, <2>6, <2>11, <2>12, <2>13 DEF IsWritten, Others
  <2> QED BY <2>12, <2>13, <2>14
<1> QED BY <1>1, <1>2

LEMMA ClosedRel ==
    ASSUME NEW d \in DiskType, NEW s \in Source, NEW ok \in BOOLEAN,
           NEW w \in DiskType, w = Written(d, s, ok), NEW e, e = Closed(d, s, ok)
    PROVE  /\ IsClosed(w, e, s)
           /\ w.src[s].fd \in Fd /\ w.src[s].buffer = {} => e.fds[w.src[s].fd] = 0
<1>1. CASE w.src[s].buffer # {} \/ w.src[s].fd = NoFd
  <2>1. e = w BY <1>1 DEF Closed
  <2>2. w.src[s].fd \in Fd => w.src[s].fd # NoFd BY Bounds DEF Fd, NoFd
  <2> QED BY <1>1, <2>1, <2>2 DEF IsClosed
<1>2. CASE ~(w.src[s].buffer # {} \/ w.src[s].fd = NoFd)
  <2>1. PICK f : f = w.src[s].fd OBVIOUS
  <2>2. e = [w EXCEPT !.fds[f] = 0] BY <1>2, <2>1 DEF Closed
  <2>3. PICK g : g = [w.fds EXCEPT ![f] = 0] OBVIOUS
  <2>4. e = [src |-> w.src, fds |-> g, file |-> w.file, stored |-> w.stored, lost |-> w.lost]
    <3>1. w = [src |-> w.src, fds |-> w.fds, file |-> w.file, stored |-> w.stored,
               lost |-> w.lost]
      BY DiskFields
    <3> QED BY <2>2, <2>3, <3>1
  <2>5. g \in [Fd -> Nat] /\ \A m \in Fd : g[m] = IF m = f THEN 0 ELSE w.fds[m]
    BY <2>3, DiskFields
  <2>6. /\ e \in DiskType /\ e.src = w.src /\ e.fds = g /\ e.file = w.file
        /\ e.stored = w.stored /\ e.lost = w.lost
    <3>1. /\ w.src \in [Source -> SrcType] /\ w.file \in Seq(SUBSET Nat)
          /\ w.stored \in [Source -> [SlotTimes -> Nat]] /\ w.lost \in SUBSET Nat
      BY DiskParts
    <3> QED BY <2>4, <2>5, <3>1 DEF DiskType
  <2> QED BY <2>1, <2>5, <2>6 DEF IsClosed
<1> QED BY <1>1, <1>2

LEMMA RenamedRel ==
    ASSUME NEW d \in DiskType, NEW s \in Source, NEW slot \in SlotTimes,
           NEW e, e = Renamed(d, s, slot)
    PROVE  IsRenamed(d, e, s, slot)
<1>1. PICK c \in Nat : c = d.src[s].current BY DiskFields
<1>2. PICK v : v = [d.src EXCEPT ![s].current = 0, ![s].books = @ + 1] OBVIOUS
<1>3. PICK st : st = [d.stored EXCEPT ![s][slot] = c] OBVIOUS
<1>4. e = [d EXCEPT !.stored[s][slot] = c, !.src[s].current = 0, !.src[s].books = @ + 1]
  BY <1>1 DEF Renamed
<1>5. e = [src |-> v, fds |-> d.fds, file |-> d.file, stored |-> st, lost |-> d.lost]
  <2>1. d = [src |-> d.src, fds |-> d.fds, file |-> d.file, stored |-> d.stored,
             lost |-> d.lost]
    BY DiskFields
  <2> QED BY ZenonT(60), <1>2, <1>3, <1>4, <2>1
<1>6. /\ v \in [Source -> SrcType] /\ \A o \in Source : o # s => v[o] = d.src[o]
      /\ v[s].buffer = d.src[s].buffer /\ v[s].fd = d.src[s].fd /\ v[s].current = 0
  <2>1. d.src \in [Source -> SrcType] /\ d.src[s] \in SrcType BY DiskFields
  <2> QED BY <1>2, <2>1 DEF SrcType
<1>7. /\ st \in [Source -> [SlotTimes -> Nat]]
      /\ \A o \in Source, t \in SlotTimes :
            st[o][t] = IF o = s /\ t = slot THEN c ELSE d.stored[o][t]
  <2>1. d.stored \in [Source -> [SlotTimes -> Nat]] BY DiskFields
  <2> QED BY <1>1, <1>3, <2>1
<1>8. /\ e \in DiskType /\ e.src = v /\ e.fds = d.fds /\ e.file = d.file
      /\ e.stored = st /\ e.lost = d.lost
  <2>1. /\ d.fds \in [Fd -> Nat] /\ d.file \in Seq(SUBSET Nat) /\ d.lost \in SUBSET Nat
    BY DiskParts
  <2> QED BY <1>5, <1>6, <1>7, <2>1 DEF DiskType
<1> QED BY <1>1, <1>6, <1>7, <1>8 DEF IsRenamed, Others

LEMMA UnopenedRel ==
    ASSUME NEW d \in DiskType, NEW s \in Source, NEW e, e = Opened(d, s, "nofile")
    PROVE  IsUnopened(d, e, s)
<1>1. e = [d EXCEPT !.src[s].fd = NoFd] BY DEF Opened
<1>2. PICK v : v = [d.src EXCEPT ![s].fd = 0] OBVIOUS
<1>3. e = [src |-> v, fds |-> d.fds, file |-> d.file, stored |-> d.stored, lost |-> d.lost]
  <2>1. d = [src |-> d.src, fds |-> d.fds, file |-> d.file, stored |-> d.stored,
             lost |-> d.lost]
    BY DiskFields
  <2> QED BY <1>1, <1>2, <2>1 DEF NoFd
<1>4. /\ v \in [Source -> SrcType] /\ \A o \in Source : o # s => v[o] = d.src[o]
      /\ v[s].buffer = d.src[s].buffer /\ v[s].current = d.src[s].current /\ v[s].fd = 0
  <2>1. d.src \in [Source -> SrcType] /\ d.src[s] \in SrcType BY DiskFields
  <2> QED BY <1>2, <2>1 DEF SrcType
<1>5. /\ e \in DiskType /\ e.src = v /\ e.fds = d.fds /\ e.file = d.file
      /\ e.stored = d.stored /\ e.lost = d.lost
  <2>1. /\ d.fds \in [Fd -> Nat] /\ d.file \in Seq(SUBSET Nat) /\ d.lost \in SUBSET Nat
        /\ d.stored \in [Source -> [SlotTimes -> Nat]]
    BY DiskParts
  <2> QED BY <1>3, <1>4, <2>1 DEF DiskType
<1> QED BY <1>4, <1>5 DEF IsUnopened, Others, NoFd

LEMMA OpenedRel ==
    ASSUME NEW n \in Nat, NEW d, Sane(d, n), NEW s \in Source, NEW outcome \in {"ok", "header"},
           \E m \in Fd : d.fds[m] = 0,
           NEW e, e = Opened(d, s, outcome)
    PROVE  /\ IsOpened(d, e, s)
           /\ outcome = "ok" => e.fds[e.src[s].fd] = e.src[s].current
<1>0. d \in DiskType BY DEF Sane
<1>1. PICK fd : fd = Min({m \in Fd : d.fds[m] = 0}) OBVIOUS
<1>2. fd \in Fd /\ d.fds[fd] = 0 /\ fd \in Nat
  <2>1. {m \in Fd : d.fds[m] = 0} \in SUBSET Nat BY Bounds DEF Fd
  <2>2. fd \in {m \in Fd : d.fds[m] = 0} BY <1>1, <2>1, MinInSet
  <2> QED BY <2>1, <2>2
<1>3. PICK c \in Nat : c = d.src[s].current BY <1>0, DiskFields
<1>4. c \in 0..Len(d.file) /\ d.file \in Seq(SUBSET Nat) /\ Len(d.file) \in Nat
      /\ DOMAIN d.file = 1..Len(d.file)
  <2>1. d.file \in Seq(SUBSET Nat) BY <1>0, DiskParts
  <2> QED BY <1>3, <2>1 DEF Sane
<1>5. PICK ino \in Nat : ino = IF c = 0 THEN Len(d.file) + 1 ELSE c BY <1>4
<1>6. PICK u : u = IF c = 0 THEN Append(d.file, {}) ELSE [d.file EXCEPT ![ino] = {}] OBVIOUS
<1>7. PICK l : l = IF c = 0 THEN d.lost ELSE d.lost \cup d.file[ino] OBVIOUS
<1>8. PICK v : v = [d.src EXCEPT ![s].current = ino, ![s].fd = fd] OBVIOUS
<1>9. PICK g : g = IF outcome = "ok" THEN [d.fds EXCEPT ![fd] = ino] ELSE d.fds OBVIOUS
<1>10. d = [src |-> d.src, fds |-> d.fds, file |-> d.file, stored |-> d.stored,
            lost |-> d.lost]
  BY <1>0, DiskParts
<1>11. PICK at : at = [d EXCEPT !.file = u, !.lost = l, !.src[s].current = ino, !.src[s].fd = fd]
  OBVIOUS
<1>12. at = [src |-> v, fds |-> d.fds, file |-> u, stored |-> d.stored, lost |-> l]
  BY <1>8, <1>10, <1>11
<1>13. e = IF outcome = "ok" THEN [at EXCEPT !.fds[fd] = ino] ELSE at
  <2>1. CASE c = 0
    <3>1. u = Append(d.file, {}) /\ l = d.lost /\ ino = Len(d.file) + 1
      BY <1>5, <1>6, <1>7, <2>1
    <3>2. at = [d EXCEPT !.file = Append(@, {}), !.lost = @, !.src[s].current = Len(d.file) + 1,
                         !.src[s].fd = Min({m \in Fd : d.fds[m] = 0})]
      BY <1>1, <1>11, <3>1
    <3>3. CASE outcome = "ok"
      <4>1. e = Opened(d, s, "ok") BY <3>3
      <4>2. e = [at EXCEPT !.fds[fd] = ino]
        BY ZenonT(40), <1>1, <1>3, <2>1, <3>1, <3>2, <4>1 DEF Opened
      <4> QED BY <3>3, <4>2
    <3>4. CASE outcome = "header"
      <4>1. e = at BY ZenonT(40), <1>1, <1>3, <2>1, <3>1, <3>2, <3>4 DEF Opened
      <4>2. outcome # "ok" BY <3>4
      <4> QED BY <4>1, <4>2
    <3> QED BY <3>3, <3>4
  <2>2. CASE c # 0
    <3>1. u = [d.file EXCEPT ![c] = {}] /\ l = d.lost \cup d.file[c] /\ ino = c
      BY <1>5, <1>6, <1>7, <2>2
    <3>2. at = [d EXCEPT !.file = [@ EXCEPT ![d.src[s].current] = {}],
                         !.lost = @ \cup d.file[d.src[s].current],
                         !.src[s].current = d.src[s].current,
                         !.src[s].fd = Min({m \in Fd : d.fds[m] = 0})]
      BY <1>1, <1>3, <1>11, <3>1
    <3>3. CASE outcome = "ok"
      <4>1. e = Opened(d, s, "ok") BY <3>3
      <4>2. e = [at EXCEPT !.fds[fd] = ino]
        BY ZenonT(40), <1>1, <1>3, <2>2, <3>1, <3>2, <4>1 DEF Opened
      <4> QED BY <3>3, <4>2
    <3>4. CASE outcome = "header"
      <4>1. e = at BY ZenonT(40), <1>1, <1>3, <2>2, <3>1, <3>2, <3>4 DEF Opened
      <4>2. outcome # "ok" BY <3>4
      <4> QED BY <4>1, <4>2
    <3> QED BY <3>3, <3>4
  <2> QED BY <2>1, <2>2
<1>14. e = [src |-> v, fds |-> g, file |-> u, stored |-> d.stored, lost |-> l]
  BY <1>9, <1>12, <1>13
<1>15. /\ v \in [Source -> SrcType] /\ \A o \in Source : o # s => v[o] = d.src[o]
       /\ v[s].buffer = d.src[s].buffer /\ v[s].fd = fd /\ v[s].current = ino
  <2>1. d.src \in [Source -> SrcType] /\ d.src[s] \in SrcType BY <1>0, DiskFields
  <2> QED BY <1>2, <1>8, <2>1 DEF SrcType
<1>16. /\ g \in [Fd -> Nat] /\ \A m \in Fd : m # fd => g[m] = d.fds[m]
       /\ g[fd] \in {0, ino} /\ (outcome = "ok" => g[fd] = ino)
  <2>1. d.fds \in [Fd -> Nat] BY <1>0, DiskParts
  <2> QED BY <1>2, <1>9, <2>1
<1>17. /\ u \in Seq(SUBSET Nat) /\ u[ino] = {}
       /\ \A i \in DOMAIN d.file : i # ino => u[i] = d.file[i]
       /\ Len(u) = IF c = 0 THEN Len(d.file) + 1 ELSE Len(d.file)
  <2>1. CASE c = 0 BY <1>4, <1>5, <1>6, <2>1
  <2>2. CASE c # 0
    <3>1. ino \in DOMAIN d.file /\ {} \in SUBSET Nat BY <1>4, <1>5, <2>2
    <3> QED BY <1>4, <1>6, <2>2, <3>1, FileChanges
  <2> QED BY <2>1, <2>2
<1>18. l \in SUBSET Nat
  <2>1. CASE c = 0 BY <1>0, <1>7, <2>1, DiskParts
  <2>2. CASE c # 0
    <3>1. ino \in DOMAIN d.file BY <1>4, <1>5, <2>2
    <3>2. d.file[ino] \in SUBSET Nat BY <1>4, <3>1, ElementOf
    <3> QED BY <1>0, <1>7, <2>2, <3>2, DiskParts
  <2> QED BY <2>1, <2>2
<1>19. /\ e \in DiskType /\ e.src = v /\ e.fds = g /\ e.file = u
       /\ e.stored = d.stored /\ e.lost = l
  <2>1. d.stored \in [Source -> [SlotTimes -> Nat]] BY <1>0, DiskParts
  <2> QED BY <1>14, <1>15, <1>16, <1>17, <1>18, <2>1 DEF DiskType
<1>20. ino # 0 BY <1>4, <1>5
<1>21. \/ /\ d.src[s].current = 0 /\ ino = Len(d.file) + 1
          /\ Len(e.file) = Len(d.file) + 1 /\ e.lost = d.lost
       \/ /\ ino = d.src[s].current /\ d.src[s].current \in DOMAIN d.file
          /\ Len(e.file) = Len(d.file) /\ e.lost = d.lost \cup d.file[d.src[s].current]
  <2>1. CASE c = 0 BY <1>3, <1>5, <1>7, <1>17, <1>19, <2>1
  <2>2. CASE c # 0 BY <1>3, <1>4, <1>5, <1>7, <1>17, <1>19, <2>2
  <2> QED BY <2>1, <2>2
<1>22. IsOpened(d, e, s)
  BY <1>2, <1>15, <1>16, <1>17, <1>19, <1>20, <1>21 DEF IsOpened, Others
<1> QED BY <1>15, <1>16, <1>19, <1>22

LEMMA BufferedRel ==
    ASSUME NEW n \in Nat, NEW d, Sane(d, n), NEW s \in Source, NEW ok \in BOOLEAN,
           n = Len(sent), NEW e, e = Buffered(d, s, ok)
    PROVE  \E w : IsWritten(d, w, s) /\ IsAdded(w, e, s, n + 1)
<1>0. d \in DiskType BY DEF Sane
<1>1. PICK w : w = Written(d, s, ok) OBVIOUS
<1>2. IsWritten(d, w, s) BY <1>1, WrittenRel
<1>3. IsWritten(d, d, s) BY DEF IsWritten
<1>4. PICK x : x = IF Cardinality(d.src[s].buffer) = BufferSize THEN w ELSE d OBVIOUS
<1>5. x \in DiskType /\ IsWritten(d, x, s) BY <1>0, <1>2, <1>3, <1>4 DEF IsWritten
<1>6. PICK r \in Nat : r = n + 1 OBVIOUS
<1>7. \/ e = [d EXCEPT !.lost = @ \cup {r}]
      \/ e = [x EXCEPT !.src[s].buffer = @ \cup {r}]
  BY <1>1, <1>4, <1>6 DEF Buffered
<1>8. CASE e = [d EXCEPT !.lost = @ \cup {r}]
  <2>1. PICK l : l = d.lost \cup {r} OBVIOUS
  <2>2. e = [src |-> d.src, fds |-> d.fds, file |-> d.file, stored |-> d.stored, lost |-> l]
    <3>1. d = [src |-> d.src, fds |-> d.fds, file |-> d.file, stored |-> d.stored,
               lost |-> d.lost]
      BY <1>0, DiskParts
    <3> QED BY <1>8, <2>1, <3>1
  <2>3. l \in SUBSET Nat BY <1>0, <1>6, <2>1, DiskParts
  <2>4. /\ e \in DiskType /\ e.src = d.src /\ e.fds = d.fds /\ e.file = d.file
        /\ e.stored = d.stored /\ e.lost = l
    <3>1. /\ d.fds \in [Fd -> Nat] /\ d.file \in Seq(SUBSET Nat)
          /\ d.src \in [Source -> SrcType] /\ d.stored \in [Source -> [SlotTimes -> Nat]]
      BY <1>0, DiskParts
    <3> QED BY <2>2, <2>3, <3>1 DEF DiskType
  <2>5. IsAdded(d, e, s, n + 1) BY <1>6, <2>1, <2>4 DEF IsAdded, Others
  <2> QED BY <1>3, <2>5
<1>9. CASE e = [x EXCEPT !.src[s].buffer = @ \cup {r}]
  <2>1. PICK b : b = x.src[s].buffer \cup {r} OBVIOUS
  <2>2. PICK v : v = [x.src EXCEPT ![s].buffer = b] OBVIOUS
  <2>3. e = [src |-> v, fds |-> x.fds, file |-> x.file, stored |-> x.stored, lost |-> x.lost]
    <3>1. x = [src |-> x.src, fds |-> x.fds, file |-> x.file, stored |-> x.stored,
               lost |-> x.lost]
      BY <1>5, DiskParts
    <3> QED BY <1>9, <2>1, <2>2, <3>1
  <2>4. b \in SUBSET Nat BY <1>5, <1>6, <2>1, DiskFields
  <2>5. /\ v \in [Source -> SrcType] /\ \A o \in Source : o # s => v[o] = x.src[o]
        /\ v[s].buffer = b /\ v[s].fd = x.src[s].fd /\ v[s].current = x.src[s].current
    <3>1. x.src \in [Source -> SrcType] /\ x.src[s] \in SrcType BY <1>5, DiskFields
    <3> QED BY <2>2, <2>4, <3>1 DEF SrcType
  <2>6. /\ e \in DiskType /\ e.src = v /\ e.fds = x.fds /\ e.file = x.file
        /\ e.stored = x.stored /\ e.lost = x.lost
    <3>1. /\ x.fds \in [Fd -> Nat] /\ x.file \in Seq(SUBSET Nat)
          /\ x.lost \in SUBSET Nat /\ x.stored \in [Source -> [SlotTimes -> Nat]]
      BY <1>5, DiskParts
    <3> QED BY <2>3, <2>5, <3>1 DEF DiskType
  <2>7. IsAdded(x, e, s, n + 1) BY <1>6, <2>1, <2>5, <2>6 DEF IsAdded, Others
  <2> QED BY <1>5, <2>7
<1> QED BY <1>7, <1>8, <1>9

\* Where the records are, sn what is known of them.
FilesIn(d, s) == {d.src[s].current} \cup {d.stored[s][t] : t \in SlotTimes}
InBuffer(d, sn) ==
    \A s \in Source : \A r \in d.src[s].buffer :
       r \notin d.lost /\ sn[r].src = s /\ \A i \in DOMAIN d.file : r \notin d.file[i]
InFile(d, sn) ==
    \A i \in DOMAIN d.file : \A r \in d.file[i] :
       r \notin d.lost /\ i \in FilesIn(d, sn[r].src)
       /\ \A j \in DOMAIN d.file : r \in d.file[j] => i = j
Kept(d, sn) ==
    \A r \in 1..Len(sn) : \/ r \in d.lost
                          \/ \E s \in Source : r \in d.src[s].buffer
                          \/ \E i \in DOMAIN d.file : r \in d.file[i]
PlacedIn(d, sn) == InBuffer(d, sn) /\ InFile(d, sn) /\ Kept(d, sn)
SentSeq == Seq([src : Source, time : Nat])

\* The descriptor of a source of S is that of its current file, and nobody else's.
Owns(d, S) ==
    \A s \in S : d.src[s].fd # NoFd =>
       /\ d.fds[d.src[s].fd] = d.src[s].current /\ d.src[s].current # 0
       /\ \A o \in S : o # s => d.src[o].fd # d.src[s].fd

LEMMA RecordSource == ASSUME NEW sn \in SentSeq, NEW r \in 1..Len(sn) PROVE sn[r].src \in Source
<1>1. sn \in Seq([src : Source, time : Nat]) /\ r \in DOMAIN sn BY DEF SentSeq
<1>2. sn[r] \in [src : Source, time : Nat] BY ONLY <1>1, ElementOf
<1> QED BY <1>2

LEMMA SaneFields ==
    ASSUME NEW n, NEW d, Sane(d, n)
    PROVE  /\ d \in DiskType /\ DOMAIN d.file = 1..Len(d.file) /\ Len(d.file) \in Nat
           /\ d.fds \in [Fd -> Nat]
<1>1. d \in DiskType BY DEF Sane
<1>2. d.file \in Seq(SUBSET Nat) /\ d.fds \in [Fd -> Nat] BY <1>1, DiskParts
<1> QED BY <1>1, <1>2

LEMMA WrittenSane ==
    ASSUME NEW n \in Nat, NEW d, NEW e, NEW s \in Source, Sane(d, n), IsWritten(d, e, s)
    PROVE  Sane(e, n)
<1>1. CASE e = d BY <1>1
<1>2. CASE e # d
  <2>1. /\ e \in DiskType /\ Others(d, e, s)
        /\ e.fds = d.fds /\ e.stored = d.stored /\ e.lost = d.lost
        /\ e.src[s].fd = d.src[s].fd /\ e.src[s].current = d.src[s].current
        /\ e.src[s].buffer = {} /\ Len(e.file) = Len(d.file)
        /\ \A j \in DOMAIN d.file : e.file[j] \subseteq d.file[j] \cup d.src[s].buffer
    BY <1>2 DEF IsWritten
  <2>2. DOMAIN e.file = DOMAIN d.file
    <3>1. e.file \in Seq(SUBSET Nat) BY <2>1, DiskParts
    <3> QED BY <2>1, <3>1, SaneFields
  <2>3. \A o \in Source : /\ e.src[o].buffer \subseteq 1..n
                          /\ e.src[o].fd \in Fd \cup {NoFd}
                          /\ e.src[o].current \in 0..Len(e.file)
    <3> SUFFICES ASSUME NEW o \in Source
                 PROVE  /\ e.src[o].buffer \subseteq 1..n
                        /\ e.src[o].fd \in Fd \cup {NoFd}
                        /\ e.src[o].current \in 0..Len(e.file)
      OBVIOUS
    <3>1. CASE o = s BY <2>1, <3>1 DEF Sane
    <3>2. CASE o # s
      <4>1. e.src[o] = d.src[o] BY <2>1, <3>2 DEF Others
      <4> QED BY <2>1, <4>1 DEF Sane
    <3> QED BY <3>1, <3>2
  <2>4. \A i \in DOMAIN e.file : e.file[i] \subseteq 1..n BY <2>1, <2>2 DEF Sane
  <2> QED BY <2>1, <2>3, <2>4 DEF Sane
<1> QED BY <1>1, <1>2

LEMMA ClosedSane ==
    ASSUME NEW n \in Nat, NEW d, NEW e, NEW s \in Source, Sane(d, n), IsClosed(d, e, s)
    PROVE  Sane(e, n)
<1>1. \A m \in Fd : e.fds[m] \in 0..Len(e.file)
  BY SaneFields DEF Sane, IsClosed
<1> QED BY <1>1 DEF Sane, IsClosed

LEMMA RenamedSane ==
    ASSUME NEW n \in Nat, NEW d, NEW e, NEW s \in Source, NEW slot,
           Sane(d, n), IsRenamed(d, e, s, slot)
    PROVE  Sane(e, n)
<1>1. \A o \in Source : /\ e.src[o].buffer \subseteq 1..n
                        /\ e.src[o].fd \in Fd \cup {NoFd}
                        /\ e.src[o].current \in 0..Len(e.file)
  <2> SUFFICES ASSUME NEW o \in Source
               PROVE  /\ e.src[o].buffer \subseteq 1..n
                      /\ e.src[o].fd \in Fd \cup {NoFd}
                      /\ e.src[o].current \in 0..Len(e.file)
    OBVIOUS
  <2>1. CASE o = s BY <2>1, SaneFields DEF Sane, IsRenamed
  <2>2. CASE o # s
    <3>1. e.src[o] = d.src[o] BY <2>2 DEF IsRenamed, Others
    <3> QED BY <3>1 DEF Sane, IsRenamed
  <2> QED BY <2>1, <2>2
<1> QED BY <1>1 DEF Sane, IsRenamed

LEMMA UnopenedSane ==
    ASSUME NEW n \in Nat, NEW d, NEW e, NEW s \in Source, Sane(d, n), IsUnopened(d, e, s)
    PROVE  Sane(e, n)
<1>1. \A o \in Source : /\ e.src[o].buffer \subseteq 1..n
                        /\ e.src[o].fd \in Fd \cup {NoFd}
                        /\ e.src[o].current \in 0..Len(e.file)
  <2> SUFFICES ASSUME NEW o \in Source
               PROVE  /\ e.src[o].buffer \subseteq 1..n
                      /\ e.src[o].fd \in Fd \cup {NoFd}
                      /\ e.src[o].current \in 0..Len(e.file)
    OBVIOUS
  <2>1. CASE o = s BY <2>1 DEF Sane, IsUnopened
  <2>2. CASE o # s
    <3>1. e.src[o] = d.src[o] BY <2>2 DEF IsUnopened, Others
    <3> QED BY <3>1 DEF Sane, IsUnopened
  <2> QED BY <2>1, <2>2
<1> QED BY <1>1 DEF Sane, IsUnopened

LEMMA OpenedFiles ==
    ASSUME NEW n \in Nat, NEW d, NEW e, NEW s \in Source, Sane(d, n), IsOpened(d, e, s)
    PROVE  /\ DOMAIN e.file = 1..Len(e.file) /\ Len(e.file) \in Nat
           /\ DOMAIN e.file = DOMAIN d.file \cup {e.src[s].current}
           /\ e.src[s].current \in Nat /\ Len(d.file) <= Len(e.file)
<1>1. e \in DiskType BY DEF IsOpened
<1>2. e.file \in Seq(SUBSET Nat) /\ e.src[s].current \in Nat BY <1>1, DiskFields
<1>3. DOMAIN d.file = 1..Len(d.file) /\ Len(d.file) \in Nat BY SaneFields
<1>4. \/ e.src[s].current = Len(d.file) + 1 /\ Len(e.file) = Len(d.file) + 1
      \/ e.src[s].current \in DOMAIN d.file /\ Len(e.file) = Len(d.file)
  BY DEF IsOpened
<1>5. DOMAIN e.file = 1..Len(e.file) /\ Len(e.file) \in Nat BY <1>2
<1> QED BY <1>2, <1>3, <1>4, <1>5

LEMMA OpenedSane ==
    ASSUME NEW n \in Nat, NEW d, NEW e, NEW s \in Source, Sane(d, n), IsOpened(d, e, s)
    PROVE  Sane(e, n)
<1>0. /\ DOMAIN e.file = 1..Len(e.file) /\ Len(e.file) \in Nat
      /\ DOMAIN e.file = DOMAIN d.file \cup {e.src[s].current}
      /\ e.src[s].current \in Nat /\ Len(d.file) <= Len(e.file)
  BY OpenedFiles
<1>1. \A o \in Source : /\ e.src[o].buffer \subseteq 1..n
                        /\ e.src[o].fd \in Fd \cup {NoFd}
                        /\ e.src[o].current \in 0..Len(e.file)
  <2> SUFFICES ASSUME NEW o \in Source
               PROVE  /\ e.src[o].buffer \subseteq 1..n
                      /\ e.src[o].fd \in Fd \cup {NoFd}
                      /\ e.src[o].current \in 0..Len(e.file)
    OBVIOUS
  <2>1. CASE o = s
    <3>1. e.src[s].current \in 1..Len(e.file) BY <1>0
    <3>2. e.src[s].buffer = d.src[s].buffer /\ e.src[s].fd \in Fd BY DEF IsOpened
    <3> QED BY <1>0, <2>1, <3>1, <3>2 DEF Sane
  <2>2. CASE o # s
    <3>1. e.src[o] = d.src[o] BY <2>2 DEF IsOpened, Others
    <3>2. /\ d.src[o].buffer \subseteq 1..n /\ d.src[o].fd \in Fd \cup {NoFd}
          /\ d.src[o].current \in 0..Len(d.file)
      BY DEF Sane
    <3> QED BY <1>0, <3>1, <3>2, SaneFields
  <2> QED BY <2>1, <2>2
<1>2. \A m \in Fd : e.fds[m] \in 0..Len(e.file)
  <2> SUFFICES ASSUME NEW m \in Fd PROVE e.fds[m] \in 0..Len(e.file)
    OBVIOUS
  <2>1. CASE m = e.src[s].fd
    <3>1. e.fds[m] \in {0, e.src[s].current} BY <2>1 DEF IsOpened
    <3>2. e.src[s].current \in 0..Len(e.file) BY <1>1
    <3> QED BY <1>0, <3>1, <3>2
  <2>2. CASE m # e.src[s].fd
    <3>1. e.fds[m] = d.fds[m] BY <2>2 DEF IsOpened
    <3>2. d.fds[m] \in 0..Len(d.file) BY DEF Sane
    <3> QED BY <1>0, <3>1, <3>2, SaneFields
  <2> QED BY <2>1, <2>2
<1>3. \A i \in DOMAIN e.file : e.file[i] \subseteq 1..n
  <2> SUFFICES ASSUME NEW i \in DOMAIN e.file PROVE e.file[i] \subseteq 1..n
    OBVIOUS
  <2>1. CASE i = e.src[s].current BY <2>1 DEF IsOpened
  <2>2. CASE i # e.src[s].current
    <3>1. i \in DOMAIN d.file /\ e.file[i] = d.file[i] BY <1>0, <2>2 DEF IsOpened
    <3> QED BY <3>1 DEF Sane
  <2> QED BY <2>1, <2>2
<1>4. e.lost \subseteq 1..n
  <2>1. e.lost = d.lost \/ (d.src[s].current \in DOMAIN d.file
                            /\ e.lost = d.lost \cup d.file[d.src[s].current])
    BY DEF IsOpened
  <2> QED BY <2>1 DEF Sane
<1>5. e \in DiskType BY DEF IsOpened
<1> QED BY <1>1, <1>2, <1>3, <1>4, <1>5 DEF Sane

LEMMA AddedSane ==
    ASSUME NEW n \in Nat, NEW d, NEW e, NEW s \in Source, Sane(d, n), IsAdded(d, e, s, n + 1)
    PROVE  Sane(e, n + 1)
<1>0. 1..n \subseteq 1..(n + 1) /\ n + 1 \in 1..(n + 1) OBVIOUS
<1>1. \A o \in Source : /\ e.src[o].buffer \subseteq 1..(n + 1)
                        /\ e.src[o].fd \in Fd \cup {NoFd}
                        /\ e.src[o].current \in 0..Len(e.file)
  <2> SUFFICES ASSUME NEW o \in Source
               PROVE  /\ e.src[o].buffer \subseteq 1..(n + 1)
                      /\ e.src[o].fd \in Fd \cup {NoFd}
                      /\ e.src[o].current \in 0..Len(e.file)
    OBVIOUS
  <2>0. /\ d.src[o].buffer \subseteq 1..n /\ d.src[o].fd \in Fd \cup {NoFd}
        /\ d.src[o].current \in 0..Len(e.file)
    BY DEF Sane, IsAdded
  <2>1. CASE o = s
    <3>1. /\ e.src[s].fd = d.src[s].fd /\ e.src[s].current = d.src[s].current
          /\ e.src[s].buffer \subseteq d.src[s].buffer \cup {n + 1}
      BY DEF IsAdded
    <3> QED BY <1>0, <2>0, <2>1, <3>1
  <2>2. CASE o # s
    <3>1. e.src[o] = d.src[o] BY <2>2 DEF IsAdded, Others
    <3> QED BY <1>0, <2>0, <3>1
  <2> QED BY <2>1, <2>2
<1>2. e.lost \subseteq 1..(n + 1)
  <2>1. e.lost \subseteq d.lost \cup {n + 1} BY DEF IsAdded
  <2>2. d.lost \subseteq 1..n BY DEF Sane
  <2> QED BY <1>0, <2>1, <2>2
<1>3. \A i \in DOMAIN e.file : e.file[i] \subseteq 1..(n + 1)
  BY <1>0 DEF Sane, IsAdded
<1>4. e \in DiskType /\ e.fds = d.fds /\ e.file = d.file BY DEF IsAdded
<1>5. \A m \in Fd : e.fds[m] \in 0..Len(e.file) BY <1>4 DEF Sane
<1> QED BY <1>1, <1>2, <1>3, <1>4, <1>5 DEF Sane

-----------------------------------------------------------------------------
(* Descriptors                                                                *)

LEMMA OwnsFewer == ASSUME NEW d, NEW S, NEW T \in SUBSET S, Owns(d, S) PROVE Owns(d, T)
BY DEF Owns

LEMMA SameOwns ==
    ASSUME NEW d, NEW e, NEW S \in SUBSET Source, Owns(d, S), e.fds = d.fds,
           \A o \in S : e.src[o].fd = d.src[o].fd /\ e.src[o].current = d.src[o].current
    PROVE  Owns(e, S)
BY DEF Owns

LEMMA WrittenOwns ==
    ASSUME NEW d, NEW e, NEW s \in Source, NEW S \in SUBSET Source, Owns(d, S),
           IsWritten(d, e, s)
    PROVE  Owns(e, S)
<1>1. CASE e = d BY <1>1
<1>2. CASE e # d
  <2>1. /\ e.fds = d.fds /\ Others(d, e, s)
        /\ e.src[s].fd = d.src[s].fd /\ e.src[s].current = d.src[s].current
    BY <1>2 DEF IsWritten
  <2>2. \A o \in S : e.src[o].fd = d.src[o].fd /\ e.src[o].current = d.src[o].current
    BY <2>1 DEF Others
  <2> QED BY <2>1, <2>2, SameOwns
<1> QED BY <1>1, <1>2

LEMMA ClosedOwns ==
    ASSUME NEW n, NEW d, NEW e, NEW s \in Source, NEW S \in SUBSET Source, Owns(d, S), s \in S,
           Sane(d, n), IsClosed(d, e, s)
    PROVE  Owns(e, S \ {s})
<1> SUFFICES ASSUME NEW o \in S \ {s}, e.src[o].fd # NoFd
             PROVE  /\ e.fds[e.src[o].fd] = e.src[o].current /\ e.src[o].current # 0
                    /\ \A p \in S \ {s} : p # o => e.src[p].fd # e.src[o].fd
  BY DEF Owns
<1>1. e.src = d.src BY DEF IsClosed
<1>2. d.src[o].fd \in Fd BY <1>1 DEF Sane
<1>3. /\ d.fds[d.src[o].fd] = d.src[o].current /\ d.src[o].current # 0
      /\ \A p \in S : p # o => d.src[p].fd # d.src[o].fd
  BY <1>1 DEF Owns
<1>4. e.fds[d.src[o].fd] = d.fds[d.src[o].fd] BY <1>2, <1>3 DEF IsClosed
<1> QED BY <1>1, <1>3, <1>4

LEMMA RenamedOwns ==
    ASSUME NEW d, NEW e, NEW s \in Source, NEW slot, NEW S \in SUBSET Source,
           Owns(d, S \ {s}), IsRenamed(d, e, s, slot)
    PROVE  Owns(e, S \ {s})
<1>1. \A o \in S \ {s} : e.src[o].fd = d.src[o].fd /\ e.src[o].current = d.src[o].current
  BY DEF IsRenamed, Others
<1>2. e.fds = d.fds BY DEF IsRenamed
<1>3. S \ {s} \in SUBSET Source OBVIOUS
<1> QED BY <1>1, <1>2, <1>3, SameOwns

LEMMA UnopenedOwns ==
    ASSUME NEW d, NEW e, NEW s \in Source, NEW S \in SUBSET Source,
           Owns(d, S \ {s}), IsUnopened(d, e, s)
    PROVE  Owns(e, S)
<1> SUFFICES ASSUME NEW o \in S, e.src[o].fd # NoFd
             PROVE  /\ e.fds[e.src[o].fd] = e.src[o].current /\ e.src[o].current # 0
                    /\ \A p \in S : p # o => e.src[p].fd # e.src[o].fd
  BY DEF Owns
<1>1. o # s /\ e.src[s].fd = NoFd /\ e.fds = d.fds BY DEF IsUnopened
<1>2. \A p \in S : p # s => e.src[p] = d.src[p] BY DEF IsUnopened, Others
<1>3. /\ d.fds[d.src[o].fd] = d.src[o].current /\ d.src[o].current # 0
      /\ \A p \in S \ {s} : p # o => d.src[p].fd # d.src[o].fd
  BY <1>1, <1>2 DEF Owns
<1> QED BY <1>1, <1>2, <1>3

LEMMA OpenedOwns ==
    ASSUME NEW n, NEW d, NEW e, NEW s \in Source, NEW S \in SUBSET Source,
           Owns(d, S \ {s}), Sane(d, n), IsOpened(d, e, s),
           e.fds[e.src[s].fd] = e.src[s].current
    PROVE  Owns(e, S)
<1> SUFFICES ASSUME NEW o \in S, e.src[o].fd # NoFd
             PROVE  /\ e.fds[e.src[o].fd] = e.src[o].current /\ e.src[o].current # 0
                    /\ \A p \in S : p # o => e.src[p].fd # e.src[o].fd
  BY DEF Owns
<1>1. \A p \in S : p # s => e.src[p] = d.src[p] BY DEF IsOpened, Others
<1>2. /\ d.fds[e.src[s].fd] = 0 /\ e.src[s].current # 0
      /\ \A m \in Fd : m # e.src[s].fd => e.fds[m] = d.fds[m]
      /\ e.src[s].fd # NoFd
  <2>1. e.src[s].fd \in Fd BY DEF IsOpened
  <2> QED BY <2>1, Bounds DEF IsOpened, Fd, NoFd
<1>3. \A p \in S : p # s /\ d.src[p].fd # NoFd => d.src[p].fd # e.src[s].fd
  BY <1>2 DEF Owns
<1>4. CASE o = s BY <1>1, <1>2, <1>3, <1>4
<1>5. CASE o # s
  <2>1. e.src[o] = d.src[o] /\ d.src[o].fd \in Fd BY <1>1, <1>5 DEF Sane
  <2>2. /\ d.fds[d.src[o].fd] = d.src[o].current /\ d.src[o].current # 0
        /\ \A p \in S \ {s} : p # o => d.src[p].fd # d.src[o].fd
    BY <1>5, <2>1 DEF Owns
  <2>3. d.src[o].fd # e.src[s].fd BY <1>3, <1>5, <2>1
  <2>4. e.fds[d.src[o].fd] = d.src[o].current BY <1>2, <2>1, <2>2, <2>3
  <2> QED BY <1>1, <1>5, <2>1, <2>2, <2>3, <2>4
<1> QED BY <1>4, <1>5

LEMMA AddedOwns ==
    ASSUME NEW d, NEW e, NEW s \in Source, NEW r, NEW S \in SUBSET Source, Owns(d, S),
           IsAdded(d, e, s, r)
    PROVE  Owns(e, S)
<1>1. \A o \in S : e.src[o].fd = d.src[o].fd /\ e.src[o].current = d.src[o].current
  BY DEF IsAdded, Others
<1>2. e.fds = d.fds BY DEF IsAdded
<1> QED BY <1>1, <1>2, SameOwns

\* Descriptors that are open and no source has: closing failed.
OrphansIn(d) == {m \in Fd : d.fds[m] # 0 /\ \A s \in Source : d.src[s].fd # m}

LEMMA OrphansCount ==
    ASSUME NEW d, NEW e, OrphansIn(e) \subseteq OrphansIn(d)
    PROVE  Cardinality(OrphansIn(e)) <= Cardinality(OrphansIn(d))
           /\ IsFiniteSet(OrphansIn(d)) /\ Cardinality(OrphansIn(d)) \in Nat
           /\ Cardinality(OrphansIn(e)) \in Nat
<1>1. IsFiniteSet(Fd) BY Bounds, FS_Interval DEF Fd
<1>2. OrphansIn(d) \subseteq Fd BY DEF OrphansIn
<1>3. IsFiniteSet(OrphansIn(d)) BY <1>1, <1>2, FS_Subset
<1>4. IsFiniteSet(OrphansIn(e)) BY <1>3, FS_Subset
<1>5. Cardinality(OrphansIn(e)) <= Cardinality(OrphansIn(d)) BY <1>3, FS_Subset
<1>6. Cardinality(OrphansIn(d)) \in Nat BY <1>3, FS_CardinalityType
<1>7. Cardinality(OrphansIn(e)) \in Nat BY <1>4, FS_CardinalityType
<1> QED BY <1>3, <1>5, <1>6, <1>7

LEMMA OrphansMore ==
    ASSUME NEW d, NEW e, NEW m, OrphansIn(e) \subseteq OrphansIn(d) \cup {m}
    PROVE  Cardinality(OrphansIn(e)) <= Cardinality(OrphansIn(d)) + 1
<1>1. IsFiniteSet(OrphansIn(d)) /\ Cardinality(OrphansIn(d)) \in Nat BY OrphansCount
<1>2. /\ IsFiniteSet(OrphansIn(d) \cup {m})
      /\ Cardinality(OrphansIn(d) \cup {m}) = Cardinality(OrphansIn(d))
         \/ Cardinality(OrphansIn(d) \cup {m}) = Cardinality(OrphansIn(d)) + 1
  BY <1>1, FS_AddElement
<1>3. Cardinality(OrphansIn(e)) <= Cardinality(OrphansIn(d) \cup {m}) BY <1>2, FS_Subset
<1>4. Cardinality(OrphansIn(e)) \in Nat BY OrphansCount
<1> QED BY <1>1, <1>2, <1>3, <1>4

LEMMA SameOrphans ==
    ASSUME NEW d, NEW e, e.fds = d.fds, \A o \in Source : e.src[o].fd = d.src[o].fd
    PROVE  OrphansIn(e) = OrphansIn(d)
BY DEF OrphansIn

LEMMA WrittenOrphans ==
    ASSUME NEW d, NEW e, NEW s \in Source, IsWritten(d, e, s)
    PROVE  OrphansIn(e) = OrphansIn(d)
<1>1. CASE e = d BY <1>1
<1>2. CASE e # d
  <2>1. e.fds = d.fds /\ \A o \in Source : e.src[o].fd = d.src[o].fd
    BY <1>2 DEF IsWritten, Others
  <2> QED BY <2>1, SameOrphans
<1> QED BY <1>1, <1>2

LEMMA ClosedOrphans ==
    ASSUME NEW n, NEW d, NEW e, NEW s \in Source, Sane(d, n), IsClosed(d, e, s)
    PROVE  OrphansIn(e) \subseteq OrphansIn(d)
<1>1. e.src = d.src /\ \A m \in Fd : e.fds[m] # 0 => d.fds[m] # 0 BY DEF IsClosed
<1> QED BY <1>1 DEF OrphansIn

LEMMA RenamedOrphans ==
    ASSUME NEW d, NEW e, NEW s \in Source, NEW slot, IsRenamed(d, e, s, slot)
    PROVE  OrphansIn(e) = OrphansIn(d)
<1>1. e.fds = d.fds /\ \A o \in Source : e.src[o].fd = d.src[o].fd
  BY DEF IsRenamed, Others
<1> QED BY <1>1, SameOrphans

LEMMA AddedOrphans ==
    ASSUME NEW d, NEW e, NEW s \in Source, NEW r, IsAdded(d, e, s, r)
    PROVE  OrphansIn(e) = OrphansIn(d)
<1>1. e.fds = d.fds /\ \A o \in Source : e.src[o].fd = d.src[o].fd
  BY DEF IsAdded, Others
<1> QED BY <1>1, SameOrphans

\* A source that gets another descriptor, or none, leaves at most its old one.
LEMMA ReopenedOrphans ==
    ASSUME NEW d, NEW e, NEW s \in Source, IsUnopened(d, e, s) \/ IsOpened(d, e, s)
    PROVE  /\ OrphansIn(e) \subseteq OrphansIn(d) \cup {d.src[s].fd}
           /\ d.fds[d.src[s].fd] = 0 => OrphansIn(e) \subseteq OrphansIn(d)
<1>1. \A o \in Source : o # s => e.src[o] = d.src[o] BY DEF IsUnopened, IsOpened, Others
<1>2. \A m \in OrphansIn(e) : d.fds[m] # 0
  <2> SUFFICES ASSUME NEW m \in OrphansIn(e) PROVE d.fds[m] # 0
    OBVIOUS
  <2>1. m \in Fd /\ e.fds[m] # 0 /\ m # e.src[s].fd BY DEF OrphansIn
  <2> QED BY <2>1 DEF IsUnopened, IsOpened
<1>3. ASSUME NEW m \in OrphansIn(e), m # d.src[s].fd PROVE m \in OrphansIn(d)
  <2>1. m \in Fd /\ \A o \in Source : e.src[o].fd # m BY DEF OrphansIn
  <2>2. \A o \in Source : d.src[o].fd # m BY <1>1, <1>3, <2>1
  <2> QED BY <1>2, <2>1, <2>2 DEF OrphansIn
<1> QED BY <1>2, <1>3

\* A descriptor is free when no more are orphaned than calls can fail.
LEMMA SpareFd ==
    ASSUME NEW n, NEW d, Sane(d, n), Cardinality(OrphansIn(d)) <= MaxFaults
    PROVE  \E m \in Fd : d.fds[m] = 0
<1> SUFFICES ASSUME \A m \in Fd : d.fds[m] # 0 PROVE FALSE
  OBVIOUS
<1>1. PICK U : U = Fd \ OrphansIn(d) OBVIOUS
<1>2. \A m \in U : \E s \in Source : d.src[s].fd = m BY <1>1 DEF OrphansIn
<1>3. PICK f : f = [m \in U |-> CHOOSE s \in Source : d.src[s].fd = m] OBVIOUS
<1>4. f \in [U -> Source] /\ \A m \in U : d.src[f[m]].fd = m BY <1>2, <1>3
<1>5. /\ IsFiniteSet(Fd) /\ Cardinality(Fd) = NSources + MaxFaults + 1
      /\ IsFiniteSet(Source) /\ Cardinality(Source) = NSources
  BY Bounds, FS_Interval DEF Fd, Source
<1>6. OrphansIn(d) \subseteq Fd BY DEF OrphansIn
<1>7. IsFiniteSet(U) /\ Cardinality(U) = Cardinality(Fd) - Cardinality(Fd \cap OrphansIn(d))
  BY <1>1, <1>5, FS_Difference
<1>8. Fd \cap OrphansIn(d) = OrphansIn(d) BY <1>6
<1>9. Cardinality(OrphansIn(d)) \in Nat BY OrphansCount
<1>10. Cardinality(Source) < Cardinality(U)
  <2>1. PICK c \in Nat : c = Cardinality(OrphansIn(d)) BY <1>9
  <2>2. Cardinality(Fd \cap OrphansIn(d)) = c BY <1>8, <2>1
  <2>3. Cardinality(U) = Cardinality(Fd) - c BY <1>7, <2>2
  <2>4. c <= MaxFaults BY <2>1
  <2> QED BY <1>5, <2>3, <2>4, Bounds
<1>11. \E x, y \in U : x # y /\ f[x] = f[y] BY <1>4, <1>5, <1>7, <1>10, FS_PigeonHole
<1> QED BY <1>4, <1>11

-----------------------------------------------------------------------------
(* Where the records are                                                      *)

LEMMA FilesInSame ==
    ASSUME NEW d, NEW e, e.stored = d.stored, NEW o, e.src[o].current = d.src[o].current
    PROVE  FilesIn(e, o) = FilesIn(d, o)
BY DEF FilesIn

LEMMA WrittenPlaced ==
    ASSUME NEW sn \in SentSeq, NEW d, NEW e, NEW s \in Source, NEW S \in SUBSET Source,
           s \in S, Sane(d, Len(sn)), Owns(d, S), PlacedIn(d, sn), IsWritten(d, e, s)
    PROVE  PlacedIn(e, sn)
<1> SUFFICES ASSUME e # d PROVE PlacedIn(e, sn)
  OBVIOUS
<1>1. PICK i : i = d.fds[d.src[s].fd] OBVIOUS
<1>2. /\ e \in DiskType /\ Others(d, e, s)
      /\ e.stored = d.stored /\ e.lost = d.lost
      /\ e.src[s].current = d.src[s].current /\ e.src[s].buffer = {}
      /\ d.src[s].fd \in Fd /\ i \in DOMAIN d.file
      /\ Len(e.file) = Len(d.file)
      /\ \A j \in DOMAIN d.file :
            e.file[j] = IF j = i THEN d.file[j] \cup d.src[s].buffer ELSE d.file[j]
  BY <1>1 DEF IsWritten
<1>3. i = d.src[s].current
  <2>1. d.src[s].fd # NoFd BY <1>2, Bounds DEF Fd, NoFd
  <2> QED BY <1>1, <2>1 DEF Owns
<1>4. DOMAIN e.file = DOMAIN d.file
  <2>1. e.file \in Seq(SUBSET Nat) BY <1>2, DiskParts
  <2> QED BY <1>2, <2>1, SaneFields
<1>5. \A o \in Source : FilesIn(e, o) = FilesIn(d, o)
  <2> SUFFICES ASSUME NEW o \in Source PROVE e.src[o].current = d.src[o].current
    BY <1>2, FilesInSame
  <2> QED BY <1>2 DEF Others
<1>6. \A o \in Source : o # s => e.src[o] = d.src[o] BY <1>2 DEF Others
<1>7. InBuffer(e, sn)
  <2> SUFFICES ASSUME NEW o \in Source, NEW r \in e.src[o].buffer
               PROVE  r \notin e.lost /\ sn[r].src = o /\ \A j \in DOMAIN e.file : r \notin e.file[j]
    BY DEF InBuffer
  <2>1. o # s /\ r \in d.src[o].buffer BY <1>2, <1>6
  <2>2. r \notin d.lost /\ sn[r].src = o /\ \A j \in DOMAIN d.file : r \notin d.file[j]
    BY <2>1 DEF PlacedIn, InBuffer
  <2>3. r \notin d.src[s].buffer BY <2>1, <2>2 DEF PlacedIn, InBuffer
  <2>4. \A j \in DOMAIN e.file : r \notin e.file[j] BY <1>2, <1>4, <2>2, <2>3
  <2> QED BY <1>2, <2>2, <2>4
<1>8. InFile(e, sn)
  <2> SUFFICES ASSUME NEW j \in DOMAIN e.file, NEW r \in e.file[j]
               PROVE  r \notin e.lost /\ j \in FilesIn(e, sn[r].src)
                      /\ \A g \in DOMAIN e.file : r \in e.file[g] => j = g
    BY DEF InFile
  <2>1. CASE r \in d.src[s].buffer
    <3>1. /\ r \notin d.lost /\ sn[r].src = s
          /\ \A g \in DOMAIN d.file : r \notin d.file[g]
      BY <2>1 DEF PlacedIn, InBuffer
    <3>2. \A g \in DOMAIN e.file : r \in e.file[g] => g = i BY <1>2, <1>4, <3>1
    <3>3. i \in FilesIn(d, s) BY <1>3 DEF FilesIn
    <3> QED BY <1>2, <1>5, <3>1, <3>2, <3>3
  <2>2. CASE r \notin d.src[s].buffer
    <3>1. \A g \in DOMAIN e.file : r \in e.file[g] => r \in d.file[g] BY <1>2, <1>4, <2>2
    <3>2. /\ r \notin d.lost /\ j \in FilesIn(d, sn[r].src)
          /\ \A g \in DOMAIN d.file : r \in d.file[g] => j = g
      BY <1>4, <3>1 DEF PlacedIn, InFile
    <3>3. sn[r].src \in Source
      <4>1. r \in 1..Len(sn) BY <1>4, <3>1 DEF Sane
      <4> QED BY <4>1, RecordSource
    <3> QED BY <1>2, <1>4, <1>5, <3>1, <3>2, <3>3
  <2> QED BY <2>1, <2>2
<1>9. Kept(e, sn)
  <2> SUFFICES ASSUME NEW r \in 1..Len(sn), r \notin e.lost,
                      \A o \in Source : r \notin e.src[o].buffer
               PROVE  \E j \in DOMAIN e.file : r \in e.file[j]
    BY DEF Kept
  <2>1. CASE r \in d.src[s].buffer BY <1>2, <1>4, <2>1
  <2>2. CASE r \notin d.src[s].buffer
    <3>1. \A o \in Source : r \notin d.src[o].buffer BY <1>6, <2>2
    <3>2. PICK j \in DOMAIN d.file : r \in d.file[j]
      BY <1>2, <3>1 DEF PlacedIn, Kept
    <3> QED BY <1>2, <1>4, <3>2
  <2> QED BY <2>1, <2>2
<1> QED BY <1>7, <1>8, <1>9 DEF PlacedIn

LEMMA ClosedPlaced ==
    ASSUME NEW sn \in SentSeq, NEW d, NEW e, NEW s \in Source, PlacedIn(d, sn), IsClosed(d, e, s)
    PROVE  PlacedIn(e, sn)
<1>1. e.src = d.src /\ e.file = d.file /\ e.stored = d.stored /\ e.lost = d.lost
  BY DEF IsClosed
<1> QED BY <1>1 DEF PlacedIn, InBuffer, InFile, Kept, FilesIn

\* The file keeps its source, when that had none of the slot.
LEMMA RenamedPlaced ==
    ASSUME NEW sn \in SentSeq, NEW d, NEW e, NEW s \in Source, NEW slot \in SlotTimes,
           Sane(d, Len(sn)), d.stored[s][slot] = 0, PlacedIn(d, sn), IsRenamed(d, e, s, slot)
    PROVE  PlacedIn(e, sn)
<1>1. /\ Others(d, e, s) /\ e.file = d.file /\ e.lost = d.lost
      /\ e.src[s].buffer = d.src[s].buffer
      /\ \A o \in Source, t \in SlotTimes :
            e.stored[o][t] = IF o = s /\ t = slot THEN d.src[s].current ELSE d.stored[o][t]
  BY DEF IsRenamed
<1>2. \A o \in Source : e.src[o].buffer = d.src[o].buffer BY <1>1 DEF Others
<1>3. \A o \in Source : \A i \in FilesIn(d, o) : i # 0 => i \in FilesIn(e, o)
  <2> SUFFICES ASSUME NEW o \in Source, NEW i \in FilesIn(d, o), i # 0 PROVE i \in FilesIn(e, o)
    OBVIOUS
  <2>1. CASE i = d.src[o].current
    <3>1. CASE o = s
      <4>1. e.stored[s][slot] = i BY <1>1, <2>1, <3>1
      <4> QED BY <3>1, <4>1 DEF FilesIn
    <3>2. CASE o # s BY <1>1, <2>1, <3>2 DEF FilesIn, Others
    <3> QED BY <3>1, <3>2
  <2>2. CASE i # d.src[o].current
    <3>1. PICK t \in SlotTimes : i = d.stored[o][t] BY <2>2 DEF FilesIn
    <3>2. ~(o = s /\ t = slot) BY <3>1
    <3>3. e.stored[o][t] = i BY <1>1, <3>1, <3>2
    <3> QED BY <3>3 DEF FilesIn
  <2> QED BY <2>1, <2>2
<1>4. InBuffer(e, sn) BY <1>1, <1>2 DEF PlacedIn, InBuffer
<1>5. InFile(e, sn)
  <2> SUFFICES ASSUME NEW j \in DOMAIN d.file, NEW r \in d.file[j]
               PROVE  j \in FilesIn(e, sn[r].src)
    BY <1>1 DEF PlacedIn, InFile
  <2>1. r \in 1..Len(sn) BY DEF Sane
  <2>2. sn[r].src \in Source BY <2>1, RecordSource
  <2>3. j \in FilesIn(d, sn[r].src) BY DEF PlacedIn, InFile
  <2>4. j # 0 BY SaneFields
  <2> QED BY <1>3, <2>2, <2>3, <2>4
<1>6. Kept(e, sn) BY <1>1, <1>2 DEF PlacedIn, Kept
<1> QED BY <1>4, <1>5, <1>6 DEF PlacedIn

LEMMA UnopenedPlaced ==
    ASSUME NEW sn \in SentSeq, NEW d, NEW e, NEW s \in Source, Sane(d, Len(sn)),
           PlacedIn(d, sn), IsUnopened(d, e, s)
    PROVE  PlacedIn(e, sn)
<1>1. /\ e.file = d.file /\ e.lost = d.lost /\ e.stored = d.stored
      /\ \A o \in Source : /\ e.src[o].buffer = d.src[o].buffer
                           /\ e.src[o].current = d.src[o].current
  BY DEF IsUnopened, Others
<1>2. \A o \in Source : FilesIn(e, o) = FilesIn(d, o) BY <1>1, FilesInSame
<1>3. InBuffer(e, sn) BY <1>1 DEF PlacedIn, InBuffer
<1>4. InFile(e, sn)
  <2> SUFFICES ASSUME NEW j \in DOMAIN d.file, NEW r \in d.file[j]
               PROVE  j \in FilesIn(e, sn[r].src)
    BY <1>1 DEF PlacedIn, InFile
  <2>1. r \in 1..Len(sn) BY DEF Sane
  <2>2. sn[r].src \in Source BY <2>1, RecordSource
  <2> QED BY <1>2, <2>2 DEF PlacedIn, InFile
<1>5. Kept(e, sn) BY <1>1 DEF PlacedIn, Kept
<1> QED BY <1>3, <1>4, <1>5 DEF PlacedIn

\* What was in a file that is truncated is lost.
LEMMA OpenedPlaced ==
    ASSUME NEW sn \in SentSeq, NEW d, NEW e, NEW s \in Source, Sane(d, Len(sn)),
           PlacedIn(d, sn), IsOpened(d, e, s)
    PROVE  PlacedIn(e, sn)
<1>1. PICK c : c = e.src[s].current OBVIOUS
<1>2. /\ DOMAIN e.file = DOMAIN d.file \cup {c} /\ e.file[c] = {}
      /\ \A i \in DOMAIN d.file : i # c => e.file[i] = d.file[i]
      /\ e.stored = d.stored
      /\ \A o \in Source : o # s => e.src[o] = d.src[o]
      /\ e.src[s].buffer = d.src[s].buffer
  <2>1. DOMAIN e.file = DOMAIN d.file \cup {c} BY <1>1, OpenedFiles
  <2>2. /\ e.file[c] = {} /\ \A i \in DOMAIN d.file : i # c => e.file[i] = d.file[i]
    BY <1>1 DEF IsOpened
  <2>3. /\ e.stored = d.stored /\ e.src[s].buffer = d.src[s].buffer
        /\ \A o \in Source : o # s => e.src[o] = d.src[o]
    BY DEF IsOpened, Others
  <2> QED BY <2>1, <2>2, <2>3
<1>3. \/ d.src[s].current = 0 /\ c \notin DOMAIN d.file /\ e.lost = d.lost
      \/ c = d.src[s].current /\ c \in DOMAIN d.file /\ e.lost = d.lost \cup d.file[c]
  <2>1. Len(d.file) + 1 \notin DOMAIN d.file BY SaneFields
  <2> QED BY <1>1, <2>1 DEF IsOpened
<1>4. \A o \in Source : e.src[o].buffer = d.src[o].buffer BY <1>2
<1>5. \A i \in DOMAIN e.file : i # c => i \in DOMAIN d.file /\ e.file[i] = d.file[i] BY <1>2
<1>6. InBuffer(e, sn)
  <2> SUFFICES ASSUME NEW o \in Source, NEW r \in d.src[o].buffer
               PROVE  r \notin e.lost /\ sn[r].src = o /\ \A j \in DOMAIN e.file : r \notin e.file[j]
    BY <1>4 DEF InBuffer
  <2>1. r \notin d.lost /\ sn[r].src = o /\ \A j \in DOMAIN d.file : r \notin d.file[j]
    BY DEF PlacedIn, InBuffer
  <2> QED BY <1>2, <1>3, <1>5, <2>1
<1>7. InFile(e, sn)
  <2> SUFFICES ASSUME NEW j \in DOMAIN e.file, NEW r \in e.file[j]
               PROVE  r \notin e.lost /\ j \in FilesIn(e, sn[r].src)
                      /\ \A g \in DOMAIN e.file : r \in e.file[g] => j = g
    BY DEF InFile
  <2>1. j # c /\ j \in DOMAIN d.file /\ r \in d.file[j] BY <1>2, <1>5
  <2>2. /\ r \notin d.lost /\ j \in FilesIn(d, sn[r].src)
        /\ \A g \in DOMAIN d.file : r \in d.file[g] => j = g
    BY <2>1 DEF PlacedIn, InFile
  <2>3. r \notin e.lost BY <1>3, <2>1, <2>2
  <2>4. \A g \in DOMAIN e.file : r \in e.file[g] => j = g BY <1>2, <1>5, <2>2
  <2>5. j \in FilesIn(e, sn[r].src)
    <3>1. r \in 1..Len(sn) BY <2>1 DEF Sane
    <3>2. PICK o \in Source : o = sn[r].src BY <3>1, RecordSource
    <3>3. CASE j = d.src[o].current
      <4>1. o # s
        <5>1. j # 0 BY <2>1, SaneFields
        <5> QED BY <1>3, <2>1, <3>3, <5>1
      <4> QED BY <1>2, <3>2, <3>3, <4>1 DEF FilesIn
    <3>4. CASE \E t \in SlotTimes : j = d.stored[o][t] BY <1>2, <3>2, <3>4 DEF FilesIn
    <3> QED BY <2>2, <3>2, <3>3, <3>4 DEF FilesIn
  <2> QED BY <2>3, <2>4, <2>5
<1>8. Kept(e, sn)
  <2> SUFFICES ASSUME NEW r \in 1..Len(sn), r \notin e.lost,
                      \A o \in Source : r \notin d.src[o].buffer
               PROVE  \E j \in DOMAIN e.file : r \in e.file[j]
    BY <1>4 DEF Kept
  <2>1. r \notin d.lost BY <1>3
  <2>2. PICK j \in DOMAIN d.file : r \in d.file[j] BY <2>1 DEF PlacedIn, Kept
  <2>3. j # c BY <1>3, <2>2
  <2> QED BY <1>2, <2>2, <2>3
<1> QED BY <1>6, <1>7, <1>8 DEF PlacedIn

LEMMA AddedPlaced ==
    ASSUME NEW sn \in SentSeq, NEW n \in Nat, n = Len(sn), NEW d, NEW e, NEW s \in Source,
           Sane(d, n), PlacedIn(d, sn), IsAdded(d, e, s, n + 1),
           NEW sm \in SentSeq, Len(sm) = n + 1, \A q \in 1..n : sm[q] = sn[q],
           sm[n + 1].src = s
    PROVE  PlacedIn(e, sm)
<1>1. PICK r \in Nat : r = n + 1 OBVIOUS
<1>2. /\ e.file = d.file /\ e.stored = d.stored
      /\ \A o \in Source : e.src[o].current = d.src[o].current
      /\ \A o \in Source : o # s => e.src[o].buffer = d.src[o].buffer
  BY DEF IsAdded, Others
<1>3. \/ e.lost = d.lost \cup {r} /\ e.src[s].buffer = d.src[s].buffer
      \/ e.lost = d.lost /\ e.src[s].buffer = d.src[s].buffer \cup {r}
  BY <1>1 DEF IsAdded
<1>4. \A o \in Source : FilesIn(e, o) = FilesIn(d, o) BY <1>2, FilesInSame
<1>5. r \notin 1..n /\ 1..(n + 1) = 1..n \cup {r} BY <1>1
<1>6. /\ \A i \in DOMAIN d.file : r \notin d.file[i]
      /\ \A o \in Source : r \notin d.src[o].buffer
      /\ r \notin d.lost
  <2>1. \A i \in DOMAIN d.file : d.file[i] \subseteq 1..n BY DEF Sane
  <2>2. \A o \in Source : d.src[o].buffer \subseteq 1..n BY DEF Sane
  <2>3. d.lost \subseteq 1..n BY DEF Sane
  <2> QED BY <1>5, <2>1, <2>2, <2>3
<1>7. InBuffer(e, sm)
  <2> SUFFICES ASSUME NEW o \in Source, NEW q \in e.src[o].buffer
               PROVE  q \notin e.lost /\ sm[q].src = o /\ \A j \in DOMAIN d.file : q \notin d.file[j]
    BY <1>2 DEF InBuffer
  <2>1. CASE q = r
    <3>1. o = s /\ e.lost = d.lost BY <1>2, <1>3, <1>6, <2>1
    <3> QED BY <1>1, <1>6, <2>1, <3>1
  <2>2. CASE q # r
    <3>1. q \in d.src[o].buffer BY <1>2, <1>3, <2>2
    <3>2. q \in 1..n BY <3>1 DEF Sane
    <3>3. q \notin d.lost /\ sn[q].src = o /\ \A j \in DOMAIN d.file : q \notin d.file[j]
      BY <3>1 DEF PlacedIn, InBuffer
    <3> QED BY <1>3, <2>2, <3>2, <3>3
  <2> QED BY <2>1, <2>2
<1>8. InFile(e, sm)
  <2> SUFFICES ASSUME NEW j \in DOMAIN d.file, NEW q \in d.file[j]
               PROVE  q \notin e.lost /\ j \in FilesIn(e, sm[q].src)
                      /\ \A g \in DOMAIN d.file : q \in d.file[g] => j = g
    BY <1>2 DEF InFile
  <2>1. q \in 1..n /\ q # r
    <3>1. d.file[j] \subseteq 1..n BY DEF Sane
    <3> QED BY <1>6, <3>1
  <2>2. /\ q \notin d.lost /\ j \in FilesIn(d, sn[q].src)
        /\ \A g \in DOMAIN d.file : q \in d.file[g] => j = g
    BY DEF PlacedIn, InFile
  <2>3. sn[q].src \in Source BY <2>1, RecordSource
  <2> QED BY <1>3, <1>4, <2>1, <2>2, <2>3
<1>9. Kept(e, sm)
  <2> SUFFICES ASSUME NEW q \in 1..(n + 1)
               PROVE  \/ q \in e.lost
                      \/ \E o \in Source : q \in e.src[o].buffer
                      \/ \E i \in DOMAIN e.file : q \in e.file[i]
    BY DEF Kept
  <2>1. CASE q = r BY <1>3, <2>1
  <2>2. CASE q # r
    <3>1. q \in 1..n BY <1>5, <2>2
    <3>2. \/ q \in d.lost
          \/ \E o \in Source : q \in d.src[o].buffer
          \/ \E i \in DOMAIN d.file : q \in d.file[i]
      BY <3>1 DEF PlacedIn, Kept
    <3>3. \A o \in Source : d.src[o].buffer \subseteq e.src[o].buffer BY <1>2, <1>3
    <3> QED BY <1>2, <1>3, <3>2, <3>3
  <2> QED BY <2>1, <2>2
<1> QED BY <1>7, <1>8, <1>9 DEF PlacedIn

-----------------------------------------------------------------------------
(* The invariant with calls that fail                                         *)

\* A source that the rotation is done with, and the sources whose files are open.
Passed(s) == pc = "rotate" /\ \E i \in DOMAIN fs : i < k /\ fs[i] = s
Live == {s \in Source : ~(done /\ Passed(s))}

Turn == pc = "rotate" => k >= 1 /\ (~done => t_now >= t_start + Twin)
Scalars == /\ pc \in {"top", "call", "recvfrom", "test", "rotate", "dispatch", "end"}
           /\ cnt \in {"data", "zero", "error"} /\ alarm \in Nat
           /\ launcher.told \subseteq SlotTimes
           /\ faults \in Nat /\ faults <= net.faults
           /\ Packet /\ Turn

\* A source that is not in the list has no descriptor.
Unlisted == \A s \in Source : ~Listed(s) => src[s].fd = NoFd

\* Every open descriptor that no source has stands for a call that failed.
Spare == Cardinality(OrphansIn(Disk)) <= faults

\* What is stored is of an earlier slot, or of a source that was rotated.
SlotsFree == \A s \in Source : \A t \in SlotTimes :
                stored[s][t] # 0 => t < t_start \/ (t = t_start /\ Passed(s))

Fresh == "stale" \notin marks
WInv == /\ Typed /\ Scalars /\ Sane(Disk, Len(sent)) /\ Unlisted /\ Spare
        /\ Fresh => PlacedIn(Disk, sent)
        /\ Fresh /\ pc # "end" => Owns(Disk, Live) /\ SlotsFree

wideVars == <<net, fs, src, fds, file, stored, lost, sent, since, t_start>>

LEMMA WideQuiet ==
    ASSUME WInv, UNCHANGED wideVars,
           now' \in 0..MaxClock, now <= now', t_now' \in 0..now', k' \in Nat,
           Scalars', faults <= faults', Fresh' => Fresh,
           pc' # "end" => pc # "end" /\ (done => done') /\ \A s \in Source : Passed(s) <=> Passed(s)'
    PROVE  WInv'
<1>1. Typed' BY SlotIsNat, Bounds DEF Typed, WInv, wideVars
<1>2. Disk' = Disk BY DEF Disk, wideVars
<1>3. Sane(Disk, Len(sent))'
  <2>1. sent' = sent BY DEF wideVars
  <2>2. Sane(Disk, Len(sent)) BY DEF WInv
  <2> QED BY <1>2, <2>1, <2>2 DEF Sane, DiskType
<1>4. Unlisted' BY DEF Unlisted, Listed, WInv, wideVars
<1>5. Spare'
  <2>1. OrphansIn(Disk)' = OrphansIn(Disk) BY <1>2 DEF OrphansIn
  <2>2. Cardinality(OrphansIn(Disk)) \in Nat BY OrphansCount
  <2>3. faults \in Nat /\ faults' \in Nat BY DEF WInv, Scalars
  <2> QED BY <2>1, <2>2, <2>3 DEF Spare, WInv
<1>6. Fresh' => PlacedIn(Disk, sent)'
  <2>1. sent' = sent BY DEF wideVars
  <2> QED BY <1>2, <2>1 DEF WInv, PlacedIn, InBuffer, InFile, Kept, FilesIn
<1>7. Fresh' /\ pc' # "end" => Owns(Disk, Live)' /\ SlotsFree'
  <2> SUFFICES ASSUME Fresh', pc' # "end" PROVE Owns(Disk, Live)' /\ SlotsFree'
    OBVIOUS
  <2>1. Owns(Disk, Live) /\ SlotsFree BY DEF WInv
  <2>2. Live' \in SUBSET Live BY DEF Live
  <2>3. Owns(Disk, Live') BY <2>1, <2>2, OwnsFewer
  <2>4. Owns(Disk, Live)' BY <1>2, <2>3 DEF Owns
  <2>5. SlotsFree' BY <2>1 DEF SlotsFree, wideVars
  <2> QED BY <2>4, <2>5
<1> QED BY <1>1, <1>3, <1>4, <1>5, <1>6, <1>7 DEF WInv

\* A move between the places of the loop.
LEMMA WideMove ==
    ASSUME WInv, UNCHANGED wideVars, now' = now, t_now' = t_now, k' = k,
           Scalars', faults <= faults', Fresh' => Fresh, done => done',
           pc # "end", pc' = pc \/ (pc # "rotate" /\ pc' # "rotate")
    PROVE  WInv'
<1>1. now' \in 0..MaxClock /\ now <= now' /\ t_now' \in 0..now' /\ k' \in Nat
  BY Bounds DEF WInv, Typed
<1>2. \A s \in Source : Passed(s) <=> Passed(s)' BY DEF Passed, wideVars
<1> QED BY <1>1, <1>2, WideQuiet

LEMMA ScalarTypes ==
    ASSUME WInv
    PROVE  /\ now \in Nat /\ t_now \in Nat /\ t_start \in Nat /\ k \in Nat
           /\ t_now <= now /\ now <= MaxClock /\ t_start <= now /\ t_start \in SlotTimes
           /\ net \in Networks /\ net.faults \in Nat /\ net.faults <= MaxFaults
           /\ faults \in Nat /\ faults <= net.faults
           /\ sent \in SentSeq /\ Len(sent) \in Nat /\ DOMAIN sent = 1..Len(sent)
<1>1. net \in Networks /\ net.faults \in 0..MaxFaults BY NetworksAssumption DEF WInv, Typed
<1>2. sent \in Seq([src : Source, time : Nat]) BY DEF WInv, Typed
<1> QED BY <1>1, <1>2, SlotIsNat, Bounds DEF WInv, Typed, Scalars, SentSeq

LEMMA WideSignals ==
    ASSUME WInv, Alarm \/ Terminate \/ LauncherDies \/ Top \/ Call \/ Receive \/ Ignore \/ ReceiveFails
    PROVE  WInv'
<1>0. Scalars /\ faults \in Nat BY DEF WInv, Scalars
<1>1. CASE Alarm
  <2>1. Scalars' BY <1>0, <1>1 DEF Alarm, Interrupt, Scalars, Packet, Turn, hist
  <2>2. /\ UNCHANGED wideVars /\ now' = now /\ t_now' = t_now /\ k' = k /\ faults' = faults
        /\ done' = done /\ pc # "end" /\ (pc' = pc \/ (pc # "rotate" /\ pc' # "rotate"))
    BY <1>1 DEF Alarm, Interrupt, wideVars, disk, hist
  <2>3. Fresh' => Fresh BY <1>1 DEF Alarm, Fresh
  <2> QED BY <1>0, <2>1, <2>2, <2>3, WideMove
<1>2. CASE Terminate
  <2>1. Scalars' BY <1>0, <1>2 DEF Terminate, Interrupt, Scalars, Packet, Turn, hist, timeVars
  <2>2. /\ UNCHANGED wideVars /\ now' = now /\ t_now' = t_now /\ k' = k /\ faults' = faults
        /\ (done => done') /\ pc # "end" /\ (pc' = pc \/ (pc # "rotate" /\ pc' # "rotate"))
    BY <1>2 DEF Terminate, Interrupt, wideVars, disk, hist, timeVars
  <2>3. Fresh' => Fresh BY <1>2 DEF Terminate, Fresh
  <2> QED BY <1>0, <2>1, <2>2, <2>3, WideMove
<1>3. CASE LauncherDies
  <2>1. Scalars' BY <1>0, <1>3 DEF LauncherDies, Interrupt, Scalars, Packet, Turn, hist, timeVars
  <2>2. /\ UNCHANGED wideVars /\ now' = now /\ t_now' = t_now /\ k' = k /\ faults' = faults
        /\ done' = done /\ pc # "end" /\ (pc' = pc \/ (pc # "rotate" /\ pc' # "rotate"))
    BY <1>3 DEF LauncherDies, Interrupt, wideVars, disk, hist, timeVars
  <2>3. Fresh' => Fresh BY <1>3 DEF LauncherDies, Fresh
  <2> QED BY <1>0, <2>1, <2>2, <2>3, WideMove
<1>4. CASE Top \/ Call \/ Receive \/ Ignore
  <2>1. Scalars'
    BY <1>0, <1>4 DEF Top, Call, Receive, Ignore, At, Goto, Scalars, Packet, Turn, hist, timeVars
  <2>2. /\ UNCHANGED wideVars /\ now' = now /\ t_now' = t_now /\ k' = k /\ faults' = faults
        /\ done' = done /\ pc # "end" /\ (pc # "rotate" /\ pc' # "rotate")
    BY <1>4 DEF Top, Call, Receive, Ignore, At, Goto, wideVars, disk, hist, timeVars
  <2>3. Fresh' => Fresh BY <1>4 DEF Top, Call, Receive, Ignore, Fresh
  <2> QED BY <1>0, <2>1, <2>2, <2>3, WideMove
<1>5. CASE ReceiveFails
  <2>1. Scalars'
    BY <1>0, <1>5, ScalarTypes DEF ReceiveFails, Allowed, At, Goto, Scalars, Packet, Turn, timeVars
  <2>2. /\ UNCHANGED wideVars /\ now' = now /\ t_now' = t_now /\ k' = k /\ faults' = faults + 1
        /\ done' = done /\ pc # "end" /\ (pc # "rotate" /\ pc' # "rotate")
    BY <1>5 DEF ReceiveFails, Allowed, At, Goto, wideVars, disk, hist, timeVars
  <2>3. Fresh' => Fresh BY <1>5 DEF ReceiveFails, Fresh
  <2> QED BY <1>0, <2>1, <2>2, <2>3, WideMove
<1> QED BY <1>1, <1>2, <1>3, <1>4, <1>5

LEMMA WideTick == ASSUME WInv, Tick PROVE WInv'
<1>1. /\ UNCHANGED wideVars /\ pc' = pc /\ marks' = marks /\ k' = k /\ done' = done
      /\ t_now' = t_now /\ launcher' = launcher /\ faults' = faults /\ alarm' = alarm
      /\ cnt' = cnt /\ pkt' = pkt /\ now' = now + 1 /\ now < MaxClock /\ pc # "end"
  BY DEF Tick, wideVars, disk, hist, timeVars
<1>2. now' \in 0..MaxClock /\ now <= now' /\ t_now' \in 0..now' /\ k' \in Nat
  BY <1>1, ScalarTypes, Bounds
<1>3. \A s \in Source : Passed(s) <=> Passed(s)' BY <1>1 DEF Passed, wideVars
<1>4. Scalars' BY <1>1 DEF WInv, Scalars, Packet, Turn, wideVars
<1>5. faults <= faults' /\ (Fresh' => Fresh) BY <1>1, ScalarTypes DEF Fresh
<1> QED BY <1>1, <1>2, <1>3, <1>4, <1>5, WideQuiet

LEMMA WideTest == ASSUME WInv, Test PROVE WInv'
<1>1. /\ UNCHANGED wideVars /\ now' = now /\ done' = done /\ launcher' = launcher
      /\ pc = "test" /\ t_now' = now /\ faults' = faults /\ cnt' = cnt /\ pkt' = pkt
  BY DEF Test, At, wideVars, disk, hist
<1>2. /\ \/ pc' = "rotate" /\ k' = 1 /\ alarm' = 0 /\ (done \/ now - t_start >= Twin)
         \/ pc' = "dispatch" /\ k' = k /\ alarm' = alarm
      /\ Fresh' => Fresh
  BY DEF Test, Goto, Fresh
<1>3. now' \in 0..MaxClock /\ now <= now' /\ t_now' \in 0..now' /\ k' \in Nat
  BY <1>1, <1>2, ScalarTypes, Bounds
<1>4. \A s \in Source : Passed(s) <=> Passed(s)'
  <2>1. \A s \in Source : ~Passed(s) BY <1>1 DEF Passed
  <2>2. ASSUME NEW s \in Source PROVE ~Passed(s)'
    <3>1. CASE pc' = "rotate"
      <4>1. k' = 1 BY <1>2, <3>1
      <4>2. fs \in Seq(Source) BY DEF WInv, Typed
      <4>3. ~(\E i \in DOMAIN fs : i < 1 /\ fs[i] = s) BY <4>2
      <4> QED BY <1>1, <4>1, <4>3 DEF Passed, wideVars
    <3>2. CASE pc' # "rotate" BY <3>2 DEF Passed
    <3> QED BY <3>1, <3>2
  <2> QED BY <2>1, <2>2
<1>5. Scalars'
  <2>1. Turn' BY <1>1, <1>2, ScalarTypes, Bounds DEF Turn, wideVars
  <2> QED BY <1>1, <1>2, <2>1 DEF WInv, Scalars, Packet, wideVars
<1>6. faults <= faults' BY <1>1, ScalarTypes
<1> QED BY <1>1, <1>2, <1>3, <1>4, <1>5, <1>6, WideQuiet

LEMMA WideNoData == ASSUME WInv, NoData PROVE WInv'
<1>1. /\ UNCHANGED wideVars /\ now' = now /\ done' = done /\ launcher' = launcher
      /\ pc = "dispatch" /\ t_now' = t_now /\ k' = k /\ faults' = faults
      /\ cnt' = cnt /\ pkt' = pkt /\ alarm' = alarm /\ pc' \in {"end", "top"}
  BY DEF NoData, At, Goto, wideVars, disk, hist
<1>2. Scalars' BY <1>1 DEF WInv, Scalars, Packet, Turn, wideVars
<1>3. faults <= faults' BY <1>1, ScalarTypes
<1>4. Fresh' => Fresh BY DEF NoData, Fresh
<1> QED BY <1>1, <1>2, <1>3, <1>4, WideMove

\* The next slot; all sources have their new files.
LEMMA WideNextSlot == ASSUME WInv, NextSlot PROVE WInv'
<1>1. /\ UNCHANGED <<now, net, cnt, pkt, t_now, done, fs, k, src, fds, file, stored, sent, lost,
                     since, faults>>
      /\ pc = "rotate" /\ k > Len(fs)
      /\ launcher' = [launcher EXCEPT !.told = IF launcher.alive THEN @ \cup {t_start} ELSE @]
  BY DEF NextSlot, At, disk, hist
<1>2. /\ Disk' = Disk /\ sent' = sent BY <1>1 DEF Disk
<1>3. Sane(Disk, Len(sent))'
  <2>1. Sane(Disk, Len(sent)) BY DEF WInv
  <2> QED BY <1>2, <2>1 DEF Sane, DiskType
<1>4. Unlisted' BY <1>1 DEF Unlisted, Listed, WInv
<1>5. Spare'
  <2>1. OrphansIn(Disk)' = OrphansIn(Disk) BY <1>2 DEF OrphansIn
  <2> QED BY <1>1, <2>1 DEF Spare, WInv
<1>6. Fresh' <=> Fresh BY DEF NextSlot, Fresh
<1>7. Fresh' => PlacedIn(Disk, sent)'
  BY <1>2, <1>6 DEF WInv, PlacedIn, InBuffer, InFile, Kept, FilesIn
<1>8. launcher'.told \subseteq SlotTimes BY <1>1, ScalarTypes DEF WInv, Scalars
<1>9. CASE done
  <2>1. pc' = "end" /\ t_start' = t_start /\ alarm' = alarm BY <1>9 DEF NextSlot, Goto
  <2>2. Typed' BY <1>1, <2>1 DEF Typed, WInv
  <2>3. Scalars' BY <1>1, <1>8, <2>1 DEF WInv, Scalars, Packet, Turn
  <2> QED BY <1>3, <1>4, <1>5, <1>7, <2>1, <2>2, <2>3 DEF WInv
<1>10. CASE ~done
  <2>1. /\ pc' = "dispatch" /\ t_start' = t_start + Twin
        /\ alarm' = IF t_start + 2 * Twin + Overdue - t_now > 0
                    THEN now + (t_start + 2 * Twin + Overdue - t_now) ELSE 0
    BY <1>10 DEF NextSlot, Goto
  <2>2. t_now >= t_start + Twin BY <1>1, <1>10 DEF WInv, Scalars, Turn
  <2>3. t_start' \in SlotTimes /\ t_start' <= now'
    <3>1. t_start + Twin <= MaxClock BY <2>2, ScalarTypes, Bounds
    <3>2. t_start + Twin \in SlotTimes BY <3>1, ScalarTypes, NextSlotTime
    <3> QED BY <1>1, <2>1, <2>2, <3>2, ScalarTypes, Bounds
  <2>4. Typed' BY <1>1, <2>3 DEF Typed, WInv
  <2>5. alarm' \in Nat
    <3>1. PICK x \in Int : x = t_start + 2 * Twin + Overdue - t_now BY ScalarTypes, Bounds
    <3>2. alarm' = IF x > 0 THEN now + x ELSE 0 BY <2>1, <3>1
    <3> QED BY <3>1, <3>2, ScalarTypes
  <2>6. Scalars' BY <1>1, <1>8, <2>1, <2>5 DEF WInv, Scalars, Packet, Turn
  <2>7. Fresh' => Owns(Disk, Live)' /\ SlotsFree'
    <3> SUFFICES ASSUME Fresh' PROVE Owns(Disk, Live)' /\ SlotsFree'
      OBVIOUS
    <3>1. Owns(Disk, Live) /\ SlotsFree BY <1>1, <1>6 DEF WInv
    <3>2. Live' \in SUBSET Live BY <1>1, <1>10 DEF Live
    <3>3. Owns(Disk, Live') BY <3>1, <3>2, OwnsFewer
    <3>4. Owns(Disk, Live)' BY <1>2, <3>3 DEF Owns
    <3>5. SlotsFree'
      <4> SUFFICES ASSUME NEW s \in Source, NEW t \in SlotTimes, stored[s][t] # 0
                   PROVE  t < t_start'
        BY <1>1 DEF SlotsFree
      <4>1. t <= t_start BY <3>1, SlotIsNat, ScalarTypes DEF SlotsFree
      <4>2. t \in Nat BY SlotIsNat
      <4> QED BY <2>1, <4>1, <4>2, ScalarTypes, Bounds
    <3> QED BY <3>4, <3>5
  <2> QED BY <1>3, <1>4, <1>5, <1>7, <2>1, <2>4, <2>6, <2>7 DEF WInv
<1> QED BY <1>9, <1>10

-----------------------------------------------------------------------------
(* Steps that change the disk                                                 *)

LEMMA DiskSet == ASSUME NEW e \in DiskType, SetDisk(e) PROVE Disk' = e
<1>1. e = [src |-> e.src, fds |-> e.fds, file |-> e.file, stored |-> e.stored, lost |-> e.lost]
  BY DiskParts
<1> QED BY <1>1 DEF SetDisk, Disk

LEMMA DiskTyped ==
    ASSUME NEW e \in DiskType, Disk' = e
    PROVE  /\ src' = e.src /\ fds' = e.fds /\ file' = e.file /\ stored' = e.stored
           /\ lost' = e.lost
           /\ src' \in [Source -> SrcType] /\ fds' \in [Fd -> Nat]
           /\ file' \in Seq(SUBSET Nat) /\ stored' \in [Source -> [SlotTimes -> Nat]]
<1>1. src' = e.src /\ fds' = e.fds /\ file' = e.file /\ stored' = e.stored /\ lost' = e.lost
  BY DEF Disk
<1>2. /\ e.src \in [Source -> SrcType] /\ e.fds \in [Fd -> Nat]
      /\ e.file \in Seq(SUBSET Nat) /\ e.stored \in [Source -> [SlotTimes -> Nat]]
  BY DiskParts
<1> QED BY <1>1, <1>2

LEMMA FaultTypes == \A ok : Faults(ok) \in Nat /\ (~ok => Faults(ok) = 1)
BY DEF Faults

\* What a rotation does to the disk.
LEMMA RotateRel ==
    ASSUME WInv, Rotate, NEW s \in Source, s = fs[k], NEW n, n = Len(sent)
    PROVE  \E w, c, r, e :
              /\ IsWritten(Disk, w, s) /\ Sane(w, n) /\ IsClosed(w, c, s) /\ Sane(c, n)
              /\ r = c \/ IsRenamed(c, r, s, t_start)
              /\ Sane(r, n)
              /\ \/ done /\ e = r
                 \/ ~done /\ IsUnopened(r, e, s)
                 \/ /\ ~done /\ IsOpened(r, e, s)
                    /\ Fresh' => e.fds[e.src[s].fd] = e.src[s].current
              /\ Sane(e, n) /\ Disk' = e
              /\ Cardinality(OrphansIn(e)) <= faults' /\ faults' \in Nat /\ faults <= faults'
              /\ faults' <= net.faults
              /\ k' \in Nat /\ k' > k /\ (Fresh' => Fresh)
<1>1. PICK write \in BOOLEAN, rename \in BOOLEAN, open \in Outcomes :
           /\ (done => open = "ok")
           /\ LET closed == Closed(Disk, fs[k], write)
                  named == rename /\ closed.src[fs[k]].current # 0
                  renamed == IF named THEN Renamed(closed, fs[k], t_start) ELSE closed
              IN /\ Allowed(Faults(write) + Faults(rename) + Faults(open = "ok"))
                 /\ SetDisk(IF done THEN renamed ELSE Opened(renamed, fs[k], open))
                 /\ k' = IF open = "ok" THEN k + 1 ELSE Len(fs) + 1
                 /\ marks' = marks \cup (IF open = "header" THEN {"stale"} ELSE {})
    BY SMTT(40) DEF Rotate, Outcomes
<1>0. k <= Len(fs) /\ fs \in Seq(Source) /\ k \in Nat /\ Len(fs) \in Nat /\ n \in Nat
      /\ t_start \in SlotTimes /\ Sane(Disk, n)
  BY ScalarTypes DEF Rotate, WInv, Typed
<1>2. PICK w : w = Written(Disk, s, write) OBVIOUS
<1>3. /\ IsWritten(Disk, w, s)
      /\ write /\ Disk.src[s].fd \in Fd /\ Disk.fds[Disk.src[s].fd] # 0 => w.src[s].buffer = {}
  BY <1>0, <1>2, WrittenRel
<1>4. Sane(w, n) /\ w \in DiskType BY <1>0, <1>3, WrittenSane DEF Sane
<1>5. PICK c : c = Closed(Disk, s, write) OBVIOUS
<1>6. /\ IsClosed(w, c, s)
      /\ w.src[s].fd \in Fd /\ w.src[s].buffer = {} => c.fds[w.src[s].fd] = 0
  <2>1. Disk \in DiskType BY <1>0 DEF Sane
  <2> QED BY <1>2, <1>4, <1>5, <2>1, ClosedRel
<1>7. Sane(c, n) /\ c \in DiskType BY <1>0, <1>4, <1>6, ClosedSane DEF Sane
<1>8. PICK r : r = IF rename /\ c.src[s].current # 0 THEN Renamed(c, s, t_start) ELSE c OBVIOUS
<1>9. r = c \/ IsRenamed(c, r, s, t_start) BY <1>0, <1>7, <1>8, RenamedRel
<1>10. Sane(r, n) /\ r \in DiskType BY <1>0, <1>7, <1>9, RenamedSane DEF Sane
<1>11. OrphansIn(r) \subseteq OrphansIn(Disk)
  <2>1. OrphansIn(w) = OrphansIn(Disk) BY <1>3, WrittenOrphans
  <2>2. OrphansIn(c) \subseteq OrphansIn(w) BY <1>4, <1>6, ClosedOrphans
  <2>3. OrphansIn(r) = OrphansIn(c) BY <1>9, RenamedOrphans
  <2> QED BY <2>1, <2>2, <2>3
<1>12. /\ Cardinality(OrphansIn(r)) <= faults /\ faults \in Nat
       /\ Cardinality(OrphansIn(r)) \in Nat
  <2>1. Cardinality(OrphansIn(r)) <= Cardinality(OrphansIn(Disk)) /\ Cardinality(OrphansIn(r)) \in Nat
        /\ Cardinality(OrphansIn(Disk)) \in Nat
    BY <1>11, OrphansCount
  <2> QED BY <2>1, ScalarTypes DEF WInv, Spare
<1>13. PICK e : e = IF done THEN r ELSE Opened(r, s, open) OBVIOUS
<1>14. /\ SetDisk(e) /\ (done => open = "ok")
       /\ Allowed(Faults(write) + Faults(rename) + Faults(open = "ok"))
       /\ k' = IF open = "ok" THEN k + 1 ELSE Len(fs) + 1
       /\ marks' = marks \cup (IF open = "header" THEN {"stale"} ELSE {})
  BY ZenonT(40), <1>1, <1>5, <1>8, <1>13
<1>15. /\ faults' \in Nat /\ faults <= faults' /\ faults' <= net.faults
       /\ ~write => faults + 1 <= faults'
  <2>1. PICK x \in Nat, y \in Nat, z \in Nat :
           x = Faults(write) /\ y = Faults(rename) /\ z = Faults(open = "ok")
    BY FaultTypes
  <2>2. faults' = faults + (x + y + z) /\ faults + (x + y + z) <= net.faults
    BY <1>14, <2>1 DEF Allowed
  <2>3. ~write => x = 1 BY <2>1, FaultTypes
  <2> QED BY <2>2, <2>3, ScalarTypes
<1>16. /\ k' \in Nat /\ k' > k /\ (Fresh' => Fresh)
       /\ Fresh' => open # "header"
  BY <1>0, <1>14 DEF Fresh
<1>17. CASE done
  <2>1. e = r BY <1>13, <1>17
  <2>2. Disk' = e BY <1>10, <1>14, <2>1, DiskSet
  <2>3. Cardinality(OrphansIn(e)) <= faults' BY <1>12, <1>15, <2>1
  <2> QED BY <1>3, <1>4, <1>6, <1>7, <1>9, <1>10, <1>15, <1>16, <1>17, <2>1, <2>2, <2>3
<1>18. CASE ~done
  <2>1. e = Opened(r, s, open) BY <1>13, <1>18
  <2>2. \E m \in Fd : r.fds[m] = 0
    <3>1. Cardinality(OrphansIn(r)) <= MaxFaults BY <1>12, ScalarTypes, Bounds
    <3> QED BY <1>10, <3>1, SpareFd
  <2>3. \/ IsUnopened(r, e, s)
        \/ /\ IsOpened(r, e, s)
           /\ Fresh' => e.fds[e.src[s].fd] = e.src[s].current
    <3>1. CASE open = "nofile" BY <1>10, <2>1, <3>1, UnopenedRel
    <3>2. CASE open \in {"ok", "header"}
      <4>1. IsOpened(r, e, s) /\ (open = "ok" => e.fds[e.src[s].fd] = e.src[s].current)
        BY <1>0, <1>10, <2>1, <2>2, <3>2, OpenedRel
      <4> QED BY <1>16, <3>2, <4>1
    <3> QED BY <3>1, <3>2 DEF Outcomes
  <2>4. Sane(e, n) /\ e \in DiskType
    <3>1. CASE IsUnopened(r, e, s)
      <4>1. Sane(e, n) BY <1>0, <1>10, <3>1, UnopenedSane
      <4> QED BY <4>1 DEF Sane
    <3>2. CASE IsOpened(r, e, s)
      <4>1. Sane(e, n) BY <1>0, <1>10, <3>2, OpenedSane
      <4> QED BY <4>1 DEF Sane
    <3> QED BY <2>3, <3>1, <3>2
  <2>5. Disk' = e BY <1>14, <2>4, DiskSet
  <2>6. Cardinality(OrphansIn(e)) <= faults'
    <3>1. /\ OrphansIn(e) \subseteq OrphansIn(r) \cup {r.src[s].fd}
          /\ r.fds[r.src[s].fd] = 0 => OrphansIn(e) \subseteq OrphansIn(r)
      BY <2>3, ReopenedOrphans
    <3>2. CASE ~write
      <4>1. Cardinality(OrphansIn(e)) <= Cardinality(OrphansIn(r)) + 1 BY <3>1, OrphansMore
      <4>2. Cardinality(OrphansIn(e)) \in Nat BY OrphansCount
      <4> QED BY <1>12, <1>15, <3>2, <4>1, <4>2
    <3>3. CASE write
      <4>1. OrphansIn(e) \subseteq OrphansIn(r)
        <5>1. CASE r.src[s].fd \in Fd
          <6>1. /\ r.src[s].fd = c.src[s].fd /\ r.fds = c.fds BY <1>9 DEF IsRenamed
          <6>2. c.src[s].fd = w.src[s].fd BY <1>6 DEF IsClosed
          <6>3. w.src[s].fd = Disk.src[s].fd /\ w.fds = Disk.fds BY <1>3 DEF IsWritten
          <6>4. CASE Disk.fds[Disk.src[s].fd] # 0
            <7>1. c.fds[w.src[s].fd] = 0 BY <1>3, <1>6, <3>3, <5>1, <6>1, <6>2, <6>3, <6>4
            <7> QED BY <3>1, <6>1, <6>2, <7>1
          <6>5. CASE Disk.fds[Disk.src[s].fd] = 0
            <7>1. c.fds[w.src[s].fd] = 0
              BY <1>6, <5>1, <6>1, <6>2, <6>3, <6>5 DEF IsClosed
            <7> QED BY <3>1, <6>1, <6>2, <7>1
          <6> QED BY <6>4, <6>5
        <5>2. CASE r.src[s].fd \notin Fd
          <6>1. OrphansIn(e) \subseteq Fd BY DEF OrphansIn
          <6> QED BY <3>1, <5>2, <6>1
        <5> QED BY <5>1, <5>2
      <4>2. Cardinality(OrphansIn(e)) <= Cardinality(OrphansIn(r)) /\ Cardinality(OrphansIn(e)) \in Nat
        BY <4>1, OrphansCount
      <4> QED BY <1>12, <1>15, <4>2
    <3> QED BY <3>2, <3>3
  <2> QED BY <1>3, <1>4, <1>6, <1>7, <1>9, <1>10, <1>15, <1>16, <1>18, <2>3, <2>4, <2>5, <2>6
<1> QED BY <1>17, <1>18

LEMMA RotateAt ==
    ASSUME WInv, Rotate
    PROVE  /\ k \in DOMAIN fs /\ fs[k] \in Source /\ Listed(fs[k]) /\ ~Passed(fs[k])
           /\ pc = "rotate" /\ pc' = "rotate"
<1>1. pc = "rotate" /\ k <= Len(fs) /\ pc' = pc BY DEF Rotate, At
<1>2. fs \in Seq(Source) /\ k \in Nat /\ k >= 1 BY <1>1 DEF WInv, Typed, Scalars, Turn
<1>3. k \in DOMAIN fs BY <1>1, <1>2
<1>4. fs[k] \in Source BY <1>2, <1>3, ElementOf
<1>5. Listed(fs[k]) BY <1>3 DEF Listed
<1>6. ~Passed(fs[k])
  <2>1. \A i \in DOMAIN fs : fs[i] = fs[k] => i = k BY <1>3 DEF WInv, Typed
  <2>2. \A i \in DOMAIN fs : i < k => i # k BY <1>2
  <2> QED BY <1>1, <2>1, <2>2 DEF Passed
<1> QED BY <1>1, <1>3, <1>4, <1>5, <1>6

LEMMA WideRotate == ASSUME WInv, Rotate PROVE WInv'
<1>1. PICK s \in Source : s = fs[k] /\ Listed(s) /\ ~Passed(s) /\ k \in DOMAIN fs
  BY RotateAt
<1>2. PICK n \in Nat : n = Len(sent) BY ScalarTypes
<1>3. PICK w, c, r, e :
         /\ IsWritten(Disk, w, s) /\ Sane(w, n) /\ IsClosed(w, c, s) /\ Sane(c, n)
         /\ r = c \/ IsRenamed(c, r, s, t_start)
         /\ Sane(r, n)
         /\ \/ done /\ e = r
            \/ ~done /\ IsUnopened(r, e, s)
            \/ /\ ~done /\ IsOpened(r, e, s)
               /\ Fresh' => e.fds[e.src[s].fd] = e.src[s].current
         /\ Sane(e, n) /\ Disk' = e
         /\ Cardinality(OrphansIn(e)) <= faults' /\ faults' \in Nat /\ faults <= faults'
         /\ faults' <= net.faults
         /\ k' \in Nat /\ k' > k /\ (Fresh' => Fresh)
  BY SMTT(40), <1>1, <1>2, RotateRel
<1>4. /\ UNCHANGED <<now, net, pc, cnt, pkt, t_now, t_start, alarm, done, fs, launcher, sent, since>>
      /\ pc = "rotate"
  BY DEF Rotate, At, timeVars
<1>5. e \in DiskType BY <1>3 DEF Sane
<1>6. Typed'
  <2>1. /\ src' \in [Source -> SrcType] /\ fds' \in [Fd -> Nat]
        /\ file' \in Seq(SUBSET Nat) /\ stored' \in [Source -> [SlotTimes -> Nat]]
    BY <1>3, <1>5, DiskTyped
  <2> QED BY <1>3, <1>4, <2>1 DEF WInv, Typed
<1>7. Scalars'
  <2>1. k' >= 1 BY <1>3, <1>4, ScalarTypes DEF WInv, Scalars, Turn
  <2> QED BY <1>3, <1>4, <2>1 DEF WInv, Scalars, Packet, Turn
<1>8. Sane(Disk, Len(sent))' BY <1>2, <1>3, <1>4 DEF Sane, DiskType
<1>9. \A o \in Source : o # s => e.src[o] = src[o]
  <2> SUFFICES ASSUME NEW o \in Source, o # s PROVE e.src[o] = src[o]
    OBVIOUS
  <2>1. w.src[o] = src[o] BY <1>3 DEF IsWritten, Others, Disk
  <2>2. c.src[o] = w.src[o] BY <1>3 DEF IsClosed
  <2>3. r.src[o] = c.src[o] BY <1>3 DEF IsRenamed, Others
  <2>4. e.src[o] = r.src[o] BY <1>3 DEF IsUnopened, IsOpened, Others
  <2> QED BY <2>1, <2>2, <2>3, <2>4
<1>10. Unlisted'
  <2>1. src' = e.src BY <1>3 DEF Disk
  <2> QED BY <1>1, <1>4, <1>9, <2>1 DEF Unlisted, Listed, WInv
<1>11. Spare' BY <1>3 DEF Spare, OrphansIn
<1>12. ASSUME Fresh' PROVE PlacedIn(e, sent) /\ Owns(Disk, Live)' /\ SlotsFree'
  <2>1. /\ PlacedIn(Disk, sent) /\ Owns(Disk, Live) /\ SlotsFree /\ Sane(Disk, n)
        /\ sent \in SentSeq
    BY <1>2, <1>3, <1>4, <1>12, ScalarTypes DEF WInv
  <2>2. s \in Live /\ Live \in SUBSET Source BY <1>1 DEF Live
  <2>3. Owns(w, Live) /\ PlacedIn(w, sent)
    BY <1>2, <1>3, <2>1, <2>2, WrittenOwns, WrittenPlaced
  <2>4. Owns(c, Live \ {s}) BY <1>3, <2>2, <2>3, ClosedOwns
  <2>5. PlacedIn(c, sent) BY <1>3, <2>1, <2>3, ClosedPlaced
  <2>6. stored[s][t_start] = 0 /\ t_start \in SlotTimes
    BY <1>1, <2>1, ScalarTypes DEF SlotsFree
  <2>7. c.stored = stored BY <1>3 DEF IsWritten, IsClosed, Disk
  <2>8. Owns(r, Live \ {s}) BY <1>3, <2>2, <2>4, RenamedOwns
  <2>9. PlacedIn(r, sent) BY <1>2, <1>3, <2>1, <2>5, <2>6, <2>7, RenamedPlaced
  <2>10. PlacedIn(e, sent)
    BY <1>2, <1>3, <2>1, <2>9, UnopenedPlaced, OpenedPlaced
  <2>11. Passed(s)' BY <1>1, <1>3, <1>4 DEF Passed
  <2>12. \A o \in Source : Passed(o) => Passed(o)'
    <3> SUFFICES ASSUME NEW o \in Source, Passed(o) PROVE Passed(o)'
      OBVIOUS
    <3>1. PICK i \in DOMAIN fs : i < k /\ fs[i] = o BY DEF Passed
    <3>2. i \in Nat /\ k \in Nat
      <4>1. fs \in Seq(Source) BY DEF WInv, Typed
      <4> QED BY <4>1, ScalarTypes
    <3>3. i < k' BY <1>3, <3>1, <3>2
    <3> QED BY <1>4, <3>1, <3>3 DEF Passed
  <2>13. Owns(Disk, Live)'
    <3>1. CASE done
      <4>1. Live' \in SUBSET (Live \ {s}) BY <1>4, <2>11, <2>12, <3>1 DEF Live
      <4>2. Owns(e, Live') BY <1>3, <2>8, <3>1, <4>1, OwnsFewer
      <4> QED BY <1>3, <4>2 DEF Owns
    <3>2. CASE ~done
      <4>1. Live' = Live BY <1>4, <3>2 DEF Live
      <4>2. Owns(e, Live)
        BY <1>3, <1>12, <2>2, <2>8, <3>2, UnopenedOwns, OpenedOwns
      <4> QED BY <1>3, <4>1, <4>2 DEF Owns
    <3> QED BY <3>1, <3>2
  <2>14. SlotsFree'
    <3> SUFFICES ASSUME NEW o \in Source, NEW t \in SlotTimes, stored'[o][t] # 0
                 PROVE  t < t_start \/ (t = t_start /\ Passed(o)')
      BY <1>4 DEF SlotsFree
    <3>1. stored' = r.stored
      <4>1. stored' = e.stored BY <1>3 DEF Disk
      <4>2. e.stored = r.stored BY <1>3 DEF IsUnopened, IsOpened
      <4> QED BY <4>1, <4>2
    <3>2. CASE o = s /\ t = t_start BY <2>11, <3>2
    <3>3. CASE ~(o = s /\ t = t_start)
      <4>1. stored[o][t] # 0 BY <1>3, <2>7, <3>1, <3>3 DEF IsRenamed
      <4> QED BY <2>1, <2>12, <4>1 DEF SlotsFree
    <3> QED BY <3>2, <3>3
  <2> QED BY <2>10, <2>13, <2>14
<1>13. Fresh' => PlacedIn(Disk, sent)'
  BY <1>3, <1>4, <1>12 DEF PlacedIn, InBuffer, InFile, Kept, FilesIn
<1> QED BY <1>6, <1>7, <1>8, <1>10, <1>11, <1>12, <1>13 DEF WInv

\* One more record.
LEMMA WideNote ==
    ASSUME WInv, NEW s \in Source, Note(s), NEW n, n = Len(sent)
    PROVE  /\ sent' \in SentSeq /\ sent' \in Seq([src : Source, time : Nat])
           /\ Len(sent') = n + 1 /\ sent'[n + 1].src = s
           /\ \A q \in 1..n : sent'[q] = sent[q]
<1>1. sent \in Seq([src : Source, time : Nat]) /\ t_now \in Nat BY ScalarTypes DEF WInv, Typed
<1>2. PICK x : x = [src |-> s, time |-> t_now] OBVIOUS
<1>3. x \in [src : Source, time : Nat] /\ x.src = s BY <1>1, <1>2
<1>4. sent' = Append(sent, x) BY <1>2 DEF Note
<1> QED BY <1>1, <1>3, <1>4 DEF SentSeq

\* After a packet, given what it does to the disk.
LEMMA WidePacket ==
    ASSUME WInv, NEW s \in Source, Note(s), NEW n \in Nat, n = Len(sent),
           NEW d, NEW w, NEW e, Sane(d, n), IsWritten(d, w, s), IsAdded(w, e, s, n + 1), Disk' = e,
           Cardinality(OrphansIn(d)) <= faults', UNCHANGED <<now, net, t_now, t_start>>,
           fs' \in Seq(Source), \A i, j \in DOMAIN fs' : fs'[i] = fs'[j] => i = j,
           k' \in Nat, since' \in [Source -> SlotTimes], Scalars', pc # "rotate", pc' # "rotate",
           pc # "end", Fresh' => Fresh,
           \A o \in Source : ~Listed(o)' => o # s /\ d.src[o].fd = NoFd,
           Fresh => PlacedIn(d, sent) /\ Owns(d, Source) /\ d.stored = stored
    PROVE  WInv'
<1>1. /\ sent' \in SentSeq /\ sent' \in Seq([src : Source, time : Nat])
      /\ Len(sent') = n + 1 /\ sent'[n + 1].src = s
      /\ \A q \in 1..n : sent'[q] = sent[q] /\ sent \in SentSeq
  BY WideNote, ScalarTypes
<1>2. Sane(w, n) BY WrittenSane
<1>3. Sane(e, n + 1) /\ e \in DiskType BY <1>2, AddedSane DEF Sane
<1>4. Typed'
  <2>1. /\ src' \in [Source -> SrcType] /\ fds' \in [Fd -> Nat]
        /\ file' \in Seq(SUBSET Nat) /\ stored' \in [Source -> [SlotTimes -> Nat]]
    BY <1>3, DiskTyped
  <2> QED BY <1>1, <2>1 DEF WInv, Typed
<1>5. Sane(Disk, Len(sent))' BY <1>1, <1>3 DEF Sane, DiskType
<1>6. \A o \in Source : e.src[o].fd = d.src[o].fd
  <2>1. \A o \in Source : w.src[o].fd = d.src[o].fd BY DEF IsWritten, Others
  <2>2. \A o \in Source : e.src[o].fd = w.src[o].fd BY DEF IsAdded, Others
  <2> QED BY <2>1, <2>2
<1>7. Unlisted'
  <2>1. src' = e.src BY DEF Disk
  <2> QED BY <1>6, <2>1 DEF Unlisted
<1>8. Spare'
  <2>1. OrphansIn(e) = OrphansIn(d) BY WrittenOrphans, AddedOrphans
  <2> QED BY <2>1 DEF Spare, OrphansIn
<1>9. ASSUME Fresh' PROVE PlacedIn(e, sent') /\ Owns(e, Source) /\ SlotsFree'
  <2>1. Fresh /\ PlacedIn(d, sent) /\ Owns(d, Source) /\ sent \in SentSeq
    BY <1>9, ScalarTypes
  <2>2. Owns(w, Source) /\ PlacedIn(w, sent) BY <2>1, WrittenOwns, WrittenPlaced
  <2>3. Owns(e, Source) BY <2>2, AddedOwns
  <2>4. PlacedIn(e, sent')
    <3>1. PICK sm \in SentSeq : sm = sent' BY <1>1
    <3>2. Len(sm) = n + 1 /\ sm[n + 1].src = s /\ \A q \in 1..n : sm[q] = sent[q]
      BY <1>1, <3>1
    <3>3. /\ sent \in SentSeq /\ n = Len(sent) /\ Sane(w, n) /\ PlacedIn(w, sent)
          /\ IsAdded(w, e, s, n + 1) /\ n \in Nat /\ s \in Source
      BY <1>2, <2>1, <2>2
    <3>4. sm \in SentSeq BY <3>1
    <3>5. PlacedIn(e, sm) BY ONLY <3>2, <3>3, <3>4, AddedPlaced, SMTT(60)
    <3> QED BY <3>1, <3>5
  <2>5. SlotsFree'
    <3>1. stored' = d.stored BY DEF IsWritten, IsAdded, Disk
    <3>2. d.stored = stored BY <2>1
    <3>3. SlotsFree BY <2>1 DEF WInv
    <3> QED BY <3>1, <3>2, <3>3 DEF SlotsFree, Passed
  <2> QED BY <2>3, <2>4, <2>5
<1>10. Fresh' => PlacedIn(Disk, sent)'
  BY <1>9 DEF PlacedIn, InBuffer, InFile, Kept, FilesIn
<1>11. Fresh' => Owns(Disk, Live)'
  <2> SUFFICES ASSUME Fresh' PROVE Owns(Disk, Live)'
    OBVIOUS
  <2>1. Live' \in SUBSET Source BY DEF Live
  <2>2. Owns(e, Live') BY <1>9, <2>1, OwnsFewer
  <2> QED BY <2>2 DEF Owns
<1> QED BY <1>4, <1>5, <1>7, <1>8, <1>9, <1>10, <1>11 DEF WInv

LEMMA LiveAll == ASSUME pc # "rotate" PROVE Live = Source
BY DEF Live, Passed

LEMMA WideProcess == ASSUME WInv, Process PROVE WInv'
<1>1. /\ pc = "dispatch" /\ pc' = "top" /\ Listed(pkt) /\ pkt \in Source /\ Note(pkt)
      /\ UNCHANGED <<now, net, cnt, pkt, t_now, t_start, alarm, done, fs, k, launcher, since, marks>>
  BY DEF Process, At, Goto, WInv, Scalars, Packet, timeVars
<1>2. PICK ok \in BOOLEAN : Allowed(Faults(ok)) /\ SetDisk(Buffered(Disk, pkt, ok)) BY DEF Process
<1>3. PICK s \in Source : s = pkt BY <1>1
<1>4. PICK n \in Nat : n = Len(sent) BY ScalarTypes
<1>5. PICK e : e = Buffered(Disk, s, ok) OBVIOUS
<1>6. Sane(Disk, n) BY <1>4 DEF WInv
<1>7. PICK w : IsWritten(Disk, w, s) /\ IsAdded(w, e, s, n + 1) BY <1>4, <1>5, <1>6, BufferedRel
<1>8. Disk' = e
  <2>1. e \in DiskType BY <1>7 DEF IsAdded
  <2>2. SetDisk(e) BY <1>2, <1>3, <1>5
  <2> QED BY <2>1, <2>2, DiskSet
<1>9. faults' \in Nat /\ faults <= faults' /\ faults' <= net.faults
  <2>1. PICK x \in Nat : x = Faults(ok) BY FaultTypes
  <2>2. faults' = faults + x /\ faults + x <= net.faults BY <1>2, <2>1 DEF Allowed
  <2> QED BY <2>2, ScalarTypes
<1>10. Cardinality(OrphansIn(Disk)) <= faults'
  <2>1. Cardinality(OrphansIn(Disk)) \in Nat BY OrphansCount
  <2> QED BY <1>9, <2>1, ScalarTypes DEF WInv, Spare
<1>11. Scalars' BY <1>1, <1>9 DEF WInv, Scalars, Packet, Turn
<1>12. /\ fs' \in Seq(Source) /\ \A i, j \in DOMAIN fs' : fs'[i] = fs'[j] => i = j
       /\ k' \in Nat /\ since' \in [Source -> SlotTimes]
  BY <1>1 DEF WInv, Typed
<1>13. \A o \in Source : ~Listed(o)' => o # s /\ Disk.src[o].fd = NoFd
  BY <1>1, <1>3 DEF WInv, Unlisted, Listed, Disk
<1>14. Fresh => PlacedIn(Disk, sent) /\ Owns(Disk, Source) /\ Disk.stored = stored
  <2>1. Disk.stored = stored BY DEF Disk
  <2> QED BY <1>1, <2>1, LiveAll DEF WInv
<1>15. Fresh' => Fresh BY <1>1 DEF Fresh
<1> QED BY <1>1, <1>3, <1>4, <1>6, <1>7, <1>8, <1>10, <1>11, <1>12, <1>13, <1>14, <1>15, WidePacket

LEMMA WideAddSource == ASSUME WInv, AddSource PROVE WInv'
<1>1. /\ pc = "dispatch" /\ ~Listed(pkt) /\ pkt \in Source
      /\ UNCHANGED <<now, net, cnt, pkt, t_now, t_start, alarm, done, k, launcher>>
      /\ fs' = Append(fs, pkt) /\ since' = [since EXCEPT ![pkt] = t_start]
  BY DEF AddSource, At, WInv, Scalars, Packet, timeVars
<1>2. PICK s \in Source : s = pkt BY <1>1
<1>3. PICK n \in Nat : n = Len(sent) BY ScalarTypes
<1>4. Sane(Disk, n) /\ Disk \in DiskType BY <1>3 DEF WInv, Sane
<1>5. Disk.src[s].fd = NoFd /\ Disk.src = src /\ Disk.stored = stored
  BY <1>1, <1>2 DEF WInv, Unlisted, Disk
<1>6. /\ fs' \in Seq(Source) /\ \A i, j \in DOMAIN fs' : fs'[i] = fs'[j] => i = j
      /\ \A o \in Source : Listed(o)' <=> Listed(o) \/ o = s
  <2>1. fs \in Seq(Source) BY DEF WInv, Typed
  <2>2. /\ fs' \in Seq(Source) /\ Len(fs) \in Nat
        /\ DOMAIN fs = 1..Len(fs) /\ DOMAIN fs' = 1..(Len(fs) + 1)
        /\ \A i \in DOMAIN fs : fs'[i] = fs[i]
        /\ fs'[Len(fs) + 1] = s
    BY <1>1, <1>2, <2>1
  <2>3. \A i \in DOMAIN fs : fs[i] # s BY <1>1, <1>2 DEF Listed
  <2>4. ASSUME NEW i \in DOMAIN fs', NEW j \in DOMAIN fs', fs'[i] = fs'[j]
        PROVE  i = j
    <3>1. CASE i \in DOMAIN fs /\ j \in DOMAIN fs
      BY <2>2, <2>4, <3>1 DEF WInv, Typed
    <3>2. CASE i = Len(fs) + 1 BY <2>2, <2>3, <2>4, <3>2
    <3>3. CASE j = Len(fs) + 1 BY <2>2, <2>3, <2>4, <3>3
    <3> QED BY <2>2, <3>1, <3>2, <3>3
  <2>5. \A o \in Source : Listed(o)' <=> Listed(o) \/ o = s BY <2>2 DEF Listed
  <2> QED BY <2>2, <2>4, <2>5
<1>7. k' \in Nat /\ since' \in [Source -> SlotTimes] BY <1>1, <1>2, ScalarTypes DEF WInv, Typed
<1>8. CASE /\ Allowed(0)
           /\ SetDisk(Buffered(Opened(Disk, pkt, "ok"), pkt, TRUE))
           /\ Note(pkt) /\ Goto("top") /\ UNCHANGED marks
  <2>1. PICK d : d = Opened(Disk, s, "ok") OBVIOUS
  <2>2. faults' = faults /\ faults \in Nat /\ faults <= net.faults
    BY <1>8, ScalarTypes DEF Allowed
  <2>3. /\ Cardinality(OrphansIn(Disk)) <= faults /\ Cardinality(OrphansIn(Disk)) \in Nat
    BY OrphansCount DEF WInv, Spare
  <2>4. \E m \in Fd : Disk.fds[m] = 0
    <3>1. Cardinality(OrphansIn(Disk)) <= MaxFaults BY <2>3, ScalarTypes, Bounds
    <3> QED BY <1>4, <3>1, SpareFd
  <2>5. IsOpened(Disk, d, s) /\ d.fds[d.src[s].fd] = d.src[s].current
    BY <1>4, <2>1, <2>4, OpenedRel
  <2>6. Sane(d, n) BY <1>4, <2>5, OpenedSane
  <2>7. PICK e : e = Buffered(d, s, TRUE) OBVIOUS
  <2>8. PICK w : IsWritten(d, w, s) /\ IsAdded(w, e, s, n + 1) BY <1>3, <2>6, <2>7, BufferedRel
  <2>9. Disk' = e
    <3>1. e \in DiskType BY <2>8 DEF IsAdded
    <3>2. SetDisk(e) BY <1>2, <1>8, <2>1, <2>7
    <3> QED BY <3>1, <3>2, DiskSet
  <2>10. Cardinality(OrphansIn(d)) <= faults'
    <3>1. OrphansIn(d) \subseteq OrphansIn(Disk) \cup {NoFd} BY <1>5, <2>5, ReopenedOrphans
    <3>2. NoFd \notin OrphansIn(d) BY Bounds DEF OrphansIn, Fd, NoFd
    <3>3. OrphansIn(d) \subseteq OrphansIn(Disk) BY <3>1, <3>2
    <3>4. /\ Cardinality(OrphansIn(d)) <= Cardinality(OrphansIn(Disk))
          /\ Cardinality(OrphansIn(d)) \in Nat
      BY <3>3, OrphansCount
    <3> QED BY <2>2, <2>3, <3>4
  <2>11. pc' = "top" /\ marks' = marks BY <1>8 DEF Goto
  <2>12. Scalars' BY <1>1, <2>2, <2>11 DEF WInv, Scalars, Packet, Turn
  <2>13. \A o \in Source : ~Listed(o)' => o # s /\ d.src[o].fd = NoFd
    <3>1. \A o \in Source : o # s => d.src[o] = src[o] BY <1>5, <2>5 DEF IsOpened, Others
    <3> QED BY <1>6, <3>1 DEF WInv, Unlisted
  <2>14. Fresh => PlacedIn(d, sent) /\ Owns(d, Source) /\ d.stored = stored
    <3> SUFFICES ASSUME Fresh PROVE PlacedIn(d, sent) /\ Owns(d, Source) /\ d.stored = stored
      OBVIOUS
    <3>1. PlacedIn(Disk, sent) /\ Owns(Disk, Source) BY <1>1, LiveAll DEF WInv
    <3>2. PlacedIn(d, sent) BY <1>3, <1>4, <2>5, <3>1, OpenedPlaced, ScalarTypes
    <3>3. Owns(Disk, Source \ {s})
      <4>1. Source \ {s} \in SUBSET Source OBVIOUS
      <4> QED BY <3>1, <4>1, OwnsFewer
    <3>4. Owns(d, Source)
      <4>1. Source \in SUBSET Source OBVIOUS
      <4> QED BY <1>4, <2>5, <3>3, <4>1, OpenedOwns
    <3> QED BY <1>5, <2>5, <3>2, <3>4 DEF IsOpened
  <2>15. Fresh' => Fresh BY <2>11 DEF Fresh
  <2>16. Note(s) BY <1>2, <1>8
  <2> QED BY <1>1, <1>3, <1>6, <1>7, <2>6, <2>8, <2>9, <2>10, <2>11, <2>12, <2>13, <2>14, <2>15,
             <2>16, WidePacket
<1>9. CASE /\ Allowed(1)
           /\ SetDisk(Opened(Disk, pkt, "nofile"))
           /\ Goto("end") /\ marks' = marks \cup {"fatal"} /\ UNCHANGED sent
  <2>1. PICK e : e = Opened(Disk, s, "nofile") OBVIOUS
  <2>2. IsUnopened(Disk, e, s) BY <1>4, <2>1, UnopenedRel
  <2>3. Sane(e, n) /\ e \in DiskType BY <1>4, <2>2, UnopenedSane DEF Sane
  <2>4. Disk' = e BY <1>2, <1>9, <2>1, <2>3, DiskSet
  <2>5. Typed'
    <3>1. /\ src' \in [Source -> SrcType] /\ fds' \in [Fd -> Nat]
          /\ file' \in Seq(SUBSET Nat) /\ stored' \in [Source -> [SlotTimes -> Nat]]
      BY <2>3, <2>4, DiskTyped
    <3> QED BY <1>1, <1>6, <1>7, <1>9, <3>1 DEF WInv, Typed
  <2>6. faults' = faults + 1 /\ faults' \in Nat /\ faults' <= net.faults /\ faults <= faults'
    BY <1>9, ScalarTypes DEF Allowed
  <2>7. Scalars' BY <1>1, <1>9, <2>6 DEF WInv, Scalars, Packet, Turn, Goto
  <2>8. Sane(Disk, Len(sent))' BY <1>3, <1>9, <2>3, <2>4 DEF Sane, DiskType
  <2>9. Unlisted'
    <3>1. \A o \in Source : o # s => src'[o] = src[o]
      BY <1>5, <2>2, <2>4 DEF IsUnopened, Others, Disk
    <3> QED BY <1>6, <3>1 DEF WInv, Unlisted
  <2>10. Spare'
    <3>1. Cardinality(OrphansIn(e)) <= Cardinality(OrphansIn(Disk)) + 1
      BY <2>2, ReopenedOrphans, OrphansMore
    <3>2. Cardinality(OrphansIn(e)) \in Nat /\ Cardinality(OrphansIn(Disk)) \in Nat
      BY OrphansCount
    <3>3. Cardinality(OrphansIn(e)) <= faults'
      BY <2>6, <3>1, <3>2, ScalarTypes DEF WInv, Spare
    <3> QED BY <2>4, <3>3 DEF Spare, OrphansIn
  <2>11. Fresh' => PlacedIn(Disk, sent)'
    <3> SUFFICES ASSUME Fresh' PROVE PlacedIn(Disk, sent)'
      OBVIOUS
    <3>1. Fresh BY <1>9 DEF Fresh
    <3>2. PlacedIn(e, sent) BY <1>3, <1>4, <2>2, <3>1, UnopenedPlaced, ScalarTypes DEF WInv
    <3> QED BY <1>9, <2>4, <3>2 DEF PlacedIn, InBuffer, InFile, Kept, FilesIn
  <2>12. pc' = "end" BY <1>9 DEF Goto
  <2> QED BY <2>5, <2>7, <2>8, <2>9, <2>10, <2>11, <2>12 DEF WInv
<1> QED BY <1>8, <1>9 DEF AddSource

-----------------------------------------------------------------------------
(* Every record in one place                                                  *)

LEMMA InitWide == Init => WInv
<1> SUFFICES ASSUME Init PROVE WInv
  OBVIOUS
<1>1. Typed /\ Known /\ Packet /\ FilesApart /\ SourcesOpen
  <2>1. faults = 0 BY DEF Init
  <2> QED BY <2>1, InitSound DEF IInv, Sound
<1>2. /\ pc = "top" /\ cnt = "zero" /\ alarm = Twin + Overdue /\ launcher.told = {}
      /\ faults = 0 /\ lost = {} /\ sent = <<>> /\ k = 0
      /\ net \in Networks /\ fs = [i \in 1..net.static |-> i]
  BY DEF Init
<1>3. net.static \in 0..NSources /\ net.faults \in 0..MaxFaults BY <1>2, NetworksAssumption
<1>4. Scalars BY <1>1, <1>2, <1>3, Bounds DEF Scalars, Turn
<1>5. Len(sent) = 0 /\ DOMAIN sent = {} /\ 1..0 = {} BY <1>2
<1>6. Disk \in DiskType
  <2>1. /\ src \in [Source -> SrcType] /\ fds \in [Fd -> Nat] /\ file \in Seq(SUBSET Nat)
        /\ stored \in [Source -> [SlotTimes -> Nat]] /\ lost \in SUBSET Nat
    BY <1>1, <1>2 DEF Typed
  <2> QED BY <2>1 DEF DiskType, Disk
<1>7. /\ Disk.src = src /\ Disk.fds = fds /\ Disk.file = file /\ Disk.stored = stored
      /\ Disk.lost = {}
  BY <1>2 DEF Disk
<1>8. \A s \in Source :
         /\ src[s].fd = IF s <= net.static THEN s ELSE NoFd
         /\ src[s].current = IF s <= net.static THEN s ELSE 0
         /\ src[s].buffer = {}
  <2> SUFFICES ASSUME NEW s \in Source
               PROVE  /\ src[s].fd = IF s <= net.static THEN s ELSE NoFd
                      /\ src[s].current = IF s <= net.static THEN s ELSE 0
                      /\ src[s].buffer = {}
    OBVIOUS
  <2>1. PICK a, b : /\ a = IF s <= net.static THEN s ELSE NoFd
                    /\ b = IF s <= net.static THEN s ELSE 0
    OBVIOUS
  <2>2. src[s] = [buffer |-> {}, books |-> 0, fd |-> a, current |-> b] BY <2>1 DEF Init
  <2> QED BY <2>1, <2>2
<1>9. \A m \in Fd : fds[m] = IF m <= net.static THEN m ELSE 0 BY DEF Init
<1>10. /\ DOMAIN file = 1..net.static /\ Len(file) = net.static
       /\ \A i \in 1..net.static : file[i] = {}
  <2>1. file = [i \in 1..net.static |-> {}] BY DEF Init
  <2> QED BY <1>3, <2>1
<1>11. \A s \in Source : \A t \in SlotTimes : stored[s][t] = 0 BY DEF Init
<1>12. Source \subseteq Fd /\ NoFd = 0 BY Bounds DEF Source, Fd, NoFd
<1>13. Sane(Disk, Len(sent))
  <2>1. \A s \in Source : /\ src[s].buffer \subseteq 1..0
                          /\ src[s].fd \in Fd \cup {NoFd}
                          /\ src[s].current \in 0..Len(file)
    BY <1>3, <1>8, <1>10, <1>12 DEF Source
  <2>2. \A m \in Fd : fds[m] \in 0..Len(file) BY <1>3, <1>9, <1>10, Bounds DEF Fd
  <2>3. \A i \in DOMAIN file : file[i] \subseteq 1..0 BY <1>10
  <2> QED BY <1>5, <1>6, <1>7, <2>1, <2>2, <2>3 DEF Sane
<1>14. Unlisted
  <2> SUFFICES ASSUME NEW s \in Source, src[s].fd # NoFd PROVE Listed(s)
    BY DEF Unlisted
  <2>1. s \in 1..net.static BY <1>3, <1>8 DEF Source
  <2> QED BY <1>2, <2>1 DEF Listed
<1>15. Spare
  <2>1. ASSUME NEW m \in OrphansIn(Disk) PROVE FALSE
    <3>1. m \in Fd /\ fds[m] # 0 /\ \A s \in Source : src[s].fd # m BY <1>7 DEF OrphansIn
    <3>2. m <= net.static BY <1>9, <3>1
    <3>3. m \in Source BY <1>3, <3>1, <3>2, Bounds DEF Source, Fd
    <3> QED BY <1>8, <3>1, <3>2, <3>3
  <2>2. OrphansIn(Disk) = {} BY <2>1
  <2>3. Cardinality({}) = 0 BY FS_EmptySet
  <2> QED BY <1>2, <2>2, <2>3 DEF Spare
<1>16. PlacedIn(Disk, sent)
  <2>1. InBuffer(Disk, sent) BY <1>7, <1>8 DEF InBuffer
  <2>2. InFile(Disk, sent) BY <1>7, <1>10 DEF InFile
  <2>3. Kept(Disk, sent) BY <1>5 DEF Kept
  <2> QED BY <2>1, <2>2, <2>3 DEF PlacedIn
<1>17. Owns(Disk, Live)
  <2> SUFFICES ASSUME NEW s \in Source, src[s].fd # NoFd
               PROVE  /\ fds[src[s].fd] = src[s].current /\ src[s].current # 0
                      /\ \A o \in Source : o # s => src[o].fd # src[s].fd
    BY <1>7 DEF Owns, Live
  <2>1. s <= net.static /\ src[s].fd = s /\ src[s].current = s BY <1>8
  <2>2. s # 0 BY DEF Source
  <2>3. fds[s] = s BY <1>9, <1>12, <2>1
  <2>4. \A o \in Source : o # s => src[o].fd # s BY <1>8, <1>12, <2>2
  <2> QED BY <2>1, <2>2, <2>3, <2>4
<1>18. SlotsFree BY <1>11 DEF SlotsFree
<1> QED BY <1>1, <1>4, <1>13, <1>14, <1>15, <1>16, <1>17, <1>18 DEF WInv

LEMMA StepWide == WInv /\ [Next]_vars => WInv'
<1> SUFFICES ASSUME WInv, [Next]_vars PROVE WInv'
  OBVIOUS
<1>1. CASE UNCHANGED vars
  <2>1. /\ UNCHANGED wideVars /\ now' = now /\ t_now' = t_now /\ k' = k /\ done' = done
        /\ pc' = pc /\ marks' = marks /\ launcher' = launcher /\ cnt' = cnt /\ pkt' = pkt
        /\ faults' = faults /\ alarm' = alarm
    BY <1>1 DEF vars, wideVars, disk, timeVars, hist
  <2>2. now' \in 0..MaxClock /\ now <= now' /\ t_now' \in 0..now' /\ k' \in Nat
    BY <2>1, ScalarTypes, Bounds
  <2>3. \A s \in Source : Passed(s) <=> Passed(s)' BY <2>1 DEF Passed, wideVars
  <2>4. Scalars' BY <2>1 DEF WInv, Scalars, Packet, Turn, wideVars
  <2>5. faults <= faults' /\ (Fresh' => Fresh) BY <2>1, ScalarTypes DEF Fresh
  <2> QED BY <2>1, <2>2, <2>3, <2>4, <2>5, WideQuiet
<1>2. CASE Tick BY <1>2, WideTick
<1>3. CASE Alarm \/ Terminate \/ LauncherDies \/ Top \/ Call \/ Receive \/ Ignore \/ ReceiveFails
  BY <1>3, WideSignals
<1>4. CASE Test BY <1>4, WideTest
<1>5. CASE Rotate BY <1>5, WideRotate
<1>6. CASE NextSlot BY <1>6, WideNextSlot
<1>7. CASE NoData BY <1>7, WideNoData
<1>8. CASE Process BY <1>8, WideProcess
<1>9. CASE AddSource BY <1>9, WideAddSource
<1> QED BY <1>1, <1>2, <1>3, <1>4, <1>5, <1>6, <1>7, <1>8, <1>9 DEF Next, Step

LEMMA WideTypes == WInv => TypeOK
<1> SUFFICES ASSUME WInv PROVE TypeOK
  OBVIOUS
<1>1. /\ Disk.src = src /\ Disk.fds = fds /\ Disk.file = file BY DEF Disk
<1>2. now \in 0..MaxClock /\ t_now \in 0..now BY DEF WInv, Typed
<1>3. /\ \A s \in Source : /\ src[s].buffer \subseteq DOMAIN sent
                           /\ src[s].fd \in Fd \cup {NoFd}
                           /\ src[s].current \in 0..Len(file)
      /\ \A n \in Fd : fds[n] \in 0..Len(file)
  BY <1>1, ScalarTypes DEF WInv, Sane
<1> QED BY <1>2, <1>3, ScalarTypes DEF TypeOK, WInv, Scalars

LEMMA WidePlaces == WInv => OneOwnPlace
<1> SUFFICES ASSUME WInv, Fresh, NEW r \in DOMAIN sent
             PROVE  \/ r \in lost /\ Places(r) = {}
                    \/ /\ r \notin lost /\ Cardinality(Places(r)) = 1
                       /\ Places(r) \subseteq {<<"buffer", sent[r].src>>}
                                              \cup {<<"file", i>> : i \in FilesOf(sent[r].src)}
  BY WideTypes DEF OneOwnPlace, Fresh
<1>1. /\ Disk.src = src /\ Disk.file = file /\ Disk.lost = lost /\ Disk.stored = stored BY DEF Disk
<1>2. /\ InBuffer(Disk, sent) /\ InFile(Disk, sent) /\ Kept(Disk, sent) /\ r \in 1..Len(sent)
  BY ScalarTypes DEF WInv, PlacedIn
<1>3. \A s \in Source : r \in src[s].buffer =>
         r \notin lost /\ sent[r].src = s /\ \A i \in DOMAIN file : r \notin file[i]
  BY <1>1, <1>2 DEF InBuffer
<1>4. \A i \in DOMAIN file : r \in file[i] =>
         /\ r \notin lost /\ i \in FilesOf(sent[r].src)
         /\ \A j \in DOMAIN file : r \in file[j] => i = j
  BY <1>1, <1>2 DEF InFile, FilesIn, FilesOf
<1>5. \/ r \in lost
      \/ \E s \in Source : r \in src[s].buffer
      \/ \E i \in DOMAIN file : r \in file[i]
  BY <1>1, <1>2 DEF Kept
<1>6. ASSUME NEW x PROVE Cardinality({x}) = 1
  BY FS_Singleton
<1>7. CASE r \in lost
  <2>1. Places(r) = {} BY <1>3, <1>4, <1>7 DEF Places
  <2> QED BY <1>7, <2>1
<1>8. CASE \E s \in Source : r \in src[s].buffer
  <2>1. PICK s \in Source : r \in src[s].buffer BY <1>8
  <2>2. r \notin lost /\ sent[r].src = s /\ \A i \in DOMAIN file : r \notin file[i]
    BY <1>3, <2>1
  <2>3. \A o \in Source : r \in src[o].buffer => o = s BY <1>3, <2>2
  <2>4. Places(r) = {<<"buffer", s>>} BY <2>1, <2>2, <2>3 DEF Places
  <2> QED BY <1>6, <2>2, <2>4
<1>9. CASE \E i \in DOMAIN file : r \in file[i]
  <2>1. PICK i \in DOMAIN file : r \in file[i] BY <1>9
  <2>2. /\ r \notin lost /\ i \in FilesOf(sent[r].src)
        /\ \A j \in DOMAIN file : r \in file[j] => i = j
    BY <1>4, <2>1
  <2>3. \A s \in Source : r \notin src[s].buffer BY <1>3, <2>1
  <2>4. Places(r) = {<<"file", i>>} BY <2>1, <2>2, <2>3 DEF Places
  <2> QED BY <1>6, <2>2, <2>4
<1> QED BY <1>5, <1>7, <1>8, <1>9

\* However calls fail (WriteBlock, CloseUpdateFile, rename and OpenNewFile of
\* nfcapd.c and nffile.c), a record that was not given up is in one place, which
\* is its source's, until a descriptor is kept after its file was closed; and the
\* variables have their types.
THEOREM RecordsKept == Spec => []OneOwnPlace
<1>1. Spec => []WInv BY InitWide, StepWide, PTL DEF Spec
<1> QED BY <1>1, WidePlaces, PTL
=============================================================================
