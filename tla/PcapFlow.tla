------------------------------ MODULE PcapFlow ------------------------------
(***************************************************************************)
(* The flow cache of nfpcapd.  The packet thread takes a node from a pool  *)
(* of fixed size for every packet and hands it over in a list; the flow    *)
(* thread merges nodes of the same flow in a tree, stores flows that are   *)
(* over, gives the nodes back, and closes a file at the end of every time  *)
(* window.  main waits for a signal, then ends the threads one by one.     *)
(* Writing, renaming and opening a file can fail.                          *)
(*                                                                         *)
(* The threads share the free list (m_FreeList, c_FreeList), the node list *)
(* (m_list, c_list) and their done flags, which a signal handler sets      *)
(* without any lock.  A step is what a thread does under one lock; what    *)
(* the code does after an unlock or before a wait is a step of its own.    *)
(* Packets are not dumped here (PcapDump does that), and their time stamps *)
(* do not go back.                                                         *)
(***************************************************************************)
EXTENDS Integers, Sequences, FiniteSets, SequencesExt, FiniteSetsExt

CONSTANTS
    Nodes,          \* the nodes of the cache, CacheSize of them
    FlowElementNum, \* FLOWELEMENTNUM, the size the cache has by default
    TcpKeys,        \* flows of TCP packets
    UdpKeys,        \* flows of UDP packets other than DNS
    OtherKinds,     \* a subset of {"direct", "skip", "drop"}
    Win,            \* t_win, the length of a time window
    UdpIdle,        \* seconds after which a silent UDP flow is stored (10)
    MaxClock,       \* bound: the last second
    BlockSize,      \* flows that fit into a block
    MaxPackets,     \* bound: packets captured
    MaxFaults       \* bound: calls that fail

ASSUME PcapAssumption ==
    /\ IsFiniteSet(Nodes) /\ "none" \notin Nodes /\ FlowElementNum \in Nat
    /\ TcpKeys \cap UdpKeys = {}
    /\ (TcpKeys \cup UdpKeys) \cap {"direct", "skip", "drop", "signal", "none"} = {}
    /\ OtherKinds \subseteq {"direct", "skip", "drop"}
    /\ Win \in Nat \ {0} /\ UdpIdle \in Nat /\ BlockSize \in Nat \ {0}
    /\ MaxClock \in Nat /\ MaxPackets \in Nat /\ MaxFaults \in Nat

Keys == TcpKeys \cup UdpKeys
None == "none"
Slot(t) == t - (t % Win)

VARIABLES
    now,      \* the time of the last packet or timeout
    free,     \* the free list, a stack
    overflow, \* CacheOverflow > 0
    node,     \* contents of the nodes
    list,     \* the node list between the threads
    tree,     \* nodes in the flow tree
    udp,      \* UDP_list
    p, f, m,  \* the packet thread, the flow thread, main
    pending,  \* threads with a signal that has not been handled
    file,     \* the file being written: packets in it, windows they are of,
              \* and the same of the block that is not written yet
    closed,   \* packets in closed files
    captured, \* counter for the bound
    seen,     \* history: packets captured that belong to a flow
    leaked,   \* history: nodes nobody refers to any more
    missed,   \* history: wake-ups that found nobody waiting
    lost,     \* history: packets of flows that were given up
    carried,  \* history: windows whose flows were in the block when the file
              \* was opened
    faults    \* counter for the bound

pool == <<free, overflow>>
counts == <<closed, captured, seen, leaked, missed>>
trouble == <<lost, carried, faults>>
hist == <<counts, trouble>>
vars == <<now, pool, node, list, tree, udp, p, f, m, pending, file, hist>>

Blank == [kind |-> None, first |-> 0, last |-> 0, packets |-> 0]
NoBlock == [flows |-> 0, packets |-> 0, slots |-> {}]
NoFile == [packets |-> 0, slots |-> {}, block |-> NoBlock]

Init == /\ now = Win
        /\ free = SetToSeq(Nodes) /\ overflow = FALSE
        /\ node = [n \in Nodes |-> Blank]
        /\ list = <<>> /\ tree = {} /\ udp = <<>>
        /\ p = [pc |-> "read", kind |-> None, node |-> None, done |-> FALSE, start |-> 0]
        /\ f = [pc |-> "pop", node |-> None, done |-> FALSE, ended |-> FALSE,
                clock |-> 0, start |-> 0, back |-> None, victim |-> None]
        /\ m = "wait" /\ pending = {}
        /\ file = NoFile
        /\ closed = 0 /\ captured = 0 /\ seen = 0 /\ leaked = {} /\ missed = {}
        /\ lost = 0 /\ carried = {} /\ faults = 0

-----------------------------------------------------------------------------
(* The packet thread                                                       *)

\* pcap_next_ex returns a packet, captured now or some time later.
Capture == /\ p.pc = "read" /\ ~p.done /\ captured < MaxPackets
           /\ captured' = captured + 1
           /\ \E k \in Keys \cup OtherKinds, t \in now..MaxClock :
                 /\ now' = t
                 /\ p' = [p EXCEPT !.pc = "new", !.kind = k]
           /\ UNCHANGED <<pool, node, list, tree, udp, f, m, pending, file,
                          closed, seen, leaked, missed, trouble>>

\* It returns for a timeout: at the end of a window an empty node is sent.
Idle == /\ p.pc = "read" /\ ~p.done
        /\ \E t \in now..MaxClock :
              /\ t - p.start >= Win
              /\ now' = t
              /\ p' = IF p.start = 0 THEN [p EXCEPT !.start = Slot(t)]
                      ELSE [p EXCEPT !.pc = "new", !.kind = "signal", !.start = Slot(t)]
        /\ UNCHANGED <<pool, node, list, tree, udp, f, m, pending, file, hist>>

\* It returns for an error or the end of the file, or done was set: the thread
\* ends, and tells main in the first case.
Finish == /\ p.pc = "read"
          /\ p' = [p EXCEPT !.pc = "ended", !.done = TRUE]
          /\ pending' = IF p.done THEN pending ELSE pending \cup {"main"}
          /\ UNCHANGED <<now, pool, node, list, tree, udp, f, m, file, hist>>

\* New_Node takes the first free node.
TakeNode == /\ p.pc \in {"new", "woken"} /\ free # <<>>
            /\ p' = [p EXCEPT !.pc = "decode", !.node = Head(free)]
            /\ free' = Tail(free)
            /\ UNCHANGED <<now, overflow, node, list, tree, udp, f, m, pending, file, hist>>

\* Without one it notes the overflow and, with m_FreeList, goes on to wait.
NoNode == /\ p.pc \in {"new", "woken"} /\ free = <<>>
          /\ overflow' = TRUE
          /\ p' = [p EXCEPT !.pc = "exhausted"]
          /\ UNCHANGED <<now, free, node, list, tree, udp, f, m, pending, file, hist>>

AwaitNode == /\ p.pc = "exhausted"
             /\ p' = [p EXCEPT !.pc = "sleep"]
             /\ UNCHANGED <<now, pool, node, list, tree, udp, f, m, pending, file, hist>>

\* What ProcessPacket makes of the packet: a skipped packet gives its node
\* back, an ARP packet or the fragment of an unfinished packet does not.
Decode == /\ p.pc = "decode"
          /\ LET n == p.node IN
             CASE p.kind = "skip" ->
                    /\ free' = <<n>> \o free /\ overflow' = FALSE
                    /\ p' = [p EXCEPT !.pc = "read", !.node = None, !.kind = None]
                    /\ UNCHANGED <<node, seen, leaked>>
               [] p.kind = "drop" ->
                    /\ leaked' = leaked \cup {n}
                    /\ p' = [p EXCEPT !.pc = "read", !.node = None, !.kind = None]
                    /\ UNCHANGED <<pool, node, seen>>
               [] OTHER ->
                    /\ node' = [node EXCEPT ![n] =
                                  [kind |-> p.kind, first |-> now, last |-> now,
                                   packets |-> IF p.kind = "signal" THEN 0 ELSE 1]]
                    /\ seen' = IF p.kind = "signal" THEN seen ELSE seen + 1
                    /\ p' = [p EXCEPT !.pc = "push"]
                    /\ UNCHANGED <<pool, leaked>>
          /\ UNCHANGED <<now, list, tree, udp, f, m, pending, file, closed, captured,
                         missed, trouble>>

\* Push_Node; the flow thread does not hold m_list between its test and its wait.
Push == /\ p.pc = "push" /\ f.pc # "idle"
        /\ list' = Append(list, p.node)
        /\ p' = [p EXCEPT !.pc = "notify", !.node = None, !.kind = None]
        /\ UNCHANGED <<now, pool, node, tree, udp, f, m, pending, file, hist>>

Notify == /\ p.pc = "notify"
          /\ p' = [p EXCEPT !.pc = "read"]
          /\ f' = [f EXCEPT !.pc = IF @ = "sleep" THEN "pop" ELSE @]
          /\ UNCHANGED <<now, pool, node, list, tree, udp, m, pending, file, hist>>

-----------------------------------------------------------------------------
(* The flow thread: the node list                                          *)

\* A thread that wakes up runs a pending handler before anything else.
Running(t) == t \notin pending
AtFlow(pc) == f.pc = pc

\* Mutant of PopNode: a window is over one second late.
PopNodeLate == /\ AtFlow("pop") /\ Running("flow") /\ list # <<>>
               /\ LET n == Head(list)
                      t == node[n].last
                      start == IF f.start = 0 THEN Slot(t) ELSE f.start IN
                  f' = [f EXCEPT !.pc = IF t - start > Win THEN "flush" ELSE "expire",
                                 !.node = n, !.clock = t, !.start = start]
               /\ list' = Tail(list)
               /\ UNCHANGED <<now, pool, node, tree, udp, p, m, pending, file, hist>>

\* Pop_Node returns the first node, whose time becomes the thread's clock.  At
\* the end of a window every flow is stored before the file is closed.
PopNode == /\ AtFlow("pop") /\ Running("flow") /\ list # <<>>
           /\ LET n == Head(list)
                  t == node[n].last
                  start == IF f.start = 0 THEN Slot(t) ELSE f.start IN
              f' = [f EXCEPT !.pc = IF t - start >= Win THEN "flush" ELSE "expire",
                             !.node = n, !.clock = t, !.start = start]
           /\ list' = Tail(list)
           /\ UNCHANGED <<now, pool, node, tree, udp, p, m, pending, file, hist>>

\* It returns NULL when the list is empty and the thread is to end.
PopNull == /\ AtFlow("pop") /\ Running("flow") /\ list = <<>> /\ f.done
           /\ f' = [f EXCEPT !.pc = "flush", !.ended = TRUE,
                             !.start = IF @ = 0 THEN Slot(f.clock) ELSE @]
           /\ UNCHANGED <<now, pool, node, list, tree, udp, p, m, pending, file, hist>>

\* Otherwise it goes to wait; done was read under m_list, but is set without it.
TestDone == /\ AtFlow("pop") /\ Running("flow") /\ list = <<>> /\ ~f.done
            /\ f' = [f EXCEPT !.pc = "idle"]
            /\ UNCHANGED <<now, pool, node, list, tree, udp, p, m, pending, file, hist>>

AwaitList == /\ AtFlow("idle")
             /\ f' = [f EXCEPT !.pc = "sleep"]
             /\ UNCHANGED <<now, pool, node, list, tree, udp, p, m, pending, file, hist>>

-----------------------------------------------------------------------------
(* The flow thread: flows                                                  *)

\* WriteBlock, when write succeeds; otherwise the block stays what it is.
WriteBlock(d) == [packets |-> d.packets + d.block.packets,
                  slots   |-> d.slots \cup d.block.slots,
                  block   |-> NoBlock]

Faults(ok) == IF ok THEN 0 ELSE 1
Allowed(n) == /\ faults + n <= MaxFaults
              /\ faults' = faults + n

\* StorePcapFlow appends the flow of a node to the block.  A full block is written
\* first; when that fails, or no memory is left for the extension map that comes
\* before the first flow, the flow is given up: nobody looks at the result.
AddFlow(b, n) == [flows   |-> b.flows + 1,
                  packets |-> b.packets + node[n].packets,
                  slots   |-> b.slots \cup {Slot(node[n].first), Slot(node[n].last)}]
Full == file.block.flows >= BlockSize
Unmapped == closed + file.packets + file.block.packets = 0
Store(n) == /\ \/ /\ file' = LET d == IF Full THEN WriteBlock(file) ELSE file
                             IN [d EXCEPT !.block = AddFlow(d.block, n)]
                  /\ UNCHANGED <<lost, faults>>
               \/ /\ Full \/ Unmapped
                  /\ Allowed(1)
                  /\ lost' = lost + node[n].packets
                  /\ UNCHANGED file
            /\ UNCHANGED carried

\* Free_Node: the node is put on the free list, unless m_FreeList is held.
FreeThen(n, pc) == f' = [f EXCEPT !.pc = "free", !.victim = n, !.back = pc]

FreePush == /\ AtFlow("free") /\ p.pc # "exhausted"
            /\ free' = <<f.victim>> \o free
            /\ node' = [node EXCEPT ![f.victim] = Blank]
            /\ f' = [f EXCEPT !.pc = "freed", !.victim = None]
            /\ UNCHANGED <<now, overflow, list, tree, udp, p, m, pending, file, hist>>

\* Outside the lock it looks for an overflow, ...
FreeTest == /\ AtFlow("freed")
            /\ f' = IF overflow THEN [f EXCEPT !.pc = "wake"] ELSE [f EXCEPT !.pc = f.back, !.back = None]
            /\ UNCHANGED <<now, pool, node, list, tree, udp, p, m, pending, file, hist>>

\* ... resets it and wakes the packet thread.
FreeWake == /\ AtFlow("wake")
            /\ overflow' = FALSE
            /\ p' = [p EXCEPT !.pc = IF @ = "sleep" THEN "woken" ELSE @]
            /\ missed' = IF p.pc = "exhausted" THEN missed \cup {"node"} ELSE missed
            /\ f' = [f EXCEPT !.pc = f.back, !.back = None]
            /\ UNCHANGED <<now, free, node, list, tree, udp, m, pending, file,
                           closed, captured, seen, leaked, trouble>>

\* Flush_FlowTree stores and removes flow by flow, then forgets the UDP list.
Flush(pc) == /\ AtFlow(pc) /\ tree # {}
             /\ \E n \in tree : Store(n) /\ tree' = tree \ {n} /\ FreeThen(n, pc)
             /\ UNCHANGED <<now, pool, node, list, udp, p, m, pending, counts>>

Flushed(pc, then) == /\ AtFlow(pc) /\ tree = {}
                     /\ udp' = <<>>
                     /\ f' = [f EXCEPT !.pc = then]
                     /\ UNCHANGED <<now, pool, node, list, tree, p, m, pending, file, hist>>

\* The thread ends with what it has: DisposeFile frees the block.
Dispose(d) == /\ file' = [d EXCEPT !.block = NoBlock]
              /\ lost' = lost + d.block.packets

\* The block is written, the file is closed and renamed.  Failures are logged
\* only: a block that was not written stays, a file that was not renamed keeps its
\* working name.  A thread that is to end does so.
Close ==
    /\ AtFlow("close")
    /\ \E write, rename \in BOOLEAN :
          LET d == IF write THEN WriteBlock(file) ELSE file
              left == IF rename THEN [NoFile EXCEPT !.block = d.block] ELSE d
          IN /\ write \/ file.block.flows > 0
             /\ Allowed(Faults(write) + Faults(rename))
             /\ closed' = IF rename THEN closed + d.packets ELSE closed
             /\ IF f.ended THEN Dispose(left) ELSE file' = left /\ UNCHANGED lost
    /\ f' = [f EXCEPT !.pc = IF f.ended THEN "ended" ELSE "reopen"]
    /\ UNCHANGED <<now, pool, node, list, tree, udp, p, m, pending,
                   captured, seen, leaked, missed, carried>>

\* The next file is opened under the working name, which truncates a file that
\* still has it; the block is the old one.
Open == /\ AtFlow("reopen")
        /\ f' = [f EXCEPT !.pc = "expire", !.start = Slot(f.clock)]
        /\ file' = [NoFile EXCEPT !.block = file.block]
        /\ lost' = lost + file.packets
        /\ carried' = file.block.slots
        /\ UNCHANGED <<now, pool, node, list, tree, udp, p, m, pending, counts, faults>>

\* When that fails, before or after the file was truncated, the thread ends with
\* the node it has in its hands.
OpenFails ==
    /\ AtFlow("reopen") /\ Allowed(1)
    /\ f' = [f EXCEPT !.pc = "ended", !.done = TRUE, !.node = None]
    /\ leaked' = leaked \cup {f.node}
    /\ pending' = pending \cup {"main"}
    /\ \/ Dispose(file)
       \/ /\ file' = NoFile
          /\ lost' = lost + file.packets + file.block.packets
    /\ UNCHANGED <<now, pool, node, list, tree, udp, p, m, closed, captured, seen, missed,
                   carried>>

\* UDPexpire: flows at the head of the list that are silent for too long.
Expired == udp # <<>> /\ node[Head(udp)].last + UdpIdle < f.clock

\* Mutant of Expire: the flow stays in the tree.
ExpireKeepTree == /\ AtFlow("expire") /\ Expired
                  /\ Store(Head(udp))
                  /\ udp' = Tail(udp)
                  /\ FreeThen(Head(udp), "expire")
                  /\ UNCHANGED <<now, pool, node, list, tree, p, m, pending, counts>>

Expire == /\ AtFlow("expire") /\ Expired
          /\ Store(Head(udp)) /\ tree' = tree \ {Head(udp)}
          /\ udp' = Tail(udp)
          /\ FreeThen(Head(udp), "expire")
          /\ UNCHANGED <<now, pool, node, list, p, m, pending, counts>>

\* The node of the flow a packet belongs to, if there is one.
Existing(kind) == {e \in tree : node[e].kind = kind}

\* An empty node only drives the clock, and is forgotten.
ProcessSignal ==
    /\ AtFlow("expire") /\ ~Expired /\ node[f.node].kind = "signal"
    /\ leaked' = leaked \cup {f.node}
    /\ f' = [f EXCEPT !.pc = "pop", !.node = None]
    /\ UNCHANGED <<now, pool, node, list, tree, udp, p, m, pending, file,
                   closed, captured, seen, missed, trouble>>

\* DNS, ICMP and other protocols are stored at once.
ProcessDirect ==
    /\ AtFlow("expire") /\ ~Expired /\ node[f.node].kind = "direct"
    /\ Store(f.node)
    /\ f' = [f EXCEPT !.pc = "free", !.victim = f.node, !.back = "pop", !.node = None]
    /\ UNCHANGED <<now, pool, node, list, tree, udp, p, m, pending, counts>>

\* A packet of a new flow: TCP flushes the tree when the cache is full, UDP
\* appends the node to its list.
ProcessNew ==
    /\ AtFlow("expire") /\ ~Expired /\ node[f.node].kind \in Keys
    /\ LET n == f.node
           k == node[n].kind IN
       /\ Existing(k) = {}
       /\ tree' = tree \cup {n}
       /\ udp' = IF k \in UdpKeys THEN Append(udp, n) ELSE udp
       /\ f' = [f EXCEPT !.node = None,
                         !.pc = IF k \in TcpKeys /\ FlowElementNum = Cardinality(tree')
                                THEN "flushFull" ELSE "pop"]
    /\ UNCHANGED <<now, pool, node, list, p, m, pending, file, hist>>

\* TouchUDPNode takes a flow out of the list, which holds it (WindowsApart), and
\* appends it.
TouchUDPNode(e) == \E i \in DOMAIN udp :
                      udp[i] = e /\ udp' = Append(RemoveAt(udp, i), e)

\* Mutant of ProcessKnown: the packet is not counted.
KnownUncounted ==
    /\ AtFlow("expire") /\ ~Expired /\ node[f.node].kind \in Keys
    /\ LET k == node[f.node].kind IN
       \E e \in Existing(k) :
          /\ node' = [node EXCEPT ![e].last = node[f.node].last]
          /\ IF k \in UdpKeys THEN TouchUDPNode(e) ELSE UNCHANGED udp
    /\ f' = [f EXCEPT !.pc = "free", !.victim = f.node, !.back = "pop", !.node = None]
    /\ UNCHANGED <<now, pool, list, tree, p, m, pending, file, hist>>

\* A packet of a known flow is added to it; a UDP flow moves to the end of the
\* list.
ProcessKnown ==
    /\ AtFlow("expire") /\ ~Expired /\ node[f.node].kind \in Keys
    /\ LET k == node[f.node].kind IN
       \E e \in Existing(k) :
          /\ node' = [node EXCEPT ![e].packets = @ + 1, ![e].last = node[f.node].last]
          /\ IF k \in UdpKeys THEN TouchUDPNode(e) ELSE UNCHANGED udp
    /\ f' = [f EXCEPT !.pc = "free", !.victim = f.node, !.back = "pop", !.node = None]
    /\ UNCHANGED <<now, pool, list, tree, p, m, pending, file, hist>>

-----------------------------------------------------------------------------
(* Signals and main                                                        *)

\* Interrupt_handler, run by the thread SIGUSR2 was sent to.
Handler(t) ==
    /\ t \in pending
    /\ pending' = pending \ {t}
    /\ \/ t = "packet" /\ p' = [p EXCEPT !.done = TRUE] /\ UNCHANGED f
       \/ t = "flow" /\ f' = [f EXCEPT !.done = TRUE] /\ UNCHANGED p
    /\ UNCHANGED <<now, pool, node, list, tree, udp, m, file, hist>>

\* WaitDone: SIGTERM, or SIGUSR1 from a thread that ends.
Stop == /\ m = "wait"
        /\ m' = "killPacket"
        /\ pending' = pending \ {"main"}
        /\ UNCHANGED <<now, pool, node, list, tree, udp, p, f, file, hist>>

\* SignalThreadTerminate for the packet thread.
KillPacket == /\ m = "killPacket"
              /\ m' = "joinPacket"
              /\ pending' = IF p.done THEN pending ELSE pending \cup {"packet"}
              /\ UNCHANGED <<now, pool, node, list, tree, udp, p, f, file, hist>>

JoinPacket == /\ m = "joinPacket" /\ p.pc = "ended"
              /\ m' = "killFlow"
              /\ UNCHANGED <<now, pool, node, list, tree, udp, p, f, pending, file, hist>>

\* SignalThreadTerminate for the flow thread: signal, wake up, join.
KillFlow == /\ m = "killFlow"
            /\ m' = IF f.done THEN "joinFlow" ELSE "wakeFlow"
            /\ pending' = IF f.done THEN pending ELSE pending \cup {"flow"}
            /\ UNCHANGED <<now, pool, node, list, tree, udp, p, f, file, hist>>

\* Mutant of WakeFlow: the condition is not signalled.
WakeNobody == /\ m = "wakeFlow"
              /\ m' = "joinFlow"
              /\ UNCHANGED <<now, pool, node, list, tree, udp, p, f, pending, file, hist>>

WakeFlow == /\ m = "wakeFlow"
            /\ m' = "joinFlow"
            /\ f' = [f EXCEPT !.pc = IF @ = "sleep" THEN "pop" ELSE @]
            /\ missed' = IF f.pc = "idle" THEN missed \cup {"done"} ELSE missed
            /\ UNCHANGED <<now, pool, node, list, tree, udp, p, pending, file,
                           closed, captured, seen, leaked, trouble>>

JoinFlow == /\ m = "joinFlow" /\ f.pc = "ended"
            /\ m' = "ended"
            /\ UNCHANGED <<now, pool, node, list, tree, udp, p, f, pending, file, hist>>

-----------------------------------------------------------------------------
PacketStep == \/ TakeNode \/ NoNode \/ AwaitNode \/ Decode \/ Push \/ Notify
              \/ p.done /\ Finish

FlowStep == \/ PopNode \/ PopNull \/ TestDone \/ AwaitList
            \/ FreePush \/ FreeTest \/ FreeWake
            \/ Flush("flush") \/ Flush("flushFull")
            \/ Flushed("flush", "close") \/ Flushed("flushFull", "pop")
            \/ Close \/ Open \/ OpenFails \/ Expire
            \/ ProcessSignal \/ ProcessDirect \/ ProcessNew \/ ProcessKnown

MainStep == KillPacket \/ JoinPacket \/ KillFlow \/ WakeFlow \/ JoinFlow

Next == \/ Capture \/ Idle \/ Finish \/ PacketStep \/ FlowStep
        \/ Handler("packet") \/ Handler("flow") \/ Stop \/ MainStep

\* The threads are scheduled and signals are delivered; packets need not come,
\* nobody has to stop the program.  A thread that told main to end is heard.
Fairness == /\ WF_vars(PacketStep) /\ WF_vars(FlowStep) /\ WF_vars(MainStep)
            /\ WF_vars(Handler("packet")) /\ WF_vars(Handler("flow"))
            /\ WF_vars("main" \in pending /\ Stop)

Spec == Init /\ [][Next]_vars /\ Fairness

-----------------------------------------------------------------------------
(* Properties                                                              *)

FlowPcs == {"pop", "idle", "sleep", "flush", "flushFull", "close", "reopen", "expire",
            "free", "freed", "wake", "ended"}

\* Type invariant.
TypeOK ==
    /\ free \in Seq(Nodes) /\ list \in Seq(Nodes) /\ udp \in Seq(Nodes)
    /\ tree \subseteq Nodes /\ leaked \subseteq Nodes /\ overflow \in BOOLEAN
    /\ p.pc \in {"read", "new", "exhausted", "sleep", "woken", "decode", "push", "notify", "ended"}
    /\ f.pc \in FlowPcs /\ f.node \in Nodes \cup {None} /\ p.node \in Nodes \cup {None}
    /\ m \in {"wait", "killPacket", "joinPacket", "killFlow", "wakeFlow", "joinFlow", "ended"}
    /\ pending \subseteq {"packet", "flow", "main"} /\ missed \subseteq {"node", "done"}

\* How many of the places that own nodes hold n.
One(cond) == IF cond THEN 1 ELSE 0
Owners(n) == Cardinality({i \in DOMAIN free : free[i] = n})
             + Cardinality({i \in DOMAIN list : list[i] = n})
             + One(n \in tree) + One(n \in leaked)
             + One(p.node = n) + One(f.node = n) + One(f.victim = n)

\* Every node is in one place: free, in the hands of a thread, between the
\* threads, in the tree, or lost.  Nothing is freed twice and no node is used
\* after it was freed (the aborts of New_Node and Free_Node do not happen).  And
\* the variables have their types.
NodesOwned == TypeOK /\ \A n \in Nodes : Owners(n) = 1

\* Packets the nodes of S stand for; the packet thread's node counts from the
\* moment it is filled.
Units(S) == UNION {{n} \X (1..node[n].packets) : n \in S}
Sum(S) == Cardinality(Units(S))
Held == ({f.node} \cup IF p.pc = "push" THEN {p.node} ELSE {}) \cap Nodes

\* Packets that no node stands for any more.
Settled == closed + file.packets + file.block.packets + lost

\* No packet is lost or counted twice between the capture and the files, but for
\* the ones that are known: those the flow thread had in its hands when it could
\* not open a file, those of a flow it could not store, of a file it could not
\* rename and of a block it could not write before it ended.  Without a failed call
\* none of that happens, and a program that ended has every packet in a file.
PacketsCounted ==
    /\ seen = Settled + Sum(tree \cup Range(list) \cup Held \cup leaked)
    /\ faults = 0 => lost = 0 /\ (m = "ended" => closed = seen)

\* The flush of the tree is going on.
Flushing == {"flush", "flushFull"} \cap {f.pc, IF f.pc \in {"free", "freed", "wake"}
                                               THEN f.back ELSE None} # {}

\* Apart from a flush, UDP_list holds exactly the UDP flows of the tree, the
\* ones silent for longest first, so that UDPexpire can stop at the first one
\* that is not old enough.
UdpInOrder ==
    ~Flushing => /\ Range(udp) = {n \in tree : node[n].kind \in UdpKeys}
                 /\ Len(udp) = Cardinality(Range(udp))
                 /\ \A i, j \in DOMAIN udp : i < j => node[udp[i]].last <= node[udp[j]].last

\* A flow is one node of the tree, and a file only has packets of its window:
\* the flows of a window are stored before the first packet of the next one is
\* looked at, empty nodes included.  What a failed write left in the block is the
\* one exception: it goes into the next file that is opened.
WindowsApart ==
    /\ UdpInOrder
    /\ \A n, o \in tree : node[n].kind = node[o].kind => n = o
    /\ file.slots \cup file.block.slots \subseteq {f.start} \cup carried
    /\ faults = 0 => carried = {}
    /\ \A n \in tree : ~Flushing => Slot(node[n].last) = Slot(node[n].first)

\* The pool is empty, and the flow thread has nothing it could give back.
Dry == /\ free = <<>>
       /\ \/ f.pc = "ended"
          \/ f.pc = "sleep" /\ list = <<>>

\* Somebody can go on.
Threads == PacketStep \/ FlowStep \/ MainStep \/ Handler("packet") \/ Handler("flow")

\* While it captures or ends, the program never stands still with the packet
\* thread waiting for a node or main waiting for a thread, except when the pool
\* is dry for good, or when a wake-up came after a thread's test and before its
\* wait; main is told when a thread gives up.
NoHang == \/ ENABLED Threads
          \/ m = "wait" /\ (p.pc = "read" \/ "main" \in pending)
          \/ m = "ended"
          \/ missed # {}
          \/ Dry
=============================================================================
