--------------------------- MODULE PcapFlowProofs ---------------------------
(***************************************************************************)
(* nfpcapd for any cache size, any number of flows and any bounds.         *)
(* Nodes: each is always in exactly one place, so that it is neither freed *)
(* twice nor used after it was freed.  That needs to know in which steps a *)
(* thread has a node in its hands, and that outside a flush UDP_list only  *)
(* has nodes of the tree, each once: UDPexpire takes what it finds there   *)
(* out of the tree.  Windows: the flows of a window are stored before the  *)
(* first packet of the next one.  Packets: counted as the pairs of a node  *)
(* and a number, a sum that each step of a thread moves or keeps.          *)
(***************************************************************************)
EXTENDS PcapFlow, FiniteSetTheorems, TLAPS

USE DEF hist, counts, trouble

Kinds == Keys \cup OtherKinds \cup {"signal", None}
SomeNode == Nodes \cup {None}

PacketType == [pc    : {"read", "new", "exhausted", "sleep", "woken", "decode", "push",
                        "notify", "ended"},
               kind  : Kinds,
               node  : SomeNode,
               done  : BOOLEAN,
               start : Int]
FlowType == [pc     : FlowPcs,
             node   : SomeNode,
             done   : BOOLEAN,
             ended  : BOOLEAN,
             clock  : Int,
             start  : Int,
             back   : {None, "pop", "expire", "flush", "flushFull"},
             victim : SomeNode]
NodeType == [kind : Kinds, first : Int, last : Int, packets : Int]

Typed == /\ TypeOK /\ p \in PacketType /\ f \in FlowType
         /\ node \in [Nodes -> NodeType] /\ now \in Int

\* What the flow thread is doing, or will go back to when a node is freed.
Freeing == {"free", "freed", "wake"}
Pos == IF f.pc \in Freeing THEN f.back ELSE f.pc

\* When a thread has a node in its hands.
Hands == /\ p.node # None <=> p.pc \in {"decode", "push"}
         /\ f.victim # None <=> f.pc = "free"
         /\ f.back # None <=> f.pc \in Freeing
         /\ f.node # None <=> \/ Pos = "expire"
                             \/ Pos = "reopen"
                             \/ (Pos \in {"flush", "close"} /\ ~f.ended)
         /\ f.ended => Pos \in {"flush", "close", "ended"}

\* The places of a node; a list has it at most once.
Holds(q, n) == \E i \in DOMAIN q : q[i] = n
Once(q) == \A i, j \in DOMAIN q : q[i] = q[j] => i = j
Places(n) == One(Holds(free, n)) + One(Holds(list, n))
             + One(n \in tree) + One(n \in leaked)
             + One(p.node = n) + One(f.node = n) + One(f.victim = n)
Apart == Once(free) /\ Once(list) /\ \A n \in Nodes : Places(n) = 1

\* Outside a flush UDP_list is part of the tree.
UdpInTree == Pos \notin {"flush", "flushFull"} =>
                Once(udp) /\ \A n \in Nodes : Holds(udp, n) => n \in tree

IInv == Typed /\ Hands /\ Apart /\ UdpInTree

-----------------------------------------------------------------------------
(* Lists                                                                   *)

LEMMA TailOf == ASSUME NEW q \in Seq(Nodes), q # <<>>
                PROVE  /\ Head(q) \in Nodes /\ Tail(q) \in Seq(Nodes) /\ Holds(q, Head(q))
                       /\ Once(q) => /\ Once(Tail(q))
                                     /\ \A n \in Nodes : Holds(Tail(q), n)
                                           <=> Holds(q, n) /\ n # Head(q)
<1>1. /\ Len(q) \in Nat \ {0} /\ DOMAIN q = 1..Len(q) /\ Head(q) = q[1]
      /\ Tail(q) \in Seq(Nodes) /\ DOMAIN Tail(q) = 1..(Len(q) - 1)
      /\ \A i \in DOMAIN Tail(q) : Tail(q)[i] = q[i + 1]
  OBVIOUS
<1>2. Head(q) \in Nodes /\ Holds(q, Head(q)) BY <1>1 DEF Holds
<1>3. ASSUME Once(q), NEW i \in DOMAIN Tail(q), NEW j \in DOMAIN Tail(q),
             Tail(q)[i] = Tail(q)[j]
      PROVE  i = j
  <2>1. i + 1 \in DOMAIN q /\ j + 1 \in DOMAIN q BY <1>1
  <2>2. i + 1 = j + 1 BY <1>1, <1>3, <2>1 DEF Once
  <2> QED BY <1>1, <2>2
<1>4. ASSUME Once(q), NEW n \in Nodes
      PROVE  Holds(Tail(q), n) <=> Holds(q, n) /\ n # Head(q)
  <2>1. ASSUME NEW i \in DOMAIN Tail(q), Tail(q)[i] = n
        PROVE  Holds(q, n) /\ n # Head(q)
    <3>1. i + 1 \in DOMAIN q /\ 1 \in DOMAIN q /\ i + 1 # 1 BY <1>1
    <3>2. q[i + 1] = n BY <1>1, <2>1
    <3>3. q[i + 1] # q[1] BY <1>4, <3>1 DEF Once
    <3> QED BY <1>1, <3>1, <3>2, <3>3 DEF Holds
  <2>2. ASSUME NEW i \in DOMAIN q, q[i] = n, n # Head(q) PROVE Holds(Tail(q), n)
    <3>1. i # 1 BY <1>1, <2>2
    <3>2. i - 1 \in DOMAIN Tail(q) /\ (i - 1) + 1 = i BY <1>1, <3>1
    <3> QED BY <1>1, <2>2, <3>2 DEF Holds
  <2> QED BY <2>1, <2>2 DEF Holds
<1> QED BY <1>1, <1>2, <1>3, <1>4 DEF Once

LEMMA Prepended == ASSUME NEW q \in Seq(Nodes), NEW x \in Nodes
                   PROVE  /\ <<x>> \o q \in Seq(Nodes)
                          /\ \A n \in Nodes : Holds(<<x>> \o q, n) <=> Holds(q, n) \/ n = x
                          /\ Once(q) /\ ~Holds(q, x) => Once(<<x>> \o q)
<1> DEFINE r == <<x>> \o q
<1>1. /\ Len(q) \in Nat /\ DOMAIN q = 1..Len(q)
      /\ r \in Seq(Nodes) /\ DOMAIN r = 1..(Len(q) + 1) /\ r[1] = x
      /\ \A i \in DOMAIN r : i # 1 => r[i] = q[i - 1]
  OBVIOUS
<1> HIDE DEF r
<1>2. \A i \in DOMAIN q : i + 1 \in DOMAIN r /\ r[i + 1] = q[i] BY <1>1
<1>3. \A i \in DOMAIN r : i = 1 \/ (i - 1 \in DOMAIN q /\ r[i] = q[i - 1])
  <2> SUFFICES ASSUME NEW i \in DOMAIN r, i # 1
               PROVE  i - 1 \in DOMAIN q /\ r[i] = q[i - 1]
    OBVIOUS
  <2>1. i \in 1..(Len(q) + 1) BY <1>1
  <2>2. i - 1 \in 1..Len(q) BY <1>1, <2>1
  <2> QED BY <1>1, <2>2
<1>4. ASSUME NEW n \in Nodes PROVE Holds(r, n) <=> Holds(q, n) \/ n = x
  <2>1. 1 \in DOMAIN r BY <1>1
  <2> QED BY <1>1, <1>2, <1>3, <2>1 DEF Holds
<1>5. ASSUME Once(q), ~Holds(q, x), NEW i \in DOMAIN r, NEW j \in DOMAIN r, r[i] = r[j]
      PROVE  i = j
  <2>1. CASE i = 1 BY <1>1, <1>3, <1>5, <2>1 DEF Holds
  <2>2. CASE j = 1 BY <1>1, <1>3, <1>5, <2>2 DEF Holds
  <2>3. CASE i # 1 /\ j # 1
    <3>1. i - 1 \in DOMAIN q /\ j - 1 \in DOMAIN q /\ q[i - 1] = q[j - 1]
      BY <1>3, <1>5, <2>3
    <3>2. i - 1 = j - 1 BY <1>5, <3>1 DEF Once
    <3> QED BY <1>1, <3>2
  <2> QED BY <2>1, <2>2, <2>3
<1> QED BY <1>1, <1>4, <1>5 DEF r, Once

LEMMA Appended == ASSUME NEW q \in Seq(Nodes), NEW x \in Nodes
                  PROVE  /\ Append(q, x) \in Seq(Nodes)
                         /\ \A n \in Nodes : Holds(Append(q, x), n) <=> Holds(q, n) \/ n = x
                         /\ Once(q) /\ ~Holds(q, x) => Once(Append(q, x))
<1> DEFINE r == Append(q, x)
<1>1. /\ Len(q) \in Nat /\ DOMAIN q = 1..Len(q)
      /\ r \in Seq(Nodes) /\ DOMAIN r = 1..(Len(q) + 1) /\ r[Len(q) + 1] = x
      /\ \A i \in DOMAIN q : r[i] = q[i]
  OBVIOUS
<1> HIDE DEF r
<1>2. \A i \in DOMAIN r : i \in DOMAIN q \/ i = Len(q) + 1 BY <1>1
<1>3. DOMAIN q \subseteq DOMAIN r /\ Len(q) + 1 \in DOMAIN r BY <1>1
<1>4. ASSUME NEW n \in Nodes PROVE Holds(r, n) <=> Holds(q, n) \/ n = x
  BY <1>1, <1>2, <1>3 DEF Holds
<1>5. ASSUME Once(q), ~Holds(q, x), NEW i \in DOMAIN r, NEW j \in DOMAIN r, r[i] = r[j]
      PROVE  i = j
  BY <1>1, <1>2, <1>5 DEF Holds, Once
<1> QED BY <1>1, <1>4, <1>5 DEF r, Once

\* A list without one of its elements.
LEMMA Removed ==
    ASSUME NEW q \in Seq(Nodes), NEW i \in DOMAIN q
    PROVE  LET d == RemoveAt(q, i) IN
           /\ d \in Seq(Nodes) /\ Len(d) = Len(q) - 1 /\ DOMAIN d = 1..(Len(q) - 1)
           /\ \A j \in DOMAIN d : d[j] = q[IF j < i THEN j ELSE j + 1]
           /\ Len(q) \in Nat /\ DOMAIN q = 1..Len(q) /\ i \in 1..Len(q) /\ q[i] \in Nodes
<1> DEFINE d == RemoveAt(q, i)
<1>1. Len(q) \in Nat /\ DOMAIN q = 1..Len(q) /\ i \in 1..Len(q) /\ q[i] \in Nodes
  OBVIOUS
<1>2. /\ SubSeq(q, 1, i - 1) \in Seq(Nodes) /\ Len(SubSeq(q, 1, i - 1)) = i - 1
      /\ \A j \in 1..(i - 1) : SubSeq(q, 1, i - 1)[j] = q[j]
  BY <1>1
<1>3. /\ SubSeq(q, i + 1, Len(q)) \in Seq(Nodes) /\ Len(SubSeq(q, i + 1, Len(q))) = Len(q) - i
      /\ \A j \in 1..(Len(q) - i) : SubSeq(q, i + 1, Len(q))[j] = q[j + i]
  BY <1>1
<1>4. PICK a \in Seq(Nodes), b \in Seq(Nodes) :
         /\ d = a \o b /\ Len(a) = i - 1 /\ Len(b) = Len(q) - i
         /\ \A j \in 1..(i - 1) : a[j] = q[j]
         /\ \A j \in 1..(Len(q) - i) : b[j] = q[j + i]
  BY <1>2, <1>3 DEF RemoveAt
<1> HIDE DEF d
<1>5. /\ d \in Seq(Nodes) /\ Len(d) = Len(q) - 1 /\ DOMAIN d = 1..(Len(q) - 1)
      /\ \A j \in 1..(Len(q) - 1) : d[j] = IF j < i THEN q[j] ELSE q[j + 1]
  <2>1. d \in Seq(Nodes) /\ Len(d) = Len(q) - 1
    <3>1. (a \o b) \in Seq(Nodes) /\ Len(a \o b) = Len(a) + Len(b) OBVIOUS
    <3>2. (i - 1) + (Len(q) - i) = Len(q) - 1 BY <1>1
    <3> QED BY <1>4, <3>1, <3>2
  <2>2. DOMAIN d = 1..(Len(q) - 1) BY <2>1
  <2>3. ASSUME NEW j \in 1..(Len(q) - 1), j < i PROVE d[j] = q[j]
    <3>1. j \in 1..(i - 1) BY <1>1, <2>3
    <3>2. j \in 1..Len(a) BY <1>4, <3>1
    <3>3. (a \o b)[j] = a[j] BY <3>2
    <3> QED BY <1>4, <3>1, <3>3
  <2>4. ASSUME NEW j \in 1..(Len(q) - 1), ~(j < i) PROVE d[j] = q[j + 1]
    <3>1. j - (i - 1) \in 1..(Len(q) - i) /\ (j - (i - 1)) + i = j + 1 BY <1>1, <2>4
    <3>2. d[j] = b[j - (i - 1)] BY <1>1, <1>4, <2>4
    <3> QED BY <1>4, <3>1, <3>2
  <2> QED BY <2>1, <2>2, <2>3, <2>4
<1>6. \A j \in DOMAIN d : d[j] = q[IF j < i THEN j ELSE j + 1] BY <1>1, <1>5
<1> QED BY <1>1, <1>5, <1>6 DEF d

LEMMA Touched == ASSUME NEW q \in Seq(Nodes), NEW i \in DOMAIN q, Once(q)
                 PROVE  LET r == Append(RemoveAt(q, i), q[i]) IN
                        /\ r \in Seq(Nodes) /\ Once(r)
                        /\ \A n \in Nodes : Holds(r, n) => Holds(q, n)
<1> DEFINE d == RemoveAt(q, i)
<1>1. /\ d \in Seq(Nodes) /\ Len(d) = Len(q) - 1 /\ DOMAIN d = 1..(Len(q) - 1)
      /\ \A j \in DOMAIN d : d[j] = q[IF j < i THEN j ELSE j + 1]
      /\ Len(q) \in Nat /\ DOMAIN q = 1..Len(q) /\ i \in 1..Len(q) /\ q[i] \in Nodes
  BY Removed
<1> HIDE DEF d
<1>2. \A j \in DOMAIN d : \E l \in DOMAIN q :
         /\ l # i /\ d[j] = q[l]
         /\ l = IF j < i THEN j ELSE j + 1
  BY <1>1
<1>3. ~Holds(d, q[i]) BY <1>2 DEF Holds, Once
<1>4. Once(d)
  <2> SUFFICES ASSUME NEW j \in DOMAIN d, NEW l \in DOMAIN d, d[j] = d[l] PROVE j = l
    BY DEF Once
  <2>1. j \in Nat /\ l \in Nat /\ i \in Nat BY <1>1
  <2>2. PICK j1 \in DOMAIN q : d[j] = q[j1] /\ j1 = IF j < i THEN j ELSE j + 1 BY <1>2
  <2>3. PICK l1 \in DOMAIN q : d[l] = q[l1] /\ l1 = IF l < i THEN l ELSE l + 1 BY <1>2
  <2>4. j1 = l1 BY <2>2, <2>3 DEF Once
  <2> QED BY <2>1, <2>2, <2>3, <2>4
<1>5. \A n \in Nodes : Holds(d, n) => Holds(q, n) BY <1>2 DEF Holds
<1>6. Holds(q, q[i]) BY DEF Holds
<1> QED BY <1>1, <1>3, <1>4, <1>5, <1>6, Appended DEF d

-----------------------------------------------------------------------------
(* The steps                                                               *)

LEMMA NoneApart == None \notin Nodes
BY PcapAssumption DEF None

LEMMA ClockIsInt == ASSUME now \in Int, NEW t \in now..MaxClock PROVE t \in Int
BY PcapAssumption

\* A slot is a time.
LEMMA SlotIsInt == ASSUME NEW t \in Int PROVE Slot(t) \in Int
BY PcapAssumption DEF Slot

\* The places of the nodes after a step that moves none.
LEMMA Unmoved == ASSUME Apart, UNCHANGED <<free, list, tree, leaked>>,
                        p'.node = p.node, f'.node = f.node, f'.victim = f.victim
                 PROVE  Apart'
BY DEF Apart, Once, Holds, Places, One

LEMMA UdpUnmoved == ASSUME UdpInTree, UNCHANGED <<udp, tree>>, Pos' = Pos
                    PROVE  UdpInTree'
BY DEF UdpInTree, Once, Holds

\* The steps of the packet thread that take no node.
LEMMA PacketQuiet ==
    ASSUME IInv, Capture \/ Idle \/ Finish \/ NoNode \/ AwaitNode \/ Notify \/ Handler("packet")
    PROVE  IInv'
<1> USE NoneApart DEF IInv
<1>1. ASSUME UNCHANGED <<free, node, list, tree, udp, leaked>>, now' \in Int,
             p' \in PacketType, p'.node = p.node,
             p'.pc \in {"decode", "push"} <=> p.pc \in {"decode", "push"},
             f' = f \/ (f.pc = "sleep" /\ f' = [f EXCEPT !.pc = "pop"]),
             overflow' \in BOOLEAN, m' = m,
             pending' \subseteq {"packet", "flow", "main"}, missed' = missed
      PROVE  IInv'
  <2>1. f' \in FlowType BY <1>1 DEF Typed, FlowType, FlowPcs
  <2>2. /\ f'.node = f.node /\ f'.victim = f.victim /\ f'.back = f.back /\ f'.ended = f.ended
        /\ f'.pc = f.pc \/ (f.pc = "sleep" /\ f'.pc = "pop")
    BY <1>1 DEF Typed, FlowType
  <2>3. Typed'
    <3>1. TypeOK' BY <1>1, <2>1 DEF Typed, TypeOK, PacketType, FlowType
    <3> QED BY <1>1, <2>1, <3>1 DEF Typed
  <2>4. Hands' BY <1>1, <2>2 DEF Hands, Pos, Freeing
  <2>5. Apart' BY <1>1, <2>2, Unmoved
  <2>6. UdpInTree'
    <3>1. Pos' \in {"flush", "flushFull"} <=> Pos \in {"flush", "flushFull"}
      BY <2>2 DEF Pos, Freeing
    <3> QED BY <1>1, <3>1 DEF UdpInTree, Once, Holds
  <2> QED BY <2>3, <2>4, <2>5, <2>6
<1>2. CASE Capture
  <2>1. PICK k \in Keys \cup OtherKinds, t \in now..MaxClock :
           now' = t /\ p' = [p EXCEPT !.pc = "new", !.kind = k]
    BY <1>2 DEF Capture
  <2>2. now' \in Int BY <2>1, ClockIsInt DEF Typed
  <2>3. p' \in PacketType /\ p'.node = p.node /\ p'.pc = "new" /\ p.pc = "read"
    BY <1>2, <2>1 DEF Capture, Typed, PacketType, Kinds
  <2> QED BY <1>1, <1>2, <2>2, <2>3 DEF Capture, pool, Typed, TypeOK
<1>3. CASE Idle
  <2>1. PICK t \in now..MaxClock :
           /\ now' = t
           /\ p' = IF p.start = 0 THEN [p EXCEPT !.start = Slot(t)]
                   ELSE [p EXCEPT !.pc = "new", !.kind = "signal", !.start = Slot(t)]
    BY <1>3 DEF Idle
  <2>2. now' \in Int /\ Slot(t) \in Int BY <2>1, ClockIsInt, SlotIsInt DEF Typed
  <2>3. p' \in PacketType /\ p'.node = p.node /\ p'.pc \in {"read", "new"} /\ p.pc = "read"
    BY <1>3, <2>1, <2>2 DEF Idle, Typed, PacketType, Kinds
  <2> QED BY <1>1, <1>3, <2>2, <2>3 DEF Idle, pool, Typed, TypeOK
<1>4. CASE Finish
  <2>1. p' \in PacketType /\ p'.node = p.node /\ p'.pc = "ended" /\ p.pc = "read"
    BY <1>4 DEF Finish, Typed, PacketType
  <2> QED BY <1>1, <1>4, <2>1 DEF Finish, pool, Typed, TypeOK
<1>5. CASE NoNode
  <2>1. /\ p' \in PacketType /\ p'.node = p.node
        /\ p'.pc = "exhausted" /\ p.pc \in {"new", "woken"}
    BY <1>5 DEF NoNode, Typed, PacketType
  <2> QED BY <1>1, <1>5, <2>1 DEF NoNode, Typed, TypeOK
<1>6. CASE AwaitNode
  <2>1. p' \in PacketType /\ p'.node = p.node /\ p'.pc = "sleep" /\ p.pc = "exhausted"
    BY <1>6 DEF AwaitNode, Typed, PacketType
  <2> QED BY <1>1, <1>6, <2>1 DEF AwaitNode, pool, Typed, TypeOK
<1>7. CASE Notify
  <2>1. p' \in PacketType /\ p'.node = p.node /\ p'.pc = "read" /\ p.pc = "notify"
    BY <1>7 DEF Notify, Typed, PacketType
  <2>2. f' = f \/ (f.pc = "sleep" /\ f' = [f EXCEPT !.pc = "pop"])
    <3>1. CASE f.pc = "sleep" BY <1>7, <3>1 DEF Notify
    <3>2. CASE f.pc # "sleep"
      <4>1. f' = [f EXCEPT !.pc = f.pc] BY <1>7, <3>2 DEF Notify
      <4> QED BY <4>1 DEF Typed, FlowType
    <3> QED BY <3>1, <3>2
  <2> QED BY <1>1, <1>7, <2>1, <2>2 DEF Notify, pool, Typed, TypeOK
<1>8. CASE Handler("packet")
  <2>1. p' = [p EXCEPT !.done = TRUE] /\ f' = f BY <1>8 DEF Handler
  <2>2. p' \in PacketType /\ p'.node = p.node /\ p'.pc = p.pc
    BY <2>1 DEF Typed, PacketType
  <2> QED BY <1>1, <1>8, <2>1, <2>2 DEF Handler, pool, Typed, TypeOK
<1> QED BY <1>2, <1>3, <1>4, <1>5, <1>6, <1>7, <1>8

\* The steps of main, which touch no node.
LEMMA MainQuiet == ASSUME IInv, Stop \/ MainStep PROVE IInv'
<1> USE NoneApart DEF IInv
<1>1. ASSUME UNCHANGED <<now, pool, node, list, tree, udp, p, leaked>>,
             f' = f \/ (f.pc = "sleep" /\ f' = [f EXCEPT !.pc = "pop"]),
             m' \in {"wait", "killPacket", "joinPacket", "killFlow", "wakeFlow",
                     "joinFlow", "ended"},
             pending' \subseteq {"packet", "flow", "main"}, missed' \subseteq {"node", "done"}
      PROVE  IInv'
  <2>1. f' \in FlowType BY <1>1 DEF Typed, FlowType, FlowPcs
  <2>2. /\ f'.node = f.node /\ f'.victim = f.victim /\ f'.back = f.back /\ f'.ended = f.ended
        /\ f'.pc = f.pc \/ (f.pc = "sleep" /\ f'.pc = "pop")
    BY <1>1 DEF Typed, FlowType
  <2>3. Typed'
    <3>1. TypeOK' BY <1>1, <2>1 DEF Typed, TypeOK, FlowType, pool
    <3> QED BY <1>1, <2>1, <3>1 DEF Typed
  <2>4. Hands' BY <1>1, <2>2 DEF Hands, Pos, Freeing
  <2>5. Apart' BY <1>1, <2>2, Unmoved DEF pool
  <2>6. UdpInTree'
    <3>1. Pos' \in {"flush", "flushFull"} <=> Pos \in {"flush", "flushFull"}
      BY <2>2 DEF Pos, Freeing
    <3> QED BY <1>1, <3>1 DEF UdpInTree, Once, Holds
  <2> QED BY <2>3, <2>4, <2>5, <2>6
<1>2. CASE Stop BY <1>1, <1>2 DEF Stop, Typed, TypeOK
<1>3. CASE KillPacket BY <1>1, <1>3 DEF KillPacket, Typed, TypeOK
<1>4. CASE JoinPacket BY <1>1, <1>4 DEF JoinPacket, Typed, TypeOK
<1>5. CASE KillFlow BY <1>1, <1>5 DEF KillFlow, Typed, TypeOK
<1>6. CASE WakeFlow
  <2>1. f' = f \/ (f.pc = "sleep" /\ f' = [f EXCEPT !.pc = "pop"])
    <3>1. CASE f.pc = "sleep" BY <1>6, <3>1 DEF WakeFlow
    <3>2. CASE f.pc # "sleep"
      <4>1. f' = [f EXCEPT !.pc = f.pc] BY <1>6, <3>2 DEF WakeFlow
      <4> QED BY <4>1 DEF Typed, FlowType
    <3> QED BY <3>1, <3>2
  <2> QED BY <1>1, <1>6, <2>1 DEF WakeFlow, Typed, TypeOK
<1>7. CASE JoinFlow BY <1>1, <1>7 DEF JoinFlow, Typed, TypeOK
<1> QED BY <1>2, <1>3, <1>4, <1>5, <1>6, <1>7 DEF MainStep

\* New_Node, ProcessPacket and Push_Node: a node goes through the hands of the
\* packet thread.
LEMMA TakeNodeStep == ASSUME IInv, TakeNode PROVE IInv'
<1> USE NoneApart DEF IInv
<1> DEFINE x == Head(free)
<1>1. /\ x \in Nodes /\ free' \in Seq(Nodes) /\ Holds(free, x) /\ Once(free')
      /\ \A n \in Nodes : Holds(free', n) <=> Holds(free, n) /\ n # x
  BY TailOf DEF TakeNode, Typed, TypeOK, Apart
<1> HIDE DEF x
<1>2. /\ p' \in PacketType /\ p'.node = x /\ p'.pc = "decode" /\ p.node = None
      /\ UNCHANGED <<now, overflow, node, list, tree, udp, f, m, pending, leaked, missed>>
  BY <1>1 DEF TakeNode, Typed, PacketType, SomeNode, Hands, x
<1>3. Typed' BY <1>1, <1>2 DEF Typed, TypeOK, PacketType
<1>4. Hands' BY <1>1, <1>2 DEF Hands, Pos
<1>5. Apart'
  <2>1. Once(free') /\ Once(list') BY <1>1, <1>2 DEF Apart
  <2>2. ASSUME NEW n \in Nodes PROVE Places(n)' = 1
    BY <1>1, <1>2 DEF Apart, Places, One
  <2> QED BY <2>1, <2>2 DEF Apart
<1>6. UdpInTree' BY <1>2 DEF UdpInTree, Pos
<1> QED BY <1>3, <1>4, <1>5, <1>6

LEMMA DecodeStep == ASSUME IInv, Decode PROVE IInv'
<1> USE NoneApart DEF IInv
<1>1. /\ p.node \in Nodes /\ p.pc = "decode"
      /\ UNCHANGED <<now, list, tree, udp, f, m, pending, file, missed>>
  BY DEF Decode, Hands, Typed, TypeOK
<1>2. ~Holds(free, p.node) /\ ~Holds(list, p.node) /\ p.node \notin leaked
  BY <1>1 DEF Apart, Places, One
<1>3. UdpInTree' BY <1>1 DEF UdpInTree, Pos
<1>4. CASE p.kind = "skip"
  <2>1. /\ free' = <<p.node>> \o free /\ overflow' = FALSE
        /\ p' \in PacketType /\ p'.pc = "read" /\ p'.node = None
        /\ UNCHANGED <<node, leaked>>
    BY <1>4 DEF Decode, Typed, PacketType, Kinds, SomeNode
  <2>2. /\ free' \in Seq(Nodes) /\ Once(free')
        /\ \A n \in Nodes : Holds(free', n) <=> Holds(free, n) \/ n = p.node
    BY <1>1, <1>2, <2>1, Prepended DEF Typed, TypeOK, Apart
  <2>3. Typed' BY <1>1, <2>1, <2>2 DEF Typed, TypeOK, PacketType
  <2>4. Hands' BY <1>1, <2>1 DEF Hands, Pos
  <2>5. ASSUME NEW n \in Nodes PROVE Places(n)' = 1
    BY <1>1, <1>2, <2>1, <2>2 DEF Apart, Places, One
  <2> QED BY <1>1, <1>3, <2>2, <2>3, <2>4, <2>5 DEF Apart
<1>5. CASE p.kind = "drop"
  <2>1. /\ leaked' = leaked \cup {p.node}
        /\ p' \in PacketType /\ p'.pc = "read" /\ p'.node = None
        /\ UNCHANGED <<free, overflow, node>>
    BY <1>5 DEF Decode, Typed, PacketType, Kinds, SomeNode, pool
  <2>2. Typed' BY <1>1, <2>1 DEF Typed, TypeOK, PacketType
  <2>3. Hands' BY <1>1, <2>1 DEF Hands, Pos
  <2>4. ASSUME NEW n \in Nodes PROVE Places(n)' = 1
    BY <1>1, <1>2, <2>1 DEF Apart, Places, One
  <2> QED BY <1>1, <1>3, <2>1, <2>2, <2>3, <2>4 DEF Apart
<1>6. CASE p.kind \notin {"skip", "drop"}
  <2>1. /\ node' = [node EXCEPT ![p.node] =
                      [kind |-> p.kind, first |-> now, last |-> now,
                       packets |-> IF p.kind = "signal" THEN 0 ELSE 1]]
        /\ p' = [p EXCEPT !.pc = "push"]
        /\ UNCHANGED <<free, overflow, leaked>>
    BY <1>6 DEF Decode, pool
  <2>2. p' \in PacketType /\ p'.pc = "push" /\ p'.node = p.node
    BY <2>1 DEF Typed, PacketType
  <2>3. node' \in [Nodes -> NodeType]
    <3>1. p.kind \in Kinds BY DEF Typed, PacketType
    <3>2. [kind |-> p.kind, first |-> now, last |-> now,
           packets |-> IF p.kind = "signal" THEN 0 ELSE 1] \in NodeType
      BY <3>1 DEF Typed, NodeType
    <3> QED BY <1>1, <2>1, <3>2 DEF Typed
  <2>4. Typed' BY <1>1, <2>1, <2>2, <2>3 DEF Typed, TypeOK, PacketType
  <2>5. Hands' BY <1>1, <2>2 DEF Hands, Pos
  <2>6. Apart' BY <1>1, <2>1, <2>2, Unmoved
  <2> QED BY <1>3, <2>4, <2>5, <2>6
<1> QED BY <1>4, <1>5, <1>6

LEMMA PushStep == ASSUME IInv, Push PROVE IInv'
<1> USE NoneApart DEF IInv
<1>1. /\ p.node \in Nodes /\ p.pc = "push" /\ list' = Append(list, p.node)
      /\ UNCHANGED <<now, free, overflow, node, tree, udp, f, m, pending, leaked, missed>>
      /\ p' \in PacketType /\ p'.pc = "notify" /\ p'.node = None
  BY DEF Push, Hands, Typed, TypeOK, PacketType, Kinds, SomeNode, pool
<1>2. ~Holds(list, p.node) BY <1>1 DEF Apart, Places, One
<1>3. /\ list' \in Seq(Nodes) /\ Once(list')
      /\ \A n \in Nodes : Holds(list', n) <=> Holds(list, n) \/ n = p.node
  BY <1>1, <1>2, Appended DEF Typed, TypeOK, Apart
<1>4. Typed' BY <1>1, <1>3 DEF Typed, TypeOK, PacketType
<1>5. Hands' BY <1>1 DEF Hands, Pos
<1>6. Apart'
  <2>1. ASSUME NEW n \in Nodes PROVE Places(n)' = 1
    BY <1>1, <1>2, <1>3 DEF Apart, Places, One
  <2> QED BY <1>1, <1>3, <2>1 DEF Apart
<1>7. UdpInTree' BY <1>1 DEF UdpInTree, Pos
<1> QED BY <1>4, <1>5, <1>6, <1>7

-----------------------------------------------------------------------------
(* The steps of the flow thread                                            *)

\* What they leave alone, and what is left to show of their types.
LEMMA FlowTypes ==
    ASSUME Typed, UNCHANGED <<p, m>>, f' \in FlowType, node' \in [Nodes -> NodeType],
           now' = now, overflow' \in BOOLEAN, pending' \subseteq {"packet", "flow", "main"},
           missed' \subseteq {"node", "done"}, free' \in Seq(Nodes), list' \in Seq(Nodes),
           udp' \in Seq(Nodes), tree' \subseteq Nodes, leaked' \subseteq Nodes
    PROVE  Typed'
BY DEF Typed, TypeOK, PacketType, FlowType, SomeNode

\* Steps that move no node.
LEMMA FlowQuiet ==
    ASSUME IInv, \/ PopNull \/ TestDone \/ AwaitList \/ FreeTest \/ Handler("flow")
                 \/ Flushed("flush", "close") \/ Flushed("flushFull", "pop")
    PROVE  IInv'
<1> USE NoneApart DEF IInv
<1>1. ASSUME UNCHANGED <<p, m, now, free, overflow, node, list, tree, leaked, missed>>,
             f' \in FlowType, f'.node = f.node, f'.victim = f.victim,
             pending' \subseteq pending, udp' = udp \/ udp' = <<>>,
             Hands', UdpInTree'
      PROVE  IInv'
  <2>1. Typed'
    <3>1. udp' \in Seq(Nodes)
      <4>1. udp \in Seq(Nodes) BY DEF Typed, TypeOK
      <4>2. << >> \in Seq(Nodes) OBVIOUS
      <4>3. udp' = udp \/ udp' = << >> BY <1>1
      <4> QED BY <4>1, <4>2, <4>3
    <3>2. /\ node' \in [Nodes -> NodeType] /\ overflow' \in BOOLEAN
          /\ pending' \subseteq {"packet", "flow", "main"} /\ missed' \subseteq {"node", "done"}
          /\ free' \in Seq(Nodes) /\ list' \in Seq(Nodes)
          /\ tree' \subseteq Nodes /\ leaked' \subseteq Nodes
      BY <1>1 DEF Typed, TypeOK
    <3> QED BY <1>1, <3>1, <3>2, FlowTypes
  <2>2. Apart' BY <1>1, Unmoved
  <2> QED BY <1>1, <2>1, <2>2
<1>2. CASE PopNull
  <2>1. Slot(f.clock) \in Int BY SlotIsInt DEF Typed, FlowType
  <2>2. /\ f' \in FlowType /\ f'.node = f.node /\ f'.victim = f.victim /\ f'.pc = "flush"
        /\ f'.ended = TRUE /\ f'.back = f.back /\ f.pc = "pop"
    BY <1>2, <2>1 DEF PopNull, AtFlow, Typed, FlowType, FlowPcs
  <2>3. Hands' BY <1>2, <2>2 DEF PopNull, Hands, Pos, Freeing
  <2>4. UdpInTree' BY <1>2, <2>2 DEF PopNull, UdpInTree, Pos, Freeing
  <2> QED BY <1>1, <1>2, <2>2, <2>3, <2>4 DEF PopNull, pool
<1>3. CASE TestDone
  <2>1. /\ f' \in FlowType /\ f'.node = f.node /\ f'.victim = f.victim /\ f'.pc = "idle"
        /\ f'.ended = f.ended /\ f'.back = f.back /\ f.pc = "pop"
    BY <1>3 DEF TestDone, AtFlow, Typed, FlowType, FlowPcs
  <2>2. Hands' BY <1>3, <2>1 DEF TestDone, Hands, Pos, Freeing
  <2>3. UdpInTree' BY <1>3, <2>1 DEF TestDone, UdpInTree, Once, Holds, Pos, Freeing
  <2> QED BY <1>1, <1>3, <2>1, <2>2, <2>3 DEF TestDone, pool
<1>4. CASE AwaitList
  <2>1. /\ f' \in FlowType /\ f'.node = f.node /\ f'.victim = f.victim /\ f'.pc = "sleep"
        /\ f'.ended = f.ended /\ f'.back = f.back /\ f.pc = "idle"
    BY <1>4 DEF AwaitList, AtFlow, Typed, FlowType, FlowPcs
  <2>2. Hands' BY <1>4, <2>1 DEF AwaitList, Hands, Pos, Freeing
  <2>3. UdpInTree' BY <1>4, <2>1 DEF AwaitList, UdpInTree, Once, Holds, Pos, Freeing
  <2> QED BY <1>1, <1>4, <2>1, <2>2, <2>3 DEF AwaitList, pool
<1>5. CASE FreeTest
  <2>1. f.pc = "freed" /\ f.back \in {"pop", "expire", "flush", "flushFull"}
    BY <1>5 DEF FreeTest, AtFlow, Hands, Freeing, Typed, FlowType
  <2>2. CASE overflow
    <3>1. /\ f' \in FlowType /\ f'.node = f.node /\ f'.victim = f.victim /\ f'.pc = "wake"
          /\ f'.ended = f.ended /\ f'.back = f.back
      BY <1>5, <2>2 DEF FreeTest, Typed, FlowType, FlowPcs
    <3>2. Hands' BY <1>5, <2>1, <3>1 DEF FreeTest, Hands, Pos, Freeing
    <3>3. Pos' = Pos BY <2>1, <3>1 DEF Pos, Freeing
    <3>4. UdpInTree' BY <1>5, <3>3, UdpUnmoved DEF FreeTest
    <3> QED BY <1>1, <1>5, <3>1, <3>2, <3>4 DEF FreeTest, pool
  <2>3. CASE ~overflow
    <3>1. /\ f' \in FlowType /\ f'.node = f.node /\ f'.victim = f.victim /\ f'.pc = f.back
          /\ f'.ended = f.ended /\ f'.back = None
      BY <1>5, <2>1, <2>3 DEF FreeTest, Typed, FlowType, FlowPcs
    <3>2. Pos' = Pos BY <2>1, <3>1 DEF Pos, Freeing
    <3>3. Hands' BY <1>5, <2>1, <3>1, <3>2 DEF FreeTest, Hands, Pos, Freeing
    <3>4. UdpInTree' BY <1>5, <3>2, UdpUnmoved DEF FreeTest
    <3> QED BY <1>1, <1>5, <3>1, <3>3, <3>4 DEF FreeTest, pool
  <2> QED BY <2>2, <2>3
<1>6. CASE Handler("flow")
  <2>1. f' = [f EXCEPT !.done = TRUE] /\ p' = p BY <1>6 DEF Handler
  <2>2. /\ f' \in FlowType /\ f'.node = f.node /\ f'.victim = f.victim /\ f'.pc = f.pc
        /\ f'.ended = f.ended /\ f'.back = f.back
    BY <2>1 DEF Typed, FlowType
  <2>3. Hands' BY <2>1, <2>2 DEF Hands, Pos
  <2>4. UdpInTree' BY <1>6, <2>2, UdpUnmoved DEF Handler, Pos
  <2> QED BY <1>1, <1>6, <2>1, <2>2, <2>3, <2>4 DEF Handler, pool
<1>7. ASSUME NEW pc, NEW then, <<pc, then>> \in {<<"flush", "close">>, <<"flushFull", "pop">>},
             Flushed(pc, then)
      PROVE  IInv'
  <2>1. /\ f' \in FlowType /\ f'.node = f.node /\ f'.victim = f.victim /\ f'.pc = then
        /\ f'.ended = f.ended /\ f'.back = f.back /\ f.pc = pc
    BY <1>7 DEF Flushed, AtFlow, Typed, FlowType, FlowPcs
  <2>2. Hands' BY <1>7, <2>1 DEF Flushed, Hands, Pos, Freeing
  <2>3. UdpInTree' BY <1>7 DEF Flushed, UdpInTree, Once, Holds
  <2> QED BY <1>1, <1>7, <2>1, <2>2, <2>3 DEF Flushed, pool
<1> QED BY <1>2, <1>3, <1>4, <1>5, <1>6, <1>7

\* Pop_Node: from the node list into the hands of the flow thread.
LEMMA PopNodeStep == ASSUME IInv, PopNode PROVE IInv'
<1> USE NoneApart DEF IInv
<1> DEFINE x == Head(list)
<1>1. /\ x \in Nodes /\ list' \in Seq(Nodes) /\ Holds(list, x) /\ Once(list')
      /\ \A n \in Nodes : Holds(list', n) <=> Holds(list, n) /\ n # x
      /\ f.pc = "pop"
      /\ UNCHANGED <<now, free, overflow, node, tree, udp, p, m, pending, leaked, missed>>
  BY TailOf DEF PopNode, AtFlow, Typed, TypeOK, Apart, pool
<1> HIDE DEF x
<1>2. node[x].last \in Int BY <1>1 DEF Typed, NodeType
<1>3. PICK start : /\ start = IF f.start = 0 THEN Slot(node[x].last) ELSE f.start
                   /\ f' = [f EXCEPT !.pc = IF node[x].last - start >= Win
                                            THEN "flush" ELSE "expire",
                                     !.node = x, !.clock = node[x].last, !.start = start]
  BY DEF PopNode, x
<1>4. start \in Int BY <1>2, <1>3, SlotIsInt DEF Typed, FlowType
<1>5. PICK pc \in {"flush", "expire"} :
         f' = [f EXCEPT !.pc = pc, !.node = x, !.clock = node[x].last, !.start = start]
  <2>1. CASE node[x].last - start >= Win BY <1>3, <2>1
  <2>2. CASE ~(node[x].last - start >= Win) BY <1>3, <2>2
  <2> QED BY <2>1, <2>2
<1>6. /\ f' \in FlowType /\ f'.pc = pc /\ f'.node = x /\ f'.victim = f.victim
      /\ f'.ended = f.ended /\ f'.back = f.back
  BY <1>1, <1>2, <1>4, <1>5 DEF Typed, FlowType, FlowPcs, SomeNode
<1>7. Typed'
  <2>1. /\ node' \in [Nodes -> NodeType] /\ overflow' \in BOOLEAN
        /\ pending' \subseteq {"packet", "flow", "main"} /\ missed' \subseteq {"node", "done"}
        /\ free' \in Seq(Nodes) /\ list' \in Seq(Nodes) /\ udp' \in Seq(Nodes)
        /\ tree' \subseteq Nodes /\ leaked' \subseteq Nodes
    BY <1>1, <1>6 DEF Typed, TypeOK
  <2> QED BY <1>1, <1>6, <2>1, FlowTypes
<1>8. f.node = None /\ f.victim = None /\ f.back = None /\ ~f.ended
  BY <1>1 DEF Hands, Pos, Freeing
<1>9. Hands' BY <1>1, <1>6, <1>8 DEF Hands, Pos, Freeing
<1>10. Apart'
  <2>1. ASSUME NEW n \in Nodes PROVE Places(n)' = 1
    BY <1>1, <1>6, <1>8 DEF Apart, Places, One
  <2> QED BY <1>1, <2>1 DEF Apart
<1>11. UdpInTree' BY <1>1, <1>6, <1>8 DEF UdpInTree, Once, Holds, Pos, Freeing
<1> QED BY <1>7, <1>9, <1>10, <1>11

\* Free_Node: onto the free list.
LEMMA FreePushStep == ASSUME IInv, FreePush PROVE IInv'
<1> USE NoneApart DEF IInv
<1> DEFINE x == f.victim
<1>1. /\ x \in Nodes /\ f.pc = "free" /\ free' = <<x>> \o free
      /\ node' = [node EXCEPT ![x] = Blank]
      /\ f' = [f EXCEPT !.pc = "freed", !.victim = None]
      /\ UNCHANGED <<now, overflow, list, tree, udp, p, m, pending, leaked, missed>>
  BY DEF FreePush, AtFlow, Hands, Typed, FlowType, SomeNode
<1> HIDE DEF x
<1>2. ~Holds(free, x) BY <1>1 DEF Apart, Places, One, x
<1>3. /\ free' \in Seq(Nodes) /\ Once(free')
      /\ \A n \in Nodes : Holds(free', n) <=> Holds(free, n) \/ n = x
  BY <1>1, <1>2, Prepended DEF Typed, TypeOK, Apart
<1>4. /\ f' \in FlowType /\ f'.pc = "freed" /\ f'.node = f.node /\ f'.victim = None
      /\ f'.ended = f.ended /\ f'.back = f.back
  BY <1>1 DEF Typed, FlowType, FlowPcs, SomeNode
<1>5. node' \in [Nodes -> NodeType]
  <2>1. Blank \in NodeType BY DEF Blank, NodeType, Kinds
  <2> QED BY <1>1, <2>1 DEF Typed
<1>6. Typed'
  <2>1. /\ list' \in Seq(Nodes) /\ udp' \in Seq(Nodes) /\ tree' \subseteq Nodes
        /\ leaked' \subseteq Nodes /\ overflow' \in BOOLEAN
        /\ pending' \subseteq {"packet", "flow", "main"} /\ missed' \subseteq {"node", "done"}
    BY <1>1 DEF Typed, TypeOK
  <2> QED BY <1>1, <1>3, <1>4, <1>5, <2>1, FlowTypes
<1>7. Pos' = Pos BY <1>1, <1>4 DEF Pos, Freeing
<1>8. Hands' BY <1>1, <1>4, <1>7 DEF Hands, Freeing
<1>9. Apart'
  <2>1. ASSUME NEW n \in Nodes PROVE Places(n)' = 1
    BY <1>1, <1>2, <1>3, <1>4 DEF Apart, Places, One, x
  <2> QED BY <1>1, <1>3, <2>1 DEF Apart
<1>10. UdpInTree' BY <1>1, <1>7, UdpUnmoved
<1> QED BY <1>6, <1>8, <1>9, <1>10

\* It wakes the packet thread.
LEMMA FreeWakeStep == ASSUME IInv, FreeWake PROVE IInv'
<1> USE NoneApart DEF IInv
<1>1. /\ f.pc = "wake" /\ f.back \in {"pop", "expire", "flush", "flushFull"}
      /\ overflow' = FALSE
      /\ UNCHANGED <<now, free, node, list, tree, udp, m, pending, leaked>>
      /\ missed' \subseteq {"node", "done"}
      /\ f' = [f EXCEPT !.pc = f.back, !.back = None]
  BY DEF FreeWake, AtFlow, Hands, Freeing, Typed, TypeOK, FlowType
<1>2. p' = [p EXCEPT !.pc = IF p.pc = "sleep" THEN "woken" ELSE p.pc] BY DEF FreeWake
<1>3. /\ p' \in PacketType /\ p'.node = p.node
      /\ p'.pc \in {"decode", "push"} <=> p.pc \in {"decode", "push"}
  <2>1. CASE p.pc = "sleep" BY <1>2, <2>1 DEF Typed, PacketType
  <2>2. CASE p.pc # "sleep" BY <1>2, <2>2 DEF Typed, PacketType
  <2> QED BY <2>1, <2>2
<1>4. /\ f' \in FlowType /\ f'.pc = f.back /\ f'.node = f.node /\ f'.victim = f.victim
      /\ f'.ended = f.ended /\ f'.back = None
  BY <1>1 DEF Typed, FlowType, FlowPcs
<1>5. Typed'
  <2>1. TypeOK' BY <1>1, <1>3, <1>4 DEF Typed, TypeOK, PacketType, FlowType, SomeNode
  <2> QED BY <1>1, <1>3, <1>4, <2>1 DEF Typed
<1>6. Pos' = Pos BY <1>1, <1>4 DEF Pos, Freeing
<1>7. Hands' BY <1>1, <1>3, <1>4, <1>6 DEF Hands, Freeing
<1>8. Apart' BY <1>1, <1>3, <1>4, Unmoved
<1>9. UdpInTree' BY <1>1, <1>6, UdpUnmoved
<1> QED BY <1>5, <1>7, <1>8, <1>9

\* Flush_FlowTree: from the tree.
LEMMA FlushStep == ASSUME IInv, NEW pc \in {"flush", "flushFull"}, Flush(pc) PROVE IInv'
<1> USE NoneApart DEF IInv
<1>1. PICK x \in tree : /\ tree' = tree \ {x}
                        /\ f' = [f EXCEPT !.pc = "free", !.victim = x, !.back = pc]
  BY DEF Flush, FreeThen
<1>2. /\ x \in Nodes /\ f.pc = pc
      /\ UNCHANGED <<now, free, overflow, node, list, udp, p, m, pending, leaked, missed>>
  BY <1>1 DEF Flush, AtFlow, Typed, TypeOK, pool
<1>3. /\ f' \in FlowType /\ f'.pc = "free" /\ f'.node = f.node /\ f'.victim = x
      /\ f'.ended = f.ended /\ f'.back = pc
  BY <1>1, <1>2 DEF Typed, FlowType, FlowPcs, SomeNode
<1>4. Typed'
  <2>1. /\ node' \in [Nodes -> NodeType] /\ overflow' \in BOOLEAN
        /\ pending' \subseteq {"packet", "flow", "main"} /\ missed' \subseteq {"node", "done"}
        /\ free' \in Seq(Nodes) /\ list' \in Seq(Nodes) /\ udp' \in Seq(Nodes)
        /\ tree' \subseteq Nodes /\ leaked' \subseteq Nodes
    BY <1>1, <1>2, <1>3 DEF Typed, TypeOK
  <2> QED BY <1>1, <1>2, <1>3, <2>1, FlowTypes
<1>5. f.victim = None /\ Pos = pc /\ Pos' = pc BY <1>2, <1>3 DEF Hands, Pos, Freeing
<1>6. Hands' BY <1>2, <1>3, <1>5 DEF Hands, Freeing, None
<1>7. Apart'
  <2>1. ASSUME NEW n \in Nodes PROVE Places(n)' = 1
    BY <1>1, <1>2, <1>3, <1>5 DEF Apart, Places, One
  <2> QED BY <1>2, <2>1 DEF Apart
<1>8. UdpInTree' BY <1>5 DEF UdpInTree
<1> QED BY <1>4, <1>6, <1>7, <1>8

\* The file is closed and the next one opened; when that fails the node is lost.
LEMMA CloseStep == ASSUME IInv, Close PROVE IInv'
<1> USE NoneApart DEF IInv
<1>1. /\ f.pc = "close" /\ f.victim = None /\ f.back = None /\ Pos = "close"
      /\ f' = [f EXCEPT !.pc = IF f.ended THEN "ended" ELSE "reopen"]
      /\ UNCHANGED <<now, free, overflow, node, list, tree, udp, p, m, pending, leaked, missed>>
  BY DEF Close, AtFlow, Hands, Pos, Freeing, pool
<1>2. /\ f' \in FlowType /\ f'.node = f.node /\ f'.victim = f.victim
      /\ f'.ended = f.ended /\ f'.back = f.back
      /\ f'.pc = IF f.ended THEN "ended" ELSE "reopen"
  BY <1>1 DEF Typed, FlowType, FlowPcs
<1>3. Typed' BY <1>1, <1>2, FlowTypes DEF Typed, TypeOK
<1>4. Hands' BY <1>1, <1>2 DEF Hands, Pos, Freeing
<1>5. Apart' BY <1>1, <1>2, Unmoved
<1>6. UdpInTree' BY <1>1, <1>2 DEF UdpInTree, Once, Holds
<1> QED BY <1>3, <1>4, <1>5, <1>6

LEMMA OpenStep == ASSUME IInv, Open \/ OpenFails PROVE IInv'
<1> USE NoneApart DEF IInv
<1>1. /\ f.pc = "reopen" /\ f.victim = None /\ f.back = None /\ Pos = "reopen" /\ ~f.ended
      /\ f.node \in Nodes
      /\ UNCHANGED <<now, free, overflow, node, list, tree, udp, p, m, missed>>
  BY DEF Open, OpenFails, AtFlow, Hands, Pos, Freeing, pool, Typed, FlowType, SomeNode
<1>2. CASE f' = [f EXCEPT !.pc = "expire", !.start = Slot(f.clock)] /\ UNCHANGED <<pending, leaked>>
  <2>1. Slot(f.clock) \in Int BY SlotIsInt DEF Typed, FlowType
  <2>2. /\ f' \in FlowType /\ f'.pc = "expire" /\ f'.node = f.node /\ f'.victim = f.victim
        /\ f'.ended = f.ended /\ f'.back = f.back
    BY <1>2, <2>1 DEF Typed, FlowType, FlowPcs
  <2>3. Typed' BY <1>1, <1>2, <2>2, FlowTypes DEF Typed, TypeOK
  <2>4. Hands' BY <1>1, <1>2, <2>2 DEF Hands, Pos, Freeing
  <2>5. Apart' BY <1>1, <1>2, <2>2, Unmoved
  <2>6. UdpInTree' BY <1>1, <2>2 DEF UdpInTree, Once, Holds
  <2> QED BY <2>3, <2>4, <2>5, <2>6
<1>3. CASE f' = [f EXCEPT !.pc = "ended", !.done = TRUE, !.node = None]
           /\ leaked' = leaked \cup {f.node} /\ pending' = pending \cup {"main"}
  <2>1. /\ f' \in FlowType /\ f'.pc = "ended" /\ f'.node = None /\ f'.victim = f.victim
        /\ f'.ended = f.ended /\ f'.back = f.back
    BY <1>3 DEF Typed, FlowType, FlowPcs, SomeNode
  <2>2. Typed' BY <1>1, <1>3, <2>1, FlowTypes DEF Typed, TypeOK
  <2>3. Hands' BY <1>1, <1>3, <2>1 DEF Hands, Pos, Freeing
  <2>4. ASSUME NEW n \in Nodes PROVE Places(n)' = 1
    BY <1>1, <1>3, <2>1 DEF Apart, Places, One
  <2>5. UdpInTree' BY <1>1, <2>1 DEF UdpInTree, Once, Holds
  <2> QED BY <1>1, <2>2, <2>3, <2>4, <2>5 DEF Apart
<1> QED BY <1>2, <1>3 DEF Open, OpenFails

\* UDPexpire: the first node of UDP_list leaves the list and the tree.
LEMMA ExpireStep == ASSUME IInv, Expire PROVE IInv'
<1> USE NoneApart DEF IInv
<1> DEFINE x == Head(udp)
<1>1. f.pc = "expire" /\ f.victim = None /\ Pos = "expire" /\ ~f.ended /\ Once(udp)
  BY DEF Expire, AtFlow, Hands, Pos, Freeing, UdpInTree
<1>2. /\ x \in Nodes /\ udp' \in Seq(Nodes) /\ Holds(udp, x) /\ Once(udp')
      /\ \A n \in Nodes : Holds(udp', n) <=> Holds(udp, n) /\ n # x
  BY <1>1, TailOf DEF Expire, Expired, Typed, TypeOK
<1>3. x \in tree BY <1>1, <1>2 DEF UdpInTree
<1>4. /\ tree' = tree \ {x}
      /\ f' = [f EXCEPT !.pc = "free", !.victim = x, !.back = "expire"]
      /\ UNCHANGED <<now, free, overflow, node, list, p, m, pending, leaked, missed>>
  BY DEF Expire, FreeThen, pool
<1> HIDE DEF x
<1>5. /\ f' \in FlowType /\ f'.pc = "free" /\ f'.node = f.node /\ f'.victim = x
      /\ f'.ended = f.ended /\ f'.back = "expire"
  BY <1>2, <1>4 DEF Typed, FlowType, FlowPcs, SomeNode
<1>6. Typed'
  <2>1. /\ node' \in [Nodes -> NodeType] /\ overflow' \in BOOLEAN
        /\ pending' \subseteq {"packet", "flow", "main"} /\ missed' \subseteq {"node", "done"}
        /\ free' \in Seq(Nodes) /\ list' \in Seq(Nodes) /\ udp' \in Seq(Nodes)
        /\ tree' \subseteq Nodes /\ leaked' \subseteq Nodes
    BY <1>2, <1>4, <1>5 DEF Typed, TypeOK
  <2> QED BY <1>2, <1>4, <1>5, <2>1, FlowTypes
<1>7. Pos' = "expire" BY <1>5 DEF Pos, Freeing
<1>8. Hands' BY <1>1, <1>2, <1>4, <1>5, <1>7 DEF Hands, Freeing, None
<1>9. Apart'
  <2>1. ASSUME NEW n \in Nodes PROVE Places(n)' = 1
    BY <1>1, <1>3, <1>4, <1>5 DEF Apart, Places, One
  <2> QED BY <1>4, <2>1 DEF Apart
<1>10. UdpInTree' BY <1>1, <1>2, <1>4 DEF UdpInTree
<1> QED BY <1>6, <1>8, <1>9, <1>10

\* What the flow thread does with the node in its hands.
LEMMA InHand == ASSUME IInv, AtFlow("expire")
                PROVE  /\ f.node \in Nodes /\ f.pc = "expire" /\ f.victim = None
                       /\ f.back = None /\ ~f.ended /\ Pos = "expire"
                       /\ f.node \notin tree /\ f.node \notin leaked
                       /\ Once(udp) /\ \A n \in Nodes : Holds(udp, n) => n \in tree
<1>1. /\ f.node \in Nodes /\ f.pc = "expire" /\ f.victim = None
      /\ f.back = None /\ ~f.ended /\ Pos = "expire"
  BY NoneApart DEF IInv, AtFlow, Hands, Pos, Freeing, Typed, FlowType, SomeNode
<1>2. f.node \notin tree /\ f.node \notin leaked BY <1>1 DEF IInv, Apart, Places, One
<1>3. Once(udp) /\ \A n \in Nodes : Holds(udp, n) => n \in tree
  BY <1>1 DEF IInv, UdpInTree
<1> QED BY <1>1, <1>2, <1>3

LEMMA ProcessSignalStep == ASSUME IInv, ProcessSignal PROVE IInv'
<1> USE NoneApart DEF IInv
<1>1. /\ leaked' = leaked \cup {f.node} /\ f' = [f EXCEPT !.pc = "pop", !.node = None]
      /\ UNCHANGED <<now, free, overflow, node, list, tree, udp, p, m, pending, missed>>
  BY DEF ProcessSignal, pool
<1>2. /\ f.node \in Nodes /\ f.victim = None /\ f.back = None /\ ~f.ended /\ Pos = "expire"
      /\ f.node \notin leaked
  BY InHand DEF ProcessSignal
<1>3. /\ f' \in FlowType /\ f'.pc = "pop" /\ f'.node = None /\ f'.victim = f.victim
      /\ f'.ended = f.ended /\ f'.back = f.back
  BY <1>1 DEF Typed, FlowType, FlowPcs, SomeNode
<1>4. Typed'
  <2>1. /\ node' \in [Nodes -> NodeType] /\ overflow' \in BOOLEAN
        /\ pending' \subseteq {"packet", "flow", "main"} /\ missed' \subseteq {"node", "done"}
        /\ free' \in Seq(Nodes) /\ list' \in Seq(Nodes) /\ udp' \in Seq(Nodes)
        /\ tree' \subseteq Nodes /\ leaked' \subseteq Nodes
    BY <1>1, <1>2, <1>3 DEF Typed, TypeOK
  <2> QED BY <1>1, <1>2, <1>3, <2>1, FlowTypes
<1>5. Hands' BY <1>1, <1>2, <1>3 DEF Hands, Pos, Freeing
<1>6. ASSUME NEW n \in Nodes PROVE Places(n)' = 1
  BY <1>1, <1>2, <1>3 DEF Apart, Places, One
<1>7. UdpInTree' BY <1>1, <1>2 DEF UdpInTree, Once, Holds
<1> QED BY <1>1, <1>4, <1>5, <1>6, <1>7 DEF Apart

\* The node is given back at once, or after the flow it belongs to was changed.
LEMMA GiveBack ==
    ASSUME IInv, AtFlow("expire"),
           f' = [f EXCEPT !.pc = "free", !.victim = f.node, !.back = "pop", !.node = None],
           UNCHANGED <<now, free, overflow, list, tree, p, m, pending, leaked, missed>>,
           node' \in [Nodes -> NodeType],
           udp' \in Seq(Nodes), Once(udp'), \A n \in Nodes : Holds(udp', n) => Holds(udp, n)
    PROVE  IInv'
<1> USE NoneApart DEF IInv
<1>1. /\ f' \in FlowType /\ f'.pc = "free" /\ f'.node = None /\ f'.victim = f.node
      /\ f'.ended = f.ended /\ f'.back = "pop"
  BY InHand DEF Typed, FlowType, FlowPcs, SomeNode
<1>2. Typed'
  <2>1. /\ node' \in [Nodes -> NodeType] /\ overflow' \in BOOLEAN
        /\ pending' \subseteq {"packet", "flow", "main"} /\ missed' \subseteq {"node", "done"}
        /\ free' \in Seq(Nodes) /\ list' \in Seq(Nodes) /\ udp' \in Seq(Nodes)
        /\ tree' \subseteq Nodes /\ leaked' \subseteq Nodes
    BY <1>1 DEF Typed, TypeOK
  <2> QED BY <1>1, <2>1, FlowTypes
<1>3. Hands' BY <1>1, InHand DEF Hands, Pos, Freeing, None
<1>4. ASSUME NEW n \in Nodes PROVE Places(n)' = 1
  BY <1>1, InHand DEF Apart, Places, One
<1>5. UdpInTree' BY InHand DEF UdpInTree
<1> QED BY <1>2, <1>3, <1>4, <1>5 DEF Apart

LEMMA ProcessDirectStep == ASSUME IInv, ProcessDirect PROVE IInv'
<1>1. /\ AtFlow("expire")
      /\ f' = [f EXCEPT !.pc = "free", !.victim = f.node, !.back = "pop", !.node = None]
      /\ UNCHANGED <<now, free, overflow, node, list, tree, udp, p, m, pending, leaked, missed>>
  BY DEF ProcessDirect, pool
<1>2. node' \in [Nodes -> NodeType] /\ udp' \in Seq(Nodes) BY <1>1 DEF IInv, Typed, TypeOK
<1>3. Once(udp') /\ \A n \in Nodes : Holds(udp', n) => Holds(udp, n) BY <1>1, InHand
<1> QED BY <1>1, <1>2, <1>3, GiveBack

LEMMA ProcessKnownStep == ASSUME IInv, ProcessKnown PROVE IInv'
<1>1. PICK e \in Existing(node[f.node].kind) :
         /\ node' = [node EXCEPT ![e].packets = @ + 1, ![e].last = node[f.node].last]
         /\ \/ udp' = udp
            \/ \E i \in DOMAIN udp : udp[i] = e /\ udp' = Append(RemoveAt(udp, i), e)
  BY DEF ProcessKnown, TouchUDPNode
<1>2. /\ AtFlow("expire")
      /\ f' = [f EXCEPT !.pc = "free", !.victim = f.node, !.back = "pop", !.node = None]
      /\ UNCHANGED <<now, free, overflow, list, tree, p, m, pending, leaked, missed>>
  BY DEF ProcessKnown, pool
<1>3. e \in Nodes /\ f.node \in Nodes BY <1>1, <1>2, InHand DEF Existing, IInv, Typed, TypeOK
<1>4. node' \in [Nodes -> NodeType]
  <2>1. node[e].packets + 1 \in Int /\ node[f.node].last \in Int
    BY <1>3 DEF IInv, Typed, NodeType
  <2> QED BY <1>1, <1>3, <2>1 DEF IInv, Typed, NodeType
<1>5. /\ udp' \in Seq(Nodes) /\ Once(udp')
      /\ \A n \in Nodes : Holds(udp', n) => Holds(udp, n)
  <2>1. udp \in Seq(Nodes) /\ Once(udp) BY <1>2, InHand DEF IInv, Typed, TypeOK
  <2>2. CASE udp' = udp BY <2>1, <2>2
  <2>3. CASE \E i \in DOMAIN udp : udp[i] = e /\ udp' = Append(RemoveAt(udp, i), e)
    <3>1. PICK i \in DOMAIN udp : udp' = Append(RemoveAt(udp, i), udp[i]) BY <2>3
    <3> QED BY <2>1, <3>1, Touched
  <2> QED BY <1>1, <2>2, <2>3
<1> QED BY <1>2, <1>4, <1>5, GiveBack

LEMMA ProcessNewStep == ASSUME IInv, ProcessNew PROVE IInv'
<1> USE NoneApart DEF IInv
<1> DEFINE x == f.node
<1>1. /\ x \in Nodes /\ f.pc = "expire" /\ f.victim = None /\ f.back = None /\ ~f.ended
      /\ x \notin tree /\ Once(udp) /\ \A n \in Nodes : Holds(udp, n) => n \in tree
  BY InHand DEF ProcessNew
<1>2. /\ tree' = tree \cup {x} /\ (udp' = udp \/ udp' = Append(udp, x))
      /\ UNCHANGED <<now, free, overflow, node, list, p, m, pending, leaked, missed>>
  BY DEF ProcessNew, pool
<1>3. PICK pc \in {"flushFull", "pop"} : f' = [f EXCEPT !.node = None, !.pc = pc]
  BY DEF ProcessNew
<1>4. /\ f' \in FlowType /\ f'.pc = pc /\ f'.node = None /\ f'.victim = f.victim
      /\ f'.ended = f.ended /\ f'.back = f.back
  BY <1>3 DEF Typed, FlowType, FlowPcs, SomeNode
<1> HIDE DEF x
<1>5. /\ udp' \in Seq(Nodes) /\ Once(udp')
      /\ \A n \in Nodes : Holds(udp', n) => n \in tree'
  <2>1. udp \in Seq(Nodes) BY DEF Typed, TypeOK
  <2>2. CASE udp' = udp BY <1>1, <1>2, <2>1, <2>2
  <2>3. CASE udp' = Append(udp, x) BY <1>1, <1>2, <2>1, <2>3, Appended
  <2> QED BY <1>2, <2>2, <2>3
<1>6. Typed'
  <2>1. /\ node' \in [Nodes -> NodeType] /\ overflow' \in BOOLEAN
        /\ pending' \subseteq {"packet", "flow", "main"} /\ missed' \subseteq {"node", "done"}
        /\ free' \in Seq(Nodes) /\ list' \in Seq(Nodes) /\ udp' \in Seq(Nodes)
        /\ tree' \subseteq Nodes /\ leaked' \subseteq Nodes
    BY <1>1, <1>2, <1>4, <1>5 DEF Typed, TypeOK
  <2> QED BY <1>1, <1>2, <1>4, <1>5, <2>1, FlowTypes
<1>7. Hands' BY <1>1, <1>2, <1>4 DEF Hands, Pos, Freeing
<1>8. ASSUME NEW n \in Nodes PROVE Places(n)' = 1
  BY <1>1, <1>2, <1>4 DEF Apart, Places, One, x
<1>9. UdpInTree' BY <1>5 DEF UdpInTree
<1> QED BY <1>2, <1>6, <1>7, <1>8, <1>9 DEF Apart

LEMMA Stutter == ASSUME IInv, UNCHANGED vars PROVE IInv'
<1>1. UNCHANGED <<now, free, overflow, node, list, tree, udp, p, f, m, pending, leaked, missed>>
  BY DEF vars, pool
<1>2. Typed' BY <1>1 DEF IInv, Typed, TypeOK
<1>3. Hands' BY <1>1 DEF IInv, Hands, Pos
<1>4. Apart' BY <1>1, Unmoved DEF IInv
<1>5. UdpInTree' BY <1>1, UdpUnmoved DEF IInv, Pos
<1> QED BY <1>2, <1>3, <1>4, <1>5 DEF IInv

LEMMA Step == ASSUME IInv, [Next]_vars PROVE IInv'
<1>1. CASE PacketStep
  BY <1>1, PacketQuiet, TakeNodeStep, DecodeStep, PushStep DEF PacketStep
<1>2. CASE FlowStep
  <2>1. CASE Flush("flush") \/ Flush("flushFull") BY <2>1, FlushStep
  <2> QED BY <1>2, <2>1, FlowQuiet, PopNodeStep, FreePushStep, FreeWakeStep, CloseStep,
             OpenStep, ExpireStep, ProcessSignalStep, ProcessDirectStep, ProcessNewStep,
             ProcessKnownStep
          DEF FlowStep
<1>3. CASE MainStep \/ Stop BY <1>3, MainQuiet
<1>4. CASE Capture \/ Idle \/ Finish \/ Handler("packet") BY <1>4, PacketQuiet
<1>5. CASE Handler("flow") BY <1>5, FlowQuiet
<1>6. CASE UNCHANGED vars BY <1>6, Stutter
<1> QED BY <1>1, <1>2, <1>3, <1>4, <1>5, <1>6 DEF Next

-----------------------------------------------------------------------------
(* The start and the theorems                                              *)

\* The first free list has every node once.
LEMMA AllFree == /\ SetToSeq(Nodes) \in Seq(Nodes) /\ Once(SetToSeq(Nodes))
                 /\ \A n \in Nodes : Holds(SetToSeq(Nodes), n)
<1> DEFINE size == Cardinality(Nodes)
           q == SetToSeq(Nodes)
<1>1. size \in Nat /\ ExistsBijection(1..size, Nodes) /\ IsFiniteSet(Nodes)
  BY FS_CardinalityType, PcapAssumption
<1>2. \E b \in [1..size -> Nodes] : IsInjective(b)
  BY <1>1 DEF ExistsBijection, Bijection, Injection, IsInjective
<1>3. q \in [1..size -> Nodes] /\ IsInjective(q) BY <1>2 DEF SetToSeq
<1> HIDE DEF q
<1>4. q \in Injection(1..size, Nodes) BY <1>3 DEF Injection, IsInjective
<1>5. IsFiniteSet(1..size) /\ Cardinality(1..size) = size BY <1>1, FS_Interval
<1>6. q \in Surjection(1..size, Nodes) BY <1>1, <1>4, <1>5, FS_Injection
<1>7. DOMAIN q = 1..size /\ q \in Seq(Nodes) BY <1>1, <1>3
<1>8. Once(q) BY <1>3 DEF Once, IsInjective
<1>9. \A n \in Nodes : Holds(q, n) BY <1>6, <1>7 DEF Holds, Surjection
<1> QED BY <1>7, <1>8, <1>9 DEF q

LEMMA Start == Init => IInv
<1> SUFFICES ASSUME Init PROVE IInv
  OBVIOUS
<1> USE NoneApart
<1>1. free \in Seq(Nodes) /\ Once(free) /\ \A n \in Nodes : Holds(free, n)
  BY AllFree DEF Init
<1>2. list = << >> /\ udp = << >> /\ \A n : ~Holds(list, n) /\ ~Holds(udp, n)
  BY DEF Init, Holds
<1>3. Once(list) /\ Once(udp) BY <1>2 DEF Once
<1>4. /\ p.pc = "read" /\ p.node = None /\ f.pc = "pop" /\ f.node = None /\ f.victim = None
      /\ f.back = None /\ f.ended = FALSE
      /\ tree = {} /\ leaked = {} /\ pending = {} /\ missed = {}
      /\ m = "wait" /\ overflow = FALSE /\ now = Win
  BY DEF Init
<1>5. Typed
  <2>1. p \in PacketType BY DEF Init, PacketType, Kinds, SomeNode
  <2>2. f \in FlowType BY DEF Init, FlowType, FlowPcs, SomeNode
  <2>3. node \in [Nodes -> NodeType]
    <3>1. Blank \in NodeType BY DEF Blank, NodeType, Kinds
    <3> QED BY <3>1 DEF Init
  <2>4. << >> \in Seq(Nodes) OBVIOUS
  <2>5. now \in Int BY <1>4, PcapAssumption
  <2>6. TypeOK BY <1>1, <1>2, <1>4, <2>4 DEF TypeOK, FlowPcs
  <2> QED BY <2>1, <2>2, <2>3, <2>5, <2>6 DEF Typed
<1>6. Hands BY <1>4 DEF Hands, Pos, Freeing, None
<1>7. ASSUME NEW n \in Nodes PROVE Places(n) = 1
  BY <1>1, <1>2, <1>4 DEF Places, One
<1>8. UdpInTree BY <1>2, <1>3 DEF UdpInTree
<1> QED BY <1>1, <1>3, <1>5, <1>6, <1>7, <1>8 DEF IInv, Apart

\* How often a list has a node.
LEMMA CountOnce == ASSUME NEW q \in Seq(Nodes), Once(q), NEW n
                   PROVE  Cardinality({i \in DOMAIN q : q[i] = n}) = One(Holds(q, n))
<1>1. CASE Holds(q, n)
  <2>1. PICK i \in DOMAIN q : q[i] = n BY <1>1 DEF Holds
  <2>2. {j \in DOMAIN q : q[j] = n} = {i} BY <2>1 DEF Once
  <2> QED BY <1>1, <2>2, FS_Singleton DEF One
<1>2. CASE ~Holds(q, n)
  <2>1. {j \in DOMAIN q : q[j] = n} = {} BY <1>2 DEF Holds
  <2> QED BY <1>2, <2>1, FS_EmptySet DEF One
<1> QED BY <1>1, <1>2

LEMMA Owned == IInv => NodesOwned
<1> SUFFICES ASSUME IInv PROVE NodesOwned
  OBVIOUS
<1>1. TypeOK /\ free \in Seq(Nodes) /\ list \in Seq(Nodes) BY DEF IInv, Typed, TypeOK
<1>2. ASSUME NEW n \in Nodes PROVE Owners(n) = 1
  <2>1. /\ Cardinality({i \in DOMAIN free : free[i] = n}) = One(Holds(free, n))
        /\ Cardinality({i \in DOMAIN list : list[i] = n}) = One(Holds(list, n))
    BY <1>1, CountOnce DEF IInv, Apart
  <2>2. Places(n) = 1 BY DEF IInv, Apart
  <2> QED BY <2>1, <2>2 DEF Owners, Places
<1> QED BY <1>1, <1>2 DEF NodesOwned

\* The inductive invariant holds in every state.
THEOREM PoolSound == Spec => []IInv
BY Start, Step, PTL DEF Spec

\* Every node of the cache of nfpcapd is always in exactly one place: New_Node
\* and Free_Node never see a node in the wrong state, however the threads and
\* signals interleave.
THEOREM NodesKept == Spec => []NodesOwned
BY PoolSound, Owned, PTL

-----------------------------------------------------------------------------
(* The file and its block                                                  *)

BlockType == [flows : Int, packets : Int, slots : SUBSET Int]
FileType == [packets : Int, slots : SUBSET Int, block : BlockType]

\* The windows that the file and its block have packets of.
FileSlots == file.slots \cup file.block.slots

\* Without a failed call no packet is given up, no block is carried over, and a
\* file that was closed leaves nothing behind.
FInv == /\ file \in FileType /\ closed \in Int /\ lost \in Int /\ faults \in Nat
        /\ faults = 0 => /\ lost = 0 /\ carried = {}
                         /\ f.pc \in {"reopen", "ended"} => file = NoFile

LEMMA NoFileType == NoFile \in FileType
BY DEF NoFile, NoBlock, FileType, BlockType

LEMMA Written ==
    ASSUME NEW d \in FileType
    PROVE  /\ WriteBlock(d) \in FileType /\ WriteBlock(d).block = NoBlock
           /\ WriteBlock(d).packets = d.packets + d.block.packets
           /\ WriteBlock(d).slots = d.slots \cup d.block.slots
BY DEF WriteBlock, FileType, BlockType, NoBlock

\* A flow goes into the block, or is given up.
LEMMA StoreEffect ==
    ASSUME IInv, FInv, NEW n \in Nodes, Store(n)
    PROVE  /\ file' \in FileType /\ lost' \in Int /\ faults' \in Nat /\ carried' = carried
           /\ faults' = 0 => faults = 0 /\ lost' = lost
           /\ file'.packets + file'.block.packets + lost'
                 = file.packets + file.block.packets + lost + node[n].packets
           /\ FileSlots' \subseteq FileSlots \cup {Slot(node[n].first), Slot(node[n].last)}
<1>1. node[n].packets \in Int /\ Slot(node[n].first) \in Int /\ Slot(node[n].last) \in Int
  BY SlotIsInt DEF IInv, Typed, NodeType
<1>2. file \in FileType /\ lost \in Int /\ faults \in Nat BY DEF FInv
<1>3. carried' = carried BY DEF Store
<1>4. CASE /\ file' = [file EXCEPT !.block = AddFlow(file.block, n)]
           /\ UNCHANGED <<lost, faults>>
  BY <1>1, <1>2, <1>3, <1>4 DEF AddFlow, FileType, BlockType, FileSlots
<1>5. CASE /\ file' = [WriteBlock(file) EXCEPT !.block = AddFlow(WriteBlock(file).block, n)]
           /\ UNCHANGED <<lost, faults>>
  <2>1. PICK d \in FileType : /\ d = WriteBlock(file) /\ d.block = NoBlock
                              /\ d.packets = file.packets + file.block.packets
                              /\ d.slots = file.slots \cup file.block.slots
    BY <1>2, Written
  <2>2. file' = [d EXCEPT !.block = AddFlow(d.block, n)] BY <1>5, <2>1
  <2>3. d.block.flows = 0 /\ d.block.packets = 0 /\ d.block.slots = {}
    BY <2>1 DEF NoBlock
  <2>4. PICK b \in BlockType :
           /\ b = AddFlow(d.block, n)
           /\ b.packets = node[n].packets
           /\ b.slots = {Slot(node[n].first), Slot(node[n].last)}
    <3>1. AddFlow(d.block, n) = [flows   |-> 1,
                                 packets |-> node[n].packets,
                                 slots   |-> {Slot(node[n].first), Slot(node[n].last)}]
      <4>1. /\ d.block.flows + 1 = 1 /\ d.block.packets + node[n].packets = node[n].packets
            /\ d.block.slots \cup {Slot(node[n].first), Slot(node[n].last)}
                  = {Slot(node[n].first), Slot(node[n].last)}
        BY <1>1, <2>3
      <4> QED BY <4>1, Zenon DEF AddFlow
    <3> QED BY <1>1, <3>1 DEF BlockType
  <2>7. /\ file'.packets = d.packets /\ file'.slots = d.slots /\ file'.block = b
        /\ file' \in FileType
    BY <2>2, <2>4 DEF FileType
  <2>5. file'.packets + file'.block.packets + lost'
           = file.packets + file.block.packets + lost + node[n].packets
    BY <1>1, <1>2, <1>5, <2>1, <2>4, <2>7 DEF FileType, BlockType
  <2>6. FileSlots' \subseteq FileSlots \cup {Slot(node[n].first), Slot(node[n].last)}
    BY <2>1, <2>4, <2>7 DEF FileSlots
  <2> QED BY <1>2, <1>3, <1>5, <2>5, <2>6, <2>7
<1>6. CASE Allowed(1) /\ lost' = lost + node[n].packets /\ UNCHANGED file
  <2>1. faults' = faults + 1 BY <1>6 DEF Allowed
  <2>2. FileSlots' = FileSlots BY <1>6 DEF FileSlots
  <2> QED BY <1>1, <1>2, <1>3, <1>6, <2>1, <2>2 DEF FileType, BlockType
<1> QED BY <1>4, <1>5, <1>6 DEF Store

\* The file is closed, with its block or without it, and renamed or not.
LEMMA CloseEffect ==
    ASSUME FInv, Close
    PROVE  /\ file' \in FileType /\ closed' \in Int /\ lost' \in Int /\ faults' \in Nat
           /\ Settled' = Settled /\ FileSlots' \subseteq FileSlots /\ carried' = carried
           /\ faults' = 0 => faults = 0 /\ lost' = lost /\ file' = NoFile
<1>1. file \in FileType /\ closed \in Int /\ lost \in Int /\ faults \in Nat BY DEF FInv
<1>2. PICK write \in BOOLEAN, rename \in BOOLEAN :
         LET d == IF write THEN WriteBlock(file) ELSE file
             left == IF rename THEN [NoFile EXCEPT !.block = d.block] ELSE d
         IN /\ Allowed(Faults(write) + Faults(rename))
            /\ closed' = IF rename THEN closed + d.packets ELSE closed
            /\ IF f.ended THEN Dispose(left) ELSE file' = left /\ UNCHANGED lost
  BY DEF Close
<1>3. PICK d \in FileType : /\ d = IF write THEN WriteBlock(file) ELSE file
                            /\ d.packets + d.block.packets = file.packets + file.block.packets
                            /\ d.slots \cup d.block.slots = file.slots \cup file.block.slots
                            /\ write => d.block = NoBlock
  <2>1. CASE write
    <3>1. NoBlock.packets = 0 /\ NoBlock.slots = {} BY DEF NoBlock
    <3>2. WriteBlock(file).packets \in Int BY <1>1, Written DEF FileType
    <3> QED BY <1>1, <2>1, <3>1, <3>2, Written
  <2>2. CASE ~write BY <1>1, <2>2
  <2> QED BY <2>1, <2>2
<1>4. PICK left \in FileType : /\ left = IF rename THEN [NoFile EXCEPT !.block = d.block] ELSE d
                               /\ left.block = d.block
                               /\ rename => left.packets = 0 /\ left.slots = {}
  <2>1. [NoFile EXCEPT !.block = d.block] \in FileType
    BY <1>3, NoFileType DEF FileType
  <2>2. /\ [NoFile EXCEPT !.block = d.block].block = d.block
        /\ [NoFile EXCEPT !.block = d.block].packets = 0
        /\ [NoFile EXCEPT !.block = d.block].slots = {}
    BY DEF NoFile
  <2> QED BY <1>3, <2>1, <2>2
<1>5. /\ closed' = IF rename THEN closed + d.packets ELSE closed
      /\ IF f.ended THEN Dispose(left) ELSE file' = left /\ UNCHANGED lost
      /\ faults' = faults + (Faults(write) + Faults(rename))
      /\ carried' = carried
  BY <1>2, <1>3, <1>4 DEF Allowed, Close
<1>6. d.packets \in Int /\ d.block.packets \in Int /\ left.packets \in Int
  BY DEF FileType, BlockType
<1>7. closed' \in Int /\ closed' + left.packets = closed + d.packets
  <2>1. CASE rename BY <1>1, <1>4, <1>5, <1>6, <2>1
  <2>2. CASE ~rename BY <1>1, <1>4, <1>5, <1>6, <2>2
  <2> QED BY <2>1, <2>2
<1>8. left.slots \cup left.block.slots \subseteq file.slots \cup file.block.slots
  <2>1. CASE rename BY <1>3, <1>4, <2>1
  <2>2. CASE ~rename BY <1>3, <1>4, <2>2
  <2> QED BY <2>1, <2>2
<1>9. /\ file' \in FileType /\ lost' \in Int /\ file'.packets = left.packets
      /\ file'.slots \cup file'.block.slots \subseteq left.slots \cup left.block.slots
      /\ file'.block.packets + lost' = d.block.packets + lost
      /\ \/ file' = left /\ lost' = lost
         \/ file' = [left EXCEPT !.block = NoBlock] /\ lost' = lost + left.block.packets
  <2>1. CASE f.ended
    <3>1. file' = [left EXCEPT !.block = NoBlock] /\ lost' = lost + left.block.packets
      BY <1>5, <2>1 DEF Dispose
    <3>2. NoBlock \in BlockType /\ NoBlock.packets = 0 /\ NoBlock.slots = {}
      BY DEF NoBlock, BlockType
    <3>3. /\ file' \in FileType /\ file'.packets = left.packets /\ file'.slots = left.slots
          /\ file'.block = NoBlock
      BY <3>1, <3>2 DEF FileType
    <3>4. lost' \in Int /\ file'.block.packets + lost' = d.block.packets + lost
      BY <1>1, <1>4, <1>6, <3>1, <3>2, <3>3
    <3> QED BY <3>1, <3>2, <3>3, <3>4
  <2>2. CASE ~f.ended BY <1>1, <1>4, <1>5, <1>6, <2>2
  <2> QED BY <2>1, <2>2
<1>10. faults' \in Nat /\ (faults' = 0 => faults = 0 /\ write /\ rename)
  BY <1>1, <1>5 DEF Faults
<1>11. ASSUME faults' = 0 PROVE lost' = lost /\ file' = NoFile
  <2>1. write /\ rename BY <1>10, <1>11
  <2>2. left = [NoFile EXCEPT !.block = NoBlock] BY <1>3, <1>4, <2>1
  <2>3. left = NoFile /\ NoFile.block = NoBlock BY <2>2 DEF NoFile
  <2>4. NoBlock.packets = 0 /\ [NoFile EXCEPT !.block = NoBlock] = NoFile
    BY DEF NoBlock, NoFile
  <2> QED BY <1>1, <1>9, <2>3, <2>4
<1>12. Settled' = Settled
  <2>1. /\ file.packets \in Int /\ file.block.packets \in Int
        /\ file'.packets \in Int /\ file'.block.packets \in Int
    BY <1>1, <1>9 DEF FileType, BlockType
  <2>2. closed' + file'.packets = closed + d.packets BY <1>7, <1>9
  <2>3. /\ file'.block.packets + lost' = d.block.packets + lost
        /\ d.packets + d.block.packets = file.packets + file.block.packets
        /\ lost' \in Int
    BY <1>3, <1>9
  <2> QED BY <1>1, <1>6, <1>7, <2>1, <2>2, <2>3 DEF Settled
<1>13. FileSlots' \subseteq FileSlots BY <1>8, <1>9 DEF FileSlots
<1> QED BY <1>5, <1>7, <1>9, <1>10, <1>11, <1>12, <1>13

\* The next file begins with the block of the old one.
LEMMA OpenEffect ==
    ASSUME FInv, Open
    PROVE  /\ file' \in FileType /\ closed' \in Int /\ lost' \in Int /\ faults' = faults
           /\ Settled' = Settled /\ FileSlots' = carried'
           /\ faults' = 0 => faults = 0 /\ lost' = lost /\ carried' = {}
<1>1. /\ file \in FileType /\ closed \in Int /\ lost \in Int /\ faults \in Nat
      /\ faults = 0 => file = NoFile
  BY DEF FInv, Open, AtFlow
<1>2. /\ file' = [NoFile EXCEPT !.block = file.block] /\ lost' = lost + file.packets
      /\ carried' = file.block.slots /\ closed' = closed /\ faults' = faults
  BY DEF Open
<1>3. file'.packets = 0 /\ file'.slots = {} /\ file'.block = file.block
  BY <1>2 DEF NoFile
<1>4. file' \in FileType BY <1>1, <1>2, NoFileType DEF FileType
<1>5. file.packets \in Int /\ file.block.packets \in Int BY <1>1 DEF FileType, BlockType
<1>6. lost' \in Int /\ Settled' = Settled BY <1>1, <1>2, <1>3, <1>5 DEF Settled
<1>7. FileSlots' = carried' BY <1>2, <1>3 DEF FileSlots
<1>8. faults' = 0 => faults = 0 /\ lost' = lost /\ carried' = {}
  <2>1. NoFile.packets = 0 /\ NoFile.block.slots = {} BY DEF NoFile, NoBlock
  <2> QED BY <1>1, <1>2, <2>1
<1> QED BY <1>1, <1>2, <1>4, <1>6, <1>7, <1>8

LEMMA FailEffect ==
    ASSUME FInv, OpenFails
    PROVE  /\ file' \in FileType /\ closed' \in Int /\ lost' \in Int
           /\ faults' \in Nat \ {0} /\ carried' = carried
           /\ Settled' = Settled /\ FileSlots' \subseteq FileSlots
<1>1. file \in FileType /\ closed \in Int /\ lost \in Int /\ faults \in Nat BY DEF FInv
<1>2. closed' = closed /\ carried' = carried /\ faults' = faults + 1
  BY DEF OpenFails, Allowed
<1>3. /\ file.packets \in Int /\ file.block.packets \in Int
      /\ NoBlock \in BlockType /\ NoBlock.packets = 0 /\ NoBlock.slots = {}
  BY <1>1 DEF FileType, BlockType, NoBlock
<1>4. CASE Dispose(file)
  <2>1. /\ file'.packets = file.packets /\ file'.slots = file.slots /\ file'.block = NoBlock
        /\ file' \in FileType /\ lost' = lost + file.block.packets
    BY <1>1, <1>3, <1>4 DEF Dispose, FileType
  <2>2. lost' \in Int /\ Settled' = Settled BY <1>1, <1>2, <1>3, <2>1 DEF Settled
  <2>3. FileSlots' \subseteq FileSlots BY <1>3, <2>1 DEF FileSlots
  <2> QED BY <1>1, <1>2, <2>1, <2>2, <2>3
<1>5. CASE file' = NoFile /\ lost' = lost + file.packets + file.block.packets
  <2>1. file'.packets = 0 /\ file'.slots = {} /\ file'.block = NoBlock BY <1>5 DEF NoFile
  <2>2. lost' \in Int /\ Settled' = Settled BY <1>1, <1>2, <1>3, <1>5, <2>1 DEF Settled
  <2>3. FileSlots' \subseteq FileSlots BY <1>3, <2>1 DEF FileSlots
  <2> QED BY <1>1, <1>2, <1>5, <2>2, <2>3, NoFileType
<1> QED BY <1>4, <1>5 DEF OpenFails

LEMMA FStart == Init => FInv
BY NoFileType DEF Init, FInv

\* Steps that leave the file and the counters alone.
LEMMA FQuiet ==
    ASSUME FInv, UNCHANGED <<file, closed, lost, carried, faults>>,
           f'.pc \in {"reopen", "ended"} => f.pc = f'.pc
    PROVE  FInv'
BY DEF FInv, FileType, BlockType

\* Steps that store a flow.
LEMMA FStored ==
    ASSUME IInv, FInv, NEW n \in Nodes, Store(n), closed' = closed, f'.pc = "free"
    PROVE  FInv'
<1>1. /\ file' \in FileType /\ lost' \in Int /\ faults' \in Nat /\ carried' = carried
      /\ faults' = 0 => faults = 0 /\ lost' = lost
  BY StoreEffect
<1> QED BY <1>1 DEF FInv

LEMMA FFlow == ASSUME IInv, FInv, FlowStep PROVE FInv'
<1>1. f \in FlowType BY DEF IInv, Typed
<1>2. CASE \/ PopNode \/ PopNull \/ TestDone \/ AwaitList \/ FreePush \/ FreeTest \/ FreeWake
           \/ Flushed("flush", "close") \/ Flushed("flushFull", "pop")
           \/ ProcessSignal \/ ProcessNew \/ ProcessKnown
  <2>1. UNCHANGED <<file, closed, lost, carried, faults>>
    BY <1>2 DEF PopNode, PopNull, TestDone, AwaitList, FreePush, FreeTest, FreeWake,
       Flushed, ProcessSignal, ProcessNew, ProcessKnown
  <2>2. f'.pc \notin {"reopen", "ended"}
    <3>1. CASE PopNode \/ PopNull \/ TestDone \/ AwaitList \/ FreePush
      <4>1. CASE PopNode
        <5>1. \E pc \in {"flush", "expire"} : \E n, t, start :
                 f' = [f EXCEPT !.pc = pc, !.node = n, !.clock = t, !.start = start]
          BY <4>1, Zenon DEF PopNode
        <5> QED BY <1>1, <5>1 DEF FlowType
      <4>2. CASE PopNull BY <1>1, <4>2 DEF PopNull, FlowType
      <4>3. CASE TestDone \/ AwaitList BY <1>1, <4>3 DEF TestDone, AwaitList, FlowType
      <4>4. CASE FreePush BY <1>1, <4>4 DEF FreePush, FlowType
      <4> QED BY <3>1, <4>1, <4>2, <4>3, <4>4
    <3>2. CASE FreeTest \/ FreeWake
      <4>1. f.back \in {"pop", "expire", "flush", "flushFull"}
        BY <3>2 DEF FreeTest, FreeWake, AtFlow, IInv, Hands, Freeing, Typed, FlowType
      <4>2. CASE FreeTest
        <5>1. CASE overflow BY <1>1, <4>2, <5>1 DEF FreeTest, FlowType
        <5>2. CASE ~overflow
          <6>1. f'.pc = f.back BY <1>1, <4>2, <5>2 DEF FreeTest, FlowType
          <6> QED BY <4>1, <6>1
        <5> QED BY <5>1, <5>2
      <4>3. CASE FreeWake
        <5>1. f'.pc = f.back BY <1>1, <4>3 DEF FreeWake, FlowType
        <5> QED BY <4>1, <5>1
      <4> QED BY <3>2, <4>2, <4>3
    <3>3. CASE Flushed("flush", "close") \/ Flushed("flushFull", "pop")
      BY <1>1, <3>3 DEF Flushed, FlowType
    <3>4. CASE ProcessSignal \/ ProcessNew \/ ProcessKnown
      BY <1>1, <3>4 DEF ProcessSignal, ProcessNew, ProcessKnown, FlowType
    <3> QED BY <1>2, <3>1, <3>2, <3>3, <3>4
  <2> QED BY <2>1, <2>2, FQuiet
<1>3. ASSUME NEW pc \in {"flush", "flushFull"}, Flush(pc) PROVE FInv'
  <2>1. PICK x \in tree : Store(x) /\ FreeThen(x, pc) /\ closed' = closed BY <1>3 DEF Flush
  <2>2. x \in Nodes BY <2>1 DEF IInv, Typed, TypeOK
  <2>3. f'.pc = "free" BY <1>1, <2>1 DEF FreeThen, FlowType
  <2> QED BY <2>1, <2>2, <2>3, FStored
<1>4. CASE Expire
  <2>1. /\ Store(Head(udp)) /\ FreeThen(Head(udp), "expire") /\ closed' = closed
        /\ udp \in Seq(Nodes) /\ udp # <<>>
    BY <1>4 DEF Expire, Expired, IInv, Typed, TypeOK
  <2>2. Head(udp) \in Nodes BY <2>1, TailOf
  <2>3. f'.pc = "free" BY <1>1, <2>1 DEF FreeThen, FlowType
  <2> QED BY <2>1, <2>2, <2>3, FStored
<1>5. CASE ProcessDirect
  <2>1. f.node \in Nodes BY <1>5, InHand DEF ProcessDirect
  <2>2. Store(f.node) /\ closed' = closed /\ f'.pc = "free"
    BY <1>1, <1>5 DEF ProcessDirect, FlowType
  <2> QED BY <2>1, <2>2, FStored
<1>6. CASE Close BY <1>6, CloseEffect DEF FInv
<1>7. CASE Open
  <2>1. f'.pc = "expire" BY <1>1, <1>7 DEF Open, FlowType
  <2> QED BY <1>7, <2>1, OpenEffect DEF FInv
<1>8. CASE OpenFails BY <1>8, FailEffect DEF FInv
<1> QED BY <1>2, <1>3, <1>4, <1>5, <1>6, <1>7, <1>8 DEF FlowStep

LEMMA FStep == ASSUME IInv, FInv, [Next]_vars PROVE FInv'
<1>1. CASE FlowStep BY <1>1, FFlow
<1>2. CASE \/ Capture \/ Idle \/ Finish \/ PacketStep \/ Handler("packet") \/ Handler("flow")
           \/ Stop \/ MainStep \/ UNCHANGED vars
  <2>1. UNCHANGED <<file, closed, lost, carried, faults>>
    BY <1>2 DEF Capture, Idle, Finish, PacketStep, TakeNode, NoNode, AwaitNode, Decode, Push,
       Notify, Handler, Stop, MainStep, KillPacket, JoinPacket, KillFlow, WakeFlow, JoinFlow, vars
  <2>2. f'.pc \in {"reopen", "ended"} => f'.pc = f.pc
    BY <1>2 DEF Capture, Idle, Finish, PacketStep, TakeNode, NoNode, AwaitNode, Decode, Push,
       Notify, Handler, Stop, MainStep, KillPacket, JoinPacket, KillFlow, WakeFlow, JoinFlow, vars,
       IInv, Typed, FlowType
  <2> QED BY <2>1, <2>2, FQuiet
<1> QED BY <1>1, <1>2 DEF Next

\* What is known of the file.
THEOREM FileSound == Spec => [](IInv /\ FInv)
<1>1. Init => IInv /\ FInv BY Start, FStart
<1>2. IInv /\ FInv /\ [Next]_vars => (IInv /\ FInv)'
  BY Step, FStep
<1> QED BY <1>1, <1>2, PTL DEF Spec

-----------------------------------------------------------------------------
(* Windows and the order of UDP_list                                       *)

LEMMA WinIsNat == Win \in Nat \ {0}
BY PcapAssumption

LEMMA Grow == ASSUME NEW i \in Int, NEW j \in Int, i < j PROVE Win * i + Win <= Win * j
<1>1. PICK d \in Nat : j = i + 1 + d BY j - i - 1 \in Nat, j = i + 1 + (j - i - 1)
<1>2. Win * j = Win * i + Win + Win * d BY <1>1, WinIsNat
<1>3. Win * d \in Nat BY <1>1, WinIsNat
<1>4. Win * i \in Int /\ Win * j \in Int BY WinIsNat
<1> QED BY <1>2, <1>3, <1>4, WinIsNat

\* A slot is the last multiple of Win that is not behind t, ...
LEMMA SlotOf == ASSUME NEW t \in Int
                PROVE  /\ Slot(t) \in Int /\ t \div Win \in Int /\ Slot(t) = Win * (t \div Win)
                       /\ Slot(t) <= t /\ t - Slot(t) < Win
<1>1. /\ t \div Win \in Int /\ t % Win \in 0..(Win - 1)
      /\ t = Win * (t \div Win) + (t % Win)
  BY WinIsNat
<1> QED BY <1>1, WinIsNat DEF Slot

\* ... and the only one.
LEMMA SlotUnique == ASSUME NEW k \in Int, NEW t \in Int, Win * k <= t, t - Win * k < Win
                    PROVE  Slot(t) = Win * k
<1> DEFINE q == t \div Win
<1>1. q \in Int /\ Win * q \in Int /\ Win * k \in Int BY SlotOf, WinIsNat
<1>2. Slot(t) = Win * q /\ Slot(t) <= t /\ t - Slot(t) < Win BY SlotOf
<1> HIDE DEF q
<1>3. ~(k < q) BY <1>1, <1>2, Grow, WinIsNat
<1>4. ~(q < k) BY <1>1, <1>2, Grow, WinIsNat
<1>5. q = k BY <1>1, <1>3, <1>4
<1> QED BY <1>2, <1>5

\* The times of a window have its slot.
LEMMA SameSlot == ASSUME NEW s \in Int, NEW t \in Int, Slot(s) = s, s <= t, t - s < Win
                  PROVE  Slot(t) = s
<1>1. s \div Win \in Int /\ s = Win * (s \div Win) BY SlotOf
<1> QED BY <1>1, SlotUnique

LEMMA SlotOfSlot == ASSUME NEW t \in Int PROVE Slot(Slot(t)) = Slot(t)
<1> DEFINE k == t \div Win
<1>1. k \in Int /\ Slot(t) = Win * k /\ Slot(t) \in Int BY SlotOf
<1> HIDE DEF k
<1>2. Slot(t) - Win * k = 0 BY <1>1
<1> QED BY <1>1, <1>2, SlotUnique, WinIsNat

\* The order of a list from which an element went to the end.
LEMMA TouchedOrder ==
    ASSUME NEW q \in Seq(Nodes), NEW i \in DOMAIN q
    PROVE  LET r == Append(RemoveAt(q, i), q[i]) IN
           /\ \A a, b \in DOMAIN r : a < b =>
                 \E c, d \in DOMAIN q : /\ r[a] = q[c] /\ c # i
                                        /\ \/ r[b] = q[i]
                                           \/ r[b] = q[d] /\ c < d /\ d # i
           /\ \A n \in Nodes : Holds(q, n) => Holds(r, n)
<1> DEFINE d == RemoveAt(q, i)
           r == Append(d, q[i])
           Old(j) == IF j < i THEN j ELSE j + 1
<1>1. /\ d \in Seq(Nodes) /\ Len(d) = Len(q) - 1 /\ DOMAIN d = 1..(Len(q) - 1)
      /\ \A j \in DOMAIN d : d[j] = q[Old(j)]
      /\ Len(q) \in Nat /\ DOMAIN q = 1..Len(q) /\ i \in 1..Len(q)
  BY Removed
<1> HIDE DEF d
<1>2. /\ Len(d) = Len(q) - 1 /\ DOMAIN r = 1..Len(q) /\ r[Len(q)] = q[i]
      /\ \A j \in DOMAIN d : r[j] = d[j]
  BY <1>1
<1> HIDE DEF r
<1>3. \A j \in DOMAIN d : Old(j) \in DOMAIN q /\ Old(j) # i /\ r[j] = q[Old(j)]
  BY <1>1, <1>2
<1>4. \A j, l \in DOMAIN d : j < l => Old(j) < Old(l) BY <1>1
<1> HIDE DEF Old
<1>5. ASSUME NEW a \in DOMAIN r, NEW b \in DOMAIN r, a < b
      PROVE  \E c, e \in DOMAIN q : /\ r[a] = q[c] /\ c # i
                                    /\ \/ r[b] = q[i]
                                       \/ r[b] = q[e] /\ c < e /\ e # i
  <2>1. a \in DOMAIN d BY <1>1, <1>2, <1>5
  <2>2. CASE b = Len(q) BY <1>2, <1>3, <2>1, <2>2
  <2>3. CASE b # Len(q)
    <3>1. b \in DOMAIN d BY <1>1, <1>2, <2>3
    <3> QED BY <1>3, <1>4, <1>5, <2>1, <3>1
  <2> QED BY <2>2, <2>3
<1>6. ASSUME NEW j \in DOMAIN q PROVE \E l \in DOMAIN r : r[l] = q[j]
  <2>1. CASE j = i BY <1>1, <1>2, <2>1
  <2>2. CASE j < i
    <3>1. j \in DOMAIN d /\ Old(j) = j BY <1>1, <2>2 DEF Old
    <3> QED BY <1>1, <1>2, <1>3, <3>1
  <2>3. CASE j > i
    <3>1. j - 1 \in DOMAIN d /\ Old(j - 1) = j BY <1>1, <2>3 DEF Old
    <3> QED BY <1>1, <1>2, <1>3, <3>1
  <2> QED BY <1>1, <2>1, <2>2, <2>3
<1>7. \A n \in Nodes : Holds(q, n) => Holds(r, n) BY <1>6 DEF Holds
<1> QED BY <1>5, <1>7 DEF r, d

\* A slot that is not before the first window is not zero.
LEMMA SlotNat == ASSUME NEW t \in Nat
                 PROVE  /\ Slot(t) \in 0..t
                        /\ Win <= t => Slot(t) # 0
<1> DEFINE k == t \div Win
<1>1. /\ k \in Int /\ Slot(t) = Win * k /\ Slot(t) <= t /\ t - Slot(t) < Win
      /\ Slot(t) \in Int
  BY SlotOf
<1> HIDE DEF k
<1>2. ~(k < 0)
  <2> SUFFICES ASSUME k < 0 PROVE FALSE
    OBVIOUS
  <2>1. Win * k + Win <= Win * 0 BY <1>1, Grow
  <2> QED BY <1>1, <2>1, WinIsNat
<1>3. ASSUME Win <= t PROVE Slot(t) # 0
  <2>1. ~(k < 1)
    <3> SUFFICES ASSUME k < 1 PROVE FALSE
      OBVIOUS
    <3>1. Win * k + Win <= Win * 1 BY <1>1, Grow
    <3> QED BY <1>1, <1>3, <3>1, WinIsNat
  <2>2. Win * 0 + Win <= Win * k BY <1>1, <2>1, Grow
  <2> QED BY <1>1, <2>2, WinIsNat
<1>4. Win * k >= 0
  <2>1. CASE k = 0 BY <2>1, WinIsNat
  <2>2. CASE 0 < k
    <3>1. Win * 0 + Win <= Win * k BY <1>1, <2>2, Grow
    <3> QED BY <3>1, <1>1, WinIsNat
  <2> QED BY <1>1, <1>2, <2>1, <2>2
<1> QED BY <1>1, <1>3, <1>4

-----------------------------------------------------------------------------
(* The invariant of the windows                                            *)

\* A node on its way from the packet thread to the tree: it has one packet, or
\* none, of one second.
Fresh(n) == node[n].first = node[n].last /\ Win <= node[n].last

\* Packets come to the flow thread in the order of their time, which is never
\* before its clock.
Ordered ==
    /\ Win <= now /\ f.clock \in 0..now
    /\ p.pc = "push" => Fresh(p.node) /\ node[p.node].last = now
    /\ \A i \in DOMAIN list : Fresh(list[i]) /\ node[list[i]].last \in f.clock..now
    /\ \A i, j \in DOMAIN list : i < j => node[list[i]].last <= node[list[j]].last
    /\ f.node # None => Fresh(f.node) /\ node[f.node].last = f.clock

\* What is in the tree and in the file is of the window the file began with, or was
\* carried over.
InWindow ==
    /\ f.start \in 0..f.clock /\ Slot(f.start) = f.start
    /\ f.start = 0 => tree = {} /\ FileSlots = {}
    /\ Pos = "expire" => Slot(f.clock) = f.start
    /\ Pos \in {"close", "reopen"} => tree = {}
    /\ FileSlots \subseteq {f.start} \cup carried
    /\ \A n \in tree : /\ Slot(node[n].first) = f.start /\ Slot(node[n].last) = f.start
                       /\ node[n].last <= f.clock
    /\ \A n, o \in tree : node[n].kind = node[o].kind => n = o

\* UDP_list has the UDP flows of the tree, the silent ones first.
UdpSorted == Pos \notin {"flush", "flushFull"} =>
    /\ \A n \in Nodes : Holds(udp, n) <=> n \in tree /\ node[n].kind \in UdpKeys
    /\ \A i, j \in DOMAIN udp : i < j => node[udp[i]].last <= node[udp[j]].last

WInv == Ordered /\ InWindow /\ UdpSorted

USE DEF FileSlots

-----------------------------------------------------------------------------
(* The steps                                                               *)

\* The places of a node exclude each other.
LEMMA Exclusive ==
    ASSUME IInv, NEW n \in Nodes
    PROVE  /\ Holds(free, n) => /\ ~Holds(list, n) /\ n \notin tree /\ n \notin leaked
                                /\ p.node # n /\ f.node # n /\ f.victim # n
           /\ Holds(list, n) => /\ n \notin tree /\ n \notin leaked
                                /\ p.node # n /\ f.node # n /\ f.victim # n
           /\ n \in tree => n \notin leaked /\ p.node # n /\ f.node # n /\ f.victim # n
           /\ n \in leaked => p.node # n /\ f.node # n /\ f.victim # n
           /\ p.node = n => f.node # n /\ f.victim # n
           /\ f.node = n => f.victim # n
BY DEF IInv, Apart, Places, One

\* The types the steps need.
LEMMA WTypes ==
    ASSUME IInv
    PROVE  /\ now \in Int /\ f.clock \in Int /\ f.start \in Int
           /\ \A n \in Nodes : node[n].first \in Int /\ node[n].last \in Int
           /\ list \in Seq(Nodes) /\ DOMAIN list \subseteq Int
           /\ \A i \in DOMAIN list : list[i] \in Nodes /\ Holds(list, list[i])
           /\ udp \in Seq(Nodes) /\ DOMAIN udp \subseteq Int
           /\ \A i \in DOMAIN udp : udp[i] \in Nodes /\ Holds(udp, udp[i])
           /\ tree \subseteq Nodes
           /\ f.node # None => f.node \in Nodes
           /\ p.pc = "push" => p.node \in Nodes
<1>1. /\ now \in Int /\ f.clock \in Int /\ f.start \in Int
      /\ \A n \in Nodes : node[n].first \in Int /\ node[n].last \in Int
      /\ tree \subseteq Nodes /\ list \in Seq(Nodes) /\ udp \in Seq(Nodes)
      /\ f.node # None => f.node \in Nodes
  BY DEF IInv, Typed, TypeOK, FlowType, NodeType, SomeNode
<1>2. p.pc = "push" => p.node \in Nodes
  BY DEF IInv, Typed, Hands, PacketType, SomeNode
<1>3. ASSUME NEW q \in Seq(Nodes)
      PROVE  /\ DOMAIN q \subseteq Int
             /\ \A i \in DOMAIN q : q[i] \in Nodes /\ Holds(q, q[i])
  BY DEF Holds
<1> QED BY <1>1, <1>2, <1>3

\* Steps that leave the flows and the list of nodes alone.
LEMMA WQuiet ==
    ASSUME IInv, WInv, UNCHANGED <<node, list, tree, udp>>,
           FileSlots' = FileSlots, carried' = carried, now' \in Int, now <= now',
           p'.pc = "push" => p.pc = "push" /\ p'.node = p.node /\ now' = now,
           f'.node \in {f.node, None}, f'.clock = f.clock, f'.start = f.start,
           Pos' \in {"expire", "close", "reopen"} => Pos' = Pos,
           Pos' \notin {"flush", "flushFull"} => Pos \notin {"flush", "flushFull"}
    PROVE  WInv'
<1>1. Ordered'
  <2>1. /\ Win <= now' /\ f'.clock \in 0..now' /\ f.clock \in Int /\ now \in Int /\ Win \in Int
    BY WTypes, WinIsNat DEF WInv, Ordered
  <2>2. p'.pc = "push" => Fresh(p.node)' /\ (node[p.node].last = now)'
    BY DEF WInv, Ordered, Fresh
  <2>3. ASSUME NEW i \in DOMAIN list'
        PROVE  Fresh(list[i])' /\ node'[list'[i]].last \in f'.clock..now'
    <3>1. i \in DOMAIN list /\ list[i] \in Nodes /\ node[list[i]].last \in Int BY <2>3, WTypes
    <3>2. Fresh(list[i]) /\ node[list[i]].last \in f.clock..now BY <3>1 DEF WInv, Ordered
    <3> QED BY <2>1, <3>1, <3>2 DEF Fresh
  <2>4. \A i, j \in DOMAIN list' : i < j => node'[list'[i]].last <= node'[list'[j]].last
    BY DEF WInv, Ordered
  <2>5. f'.node # None => Fresh(f.node)' /\ node'[f'.node].last = f'.clock
    BY DEF WInv, Ordered, Fresh
  <2> QED BY <2>1, <2>2, <2>3, <2>4, <2>5 DEF Ordered
<1>2. InWindow'
  BY DEF WInv, InWindow, Slot
<1>3. UdpSorted'
  BY DEF WInv, UdpSorted, Holds
<1> QED BY <1>1, <1>2, <1>3 DEF WInv

\* The packet thread fills its node, or gives it up.
LEMMA WDecode == ASSUME IInv, WInv, Decode PROVE WInv'
<1> USE NoneApart
<1> DEFINE n == p.node
<1>1. n \in Nodes /\ p.pc = "decode"
  BY DEF Decode, IInv, Hands, Typed, PacketType, SomeNode
<1>2. UNCHANGED <<now, list, tree, udp, f, m, pending, file, carried>> /\ now \in Int
  BY WTypes DEF Decode
<1>3. CASE node' = node /\ p' = [p EXCEPT !.pc = "read", !.node = None, !.kind = None]
  <2>1. p'.pc = "read" BY <1>3 DEF IInv, Typed, PacketType
  <2> QED BY <1>2, <1>3, <2>1, WQuiet DEF Pos
<1>4. CASE /\ node' = [node EXCEPT ![n] = [kind |-> p.kind, first |-> now, last |-> now,
                                           packets |-> IF p.kind = "signal" THEN 0 ELSE 1]]
           /\ p' = [p EXCEPT !.pc = "push"]
  <2>1. /\ \A o \in Nodes : o # n => node'[o] = node[o]
        /\ node'[n].first = now /\ node'[n].last = now
        /\ p'.node = n
    BY <1>1, <1>4 DEF IInv, Typed, PacketType
  <2>2. /\ ~Holds(list, n) /\ n \notin tree /\ f.node # n
    BY <1>1, Exclusive
  <2>3. Ordered'
    <3>1. Fresh(p.node)' /\ node'[p'.node].last = now'
      BY <1>2, <2>1 DEF WInv, Ordered, Fresh
    <3>2. ASSUME NEW i \in DOMAIN list PROVE list[i] \in Nodes /\ node'[list[i]] = node[list[i]]
      BY <2>1, <2>2, WTypes
    <3>3. f.node # None => node'[f.node] = node[f.node]
      BY <2>1, <2>2, WTypes
    <3> QED BY <1>2, <3>1, <3>2, <3>3 DEF WInv, Ordered, Fresh
  <2>4. ASSUME NEW o \in tree PROVE node'[o] = node[o]
    BY <2>1, <2>2, WTypes
  <2>5. InWindow' BY <1>2, <2>4 DEF WInv, InWindow, Slot, Pos
  <2>6. UdpSorted'
    <3> SUFFICES ASSUME Pos' \notin {"flush", "flushFull"} PROVE UdpSorted'
      BY DEF UdpSorted
    <3>1. Pos \notin {"flush", "flushFull"} BY <1>2 DEF Pos
    <3>2. \A o \in Nodes : Holds(udp', o) <=> o \in tree' /\ node'[o].kind \in UdpKeys
      BY <1>2, <2>4, <3>1 DEF WInv, UdpSorted, Holds
    <3>3. ASSUME NEW i \in DOMAIN udp PROVE node'[udp[i]] = node[udp[i]]
      BY <2>4, <3>1, WTypes DEF WInv, UdpSorted
    <3> QED BY <1>2, <3>1, <3>2, <3>3 DEF WInv, UdpSorted
  <2> QED BY <2>3, <2>5, <2>6 DEF WInv
<1> QED BY <1>3, <1>4 DEF Decode

\* Push_Node appends the newest node.
LEMMA WPush == ASSUME IInv, WInv, Push PROVE WInv'
<1> USE NoneApart
<1> DEFINE n == p.node
<1>1. n \in Nodes /\ p.pc = "push" BY WTypes DEF Push
<1>2. /\ UNCHANGED <<now, node, tree, udp, f, file, carried>>
      /\ list' = Append(list, n) /\ p' = [p EXCEPT !.pc = "notify", !.node = None, !.kind = None]
  BY DEF Push
<1>3. p'.pc = "notify" BY <1>2 DEF IInv, Typed, PacketType
<1>4. Fresh(n) /\ node[n].last = now BY <1>1 DEF WInv, Ordered
<1> HIDE DEF n
<1>5. /\ Len(list) \in Nat /\ DOMAIN list = 1..Len(list) /\ DOMAIN list' = 1..(Len(list) + 1)
      /\ list'[Len(list) + 1] = n /\ \A i \in DOMAIN list : list'[i] = list[i]
  BY <1>1, <1>2, WTypes
<1>6. \A i \in DOMAIN list' : i \in DOMAIN list \/ i = Len(list) + 1 BY <1>5
<1>7. Ordered'
  <2>1. now \in Int /\ f.clock \in 0..now BY WTypes DEF WInv, Ordered
  <2>2. ASSUME NEW i \in DOMAIN list'
        PROVE  Fresh(list'[i]) /\ node[list'[i]].last \in f.clock..now
    <3>1. CASE i \in DOMAIN list BY <1>5, <3>1 DEF WInv, Ordered
    <3>2. CASE i = Len(list) + 1 BY <1>4, <1>5, <2>1, <3>2
    <3> QED BY <1>6, <3>1, <3>2
  <2>3. ASSUME NEW i \in DOMAIN list', NEW j \in DOMAIN list', i < j
        PROVE  node[list'[i]].last <= node[list'[j]].last
    <3>1. i \in DOMAIN list BY <1>5, <2>3
    <3>2. CASE j \in DOMAIN list BY <1>5, <2>3, <3>1, <3>2 DEF WInv, Ordered
    <3>3. CASE j = Len(list) + 1 BY <1>4, <1>5, <2>1, <2>2, <3>3
    <3> QED BY <1>6, <3>2, <3>3
  <2> QED BY <1>2, <1>3, <2>2, <2>3 DEF WInv, Ordered, Fresh
<1>8. InWindow' BY <1>2 DEF WInv, InWindow, Slot, Pos
<1>9. UdpSorted' BY <1>2 DEF WInv, UdpSorted, Holds, Pos
<1> QED BY <1>7, <1>8, <1>9 DEF WInv

\* Pop_Node takes the oldest: the clock goes on to its time, which is of the
\* window unless the flows of the window are stored first.
LEMMA WPopNode == ASSUME IInv, WInv, PopNode PROVE WInv'
<1> USE NoneApart
<1> DEFINE n == Head(list)
           t == node[n].last
           start == IF f.start = 0 THEN Slot(t) ELSE f.start
           pc == IF t - start >= Win THEN "flush" ELSE "expire"
<1>1. /\ f' = [f EXCEPT !.pc = pc, !.node = n, !.clock = t, !.start = start]
      /\ UNCHANGED <<now, node, tree, udp, p, file, carried>>
      /\ list # <<>> /\ list' = Tail(list) /\ f.pc = "pop"
  BY DEF PopNode, AtFlow
<1>2. /\ n \in Nodes /\ n = list[1] /\ 1 \in DOMAIN list
      /\ \A i \in DOMAIN list' : i + 1 \in DOMAIN list /\ list'[i] = list[i + 1] /\ 1 < i + 1
  <2>1. /\ Len(list) \in Nat \ {0} /\ DOMAIN list = 1..Len(list) /\ Head(list) = list[1]
        /\ DOMAIN Tail(list) = 1..(Len(list) - 1)
        /\ \A i \in DOMAIN Tail(list) : Tail(list)[i] = list[i + 1]
    BY <1>1, WTypes
  <2> QED BY <1>1, <2>1, WTypes
<1>3. /\ t \in f.clock..now /\ Fresh(n) /\ Win <= t /\ t \in Nat /\ now \in Int
      /\ f.clock \in 0..now /\ f.start \in 0..f.clock
  BY <1>2, WTypes, WinIsNat DEF WInv, Ordered, InWindow, Fresh
<1>4. /\ start \in 0..t /\ start # 0 /\ Slot(start) = start
  <2>1. CASE f.start = 0 BY <1>3, <2>1, SlotNat, SlotOfSlot
  <2>2. CASE f.start # 0 BY <1>3, <2>2, WTypes DEF WInv, InWindow
  <2> QED BY <2>1, <2>2
<1>5. pc = "expire" => Slot(t) = start BY <1>3, <1>4, SameSlot, WinIsNat
<1>6. pc \in {"flush", "expire"} OBVIOUS
<1> HIDE DEF pc
<1>7. f'.pc = pc /\ f'.node = n /\ f'.clock = t /\ f'.start = start
  BY <1>1 DEF IInv, Typed, FlowType
<1>8. Pos' = pc /\ Pos = "pop" BY <1>1, <1>6, <1>7 DEF Pos, Freeing
<1>9. f.start = 0 \/ f.start = start OBVIOUS
<1> HIDE DEF start
<1>10. Ordered'
  <2>1. ASSUME NEW i \in DOMAIN list'
        PROVE  Fresh(list'[i]) /\ node[list'[i]].last \in t..now
    <3>1. i + 1 \in DOMAIN list /\ list'[i] = list[i + 1] /\ 1 < i + 1 BY <1>2
    <3>2. Fresh(list[i + 1]) /\ node[list[i + 1]].last \in f.clock..now
      BY <3>1 DEF WInv, Ordered
    <3>3. node[list[1]].last <= node[list[i + 1]].last BY <1>2, <3>1 DEF WInv, Ordered
    <3> QED BY <1>2, <1>3, <3>1, <3>2, <3>3
  <2>2. ASSUME NEW i \in DOMAIN list', NEW j \in DOMAIN list', i < j
        PROVE  node[list'[i]].last <= node[list'[j]].last
    <3>1. i + 1 < j + 1
      <4>1. i \in Int /\ j \in Int BY <1>1, WTypes
      <4> QED BY <2>2, <4>1
    <3> QED BY <1>2, <3>1 DEF WInv, Ordered
  <2>3. t \in 0..now BY <1>3
  <2> QED BY <1>1, <1>3, <1>7, <2>1, <2>2, <2>3 DEF WInv, Ordered, Fresh
<1>11. InWindow'
  <2>1. tree # {} => start = f.start BY <1>9 DEF WInv, InWindow
  <2>2. FileSlots # {} => start = f.start BY <1>9 DEF WInv, InWindow
  <2>3. ASSUME NEW o \in tree
        PROVE  /\ Slot(node[o].first) = start /\ Slot(node[o].last) = start
               /\ node[o].last <= t
    BY <1>3, <2>1, WTypes DEF WInv, InWindow
  <2>4. FileSlots \subseteq {start} \cup carried BY <2>2 DEF WInv, InWindow
  <2>5. \A o, q \in tree : node[o].kind = node[q].kind => o = q BY DEF WInv, InWindow
  <2>6. /\ f'.start = start /\ f'.clock = t /\ Pos' = pc
        /\ tree' = tree /\ node' = node /\ file' = file /\ carried' = carried
    BY <1>1, <1>7, <1>8
  <2> QED BY <1>4, <1>5, <1>6, <2>3, <2>4, <2>5, <2>6 DEF InWindow
<1>12. UdpSorted' BY <1>1, <1>8 DEF WInv, UdpSorted, Holds
<1> QED BY <1>10, <1>11, <1>12 DEF WInv

\* Before it ends, the flow thread stores all flows.
LEMMA WPopNull == ASSUME IInv, WInv, PopNull PROVE WInv'
<1> DEFINE start == IF f.start = 0 THEN Slot(f.clock) ELSE f.start
<1>1. /\ f' = [f EXCEPT !.pc = "flush", !.ended = TRUE, !.start = start]
      /\ UNCHANGED <<now, node, list, tree, udp, p, file, carried>>
  BY DEF PopNull, AtFlow
<1>2. /\ f'.pc = "flush" /\ f'.node = f.node /\ f'.clock = f.clock /\ f'.start = start
  BY <1>1 DEF IInv, Typed, FlowType
<1>3. Pos' = "flush" BY <1>2 DEF Pos, Freeing
<1>4. f.clock \in Nat BY WTypes DEF WInv, Ordered
<1>5. start \in 0..f.clock /\ Slot(start) = start /\ (start = 0 => f.start = 0)
  <2>1. CASE f.start = 0 BY <1>4, <2>1, SlotNat, SlotOfSlot
  <2>2. CASE f.start # 0 BY <2>2 DEF WInv, InWindow
  <2> QED BY <2>1, <2>2
<1>6. f.start = 0 \/ f.start = start OBVIOUS
<1> HIDE DEF start
<1>7. Ordered' BY <1>1, <1>2 DEF WInv, Ordered, Fresh
<1>8. InWindow'
  <2>1. \A x : Slot(x)' = Slot(x) BY DEF Slot
  <2>2. tree # {} \/ FileSlots # {} => start = f.start BY <1>6 DEF WInv, InWindow
  <2> QED BY <1>1, <1>2, <1>3, <1>5, <2>1, <2>2 DEF WInv, InWindow
<1>9. UdpSorted' BY <1>3 DEF UdpSorted
<1> QED BY <1>7, <1>8, <1>9 DEF WInv

\* Free_Node empties a node that is in no list and no tree.
LEMMA WFreePush == ASSUME IInv, WInv, FreePush PROVE WInv'
<1> USE NoneApart
<1> DEFINE x == f.victim
<1>1. x \in Nodes /\ f.pc = "free"
  BY DEF FreePush, AtFlow, IInv, Hands, Typed, FlowType, SomeNode
<1>2. /\ UNCHANGED <<now, list, tree, udp, p, file, carried>>
      /\ node' = [node EXCEPT ![x] = Blank]
      /\ f' = [f EXCEPT !.pc = "freed", !.victim = None]
  BY DEF FreePush
<1>3. /\ f'.pc = "freed" /\ f'.node = f.node /\ f'.clock = f.clock /\ f'.start = f.start
      /\ f'.back = f.back
  BY <1>2 DEF IInv, Typed, FlowType
<1>4. Pos' = Pos BY <1>1, <1>3 DEF Pos, Freeing
<1>5. \A o \in Nodes : o # x => node'[o] = node[o]
  BY <1>2 DEF IInv, Typed
<1>6. ~Holds(list, x) /\ x \notin tree /\ p.node # x /\ f.node # x
  BY <1>1, Exclusive
<1> HIDE DEF x
<1>7. Ordered'
  <2>1. ASSUME NEW i \in DOMAIN list PROVE node'[list[i]] = node[list[i]]
    BY <1>5, <1>6, WTypes
  <2>2. f.node # None => node'[f.node] = node[f.node] BY <1>5, <1>6, WTypes
  <2>3. p.pc = "push" => node'[p.node] = node[p.node] BY <1>5, <1>6, WTypes
  <2> QED BY <1>2, <1>3, <2>1, <2>2, <2>3 DEF WInv, Ordered, Fresh
<1>8. ASSUME NEW o \in tree PROVE node'[o] = node[o] BY <1>5, <1>6, WTypes
<1>9. InWindow' BY <1>2, <1>3, <1>4, <1>8 DEF WInv, InWindow
<1>10. UdpSorted'
  <2> SUFFICES ASSUME Pos \notin {"flush", "flushFull"} PROVE UdpSorted'
    BY <1>4 DEF UdpSorted
  <2>1. \A o \in Nodes : Holds(udp, o)' <=> o \in tree /\ node'[o].kind \in UdpKeys
    BY <1>2, <1>8 DEF WInv, UdpSorted, Holds
  <2>2. ASSUME NEW i \in DOMAIN udp PROVE node'[udp[i]] = node[udp[i]]
    BY <1>8, WTypes DEF WInv, UdpSorted
  <2> QED BY <1>2, <2>1, <2>2 DEF WInv, UdpSorted
<1> QED BY <1>7, <1>9, <1>10 DEF WInv

\* A flow is stored: it is of the window of the file.
LEMMA Stored == ASSUME IInv, FInv, WInv, NEW n \in tree, Store(n)
                PROVE  f.start # 0 /\ carried' = carried
                       /\ FileSlots' \subseteq {f.start} \cup carried
<1>1. n \in Nodes BY WTypes
<1>2. /\ f.start # 0 /\ FileSlots \subseteq {f.start} \cup carried
      /\ Slot(node[n].first) = f.start /\ Slot(node[n].last) = f.start
  BY DEF WInv, InWindow
<1>3. /\ FileSlots' \subseteq FileSlots \cup {Slot(node[n].first), Slot(node[n].last)}
      /\ carried' = carried
  BY <1>1, StoreEffect
<1> QED BY <1>2, <1>3

\* A flow is stored and leaves the tree in a flush.
LEMMA WFlush == ASSUME IInv, FInv, WInv, NEW pc \in {"flush", "flushFull"}, Flush(pc) PROVE WInv'
<1>1. PICK n \in tree : Store(n) /\ tree' = tree \ {n} /\ FreeThen(n, pc)
  BY DEF Flush
<1>2. UNCHANGED <<now, node, list, udp, p>> /\ f.pc = pc BY DEF Flush, AtFlow
<1>3. /\ f'.pc = "free" /\ f'.node = f.node /\ f'.clock = f.clock /\ f'.start = f.start
      /\ f'.back = pc
  BY <1>1 DEF FreeThen, IInv, Typed, FlowType
<1>4. Pos' = pc /\ Pos = pc BY <1>2, <1>3 DEF Pos, Freeing
<1>5. f.start # 0 /\ carried' = carried /\ FileSlots' \subseteq {f.start} \cup carried
  BY <1>1, Stored
<1>6. Ordered' BY <1>2, <1>3 DEF WInv, Ordered, Fresh
<1>7. InWindow' BY <1>1, <1>2, <1>3, <1>4, <1>5 DEF WInv, InWindow
<1>8. UdpSorted' BY <1>4 DEF UdpSorted
<1> QED BY <1>6, <1>7, <1>8 DEF WInv

LEMMA WFlushed ==
    ASSUME IInv, WInv, Flushed("flush", "close") \/ Flushed("flushFull", "pop") PROVE WInv'
<1>1. PICK then \in {"close", "pop"} :
         /\ f' = [f EXCEPT !.pc = then]
         /\ UNCHANGED <<now, node, list, tree, p, file, carried>> /\ tree = {} /\ udp' = <<>>
  BY DEF Flushed
<1>2. /\ f'.pc = then /\ f'.node = f.node /\ f'.clock = f.clock /\ f'.start = f.start
  BY <1>1 DEF IInv, Typed, FlowType
<1>3. Pos' = then BY <1>2 DEF Pos, Freeing
<1>4. Ordered' BY <1>1, <1>2 DEF WInv, Ordered, Fresh
<1>5. InWindow' BY <1>1, <1>2, <1>3 DEF WInv, InWindow
<1>6. UdpSorted' BY <1>1 DEF UdpSorted, Holds
<1> QED BY <1>4, <1>5, <1>6 DEF WInv

\* The file is closed; its block may stay.
LEMMA WClose == ASSUME IInv, FInv, WInv, Close PROVE WInv'
<1>1. /\ UNCHANGED <<now, node, list, tree, udp, p>> /\ f.pc = "close"
      /\ f' = [f EXCEPT !.pc = IF f.ended THEN "ended" ELSE "reopen"]
  BY DEF Close, AtFlow
<1>2. /\ Pos = "close" /\ tree = {}
      /\ f.start = 0 => FileSlots = {}
      /\ FileSlots \subseteq {f.start} \cup carried
  BY <1>1 DEF Pos, Freeing, WInv, InWindow
<1>3. FileSlots' \subseteq FileSlots /\ carried' = carried BY CloseEffect
<1>4. /\ f'.pc \in {"ended", "reopen"} /\ f'.node = f.node /\ f'.clock = f.clock
      /\ f'.start = f.start
  BY <1>1 DEF IInv, Typed, FlowType
<1>5. Pos' \in {"ended", "reopen"} BY <1>4 DEF Pos, Freeing
<1>6. Ordered' BY <1>1, <1>4 DEF WInv, Ordered, Fresh
<1>7. InWindow'
  <2>1. f.start = 0 => FileSlots' = {} BY <1>2, <1>3
  <2>2. FileSlots' \subseteq {f.start} \cup carried' BY <1>2, <1>3
  <2> HIDE DEF FileSlots
  <2> QED BY <1>1, <1>2, <1>4, <1>5, <2>1, <2>2 DEF WInv, InWindow
<1>8. UdpSorted' BY <1>1, <1>2, <1>5 DEF WInv, UdpSorted, Holds
<1> QED BY <1>6, <1>7, <1>8 DEF WInv

\* The next file begins with the window of the clock and what is left in the block.
LEMMA WOpen == ASSUME IInv, FInv, WInv, Open PROVE WInv'
<1>1. /\ UNCHANGED <<now, node, list, tree, udp, p>> /\ f.pc = "reopen"
      /\ f' = [f EXCEPT !.pc = "expire", !.start = Slot(f.clock)]
  BY DEF Open, AtFlow
<1>2. Pos = "reopen" /\ tree = {} BY <1>1 DEF Pos, Freeing, WInv, InWindow
<1>3. FileSlots' = carried' BY OpenEffect
<1>4. /\ f'.pc = "expire" /\ f'.node = f.node /\ f'.clock = f.clock
      /\ f'.start = Slot(f.clock)
  BY <1>1 DEF IInv, Typed, FlowType
<1>5. Pos' = "expire" BY <1>4 DEF Pos, Freeing
<1>6. f.clock \in Nat /\ Win <= f.clock
  <2>1. f.node # None /\ f.node \in Nodes BY <1>2, WTypes DEF IInv, Hands
  <2> QED BY <2>1, WTypes DEF WInv, Ordered, Fresh
<1>7. /\ Slot(f.clock) \in 0..f.clock /\ Slot(Slot(f.clock)) = Slot(f.clock)
      /\ Slot(f.clock) # 0
  BY <1>6, SlotNat, SlotOfSlot
<1>8. Ordered' BY <1>1, <1>4 DEF WInv, Ordered, Fresh
<1>9. InWindow'
  <2> HIDE DEF FileSlots
  <2> QED BY <1>1, <1>2, <1>3, <1>4, <1>5, <1>7 DEF InWindow
<1>10. UdpSorted' BY <1>1, <1>2, <1>5 DEF WInv, UdpSorted, Holds
<1> QED BY <1>8, <1>9, <1>10 DEF WInv

LEMMA WOpenFails == ASSUME IInv, FInv, WInv, OpenFails PROVE WInv'
<1>1. /\ UNCHANGED <<now, node, list, tree, udp, p>> /\ f.pc = "reopen"
      /\ f' = [f EXCEPT !.pc = "ended", !.done = TRUE, !.node = None]
  BY DEF OpenFails, AtFlow
<1>2. /\ Pos = "reopen" /\ tree = {}
      /\ f.start = 0 => FileSlots = {}
      /\ FileSlots \subseteq {f.start} \cup carried
  BY <1>1 DEF Pos, Freeing, WInv, InWindow
<1>3. FileSlots' \subseteq FileSlots /\ carried' = carried BY FailEffect
<1>4. f'.pc = "ended" /\ f'.node = None /\ f'.clock = f.clock /\ f'.start = f.start
  BY <1>1 DEF IInv, Typed, FlowType
<1>5. Pos' = "ended" BY <1>4 DEF Pos, Freeing
<1>6. Ordered' BY <1>1, <1>4 DEF WInv, Ordered, Fresh
<1>7. InWindow'
  <2>1. f.start = 0 => FileSlots' = {} BY <1>2, <1>3
  <2>2. FileSlots' \subseteq {f.start} \cup carried' BY <1>2, <1>3
  <2> HIDE DEF FileSlots
  <2> QED BY <1>1, <1>2, <1>4, <1>5, <2>1, <2>2 DEF WInv, InWindow
<1>8. UdpSorted' BY <1>1, <1>2, <1>5 DEF WInv, UdpSorted, Holds
<1> QED BY <1>6, <1>7, <1>8 DEF WInv

\* The flow that is silent for longest is stored and leaves list and tree.
LEMMA WExpire == ASSUME IInv, FInv, WInv, Expire PROVE WInv'
<1> DEFINE x == Head(udp)
<1>1. f.pc = "expire" /\ Pos = "expire" /\ Once(udp) /\ udp # <<>>
  BY InHand DEF Expire, Expired
<1>2. /\ tree' = tree \ {x} /\ Store(x) /\ udp' = Tail(udp)
      /\ f' = [f EXCEPT !.pc = "free", !.victim = x, !.back = "expire"]
      /\ UNCHANGED <<now, node, list, p>>
  BY DEF Expire, FreeThen
<1>3. /\ x \in Nodes /\ Holds(udp, x)
      /\ \A o \in Nodes : Holds(udp', o) <=> Holds(udp, o) /\ o # x
  BY <1>1, <1>2, TailOf, WTypes
<1>4. x \in tree BY <1>1, <1>3 DEF WInv, UdpSorted
<1>5. f.start # 0 /\ carried' = carried /\ FileSlots' \subseteq {f.start} \cup carried
  BY <1>2, <1>4, Stored
<1> HIDE DEF x
<1>6. /\ f'.pc = "free" /\ f'.node = f.node /\ f'.clock = f.clock /\ f'.start = f.start
      /\ f'.back = "expire"
  BY <1>2 DEF IInv, Typed, FlowType
<1>7. Pos' = "expire" BY <1>6 DEF Pos, Freeing
<1>8. Ordered' BY <1>2, <1>6 DEF WInv, Ordered, Fresh
<1>9. InWindow' BY <1>1, <1>2, <1>5, <1>6, <1>7 DEF WInv, InWindow
<1>10. UdpSorted'
  <2>1. \A i \in DOMAIN udp' : i \in Int /\ i + 1 \in DOMAIN udp /\ udp'[i] = udp[i + 1]
    <3>1. /\ Len(udp) \in Nat \ {0} /\ DOMAIN udp = 1..Len(udp)
          /\ DOMAIN Tail(udp) = 1..(Len(udp) - 1)
          /\ \A i \in DOMAIN Tail(udp) : Tail(udp)[i] = udp[i + 1]
      BY <1>1, WTypes
    <3> QED BY <1>2, <3>1
  <2>2. \A i, j \in DOMAIN udp' : i < j => node[udp'[i]].last <= node[udp'[j]].last
    BY <1>1, <2>1 DEF WInv, UdpSorted
  <2>3. \A o \in Nodes : Holds(udp', o) <=> o \in tree' /\ node[o].kind \in UdpKeys
    BY <1>1, <1>2, <1>3 DEF WInv, UdpSorted
  <2> QED BY <1>2, <2>2, <2>3 DEF UdpSorted
<1> QED BY <1>8, <1>9, <1>10 DEF WInv

\* The node in the hands of the flow thread is of the second of its clock, and of
\* the window.
LEMMA HandTime ==
    ASSUME IInv, WInv, AtFlow("expire")
    PROVE  /\ f.node \in Nodes /\ f.clock \in Nat /\ f.start # 0
           /\ node[f.node].first = f.clock /\ node[f.node].last = f.clock
           /\ Slot(f.clock) = f.start /\ f.pc = "expire" /\ Pos = "expire"
<1>1. f.node \in Nodes /\ f.node # None /\ Pos = "expire" /\ f.pc = "expire"
  BY InHand, NoneApart
<1>2. /\ node[f.node].first = f.clock /\ node[f.node].last = f.clock /\ Win <= f.clock
      /\ f.clock \in Nat /\ Slot(f.clock) = f.start
  BY <1>1, WTypes DEF WInv, Ordered, InWindow, Fresh
<1> QED BY <1>1, <1>2, SlotNat

LEMMA WSignal == ASSUME IInv, WInv, ProcessSignal PROVE WInv'
<1>1. /\ UNCHANGED <<now, node, list, tree, udp, p, file, carried>>
      /\ f' = [f EXCEPT !.pc = "pop", !.node = None] /\ Pos = "expire"
  BY InHand DEF ProcessSignal
<1>2. /\ f'.pc = "pop" /\ f'.node = None /\ f'.clock = f.clock /\ f'.start = f.start
  BY <1>1 DEF IInv, Typed, FlowType
<1>3. Pos' = "pop" BY <1>2 DEF Pos, Freeing
<1>4. now' \in Int /\ now <= now' BY <1>1, WTypes
<1> QED BY <1>1, <1>2, <1>3, <1>4, WQuiet

LEMMA WDirect == ASSUME IInv, FInv, WInv, ProcessDirect PROVE WInv'
<1>1. /\ UNCHANGED <<now, node, list, tree, udp, p>> /\ Store(f.node)
      /\ f' = [f EXCEPT !.pc = "free", !.victim = f.node, !.back = "pop", !.node = None]
      /\ AtFlow("expire")
  BY DEF ProcessDirect
<1>2. /\ f'.pc = "free" /\ f'.node = None /\ f'.clock = f.clock /\ f'.start = f.start
      /\ f'.back = "pop"
  BY <1>1 DEF IInv, Typed, FlowType
<1>3. Pos' = "pop" /\ Pos = "expire" BY <1>1, <1>2, HandTime DEF Pos, Freeing
<1>4. f.start # 0 /\ carried' = carried /\ FileSlots' \subseteq {f.start} \cup carried
  <2>1. /\ f.node \in Nodes /\ f.start # 0
        /\ Slot(node[f.node].first) = f.start /\ Slot(node[f.node].last) = f.start
    BY <1>1, HandTime
  <2>2. /\ FileSlots' \subseteq FileSlots \cup {Slot(node[f.node].first), Slot(node[f.node].last)}
        /\ carried' = carried
    BY <1>1, <2>1, StoreEffect
  <2> QED BY <2>1, <2>2 DEF WInv, InWindow
<1>5. Ordered' BY <1>1, <1>2 DEF WInv, Ordered, Fresh
<1>6. InWindow' BY <1>1, <1>2, <1>3, <1>4 DEF WInv, InWindow
<1>7. UdpSorted' BY <1>1, <1>3 DEF WInv, UdpSorted, Holds
<1> QED BY <1>5, <1>6, <1>7 DEF WInv

\* A new flow goes into the tree and, for UDP, behind all others.
LEMMA WNew == ASSUME IInv, WInv, ProcessNew PROVE WInv'
<1> USE NoneApart
<1> DEFINE n == f.node
<1>1. /\ n \in Nodes /\ f.clock \in Nat /\ f.start # 0 /\ Pos = "expire"
      /\ node[n].first = f.clock /\ node[n].last = f.clock
      /\ Slot(f.clock) = f.start /\ n \notin tree
  BY HandTime, InHand DEF ProcessNew
<1>2. /\ UNCHANGED <<now, node, list, p, file, carried>>
      /\ \A o \in tree : node[o].kind # node[n].kind
      /\ tree' = tree \cup {n}
      /\ udp' = IF node[n].kind \in UdpKeys THEN Append(udp, n) ELSE udp
  BY DEF ProcessNew, Existing
<1>3. PICK pc \in {"flushFull", "pop"} : f' = [f EXCEPT !.node = None, !.pc = pc]
  BY DEF ProcessNew
<1>4. /\ f'.pc = pc /\ f'.node = None /\ f'.clock = f.clock /\ f'.start = f.start
  BY <1>3 DEF IInv, Typed, FlowType
<1>5. Pos' = pc BY <1>4 DEF Pos, Freeing
<1> HIDE DEF n
<1>6. Ordered' BY <1>2, <1>4 DEF WInv, Ordered, Fresh
<1>7. InWindow'
  <2>1. \A o \in tree' : /\ Slot(node[o].first) = f.start /\ Slot(node[o].last) = f.start
                         /\ node[o].last <= f.clock
    BY <1>1, <1>2 DEF WInv, InWindow
  <2>2. \A o, q \in tree' : node[o].kind = node[q].kind => o = q
    BY <1>2 DEF WInv, InWindow
  <2> QED BY <1>1, <1>2, <1>4, <1>5, <2>1, <2>2 DEF WInv, InWindow
<1>8. UdpSorted'
  <2>1. /\ \A o \in Nodes : Holds(udp, o) <=> o \in tree /\ node[o].kind \in UdpKeys
        /\ \A i, j \in DOMAIN udp : i < j => node[udp[i]].last <= node[udp[j]].last
    BY <1>1 DEF WInv, UdpSorted
  <2>2. CASE node[n].kind \in UdpKeys
    <3>1. udp' = Append(udp, n) BY <1>2, <2>2
    <3>2. \A o \in Nodes : Holds(udp', o) <=> Holds(udp, o) \/ o = n
      BY <1>1, <3>1, WTypes, Appended
    <3>3. /\ Len(udp) \in Nat /\ DOMAIN udp = 1..Len(udp) /\ DOMAIN udp' = 1..(Len(udp) + 1)
          /\ udp'[Len(udp) + 1] = n /\ \A i \in DOMAIN udp : udp'[i] = udp[i]
      BY <1>1, <3>1, WTypes
    <3>4. \A i \in DOMAIN udp' : i \in DOMAIN udp \/ i = Len(udp) + 1 BY <3>3
    <3>5. ASSUME NEW i \in DOMAIN udp', NEW j \in DOMAIN udp', i < j
          PROVE  node[udp'[i]].last <= node[udp'[j]].last
      <4>1. i \in DOMAIN udp /\ udp[i] \in tree BY <2>1, <3>3, <3>5, WTypes
      <4>2. CASE j \in DOMAIN udp BY <2>1, <3>3, <3>5, <4>1, <4>2
      <4>3. CASE j = Len(udp) + 1 BY <1>1, <3>3, <4>1, <4>3 DEF WInv, InWindow
      <4> QED BY <3>4, <4>2, <4>3
    <3> QED BY <1>1, <1>2, <2>1, <2>2, <3>2, <3>5 DEF UdpSorted
  <2>3. CASE node[n].kind \notin UdpKeys
    BY <1>1, <1>2, <2>1, <2>3 DEF UdpSorted, Holds
  <2> QED BY <2>2, <2>3
<1> QED BY <1>6, <1>7, <1>8 DEF WInv

\* A known flow is now of the second of the clock, and for UDP goes to the end.
LEMMA WKnown == ASSUME IInv, WInv, ProcessKnown PROVE WInv'
<1> USE NoneApart
<1>1. PICK e \in Existing(node[f.node].kind) :
         /\ node' = [node EXCEPT ![e].packets = @ + 1, ![e].last = node[f.node].last]
         /\ IF node[f.node].kind \in UdpKeys THEN TouchUDPNode(e) ELSE UNCHANGED udp
  BY DEF ProcessKnown
<1>2. /\ AtFlow("expire") /\ UNCHANGED <<now, list, tree, p, file, carried>>
      /\ f' = [f EXCEPT !.pc = "free", !.victim = f.node, !.back = "pop", !.node = None]
  BY DEF ProcessKnown
<1>3. /\ f'.pc = "free" /\ f'.node = None /\ f'.clock = f.clock /\ f'.start = f.start
      /\ f'.back = "pop"
  BY <1>2 DEF IInv, Typed, FlowType
<1>4. /\ f.node \in Nodes /\ f.clock \in Nat /\ f.start # 0 /\ Pos = "expire" /\ Pos' = "pop"
      /\ node[f.node].last = f.clock /\ Slot(f.clock) = f.start
  BY <1>2, <1>3, HandTime DEF Pos, Freeing
<1>5. e \in tree /\ e \in Nodes /\ node[e].kind = node[f.node].kind
  BY <1>1, WTypes DEF Existing
<1>6. /\ \A o \in Nodes : o # e => node'[o] = node[o]
      /\ node'[e].last = f.clock /\ node'[e].first = node[e].first
      /\ node'[e].kind = node[e].kind
  BY <1>1, <1>4, <1>5 DEF IInv, Typed, NodeType
<1>7. ~Holds(list, e) /\ p.node # e /\ f.node # e BY <1>5, Exclusive
<1>8. Ordered'
  <2>1. ASSUME NEW i \in DOMAIN list PROVE node'[list[i]] = node[list[i]]
    BY <1>6, <1>7, WTypes
  <2>2. p.pc = "push" => node'[p.node] = node[p.node] BY <1>6, <1>7, WTypes
  <2> QED BY <1>2, <1>3, <2>1, <2>2 DEF WInv, Ordered, Fresh
<1>9. \A o \in tree : /\ node'[o].kind = node[o].kind
                      /\ o # e => node'[o] = node[o]
  BY <1>6, WTypes
<1>10. \A o \in tree : /\ Slot(node'[o].first) = f.start /\ Slot(node'[o].last) = f.start
                       /\ node'[o].last <= f.clock
  <2>1. Slot(node[e].first) = f.start BY <1>5 DEF WInv, InWindow
  <2>2. ASSUME NEW o \in tree, o # e
        PROVE  /\ Slot(node'[o].first) = f.start /\ Slot(node'[o].last) = f.start
               /\ node'[o].last <= f.clock
    BY <1>9, <2>2 DEF WInv, InWindow
  <2> QED BY <1>4, <1>6, <2>1, <2>2
<1>11. InWindow'
  <2>1. \A o, q \in tree' : node'[o].kind = node'[q].kind => o = q
    BY <1>2, <1>9 DEF WInv, InWindow
  <2> QED BY <1>2, <1>3, <1>4, <1>10, <2>1 DEF WInv, InWindow
<1>12. UdpSorted'
  <2>1. /\ \A o \in Nodes : Holds(udp, o) <=> o \in tree /\ node[o].kind \in UdpKeys
        /\ \A i, j \in DOMAIN udp : i < j => node[udp[i]].last <= node[udp[j]].last
    BY <1>4 DEF WInv, UdpSorted
  <2>2. \A i \in DOMAIN udp : udp[i] \in tree BY <2>1, WTypes
  <2>3. CASE node[f.node].kind \in UdpKeys
    <3>1. PICK i \in DOMAIN udp : udp[i] = e /\ udp' = Append(RemoveAt(udp, i), udp[i])
      BY <1>1, <2>3 DEF TouchUDPNode
    <3>2. Once(udp) BY <1>2, InHand
    <3>3. /\ \A a, b \in DOMAIN udp' : a < b =>
               \E c, d \in DOMAIN udp : /\ udp'[a] = udp[c] /\ c # i
                                        /\ \/ udp'[b] = udp[i]
                                           \/ udp'[b] = udp[d] /\ c < d /\ d # i
          /\ \A n \in Nodes : Holds(udp, n) => Holds(udp', n)
          /\ \A n \in Nodes : Holds(udp', n) => Holds(udp, n)
      <4>1. udp \in Seq(Nodes) BY WTypes
      <4>2. \A a, b \in DOMAIN udp' : a < b =>
               \E c, d \in DOMAIN udp : /\ udp'[a] = udp[c] /\ c # i
                                        /\ \/ udp'[b] = udp[i]
                                           \/ udp'[b] = udp[d] /\ c < d /\ d # i
        BY <3>1, <4>1, TouchedOrder
      <4>3. \A n \in Nodes : Holds(udp, n) => Holds(udp', n)
        BY <3>1, <4>1, TouchedOrder
      <4>4. \A n \in Nodes : Holds(udp', n) => Holds(udp, n)
        BY <3>1, <3>2, <4>1, Touched
      <4> QED BY <4>2, <4>3, <4>4
    <3>4. ASSUME NEW a \in DOMAIN udp', NEW b \in DOMAIN udp', a < b
          PROVE  node'[udp'[a]].last <= node'[udp'[b]].last
      <4>1. PICK c \in DOMAIN udp, d \in DOMAIN udp :
               /\ udp'[a] = udp[c] /\ c # i
               /\ \/ udp'[b] = udp[i]
                  \/ udp'[b] = udp[d] /\ c < d /\ d # i
        BY <3>3, <3>4
      <4>2. udp[c] # e BY <3>1, <3>2, <4>1 DEF Once
      <4>3. CASE udp'[b] = udp[i] BY <1>6, <1>10, <2>2, <3>1, <4>1, <4>3
      <4>4. CASE udp'[b] = udp[d] /\ c < d /\ d # i
        <5>1. udp[d] # e BY <3>1, <3>2, <4>4 DEF Once
        <5> QED BY <1>9, <2>1, <2>2, <4>1, <4>2, <4>4, <5>1
      <4> QED BY <4>1, <4>3, <4>4
    <3>5. \A o \in Nodes : Holds(udp, o)' <=> o \in tree' /\ node'[o].kind \in UdpKeys
      <4>1. \A o \in Nodes : Holds(udp', o) <=> Holds(udp, o) BY <3>3
      <4> QED BY <1>2, <1>9, <2>1, <4>1
    <3> QED BY <3>4, <3>5 DEF UdpSorted
  <2>4. CASE node[f.node].kind \notin UdpKeys
    <3>1. udp' = udp BY <1>1, <2>4
    <3>2. \A i \in DOMAIN udp : udp[i] # e BY <1>5, <2>1, <2>4, WTypes
    <3>3. \A i \in DOMAIN udp : node'[udp[i]] = node[udp[i]] BY <1>9, <2>2, <3>2
    <3>4. \A i, j \in DOMAIN udp' : i < j => node'[udp'[i]].last <= node'[udp'[j]].last
      BY <2>1, <3>1, <3>3
    <3>5. \A o \in Nodes : Holds(udp', o) <=> o \in tree' /\ node'[o].kind \in UdpKeys
      BY <1>2, <1>9, <2>1, <3>1
    <3> QED BY <3>4, <3>5 DEF UdpSorted
  <2> QED BY <2>3, <2>4
<1> QED BY <1>8, <1>11, <1>12 DEF WInv

\* The steps of the packet thread, of main and of the handlers.
LEMMA WPacket ==
    ASSUME IInv, WInv, Capture \/ Idle \/ Finish \/ TakeNode \/ NoNode \/ AwaitNode \/ Notify
    PROVE  WInv'
<1> USE WTypes DEF IInv, Typed, PacketType, FlowType
<1>1. ASSUME UNCHANGED <<node, list, tree, udp, file, carried>>, now' \in Int, now <= now',
             p'.pc # "push",
             f' = f \/ (f.pc = "sleep" /\ f' = [f EXCEPT !.pc = "pop"])
      PROVE  WInv'
  <2>1. /\ f'.node = f.node /\ f'.clock = f.clock /\ f'.start = f.start /\ f'.back = f.back
        /\ f'.pc = f.pc \/ (f.pc = "sleep" /\ f'.pc = "pop")
    BY <1>1
  <2>2. Pos' = Pos \/ (Pos = "sleep" /\ Pos' = "pop") BY <2>1 DEF Pos, Freeing
  <2> QED BY <1>1, <2>1, <2>2, WQuiet
<1>2. CASE Capture
  <2>1. PICK k \in Keys \cup OtherKinds, t \in now..MaxClock :
           now' = t /\ p' = [p EXCEPT !.pc = "new", !.kind = k]
    BY <1>2 DEF Capture
  <2>2. now' \in Int /\ now <= now' BY <2>1, ClockIsInt
  <2> QED BY <1>1, <1>2, <2>1, <2>2 DEF Capture
<1>3. CASE Idle
  <2>1. PICK t \in now..MaxClock :
           /\ now' = t
           /\ p' = IF p.start = 0 THEN [p EXCEPT !.start = Slot(t)]
                   ELSE [p EXCEPT !.pc = "new", !.kind = "signal", !.start = Slot(t)]
    BY <1>3 DEF Idle
  <2>2. now' \in Int /\ now <= now' BY <2>1, ClockIsInt
  <2>3. p'.pc # "push" BY <1>3, <2>1 DEF Idle
  <2> QED BY <1>1, <1>3, <2>2, <2>3 DEF Idle
<1>4. CASE Finish BY <1>1, <1>4 DEF Finish
<1>5. CASE TakeNode BY <1>1, <1>5 DEF TakeNode
<1>6. CASE NoNode BY <1>1, <1>6 DEF NoNode
<1>7. CASE AwaitNode BY <1>1, <1>7 DEF AwaitNode
<1>8. CASE Notify
  <2>1. f' = f \/ (f.pc = "sleep" /\ f' = [f EXCEPT !.pc = "pop"])
    <3>1. CASE f.pc = "sleep" BY <1>8, <3>1 DEF Notify
    <3>2. CASE f.pc # "sleep"
      <4>1. f' = [f EXCEPT !.pc = f.pc] BY <1>8, <3>2 DEF Notify
      <4> QED BY <4>1
    <3> QED BY <3>1, <3>2
  <2> QED BY <1>1, <1>8, <2>1 DEF Notify
<1> QED BY <1>2, <1>3, <1>4, <1>5, <1>6, <1>7, <1>8

LEMMA WSignals ==
    ASSUME IInv, WInv, MainStep \/ Stop \/ Handler("packet") \/ Handler("flow") \/ UNCHANGED vars
    PROVE  WInv'
<1> USE WTypes DEF IInv, Typed, PacketType, FlowType
<1>1. ASSUME UNCHANGED <<now, node, list, tree, udp, file, carried>>,
             p'.pc = p.pc, p'.node = p.node,
             f'.node = f.node, f'.clock = f.clock, f'.start = f.start, f'.back = f.back,
             f'.pc = f.pc \/ (f.pc = "sleep" /\ f'.pc = "pop")
      PROVE  WInv'
  <2>1. Pos' = Pos \/ (Pos = "sleep" /\ Pos' = "pop") BY <1>1 DEF Pos, Freeing
  <2>2. now' \in Int /\ now <= now' BY <1>1
  <2> QED BY <1>1, <2>1, <2>2, WQuiet
<1>2. CASE KillPacket \/ JoinPacket \/ KillFlow \/ JoinFlow \/ Stop \/ UNCHANGED vars
  BY <1>1, <1>2 DEF KillPacket, JoinPacket, KillFlow, JoinFlow, Stop, vars
<1>3. CASE WakeFlow BY <1>1, <1>3 DEF WakeFlow
<1>4. CASE Handler("packet") BY <1>1, <1>4 DEF Handler
<1>5. CASE Handler("flow") BY <1>1, <1>5 DEF Handler
<1> QED BY <1>2, <1>3, <1>4, <1>5 DEF MainStep

\* The flow thread waits, or is done with freeing a node.
LEMMA WFlow == ASSUME IInv, WInv, TestDone \/ AwaitList \/ FreeTest \/ FreeWake PROVE WInv'
<1> USE WTypes DEF IInv, Typed, PacketType, FlowType
<1>1. ASSUME UNCHANGED <<now, node, list, tree, udp, file, carried>>, p'.pc = "push" => p.pc = "push" /\ p'.node = p.node,
             f'.node = f.node, f'.clock = f.clock, f'.start = f.start,
             Pos' = Pos \/ Pos' \in {"idle", "sleep"},
             Pos \in {"flush", "flushFull"} => Pos' = Pos
      PROVE  WInv'
  <2>1. now' \in Int /\ now <= now' BY <1>1
  <2> QED BY <1>1, <2>1, WQuiet
<1>2. CASE TestDone \/ AwaitList
  BY <1>1, <1>2 DEF TestDone, AwaitList, AtFlow, Pos, Freeing
<1>3. CASE FreeTest
  <2>1. Hands BY DEF IInv
  <2>2. /\ f'.node = f.node /\ f'.clock = f.clock /\ f'.start = f.start /\ Pos' = Pos
    BY <1>3, <2>1 DEF FreeTest, AtFlow, Pos, Freeing, Hands
  <2> QED BY <1>1, <1>3, <2>2 DEF FreeTest
<1>4. CASE FreeWake
  <2>1. /\ f'.node = f.node /\ f'.clock = f.clock /\ f'.start = f.start /\ Pos' = Pos
    BY <1>4 DEF FreeWake, AtFlow, Pos, Freeing
  <2>2. p'.pc = "push" => p.pc = "push" /\ p'.node = p.node BY <1>4 DEF FreeWake
  <2> QED BY <1>1, <1>4, <2>1, <2>2 DEF FreeWake
<1> QED BY <1>2, <1>3, <1>4

LEMMA WStep == ASSUME IInv, FInv, WInv, [Next]_vars PROVE WInv'
<1>1. CASE PacketStep \/ Capture \/ Idle \/ Finish
  BY <1>1, WPacket, WDecode, WPush DEF PacketStep
<1>2. CASE FlowStep
  <2>1. CASE Flush("flush") \/ Flush("flushFull") BY <2>1, WFlush
  <2> QED BY <1>2, <2>1, WFlow, WPopNode, WPopNull, WFreePush, WFlushed, WClose, WOpen,
             WOpenFails, WExpire, WSignal, WDirect, WNew, WKnown
          DEF FlowStep
<1>3. CASE MainStep \/ Stop \/ Handler("packet") \/ Handler("flow") \/ UNCHANGED vars
  BY <1>3, WSignals
<1> QED BY <1>1, <1>2, <1>3 DEF Next

LEMMA WStart == Init => WInv
<1> SUFFICES ASSUME Init PROVE WInv
  OBVIOUS
<1>1. /\ now = Win /\ list = <<>> /\ udp = <<>> /\ tree = {} /\ FileSlots = {}
      /\ p.pc = "read" /\ f.pc = "pop" /\ f.node = None /\ f.clock = 0 /\ f.start = 0
  BY DEF Init, NoFile, NoBlock
<1>2. Slot(0) = 0 BY SlotNat
<1>3. Ordered BY <1>1, WinIsNat DEF Ordered
<1>4. InWindow BY <1>1, <1>2 DEF InWindow, Pos, Freeing
<1>5. UdpSorted BY <1>1 DEF UdpSorted, Holds
<1> QED BY <1>3, <1>4, <1>5 DEF WInv

LEMMA Apartness == IInv /\ FInv /\ WInv => WindowsApart
<1> SUFFICES ASSUME IInv, FInv, WInv PROVE WindowsApart
  OBVIOUS
<1>1. Flushing <=> Pos \in {"flush", "flushFull"}
  BY DEF Flushing, Pos, Freeing, None
<1>2. UdpInOrder
  <2> SUFFICES ASSUME Pos \notin {"flush", "flushFull"}
               PROVE  /\ Range(udp) = {n \in tree : node[n].kind \in UdpKeys}
                      /\ Len(udp) = Cardinality(Range(udp))
    BY <1>1 DEF UdpInOrder, WInv, UdpSorted
  <2>1. /\ Range(udp) = {udp[i] : i \in DOMAIN udp} /\ udp \in Seq(Nodes) /\ Once(udp)
    BY WTypes DEF Range, IInv, UdpInTree
  <2>2. Range(udp) = {n \in tree : node[n].kind \in UdpKeys}
    <3>1. /\ Range(udp) \subseteq Nodes
          /\ \A n \in Nodes : n \in Range(udp) <=> Holds(udp, n)
      BY <2>1 DEF Holds
    <3>2. \A n \in Nodes : Holds(udp, n) <=> n \in tree /\ node[n].kind \in UdpKeys
      BY DEF WInv, UdpSorted
    <3> QED BY <3>1, <3>2, WTypes
  <2>3. Cardinality(Range(udp)) = Len(udp)
    <3>1. Len(udp) \in Nat /\ DOMAIN udp = 1..Len(udp) BY <2>1
    <3>2. udp \in Bijection(1..Len(udp), Range(udp))
      BY <2>1, <3>1 DEF Bijection, Injection, Surjection, IsInjective, Once
    <3>3. ExistsBijection(1..Len(udp), Range(udp)) BY <3>2 DEF ExistsBijection
    <3>4. IsFiniteSet(1..Len(udp)) /\ Cardinality(1..Len(udp)) = Len(udp)
      BY <3>1, FS_Interval
    <3> QED BY <3>3, <3>4, FS_Bijection
  <2> QED BY <2>2, <2>3
<1>3. faults = 0 => carried = {} BY DEF FInv
<1> QED BY <1>1, <1>2, <1>3 DEF WindowsApart, WInv, InWindow

\* A file only has packets of its window and of the windows that a failed write left
\* in the block when the file was opened, of none without a failed call; a flow is one
\* node of the tree, and UDP_list has the UDP flows in the order in which they fall
\* silent: for every length of a window, size of a block, idle time, number of nodes
\* and flows, and whichever calls fail.
THEOREM FlowsInWindow == Spec => []WindowsApart
<1>1. IInv /\ FInv /\ WInv /\ [Next]_vars => (IInv /\ FInv /\ WInv)'
  BY Step, FStep, WStep
<1>2. Init => IInv /\ FInv /\ WInv BY Start, FStart, WStart
<1> QED BY <1>1, <1>2, Apartness, PTL DEF Spec

HIDE DEF FileSlots

-----------------------------------------------------------------------------
(* Sums of packets                                                         *)

\* Sum is the size of a set with one element for each packet.
UnitsOf(c, S) == UNION {{n} \X (1..c[n]) : n \in S}
Total(c, S) == Cardinality(UnitsOf(c, S))
Counters == [Nodes -> Nat]

LEMMA Block == ASSUME NEW n, NEW k \in Nat
               PROVE  IsFiniteSet({n} \X (1..k)) /\ Cardinality({n} \X (1..k)) = k
<1>1. IsFiniteSet({n}) /\ Cardinality({n}) = 1 BY FS_Singleton
<1>2. IsFiniteSet(1..k) /\ Cardinality(1..k) = k BY FS_Interval
<1>3. /\ IsFiniteSet({n} \X (1..k))
      /\ Cardinality({n} \X (1..k)) = Cardinality({n}) * Cardinality(1..k)
  BY <1>1, <1>2, FS_Product
<1>4. Cardinality({n} \X (1..k)) = 1 * k BY <1>1, <1>2, <1>3
<1> QED BY <1>3, <1>4

LEMMA TotalFinite == ASSUME NEW c \in Counters, NEW S \in SUBSET Nodes
                     PROVE  IsFiniteSet(UnitsOf(c, S)) /\ Total(c, S) \in Nat
<1> DEFINE g == [n \in S |-> {n} \X (1..c[n])]
           blocks == {{n} \X (1..c[n]) : n \in S}
<1>1. IsFiniteSet(S) BY FS_Subset, PcapAssumption
<1>2. g \in Surjection(S, blocks) BY DEF Surjection
<1>3. IsFiniteSet(blocks) BY <1>1, <1>2, FS_Surjection
<1>4. \A B \in blocks : IsFiniteSet(B)
  <2> SUFFICES ASSUME NEW n \in S PROVE IsFiniteSet({n} \X (1..c[n]))
    OBVIOUS
  <2>1. c[n] \in Nat BY DEF Counters
  <2> QED BY <2>1, Block
<1>5. IsFiniteSet(UNION blocks) BY <1>3, <1>4, FS_UNION
<1> QED BY <1>5, FS_CardinalityType DEF UnitsOf, Total

LEMMA TotalAdd == ASSUME NEW c \in Counters, NEW S \in SUBSET Nodes, NEW n \in Nodes, n \notin S
                  PROVE  Total(c, S \cup {n}) = Total(c, S) + c[n]
<1> DEFINE B == {n} \X (1..c[n])
<1>1. UnitsOf(c, S \cup {n}) = UnitsOf(c, S) \cup B BY DEF UnitsOf
<1>2. UnitsOf(c, S) \cap B = {} BY DEF UnitsOf
<1>3. c[n] \in Nat BY DEF Counters
<1>4. IsFiniteSet(B) /\ Cardinality(B) = c[n] BY <1>3, Block
<1>5. IsFiniteSet(UnitsOf(c, S)) /\ Total(c, S) \in Nat BY TotalFinite
<1> HIDE DEF B
<1>6. Cardinality(UnitsOf(c, S) \cup B)
         = Cardinality(UnitsOf(c, S)) + Cardinality(B) - Cardinality({})
  BY <1>2, <1>4, <1>5, FS_Union
<1>7. Cardinality({}) = 0 BY FS_EmptySet
<1>8. Total(c, S \cup {n}) = Total(c, S) + c[n] - 0 BY <1>1, <1>4, <1>6, <1>7 DEF Total
<1> QED BY <1>3, <1>5, <1>8

LEMMA TotalSame == ASSUME NEW c \in Counters, NEW d \in Counters, NEW S \in SUBSET Nodes,
                          \A n \in S : c[n] = d[n]
                   PROVE  Total(c, S) = Total(d, S)
<1>1. UnitsOf(c, S) = UnitsOf(d, S) BY DEF UnitsOf
<1> QED BY <1>1 DEF Total

LEMMA TotalZero == ASSUME NEW c \in Counters, NEW S \in SUBSET Nodes, \A n \in S : c[n] = 0
                   PROVE  Total(c, S) = 0
<1>1. UnitsOf(c, S) = {} BY DEF UnitsOf
<1> QED BY <1>1, FS_EmptySet DEF Total

\* One node gives its packet to another one.
LEMMA TotalMoved ==
    ASSUME NEW c \in Counters, NEW d \in Counters, NEW S \in SUBSET Nodes,
           NEW x \in S, NEW y \in S, x # y, c[x] = 1, d[y] = c[y] + 1,
           \A n \in S : n # y => c[n] = d[n]
    PROVE  Total(d, S \ {x}) = Total(c, S)
<1> DEFINE T == (S \ {x}) \ {y}
<1>1. T \in SUBSET Nodes /\ y \notin T /\ x \notin T \cup {y} /\ T \cup {y} = S \ {x}
      /\ (S \ {x}) \cup {x} = S /\ y \in Nodes /\ x \in Nodes
  OBVIOUS
<1>2. Total(c, S) = Total(c, S \ {x}) + 1 BY <1>1, TotalAdd
<1>3. Total(c, S \ {x}) = Total(c, T) + c[y] BY <1>1, TotalAdd
<1>4. Total(d, S \ {x}) = Total(d, T) + d[y] BY <1>1, TotalAdd
<1>5. Total(d, T) = Total(c, T) BY <1>1, TotalSame
<1>6. Total(c, T) \in Nat /\ c[y] \in Nat BY <1>1, TotalFinite DEF Counters
<1> QED BY <1>2, <1>3, <1>4, <1>5, <1>6

-----------------------------------------------------------------------------
(* The invariant of the packets                                            *)

Numbers == /\ seen \in Int /\ Settled \in Int /\ faults \in Nat
           /\ \A n \in Nodes : node[n].packets \in Nat

\* A node on its way to the tree has one packet, an empty node none.
Single(n) == node[n].packets = IF node[n].kind = "signal" THEN 0 ELSE 1

\* Free nodes are empty, and so are those the packet thread gave up.
Filled == /\ \A n \in Nodes : Holds(free, n) => node[n].packets = 0
          /\ p.pc = "decode" => node[p.node].packets = 0
          /\ \A n \in Nodes : Holds(list, n) => Single(n)
          /\ p.pc = "push" => Single(p.node)
          /\ f.node # None => Single(f.node)
          /\ faults = 0 => \A n \in leaked : node[n].packets = 0

Counting == tree \cup Range(list) \cup Held \cup leaked
Balanced == seen = Settled + Sum(Counting)

\* main ends the packet thread before it tells the flow thread to end, which
\* then only ends when the list and the tree are empty.
Ending ==
    /\ m \in {"killFlow", "wakeFlow", "joinFlow", "ended"} => p.pc = "ended"
    /\ "flow" \in pending => m \in {"wakeFlow", "joinFlow", "ended"}
    /\ m = "ended" => f.pc = "ended"
    /\ faults = 0 => /\ f.done => p.pc = "ended"
                     /\ f.ended => f.done /\ list = <<>>
                     /\ f.pc = "ended" => f.ended /\ tree = {}

-----------------------------------------------------------------------------
(* The order in which the threads end                                      *)

LEMMA EPacket ==
    ASSUME IInv, Ending, Capture \/ Idle \/ Finish \/ PacketStep
    PROVE  Ending'
<1> USE DEF IInv, Typed, PacketType, FlowType
<1>1. ASSUME p.pc # "ended", UNCHANGED <<m, faults>>, "flow" \in pending' => "flow" \in pending,
             f' = f \/ (f.pc = "sleep" /\ f' = [f EXCEPT !.pc = "pop"])
      PROVE  Ending'
  <2>1. /\ f'.done = f.done /\ f'.ended = f.ended
        /\ f'.pc = f.pc \/ (f.pc = "sleep" /\ f'.pc = "pop")
    BY <1>1
  <2> QED BY <1>1, <2>1 DEF Ending
<1>2. CASE Notify
  <2>1. f' = f \/ (f.pc = "sleep" /\ f' = [f EXCEPT !.pc = "pop"])
    <3>1. CASE f.pc = "sleep" BY <1>2, <3>1 DEF Notify
    <3>2. CASE f.pc # "sleep"
      <4>1. f' = [f EXCEPT !.pc = f.pc] BY <1>2, <3>2 DEF Notify
      <4> QED BY <4>1
    <3> QED BY <3>1, <3>2
  <2> QED BY <1>1, <1>2, <2>1 DEF Notify
<1>3. CASE Capture \/ Idle BY <1>1, <1>3 DEF Capture, Idle
<1>4. CASE Finish
  <2>1. "flow" \in pending' => "flow" \in pending BY <1>4 DEF Finish
  <2> QED BY <1>1, <1>4, <2>1 DEF Finish
<1>5. CASE TakeNode \/ NoNode \/ AwaitNode
  BY <1>1, <1>5 DEF TakeNode, NoNode, AwaitNode
<1>6. CASE Decode BY <1>1, <1>6 DEF Decode
<1>7. CASE Push BY <1>1, <1>7 DEF Push
<1> QED BY <1>2, <1>3, <1>4, <1>5, <1>6, <1>7 DEF PacketStep

\* A failed call is not forgotten.
LEMMA FaultsStay == ASSUME IInv, FInv, FlowStep, faults' = 0 PROVE faults = 0
<1>1. CASE Flush("flush") \/ Flush("flushFull")
  <2>1. PICK n \in tree : Store(n) BY <1>1 DEF Flush
  <2>2. n \in Nodes BY WTypes
  <2> QED BY <2>1, <2>2, StoreEffect
<1>2. CASE Expire
  <2>1. udp \in Seq(Nodes) /\ udp # <<>> /\ Store(Head(udp))
    BY <1>2, WTypes DEF Expire, Expired
  <2> QED BY <2>1, TailOf, StoreEffect
<1>3. CASE ProcessDirect
  <2>1. f.node \in Nodes /\ Store(f.node) BY <1>3, InHand DEF ProcessDirect
  <2> QED BY <2>1, StoreEffect
<1>4. CASE Close BY <1>4, CloseEffect
<1>5. CASE Open \/ OpenFails BY <1>5, FailEffect DEF Open
<1>6. CASE \/ PopNode \/ PopNull \/ TestDone \/ AwaitList \/ FreePush \/ FreeTest \/ FreeWake
           \/ Flushed("flush", "close") \/ Flushed("flushFull", "pop")
           \/ ProcessSignal \/ ProcessNew \/ ProcessKnown
  BY <1>6 DEF PopNode, PopNull, TestDone, AwaitList, FreePush, FreeTest, FreeWake,
     Flushed, ProcessSignal, ProcessNew, ProcessKnown
<1> QED BY <1>1, <1>2, <1>3, <1>4, <1>5, <1>6 DEF FlowStep

LEMMA EFlow == ASSUME IInv, FInv, WInv, Ending, FlowStep PROVE Ending'
<1>16. faults' = 0 => faults = 0 BY FaultsStay
<1>17. OpenFails => faults' # 0 BY FailEffect
<1> USE DEF IInv, Typed, PacketType, FlowType
<1>1. ASSUME f.pc # "ended", f'.pc # "ended", UNCHANGED <<m, pending>>,
             p.pc = "ended" => p'.pc = "ended",
             f'.done = f.done, f'.ended => f.ended \/ (list = <<>> /\ f.done),
             list' = list \/ list # <<>>
      PROVE  Ending'
  BY <1>1, <1>16 DEF Ending
<1>2. CASE PopNode BY <1>1, <1>2 DEF PopNode, AtFlow
<1>3. CASE PopNull BY <1>1, <1>3 DEF PopNull, AtFlow
<1>4. CASE TestDone \/ AwaitList BY <1>1, <1>4 DEF TestDone, AwaitList, AtFlow
<1>5. CASE FreePush BY <1>1, <1>5 DEF FreePush, AtFlow
<1>6. CASE FreeTest \/ FreeWake
  <2>1. f.back # "ended" /\ Hands /\ f.back # None
    BY <1>6 DEF FreeTest, FreeWake, AtFlow, Hands, Freeing, None
  <2>2. CASE FreeTest BY <1>1, <2>1, <2>2 DEF FreeTest, AtFlow
  <2>3. CASE FreeWake
    <3>1. f'.pc = f.back /\ f'.done = f.done /\ f'.ended = f.ended BY <2>3 DEF FreeWake
    <3>2. p.pc = "ended" => p'.pc = "ended" BY <2>3 DEF FreeWake
    <3> QED BY <1>1, <2>1, <2>3, <3>1, <3>2 DEF FreeWake, AtFlow
  <2> QED BY <1>6, <2>2, <2>3
<1>7. CASE Flush("flush") \/ Flush("flushFull")
  <2>1. f' = [f EXCEPT !.pc = "free", !.victim = f'.victim, !.back = f'.back]
    BY <1>7 DEF Flush, FreeThen
  <2>2. f'.pc = "free" /\ f'.done = f.done /\ f'.ended = f.ended BY <2>1
  <2>3. f.pc # "ended" /\ UNCHANGED <<m, pending, p, list>>
    BY <1>7 DEF Flush, AtFlow
  <2> QED BY <1>1, <2>2, <2>3
<1>8. CASE Flushed("flush", "close") \/ Flushed("flushFull", "pop")
  BY <1>1, <1>8 DEF Flushed, AtFlow
<1>9. CASE Close
  <2>1. tree = {} BY <1>9 DEF WInv, InWindow, Close, AtFlow, Pos, Freeing
  <2>2. f.pc = "close" /\ UNCHANGED <<list, tree, p, m, pending>>
    BY <1>9 DEF Close, AtFlow
  <2>3. /\ f'.pc = IF f.ended THEN "ended" ELSE "reopen"
        /\ f'.done = f.done /\ f'.ended = f.ended
    BY <1>9 DEF Close
  <2> QED BY <1>16, <2>1, <2>2, <2>3 DEF Ending
<1>10. CASE Open \/ OpenFails
  <2>1. CASE Open BY <1>1, <2>1 DEF Open, AtFlow
  <2>2. CASE OpenFails
    <3>1. faults' # 0 BY <1>17, <2>2
    <3>2. /\ UNCHANGED <<p, m>> /\ ("flow" \in pending' => "flow" \in pending)
          /\ f.pc = "reopen" /\ f'.pc = "ended"
      BY <2>2 DEF OpenFails, AtFlow
    <3> QED BY <3>1, <3>2 DEF Ending
  <2> QED BY <1>10, <2>1, <2>2
<1>15. CASE Expire BY <1>1, <1>15 DEF Expire, FreeThen, AtFlow
<1>11. CASE ProcessSignal BY <1>1, <1>11 DEF ProcessSignal, AtFlow
<1>12. CASE ProcessDirect BY <1>1, <1>12 DEF ProcessDirect, AtFlow
<1>13. CASE ProcessNew
  <2>1. PICK pc \in {"flushFull", "pop"} : f' = [f EXCEPT !.node = None, !.pc = pc]
    BY <1>13 DEF ProcessNew
  <2> QED BY <1>1, <1>13, <2>1 DEF ProcessNew, AtFlow
<1>14. CASE ProcessKnown BY <1>1, <1>14 DEF ProcessKnown, AtFlow
<1> QED BY <1>2, <1>3, <1>4, <1>5, <1>6, <1>7, <1>8, <1>9, <1>10, <1>11, <1>12, <1>13, <1>14,
         <1>15
        DEF FlowStep

LEMMA EMain ==
    ASSUME IInv, Ending, Stop \/ MainStep \/ Handler("packet") \/ Handler("flow") \/ UNCHANGED vars
    PROVE  Ending'
<1> USE DEF IInv, Typed, TypeOK, PacketType, FlowType, Ending
<1>1. CASE Stop BY <1>1 DEF Stop
<1>2. CASE KillPacket BY <1>2 DEF KillPacket
<1>3. CASE JoinPacket BY <1>3 DEF JoinPacket
<1>4. CASE KillFlow BY <1>4 DEF KillFlow
<1>5. CASE WakeFlow
  <2>1. /\ f'.done = f.done /\ f'.ended = f.ended
        /\ f'.pc = f.pc \/ (f.pc = "sleep" /\ f'.pc = "pop")
    BY <1>5 DEF WakeFlow
  <2> QED BY <1>5, <2>1 DEF WakeFlow
<1>6. CASE JoinFlow BY <1>6 DEF JoinFlow
<1>7. CASE Handler("packet")
  <2>1. p'.pc = p.pc BY <1>7 DEF Handler
  <2> QED BY <1>7, <2>1 DEF Handler
<1>8. CASE Handler("flow")
  <2>1. f'.pc = f.pc /\ f'.ended = f.ended /\ p.pc = "ended" BY <1>8 DEF Handler
  <2> QED BY <1>8, <2>1 DEF Handler
<1>9. CASE UNCHANGED vars BY <1>9 DEF vars
<1> QED BY <1>1, <1>2, <1>3, <1>4, <1>5, <1>6, <1>7, <1>8, <1>9 DEF MainStep

LEMMA EndingStep == ASSUME IInv, FInv, WInv, Ending, [Next]_vars PROVE Ending'
BY EPacket, EFlow, EMain DEF Next

-----------------------------------------------------------------------------
(* The packets                                                             *)

\* The nodes whose packets are counted.
Counts(n) == \/ n \in tree \/ Holds(list, n) \/ f.node = n \/ n \in leaked
             \/ p.pc = "push" /\ p.node = n

LEMMA CountingIs ==
    ASSUME Typed, Typed'
    PROVE  /\ Counting \subseteq Nodes /\ \A n \in Nodes : n \in Counting <=> Counts(n)
           /\ Counting' \subseteq Nodes /\ \A n \in Nodes : n \in Counting' <=> Counts(n)'
<1>1. /\ tree \subseteq Nodes /\ leaked \subseteq Nodes /\ list \in Seq(Nodes)
      /\ tree' \subseteq Nodes /\ leaked' \subseteq Nodes /\ list' \in Seq(Nodes)
  BY DEF Typed, TypeOK
<1>2. ASSUME NEW q \in Seq(Nodes)
      PROVE  Range(q) \subseteq Nodes /\ \A n \in Nodes : n \in Range(q) <=> Holds(q, n)
  BY DEF Range, Holds
<1>3. Held \subseteq Nodes /\ Held' \subseteq Nodes BY DEF Held
<1>4. \A n \in Nodes : /\ n \in Held <=> f.node = n \/ (p.pc = "push" /\ p.node = n)
                       /\ n \in Held' <=> f'.node = n \/ (p'.pc = "push" /\ p'.node = n)
  BY DEF Held
<1> QED BY <1>1, <1>2, <1>3, <1>4 DEF Counting, Counts

PacketsOf(g) == [n \in Nodes |-> g[n].packets]

LEMMA SumIs == ASSUME NEW S \in SUBSET Nodes, NEW g
               PROVE  UNION {{n} \X (1..g[n].packets) : n \in S} = UnitsOf(PacketsOf(g), S)
<1>1. \A n \in S : {n} \X (1..g[n].packets) = {n} \X (1..PacketsOf(g)[n]) BY DEF PacketsOf
<1> QED BY <1>1 DEF UnitsOf

\* A step keeps the balance when it adds to the counted nodes what it adds to
\* the packets seen and takes from the files.
LEMMA Rebalanced ==
    ASSUME Typed, Typed', Numbers, Numbers', Balanced,
           LET c == PacketsOf(node)
               d == PacketsOf(node') IN
           Total(d, Counting') - Total(c, Counting)
              = (seen' - Settled') - (seen - Settled)
    PROVE  Balanced'
<1> DEFINE c == PacketsOf(node)
           d == PacketsOf(node')
<1>1. Counting \subseteq Nodes /\ Counting' \subseteq Nodes BY CountingIs
<1>2. c \in Counters /\ d \in Counters BY DEF PacketsOf, Counters, Numbers
<1>3. Units(Counting) = UnitsOf(c, Counting) BY <1>1, SumIs DEF Units
<1>4. Units(Counting)' = UnitsOf(d, Counting') BY <1>1, SumIs DEF Units
<1>5. Sum(Counting) = Total(c, Counting) /\ Sum(Counting)' = Total(d, Counting')
  BY <1>3, <1>4 DEF Sum, Total
<1>6. Total(c, Counting) \in Nat /\ Total(d, Counting') \in Nat BY <1>1, <1>2, TotalFinite
<1> HIDE DEF c, d
<1>7. seen' = Settled' + Total(d, Counting')
  BY <1>5, <1>6 DEF Numbers, Balanced, c, d
<1> QED BY <1>5, <1>7 DEF Balanced

\* Nothing happens to the packets.
LEMMA Kept ==
    ASSUME Typed, Typed', Numbers, Numbers', Balanced,
           \A n \in Nodes : Counts(n)' <=> Counts(n),
           \A n \in Nodes : Counts(n) => node'[n].packets = node[n].packets,
           seen' - Settled' = seen - Settled
    PROVE  Balanced'
<1> DEFINE c == PacketsOf(node)
           d == PacketsOf(node')
<1>1. Counting' = Counting /\ Counting \subseteq Nodes BY CountingIs
<1>2. c \in Counters /\ d \in Counters BY DEF PacketsOf, Counters, Numbers
<1>3. \A n \in Counting : c[n] = d[n] BY <1>1, CountingIs DEF PacketsOf
<1>4. Total(c, Counting) = Total(d, Counting) /\ Total(c, Counting) \in Nat
  BY <1>1, <1>2, <1>3, TotalSame, TotalFinite
<1>5. Total(d, Counting') - Total(c, Counting)
         = (seen' - Settled') - (seen - Settled)
  <2>1. seen \in Int /\ Settled \in Int BY DEF Numbers
  <2>2. Total(d, Counting') = Total(c, Counting) BY <1>1, <1>4
  <2> HIDE DEF c, d
  <2> QED BY <1>4, <2>1, <2>2
<1> QED BY <1>5, Rebalanced

\* A node is counted from now on.
LEMMA Added ==
    ASSUME Typed, Typed', Numbers, Numbers', Balanced, NEW x \in Nodes,
           ~Counts(x), \A n \in Nodes : Counts(n)' <=> Counts(n) \/ n = x,
           \A n \in Nodes : Counts(n) => node'[n].packets = node[n].packets,
           seen' - Settled' = seen - Settled + node'[x].packets
    PROVE  Balanced'
<1> DEFINE c == PacketsOf(node)
           d == PacketsOf(node')
<1>1. Counting' = Counting \cup {x} /\ Counting \subseteq Nodes /\ x \notin Counting
  BY CountingIs
<1>2. c \in Counters /\ d \in Counters BY DEF PacketsOf, Counters, Numbers
<1>3. \A n \in Counting : c[n] = d[n] BY <1>1, CountingIs DEF PacketsOf
<1>4. Total(c, Counting) = Total(d, Counting) /\ Total(c, Counting) \in Nat
  BY <1>1, <1>2, <1>3, TotalSame, TotalFinite
<1>5. Total(d, Counting') = Total(d, Counting) + d[x] BY <1>1, <1>2, TotalAdd
<1>6. d[x] = node'[x].packets /\ d[x] \in Nat BY <1>2 DEF PacketsOf, Counters
<1> HIDE DEF c, d
<1>7. Total(d, Counting') - Total(c, Counting)
         = (seen' - Settled') - (seen - Settled)
  BY <1>4, <1>5, <1>6 DEF Numbers
<1> QED BY <1>7, Rebalanced DEF c, d

\* A node was stored, and is counted no more.
LEMMA Filed ==
    ASSUME Typed, Typed', Numbers, Numbers', Balanced, NEW x \in Nodes,
           Counts(x), \A n \in Nodes : Counts(n)' <=> Counts(n) /\ n # x,
           UNCHANGED <<node, seen>>, Settled' = Settled + node[x].packets
    PROVE  Balanced'
<1> DEFINE c == PacketsOf(node)
           d == PacketsOf(node')
<1>1. /\ Counting = Counting' \cup {x} /\ Counting' \subseteq Nodes /\ x \notin Counting'
  BY CountingIs
<1>2. c \in Counters /\ c = d BY DEF PacketsOf, Counters, Numbers
<1>3. Total(c, Counting') + c[x] = Total(c, Counting) BY <1>1, <1>2, TotalAdd
<1>4. Total(c, Counting') \in Nat /\ c[x] \in Nat /\ c[x] = node[x].packets
  BY <1>1, <1>2, TotalFinite DEF Counters, PacketsOf
<1> HIDE DEF c, d
<1>5. seen \in Int /\ Settled \in Int /\ seen' = seen /\ Settled' = Settled + c[x]
  BY <1>4 DEF Numbers
<1>6. Total(d, Counting') - Total(c, Counting)
         = (seen' - Settled') - (seen - Settled)
  <2>1. Total(d, Counting') = Total(c, Counting') BY <1>2
  <2> QED BY <1>3, <1>4, <1>5, <2>1
<1> QED BY <1>6, Rebalanced DEF c, d

\* The packet of a node is added to a flow.
LEMMA Merged ==
    ASSUME Typed, Typed', Numbers, Numbers', Balanced, NEW x \in Nodes, NEW e \in Nodes,
           Counts(x), Counts(e), x # e, \A n \in Nodes : Counts(n)' <=> Counts(n) /\ n # x,
           node[x].packets = 1, node'[e].packets = node[e].packets + 1,
           \A n \in Nodes : n # e => node'[n].packets = node[n].packets,
           UNCHANGED <<seen, Settled>>
    PROVE  Balanced'
<1> DEFINE c == PacketsOf(node)
           d == PacketsOf(node')
<1>1. /\ Counting' = Counting \ {x} /\ Counting \subseteq Nodes
      /\ x \in Counting /\ e \in Counting
  BY CountingIs
<1>2. c \in Counters /\ d \in Counters BY DEF PacketsOf, Counters, Numbers
<1>3. c[x] = 1 /\ d[e] = c[e] + 1 /\ \A n \in Counting : n # e => c[n] = d[n]
  BY <1>1 DEF PacketsOf
<1> HIDE DEF c, d
<1>4. Total(d, Counting \ {x}) = Total(c, Counting) /\ Total(c, Counting) \in Nat
  BY <1>1, <1>2, <1>3, TotalMoved, TotalFinite
<1>5. Total(d, Counting') - Total(c, Counting)
         = (seen' - Settled') - (seen - Settled)
  BY <1>1, <1>4 DEF Numbers
<1> QED BY <1>5, Rebalanced DEF c, d

PInv == Numbers /\ Filled /\ Balanced

\* Steps that leave the packets where they are.
LEMMA CQuiet ==
    ASSUME Typed, Typed', PInv,
           UNCHANGED <<node, list, tree, Settled, seen, leaked, faults>>,
           f'.node = f.node,
           p'.pc = "push" <=> p.pc = "push", p'.pc = "push" => p'.node = p.node,
           p'.pc = "decode" => \/ p.pc = "decode" /\ p'.node = p.node
                               \/ node[p'.node].packets = 0,
           \A n \in Nodes : Holds(free', n) => Holds(free, n)
    PROVE  PInv'
<1>1. Numbers' BY DEF PInv, Numbers
<1>2. Filled' BY DEF PInv, Filled, Single, Holds
<1>3. Balanced'
  <2>1. \A n \in Nodes : Counts(n)' <=> Counts(n) BY DEF Counts, Holds
  <2>2. seen' - Settled' = seen - Settled OBVIOUS
  <2> QED BY <1>1, <2>1, <2>2, Kept DEF PInv
<1> QED BY <1>1, <1>2, <1>3 DEF PInv

LEMMA CPacket ==
    ASSUME IInv, IInv', PInv,
           Capture \/ Idle \/ Finish \/ TakeNode \/ NoNode \/ AwaitNode \/ Notify
    PROVE  PInv'
<1> USE DEF IInv, Typed, PacketType, FlowType
<1>1. ASSUME UNCHANGED <<node, list, tree, Settled, seen, leaked, faults>>,
             f'.node = f.node, p.pc # "push", p'.pc # "push",
             p'.pc = "decode" => node[p'.node].packets = 0,
             \A n \in Nodes : Holds(free', n) => Holds(free, n)
      PROVE  PInv'
  <2>1. Typed /\ Typed' /\ PInv OBVIOUS
  <2> QED BY ONLY <1>1, <2>1, CQuiet
<1>2. CASE Capture BY <1>1, <1>2 DEF Capture, pool, Holds, Settled
<1>3. CASE Idle BY <1>1, <1>3 DEF Idle, pool, Holds, Settled
<1>4. CASE Finish BY <1>1, <1>4 DEF Finish, pool, Holds, Settled
<1>5. CASE TakeNode
  <2>1. p'.pc = "decode" /\ p'.node = Head(free) BY <1>5 DEF TakeNode
  <2>2. free \in Seq(Nodes) /\ Once(free) BY DEF TypeOK, Apart
  <2>3. /\ Head(free) \in Nodes /\ Holds(free, Head(free))
        /\ \A n \in Nodes : Holds(free', n) => Holds(free, n)
    BY <1>5, <2>2, TailOf DEF TakeNode
  <2>4. node[Head(free)].packets = 0 BY <2>3 DEF PInv, Filled
  <2> QED BY <1>1, <1>5, <2>1, <2>3, <2>4 DEF TakeNode, Settled
<1>6. CASE NoNode \/ AwaitNode BY <1>1, <1>6 DEF NoNode, AwaitNode, pool, Holds, Settled
<1>7. CASE Notify BY <1>1, <1>7 DEF Notify, pool, Holds, Settled
<1> QED BY <1>2, <1>3, <1>4, <1>5, <1>6, <1>7

LEMMA COthers ==
    ASSUME IInv, IInv', PInv,
           \/ MainStep \/ Stop \/ Handler("packet") \/ Handler("flow") \/ UNCHANGED vars
           \/ PopNull \/ TestDone \/ AwaitList \/ FreeTest \/ FreeWake
           \/ Flushed("flush", "close") \/ Flushed("flushFull", "pop")
    PROVE  PInv'
<1> USE DEF IInv, Typed, PacketType, FlowType
<1>1. ASSUME UNCHANGED <<free, node, list, tree, Settled, seen, leaked, faults>>,
             f'.node = f.node,
             p'.pc = p.pc \/ {p.pc, p'.pc} \cap {"push", "decode"} = {}, p'.node = p.node
      PROVE  PInv'
  <2>1. Typed /\ Typed' /\ PInv OBVIOUS
  <2>2. \A n \in Nodes : Holds(free', n) => Holds(free, n) BY <1>1
  <2> QED BY ONLY <1>1, <2>1, <2>2, CQuiet
<1>2. CASE KillPacket \/ JoinPacket \/ KillFlow \/ JoinFlow \/ Stop \/ UNCHANGED vars
  BY <1>1, <1>2 DEF KillPacket, JoinPacket, KillFlow, JoinFlow, Stop, vars, pool, Settled
<1>3. CASE WakeFlow BY <1>1, <1>3 DEF WakeFlow, pool, Settled
<1>4. CASE Handler("packet") BY <1>1, <1>4 DEF Handler, pool, Settled
<1>5. CASE Handler("flow") BY <1>1, <1>5 DEF Handler, pool, Settled
<1>6. CASE PopNull \/ TestDone \/ AwaitList
  BY <1>1, <1>6 DEF PopNull, TestDone, AwaitList, pool, Settled
<1>7. CASE FreeTest BY <1>1, <1>7 DEF FreeTest, pool, Settled
<1>8. CASE FreeWake
  <2>1. p'.pc = p.pc \/ {p.pc, p'.pc} \cap {"push", "decode"} = {} BY <1>8 DEF FreeWake
  <2>2. f'.node = f.node /\ p'.node = p.node BY <1>8 DEF FreeWake
  <2> QED BY <1>1, <1>8, <2>1, <2>2 DEF FreeWake, Settled
<1>9. CASE Flushed("flush", "close") \/ Flushed("flushFull", "pop")
  BY <1>1, <1>9 DEF Flushed, pool, Settled
<1> QED BY <1>2, <1>3, <1>4, <1>5, <1>6, <1>7, <1>8, <1>9 DEF MainStep

LEMMA CDecode == ASSUME IInv, IInv', PInv, Decode PROVE PInv'
<1> USE NoneApart
<1> DEFINE n == p.node
<1>1. n \in Nodes /\ p.pc = "decode" /\ node[n].packets = 0 /\ Typed /\ Typed'
  BY DEF Decode, IInv, Hands, Typed, PacketType, SomeNode, PInv, Filled
<1>2. UNCHANGED <<list, tree, f, Settled, faults>> BY DEF Decode, Settled
<1>3. ~Holds(free, n) /\ ~Counts(n) BY <1>1, Exclusive DEF Counts
<1>4. CASE /\ free' = <<n>> \o free /\ UNCHANGED <<node, seen, leaked>>
           /\ p' = [p EXCEPT !.pc = "read", !.node = None, !.kind = None]
  <2>1. p'.pc = "read" BY <1>4 DEF IInv, Typed, PacketType
  <2>2. \A o \in Nodes : Holds(free', o) <=> Holds(free, o) \/ o = n
    BY <1>1, <1>4, Prepended DEF Typed, TypeOK
  <2>3. Numbers' BY <1>2, <1>4 DEF PInv, Numbers
  <2>4. Filled' BY <1>1, <1>2, <1>4, <2>1, <2>2 DEF PInv, Filled, Single, Holds
  <2>5. Balanced'
    <3>1. \A o \in Nodes : Counts(o)' <=> Counts(o)
      BY <1>1, <1>2, <1>4, <2>1 DEF Counts, Holds
    <3>2. seen' - Settled' = seen - Settled BY <1>2, <1>4
    <3> QED BY <1>1, <1>4, <2>3, <3>1, <3>2, Kept DEF PInv
  <2> QED BY <2>3, <2>4, <2>5 DEF PInv
<1>5. CASE /\ leaked' = leaked \cup {n} /\ UNCHANGED <<free, node, seen>>
           /\ p' = [p EXCEPT !.pc = "read", !.node = None, !.kind = None]
  <2>1. p'.pc = "read" BY <1>5 DEF IInv, Typed, PacketType
  <2>2. Numbers' BY <1>2, <1>5 DEF PInv, Numbers
  <2>3. Filled' BY <1>1, <1>2, <1>5, <2>1 DEF PInv, Filled, Single, Holds
  <2>4. Balanced'
    <3>1. \A o \in Nodes : Counts(o)' <=> Counts(o) \/ o = n
      BY <1>1, <1>2, <1>5, <2>1 DEF Counts, Holds
    <3>2. seen' - Settled' = seen - Settled + node'[n].packets
      BY <1>1, <1>2, <1>5 DEF PInv, Numbers
    <3> QED BY <1>1, <1>3, <1>5, <2>2, <3>1, <3>2, Added DEF PInv
  <2> QED BY <2>2, <2>3, <2>4 DEF PInv
<1>6. CASE /\ node' = [node EXCEPT ![n] = [kind |-> p.kind, first |-> now, last |-> now,
                                           packets |-> IF p.kind = "signal" THEN 0 ELSE 1]]
           /\ seen' = IF p.kind = "signal" THEN seen ELSE seen + 1
           /\ p' = [p EXCEPT !.pc = "push"] /\ UNCHANGED <<free, leaked>>
  <2>1. p'.pc = "push" /\ p'.node = n BY <1>6 DEF IInv, Typed, PacketType
  <2>2. /\ \A o \in Nodes : o # n => node'[o] = node[o]
        /\ node'[n].kind = p.kind
        /\ node'[n].packets = IF p.kind = "signal" THEN 0 ELSE 1
    BY <1>1, <1>6 DEF Typed
  <2>3. Numbers'
    <3>1. \A o \in Nodes : node'[o].packets \in Nat BY <2>2 DEF PInv, Numbers
    <3> QED BY <1>2, <1>6, <3>1 DEF PInv, Numbers
  <2>4. Filled'
    <3>1. /\ \A o \in Nodes : Holds(free', o) => node'[o].packets = 0
          /\ \A o \in leaked' : faults' = 0 => node'[o].packets = 0
      BY <1>1, <1>2, <1>3, <1>6, <2>2 DEF PInv, Filled, Holds, Counts, Typed, TypeOK
    <3>2. /\ \A o \in Nodes : Holds(list', o) => Single(o)'
          /\ f'.node # None => Single(f.node)'
      BY <1>1, <1>2, <1>3, <1>6, <2>2
      DEF PInv, Filled, Holds, Counts, Single, Typed, FlowType, SomeNode
    <3>3. Single(p.node)' BY <2>1, <2>2 DEF Single
    <3> QED BY <2>1, <3>1, <3>2, <3>3 DEF Filled
  <2>5. Balanced'
    <3>1. \A o \in Nodes : Counts(o)' <=> Counts(o) \/ o = n
      BY <1>1, <1>2, <1>6, <2>1 DEF Counts, Holds
    <3>2. \A o \in Nodes : Counts(o) => node'[o].packets = node[o].packets
      BY <1>3, <2>2
    <3>3. seen' - Settled' = seen - Settled + node'[n].packets
      BY <1>2, <1>6, <2>2 DEF PInv, Numbers
    <3> QED BY <1>1, <1>3, <2>3, <3>1, <3>2, <3>3, Added DEF PInv
  <2> QED BY <2>3, <2>4, <2>5 DEF PInv
<1> QED BY <1>4, <1>5, <1>6 DEF Decode, pool

LEMMA CPush == ASSUME IInv, IInv', PInv, Push PROVE PInv'
<1> USE NoneApart
<1> DEFINE n == p.node
<1>1. /\ n \in Nodes /\ p.pc = "push" /\ Single(n) /\ Typed /\ Typed'
      /\ UNCHANGED <<free, node, tree, f, Settled, seen, leaked, faults>>
      /\ list' = Append(list, n) /\ p' = [p EXCEPT !.pc = "notify", !.node = None, !.kind = None]
  BY WTypes DEF Push, pool, PInv, Filled, IInv, Settled
<1>2. p'.pc = "notify" /\ p'.node = None BY <1>1 DEF Typed, PacketType
<1>3. \A o \in Nodes : Holds(list', o) <=> Holds(list, o) \/ o = n
  BY <1>1, Appended DEF Typed, TypeOK
<1>4. Numbers' BY <1>1 DEF PInv, Numbers
<1>5. Filled' BY <1>1, <1>2, <1>3 DEF PInv, Filled, Single, Holds
<1>6. \A o \in Nodes : Counts(o)' <=> Counts(o) BY <1>1, <1>2, <1>3 DEF Counts
<1>7. seen' - Settled' = seen - Settled BY <1>1
<1>8. Balanced' BY <1>1, <1>4, <1>6, <1>7, Kept DEF PInv
<1> QED BY <1>4, <1>5, <1>8 DEF PInv

LEMMA CPopNode == ASSUME IInv, IInv', PInv, PopNode PROVE PInv'
<1> USE NoneApart
<1> DEFINE n == Head(list)
<1>1. /\ UNCHANGED <<free, node, tree, p, Settled, seen, leaked, faults>>
      /\ list # <<>> /\ list' = Tail(list) /\ f.pc = "pop" /\ Typed /\ Typed'
  BY DEF PopNode, AtFlow, pool, IInv, Settled
<1>2. f'.node = n BY DEF PopNode, IInv, Typed, FlowType
<1>3. f.node = None BY <1>1 DEF IInv, Hands, Pos, Freeing
<1>4. /\ n \in Nodes /\ Holds(list, n)
      /\ \A o \in Nodes : Holds(list', o) <=> Holds(list, o) /\ o # n
  BY <1>1, TailOf, WTypes DEF IInv, Apart
<1> HIDE DEF n
<1>5. Numbers' BY <1>1 DEF PInv, Numbers
<1>6. Filled' BY <1>1, <1>2, <1>4 DEF PInv, Filled, Single, Holds
<1>7. \A o \in Nodes : Counts(o)' <=> Counts(o) BY <1>1, <1>2, <1>3, <1>4 DEF Counts
<1>8. seen' - Settled' = seen - Settled BY <1>1
<1>9. Balanced' BY <1>1, <1>5, <1>7, <1>8, Kept DEF PInv
<1> QED BY <1>5, <1>6, <1>9 DEF PInv

LEMMA CFreePush == ASSUME IInv, IInv', PInv, FreePush PROVE PInv'
<1> USE NoneApart
<1> DEFINE x == f.victim
<1>1. /\ x \in Nodes /\ Typed /\ Typed'
      /\ UNCHANGED <<list, tree, p, Settled, seen, leaked, faults>>
      /\ node' = [node EXCEPT ![x] = Blank] /\ free' = <<x>> \o free
      /\ f' = [f EXCEPT !.pc = "freed", !.victim = None]
  BY DEF FreePush, AtFlow, IInv, Hands, Typed, FlowType, SomeNode, Settled
<1>2. f'.node = f.node BY <1>1 DEF Typed, FlowType
<1>3. \A o \in Nodes : o # x => node'[o] = node[o] BY <1>1 DEF Typed
<1>4. node'[x].packets = 0 BY <1>1 DEF Typed, Blank
<1>5. \A o \in Nodes : Holds(free', o) <=> Holds(free, o) \/ o = x
  BY <1>1, Prepended DEF Typed, TypeOK
<1>6. ~Counts(x) /\ p.node # x BY <1>1, Exclusive DEF Counts
<1> HIDE DEF x
<1>7. Numbers' BY <1>1, <1>3, <1>4 DEF PInv, Numbers
<1>8. Filled'
  <2>1. p.pc = "push" => p.node \in Nodes BY WTypes
  <2>2. p.pc = "decode" => p.node \in Nodes
    BY DEF IInv, Typed, Hands, PacketType, SomeNode
  <2>3. f.node # None => f.node \in Nodes /\ f.node # x BY <1>6, WTypes DEF Counts
  <2>4. leaked \subseteq Nodes /\ x \notin leaked BY <1>1, <1>6 DEF Typed, TypeOK, Counts
  <2>5. ~Holds(list, x) BY <1>6 DEF Counts
  <2>6. \A o \in Nodes : Holds(free', o) => node'[o].packets = 0
    BY <1>3, <1>4, <1>5 DEF PInv, Filled
  <2>7. \A o \in Nodes : Holds(list', o) => Single(o)'
    BY <1>1, <1>3, <2>5 DEF PInv, Filled, Single
  <2>8. p'.pc = "push" => Single(p.node)' BY <1>1, <1>3, <1>6, <2>1 DEF PInv, Filled, Single
  <2>9. f'.node # None => Single(f.node)' BY <1>2, <1>3, <2>3 DEF PInv, Filled, Single
  <2>10. p'.pc = "decode" => node'[p'.node].packets = 0
    BY <1>1, <1>3, <1>6, <2>2 DEF PInv, Filled
  <2>11. faults' = 0 => \A o \in leaked' : node'[o].packets = 0
    BY <1>1, <1>3, <2>4 DEF PInv, Filled
  <2> QED BY <2>6, <2>7, <2>8, <2>9, <2>10, <2>11 DEF Filled
<1>9. \A o \in Nodes : Counts(o)' <=> Counts(o) BY <1>1, <1>2 DEF Counts, Holds
<1>10. \A o \in Nodes : Counts(o) => node'[o].packets = node[o].packets BY <1>3, <1>6
<1>11. seen' - Settled' = seen - Settled BY <1>1
<1>12. Balanced' BY <1>1, <1>7, <1>9, <1>10, <1>11, Kept DEF PInv
<1> QED BY <1>7, <1>8, <1>12 DEF PInv

\* What a step that stores a flow does to the sums.
LEMMA StoredSum ==
    ASSUME IInv, FInv, NEW n \in Nodes, Store(n), closed' = closed
    PROVE  /\ Settled' = Settled + node[n].packets
           /\ faults' \in Nat /\ (faults' = 0 => faults = 0)
<1>1. /\ file' \in FileType /\ lost' \in Int /\ faults' \in Nat
      /\ faults' = 0 => faults = 0
      /\ file'.packets + file'.block.packets + lost'
            = file.packets + file.block.packets + lost + node[n].packets
  BY StoreEffect
<1>2. /\ file.packets \in Int /\ file.block.packets \in Int /\ lost \in Int /\ closed \in Int
      /\ file'.packets \in Int /\ file'.block.packets \in Int /\ node[n].packets \in Int
  BY <1>1 DEF FInv, FileType, BlockType, IInv, Typed, NodeType
<1> QED BY <1>1, <1>2 DEF Settled

LEMMA CFlush ==
    ASSUME IInv, IInv', FInv, PInv, NEW pc \in {"flush", "flushFull"}, Flush(pc)
    PROVE  PInv'
<1>1. PICK n \in tree : Store(n) /\ tree' = tree \ {n} /\ FreeThen(n, pc)
  BY DEF Flush
<1>2. /\ UNCHANGED <<free, node, list, p, closed, seen, leaked>>
      /\ f'.node = f.node /\ n \in Nodes /\ Typed /\ Typed'
  BY <1>1, WTypes DEF Flush, FreeThen, IInv, Typed, FlowType, pool
<1>7. /\ Settled' = Settled + node[n].packets
      /\ faults' \in Nat /\ (faults' = 0 => faults = 0)
  BY <1>1, <1>2, StoredSum
<1>3. Numbers' BY <1>2, <1>7 DEF PInv, Numbers
<1>4. Filled' BY <1>2, <1>7 DEF PInv, Filled, Single, Holds
<1>5. Counts(n) /\ \A o \in Nodes : Counts(o)' <=> Counts(o) /\ o # n
  BY <1>1, <1>2, Exclusive DEF Counts, Holds
<1>6. Balanced' BY <1>2, <1>3, <1>5, <1>7, Filed DEF PInv
<1> QED BY <1>3, <1>4, <1>6 DEF PInv

LEMMA CExpire == ASSUME IInv, IInv', FInv, PInv, Expire PROVE PInv'
<1> DEFINE n == Head(udp)
<1>1. /\ Store(n) /\ tree' = tree \ {n} /\ FreeThen(n, "expire")
      /\ UNCHANGED <<free, node, list, p, closed, seen, leaked>>
      /\ udp # <<>> /\ Typed /\ Typed'
  BY DEF Expire, Expired, pool, IInv
<1>2. n \in Nodes /\ n \in tree
  BY <1>1, InHand, TailOf, WTypes DEF Expire
<1> HIDE DEF n
<1>3. f'.node = f.node BY <1>1 DEF FreeThen, Typed, FlowType
<1>8. /\ Settled' = Settled + node[n].packets
      /\ faults' \in Nat /\ (faults' = 0 => faults = 0)
  BY <1>1, <1>2, StoredSum
<1>4. Numbers' BY <1>1, <1>2, <1>8 DEF PInv, Numbers
<1>5. Filled' BY <1>1, <1>3, <1>8 DEF PInv, Filled, Single, Holds
<1>6. Counts(n) /\ \A o \in Nodes : Counts(o)' <=> Counts(o) /\ o # n
  BY <1>1, <1>2, <1>3, Exclusive DEF Counts, Holds
<1>7. Balanced' BY <1>1, <1>2, <1>4, <1>6, <1>8, Filed DEF PInv
<1> QED BY <1>4, <1>5, <1>7 DEF PInv

\* Closing and opening a file moves packets, but none of a node.
LEMMA CClose == ASSUME IInv, IInv', FInv, PInv, Close \/ Open PROVE PInv'
<1>1. /\ UNCHANGED <<free, node, list, tree, p, seen, leaked>> /\ Typed /\ Typed'
      /\ f'.node = f.node
  BY DEF Close, Open, pool, IInv, Typed, FlowType
<1>2. /\ Settled' = Settled /\ faults' \in Nat /\ (faults' = 0 => faults = 0)
  BY CloseEffect, OpenEffect DEF FInv
<1>3. Numbers' BY <1>1, <1>2 DEF PInv, Numbers
<1>4. Filled' BY <1>1, <1>2 DEF PInv, Filled, Single, Holds
<1>5. \A o \in Nodes : Counts(o)' <=> Counts(o) BY <1>1 DEF Counts, Holds
<1>6. seen' - Settled' = seen - Settled BY <1>1, <1>2
<1>7. Balanced' BY <1>1, <1>3, <1>5, <1>6, Kept DEF PInv
<1> QED BY <1>3, <1>4, <1>7 DEF PInv

\* When the next file cannot be opened, the node in the hands of the thread is
\* lost, with its packet.
LEMMA COpenFails == ASSUME IInv, IInv', FInv, PInv, OpenFails PROVE PInv'
<1> USE NoneApart
<1>1. /\ UNCHANGED <<free, node, list, tree, p, seen>> /\ f.pc = "reopen" /\ Typed /\ Typed'
      /\ f'.node = None /\ leaked' = leaked \cup {f.node}
  BY DEF OpenFails, AtFlow, pool, IInv, Typed, FlowType
<1>2. Settled' = Settled /\ faults' \in Nat /\ faults' # 0 BY FailEffect
<1>3. f.node \in Nodes
  BY <1>1 DEF IInv, Hands, Pos, Freeing, Typed, FlowType, SomeNode
<1>4. Numbers' BY <1>1, <1>2 DEF PInv, Numbers
<1>5. Filled' BY <1>1, <1>2 DEF PInv, Filled, Single, Holds
<1>6. \A o \in Nodes : Counts(o)' <=> Counts(o) BY <1>1, <1>3 DEF Counts, Holds
<1>7. seen' - Settled' = seen - Settled BY <1>1, <1>2
<1>8. Balanced' BY <1>1, <1>4, <1>6, <1>7, Kept DEF PInv
<1> QED BY <1>4, <1>5, <1>8 DEF PInv

\* An empty node has no packet.
LEMMA CSignal == ASSUME IInv, IInv', PInv, ProcessSignal PROVE PInv'
<1> USE NoneApart
<1>1. /\ UNCHANGED <<free, node, list, tree, p, Settled, seen, faults>>
      /\ leaked' = leaked \cup {f.node} /\ f' = [f EXCEPT !.pc = "pop", !.node = None]
      /\ Typed /\ Typed' /\ node[f.node].kind = "signal"
  BY DEF ProcessSignal, pool, IInv, Settled
<1>2. f.node \in Nodes /\ f.node # None BY InHand DEF ProcessSignal
<1>3. f'.node = None BY <1>1 DEF Typed, FlowType
<1>4. node[f.node].packets = 0 BY <1>1, <1>2 DEF PInv, Filled, Single
<1>5. Numbers' BY <1>1 DEF PInv, Numbers
<1>6. Filled' BY <1>1, <1>3, <1>4 DEF PInv, Filled, Single, Holds
<1>7. \A o \in Nodes : Counts(o)' <=> Counts(o) BY <1>1, <1>2, <1>3 DEF Counts, Holds
<1>8. seen' - Settled' = seen - Settled BY <1>1
<1>9. Balanced' BY <1>1, <1>5, <1>7, <1>8, Kept DEF PInv
<1> QED BY <1>5, <1>6, <1>9 DEF PInv

LEMMA CDirect == ASSUME IInv, IInv', FInv, PInv, ProcessDirect PROVE PInv'
<1> USE NoneApart
<1> DEFINE n == f.node
<1>1. /\ UNCHANGED <<free, node, list, tree, p, closed, seen, leaked>>
      /\ Store(n) /\ Typed /\ Typed'
      /\ f' = [f EXCEPT !.pc = "free", !.victim = f.node, !.back = "pop", !.node = None]
  BY DEF ProcessDirect, pool, IInv
<1>2. n \in Nodes BY InHand DEF ProcessDirect
<1>3. f'.node = None BY <1>1 DEF Typed, FlowType
<1>8. /\ Settled' = Settled + node[n].packets
      /\ faults' \in Nat /\ (faults' = 0 => faults = 0)
  BY <1>1, <1>2, StoredSum
<1>4. Numbers' BY <1>1, <1>2, <1>8 DEF PInv, Numbers
<1>5. Filled' BY <1>1, <1>3, <1>8 DEF PInv, Filled, Single, Holds
<1>6. Counts(n) /\ \A o \in Nodes : Counts(o)' <=> Counts(o) /\ o # n
  BY <1>1, <1>2, <1>3, Exclusive DEF Counts, Holds
<1>7. Balanced' BY <1>1, <1>2, <1>4, <1>6, <1>8, Filed DEF PInv
<1> QED BY <1>4, <1>5, <1>7 DEF PInv

LEMMA CNew == ASSUME IInv, IInv', PInv, ProcessNew PROVE PInv'
<1> USE NoneApart
<1> DEFINE n == f.node
<1>1. /\ UNCHANGED <<free, node, list, p, Settled, seen, leaked, faults>>
      /\ tree' = tree \cup {n} /\ Typed /\ Typed'
  BY DEF ProcessNew, pool, IInv, Settled
<1>2. n \in Nodes BY InHand DEF ProcessNew
<1>3. f'.node = None
  <2>1. PICK pc \in {"flushFull", "pop"} : f' = [f EXCEPT !.node = None, !.pc = pc]
    BY DEF ProcessNew
  <2> QED BY <1>1, <2>1 DEF Typed, FlowType
<1>4. Numbers' BY <1>1 DEF PInv, Numbers
<1>5. Filled' BY <1>1, <1>3 DEF PInv, Filled, Single, Holds
<1>6. \A o \in Nodes : Counts(o)' <=> Counts(o) BY <1>1, <1>2, <1>3 DEF Counts, Holds
<1>7. seen' - Settled' = seen - Settled BY <1>1
<1>8. Balanced' BY <1>1, <1>4, <1>6, <1>7, Kept DEF PInv
<1> QED BY <1>4, <1>5, <1>8 DEF PInv

LEMMA CKnown == ASSUME IInv, IInv', PInv, ProcessKnown PROVE PInv'
<1> USE NoneApart
<1> DEFINE n == f.node
<1>1. PICK e \in Existing(node[f.node].kind) :
         node' = [node EXCEPT ![e].packets = @ + 1, ![e].last = node[f.node].last]
  BY DEF ProcessKnown
<1>2. /\ UNCHANGED <<free, list, tree, p, Settled, seen, leaked, faults>>
      /\ Typed /\ Typed' /\ node[n].kind \in Keys
      /\ f' = [f EXCEPT !.pc = "free", !.victim = f.node, !.back = "pop", !.node = None]
  BY DEF ProcessKnown, pool, IInv, Settled
<1>3. f'.node = None BY <1>2 DEF Typed, FlowType
<1>4. n \in Nodes /\ n # None /\ n \notin tree BY InHand DEF ProcessKnown
<1>5. e \in tree /\ e \in Nodes /\ e # n BY <1>1, <1>4, WTypes DEF Existing
<1>6. /\ \A o \in Nodes : o # e => node'[o] = node[o]
      /\ node'[e].packets = node[e].packets + 1
  <2>1. node \in [Nodes -> NodeType] BY <1>2 DEF Typed
  <2> QED BY <1>1, <1>5, <2>1 DEF NodeType
<1>7. /\ ~Holds(free, e) /\ ~Holds(list, e) /\ e \notin leaked /\ p.node # e
  BY <1>5, Exclusive
<1>8. node[n].packets = 1
  <2>1. "signal" \notin Keys BY PcapAssumption DEF Keys
  <2> QED BY <1>2, <1>4, <2>1 DEF PInv, Filled, Single
<1> HIDE DEF n
<1>9. Numbers' BY <1>2, <1>5, <1>6 DEF PInv, Numbers
<1>10. Filled'
  <2>1. /\ p.pc = "push" => p.node \in Nodes
        /\ p.pc = "decode" => p.node \in Nodes
        /\ leaked \subseteq Nodes
    BY DEF IInv, Typed, TypeOK, Hands, PacketType, SomeNode
  <2>2. /\ \A o \in Nodes : Holds(free', o) => node'[o].packets = 0
        /\ \A o \in Nodes : Holds(list', o) => Single(o)'
    BY <1>2, <1>6, <1>7 DEF PInv, Filled, Single
  <2>3. /\ p'.pc = "push" => Single(p.node)'
        /\ p'.pc = "decode" => node'[p'.node].packets = 0
    BY <1>2, <1>6, <1>7, <2>1 DEF PInv, Filled, Single
  <2>4. faults' = 0 => \A o \in leaked' : node'[o].packets = 0
    BY <1>2, <1>6, <1>7, <2>1 DEF PInv, Filled
  <2> QED BY <1>3, <2>2, <2>3, <2>4 DEF Filled
<1>11. Counts(n) /\ Counts(e) /\ \A o \in Nodes : Counts(o)' <=> Counts(o) /\ o # n
  BY <1>2, <1>3, <1>4, <1>5, Exclusive DEF Counts, Holds, n
<1>12. \A o \in Nodes : o # e => node'[o].packets = node[o].packets BY <1>6
<1>13. Balanced'
  BY <1>2, <1>4, <1>5, <1>6, <1>8, <1>9, <1>11, <1>12, Merged DEF PInv
<1> QED BY <1>9, <1>10, <1>13 DEF PInv

LEMMA PStep == ASSUME IInv, IInv', FInv, PInv, [Next]_vars PROVE PInv'
<1>1. CASE PacketStep \/ Capture \/ Idle \/ Finish
  BY <1>1, CPacket, CDecode, CPush DEF PacketStep
<1>2. CASE FlowStep
  <2>1. CASE Flush("flush") \/ Flush("flushFull") BY <2>1, CFlush
  <2> QED BY <1>2, <2>1, COthers, CPopNode, CFreePush, CClose, COpenFails,
             CExpire, CSignal, CDirect, CNew, CKnown
          DEF FlowStep
<1>3. CASE MainStep \/ Stop \/ Handler("packet") \/ Handler("flow") \/ UNCHANGED vars
  BY <1>3, COthers
<1> QED BY <1>1, <1>2, <1>3 DEF Next

LEMMA CStart == Init => PInv /\ Ending
<1> SUFFICES ASSUME Init PROVE PInv /\ Ending
  OBVIOUS
<1>1. /\ list = <<>> /\ tree = {} /\ leaked = {} /\ pending = {} /\ m = "wait"
      /\ p.pc = "read" /\ f.pc = "pop" /\ f.node = None /\ f.done = FALSE /\ f.ended = FALSE
      /\ seen = 0 /\ Settled = 0 /\ faults = 0
      /\ \A n \in Nodes : node[n].packets = 0
  BY DEF Init, Blank, Settled, NoFile, NoBlock
<1>2. Numbers BY <1>1 DEF Numbers
<1>3. Filled BY <1>1 DEF Filled, Holds
<1>4. Units({}) = {} BY DEF Units
<1>5. Counting = {} BY <1>1, NoneApart DEF Counting, Range, Held
<1>6. Sum(Counting) = 0 BY <1>4, <1>5, FS_EmptySet DEF Sum
<1>7. Balanced BY <1>1, <1>6 DEF Balanced
<1>8. Ending BY <1>1 DEF Ending
<1> QED BY <1>2, <1>3, <1>7, <1>8 DEF PInv

\* When main has ended without a fault, nothing is left outside the files.
LEMMA Counted == IInv /\ FInv /\ PInv /\ Ending => PacketsCounted
<1> SUFFICES ASSUME IInv, FInv, PInv, Ending PROVE PacketsCounted
  OBVIOUS
<1>1. seen = Settled + Sum(Counting) BY DEF PInv, Balanced
<1>2. ASSUME m = "ended", faults = 0 PROVE closed = seen
  <2>1. /\ f.pc = "ended" /\ f.ended /\ tree = {} /\ list = <<>>
        /\ p.pc = "ended" /\ f.node = None
    BY <1>2 DEF Ending, IInv, Hands, Pos, Freeing
  <2>2. Counting = leaked BY <2>1, NoneApart DEF Counting, Range, Held
  <2>3. \A n \in leaked : node[n].packets = 0 BY <1>2 DEF PInv, Filled
  <2>4. Units(leaked) = {} BY <2>3 DEF Units
  <2>5. Sum(Counting) = 0 BY <2>2, <2>4, FS_EmptySet DEF Sum
  <2>6. file = NoFile /\ lost = 0 /\ closed \in Int BY <1>2, <2>1 DEF FInv
  <2>7. Settled = closed BY <2>6 DEF Settled, NoFile, NoBlock
  <2> QED BY <1>1, <2>5, <2>6, <2>7
<1>3. faults = 0 => lost = 0 BY DEF FInv
<1> QED BY <1>1, <1>2, <1>3 DEF PacketsCounted, Counting

\* No packet is counted twice between the capture and the files, and none is lost but
\* those of flows that were given up or left in the hands of the flow thread when a
\* write, a rename or an open failed: for every cache, block and number of such
\* failures, and without one a program that ended has every packet in a file.
THEOREM PacketsKept == Spec => []PacketsCounted
<1> DEFINE All == IInv /\ FInv /\ WInv /\ PInv /\ Ending
<1>1. Init => All BY Start, FStart, WStart, CStart
<1>2. All /\ [Next]_vars => All' BY Step, FStep, WStep, PStep, EndingStep
<1>3. All => PacketsCounted BY Counted
<1> QED BY <1>1, <1>2, <1>3, PTL DEF Spec
=============================================================================
