------------------------------- MODULE Filter -------------------------------
(***************************************************************************)
(* The filter of nfdump (nftree.c, grammar.y).  The parser reduces an      *)
(* expression from the left to the right: a term makes blocks, and AND, OR *)
(* and NOT link the blocks of their operands.  No tree is kept: a block    *)
(* has a test and the blocks to go on with when it is true and when it is  *)
(* false (0: the end), and NOT only marks blocks.  A group of connected    *)
(* blocks (superblock) is known by the block it begins with, which holds   *)
(* the list of its blocks.                                                 *)
(*                                                                         *)
(* A flow has numbers, a set of TCP flags and two addresses of two halves. *)
(***************************************************************************)
EXTENDS Integers, FiniteSets, SequencesExt

CONSTANTS
    Flows,      \* records [packets, ms, flags, src, dst]
    Comparisons, \* records [field, comp, value], the field one of packets, pps
                \* and duration
    FlagLists,  \* sets of flags
    Hosts,      \* records [direction, ips], with the addresses of a host name
    IpLists,    \* records [direction, nets], with a sequence of networks: sets of
                \* addresses of which two are disjoint or one is in the other
    MaxBlocks,  \* bound: blocks of a filter
    MaxNots     \* bound: negations

ASSUME FilterAssumption ==
    /\ MaxBlocks \in Nat /\ MaxNots \in Nat
    /\ \A l \in IpLists : \A i, j \in DOMAIN l.nets :
          l.nets[i] \cap l.nets[j] \in {{}, l.nets[i], l.nets[j]}

VARIABLES
    FilterTree, \* the blocks; NumBlocks is their number
    Extended,   \* some block needs more than a comparison for equality
    stack,      \* the parser's values: groups that are not connected yet
    wants,      \* history: for each of them, the flows it should select, and
                \* those its negation should select
    nots        \* negations, for the bound
vars == <<FilterTree, Extended, stack, wants, nots>>

Init == /\ FilterTree = <<>> /\ Extended = FALSE
        /\ stack = <<>> /\ wants = <<>> /\ nots = 0

-----------------------------------------------------------------------------
(* Tests                                                                   *)

\* pps_function, duration_function: what a block compares instead of a field.
Field(test, flow) ==
    CASE test.field = "pps"      -> IF flow.ms = 0 THEN 0 ELSE (1000 * flow.packets) \div flow.ms
      [] test.field = "duration" -> flow.ms
      [] test.field = "packets"  -> flow.packets

\* IPtree: nodes of a list.  A network that is in another one, or has one in it,
\* is equal to it for IPNodeCMP, and RB_INSERT does not insert what is there.
InsertNet(tree, net) == IF \E node \in tree : node \cap net # {} THEN tree ELSE tree \cup {net}
IpTree(list) == FoldLeft(InsertNet, {}, list)

\* The test of a block; that of flags depends on the mark of the block.  The
\* simple engine knows nothing but equality.
Evaluate(block, flow) ==
    LET test == block.test IN
    CASE test.comp = "any"    -> TRUE
      [] test.comp = "half"   -> flow[test.field][test.half] = test.value
      [] test.comp = "flags"  -> IF block.invert /\ Extended THEN flow.flags \cap test.value # {}
                                 ELSE test.value \subseteq flow.flags
      [] test.comp = "iplist" -> Extended /\ \E node \in test.value : flow[test.field] \in node
      [] test.comp \in {"=", "<", ">"} ->
            IF test.comp = "=" \/ ~Extended THEN Field(test, flow) = test.value
            ELSE IF test.comp = ">" THEN Field(test, flow) > test.value
            ELSE Field(test, flow) < test.value

\* RunFilter and RunExtendedFilter follow the links from a block; the last one
\* decides.  At n they are at a block, or 0.
Follow(tree, i, flow) == IF Evaluate(tree[i], flow) THEN tree[i].OnTrue ELSE tree[i].OnFalse
Path(tree, start, flow) ==
    LET at[n \in 0..Len(tree)] ==
            IF n = 0 THEN start
            ELSE IF at[n - 1] = 0 THEN 0 ELSE Follow(tree, at[n - 1], flow)
    IN at
Ends(path) == path[Len(FilterTree)] = 0
RunFilter(start, flow) ==
    LET path == Path(FilterTree, start, flow)
        last == CHOOSE n \in DOMAIN path : path[n] # 0 /\ path[n + 1] = 0
        block == FilterTree[path[last]]
    IN Ends(path) /\ (Evaluate(block, flow) # block.invert)

-----------------------------------------------------------------------------
(* Blocks                                                                  *)

NewBlock(tree, test) ==
    Append(tree, [test |-> test, invert |-> FALSE, OnTrue |-> 0, OnFalse |-> 0,
                  blocklist |-> <<Len(tree) + 1>>, superblock |-> Len(tree) + 1])

Blocks(tree, a) == Range(tree[a].blocklist)
UpdateList(tree, a, b) ==
    LET both == tree[a].blocklist \o tree[b].blocklist
    IN [i \in DOMAIN tree |->
          [tree[i] EXCEPT
             !.blocklist = IF i = a THEN both ELSE IF i = b THEN <<>> ELSE @,
             !.superblock = IF i \in Range(both) THEN a ELSE @]]

\* The smaller group goes first.
First(tree, b1, b2) ==
    IF Len(tree[b1].blocklist) <= Len(tree[b2].blocklist) THEN b1 ELSE b2
Second(tree, b1, b2) == IF First(tree, b1, b2) = b1 THEN b2 ELSE b1

\* mutant: the mark of a block is not looked at
LinkUnmarked(tree, a, b, true) ==
    [i \in DOMAIN tree |->
       IF i \notin Blocks(tree, a) THEN tree[i]
       ELSE IF true THEN [tree[i] EXCEPT !.OnTrue = IF @ = 0 THEN b ELSE @]
       ELSE [tree[i] EXCEPT !.OnFalse = IF @ = 0 THEN b ELSE @]]

\* Free ends of the first group lead to the second one: those where the first
\* is true (AND), or false (OR).
Link(tree, a, b, true) ==
    [i \in DOMAIN tree |->
       IF i \notin Blocks(tree, a) THEN tree[i]
       ELSE IF tree[i].invert # true
       THEN [tree[i] EXCEPT !.OnTrue = IF @ = 0 THEN b ELSE @]
       ELSE [tree[i] EXCEPT !.OnFalse = IF @ = 0 THEN b ELSE @]]

Connect(tree, b1, b2, true) ==
    LET a == First(tree, b1, b2)
        b == Second(tree, b1, b2)
    IN UpdateList(Link(tree, a, b, true), a, b)
Connect_AND(tree, b1, b2) == Connect(tree, b1, b2, TRUE)
Connect_OR(tree, b1, b2) == Connect(tree, b1, b2, FALSE)

Invert(tree, a) ==
    [i \in DOMAIN tree |->
       IF i \in Blocks(tree, a) THEN [tree[i] EXCEPT !.invert = ~@] ELSE tree[i]]

-----------------------------------------------------------------------------
(* Terms (grammar.y).  A group is a tree with the block the group begins   *)
(* with; operands are made from the left to the right.                     *)

Single(tree, test) == [tree |-> NewBlock(tree, test), self |-> Len(tree) + 1]
Join(x, y, true) == [tree |-> Connect(y.tree, x.self, y.self, true),
                     self |-> First(y.tree, x.self, y.self)]

Half(dir, half, ip) == [comp |-> "half", field |-> dir, half |-> half, value |-> ip[half]]
Host(tree, dir, ip) ==
    LET low == Single(tree, Half(dir, 2, ip))
    IN Join(low, Single(low.tree, Half(dir, 1, ip)), TRUE)
ChainHosts(tree, dir, hosts) ==
    FoldLeft(LAMBDA chain, ip : Join(chain, Host(chain.tree, dir, ip), FALSE),
             Host(tree, dir, Head(hosts)), Tail(hosts))

\* src, dst, src or dst, src and dst.
Directed(tree, direction, Make(_, _)) ==
    IF direction \in {"src", "dst"} THEN Make(tree, direction)
    ELSE LET src == Make(tree, "src") IN Join(src, Make(src.tree, "dst"), direction = "and")
AsDirected(direction, In(_)) ==
    {f \in Flows : CASE direction = "src" -> In(f.src) [] direction = "dst" -> In(f.dst)
                     [] direction = "or" -> In(f.src) \/ In(f.dst)
                     [] direction = "and" -> In(f.src) /\ In(f.dst)}

\* A group is pushed; it should select the flows of yes.
Push(group, yes, no) ==
    /\ Len(group.tree) <= MaxBlocks
    /\ FilterTree' = group.tree
    /\ stack' = Append(stack, group.self)
    /\ wants' = Append(wants, [yes |-> yes, no |-> no])
    /\ UNCHANGED nots
PushPlain(group, yes) == Push(group, yes, Flows \ yes)
NeedsExtended(needs) == Extended' = (Extended \/ needs)

AnyFlow == /\ PushPlain(Single(FilterTree, [comp |-> "any"]), Flows)
           /\ NeedsExtended(FALSE)

Compared(field, comp, v, f) ==
    LET x == Field([field |-> field], f) IN
    CASE comp = "=" -> x = v [] comp = "<" -> x < v [] comp = ">" -> x > v
Compare(field, comp, v) ==
    /\ PushPlain(Single(FilterTree, [comp |-> comp, field |-> field, value |-> v]),
                 {f \in Flows : Compared(field, comp, v, f)})
    /\ NeedsExtended(comp # "=" \/ field # "packets")

\* All flags that are mentioned are set, or none of them ("flags S and not
\* flags AFRPU" of the manual are the flows with only the SYN flag).
Flags(fl) ==
    /\ Push(Single(FilterTree, [comp |-> "flags", value |-> fl]),
            {f \in Flows : fl \subseteq f.flags}, {f \in Flows : fl \cap f.flags = {}})
    /\ NeedsExtended(TRUE)

\* A name without an address is "not any".
Ip(direction, hosts) ==
    LET any == Single(FilterTree, [comp |-> "any"]) IN
    /\ PushPlain(IF hosts = <<>> THEN [any EXCEPT !.tree = Invert(@, any.self)]
                 ELSE Directed(FilterTree, direction, LAMBDA t, dir : ChainHosts(t, dir, hosts)),
                 AsDirected(direction, LAMBDA ip : ip \in Range(hosts)))
    /\ NeedsExtended(FALSE)

\* A network that comes after a narrower one in it is dropped: what a list says is
\* the addresses of the others.
Dropped(list) == {i \in DOMAIN list : \E j \in 1..(i - 1) : list[j] \subseteq list[i] /\ list[j] # list[i]}
Listed(list) == UNION {list[i] : i \in DOMAIN list \ Dropped(list)}

IpIn(direction, list) ==
    /\ PushPlain(Directed(FilterTree, direction,
                  LAMBDA t, dir : Single(t, [comp |-> "iplist", field |-> dir,
                                             value |-> IpTree(list)])),
                 AsDirected(direction, LAMBDA ip : ip \in Listed(list)))
    /\ NeedsExtended(TRUE)

Term == \/ AnyFlow
        \/ \E x \in Comparisons : Compare(x.field, x.comp, x.value)
        \/ \E fl \in FlagLists : Flags(fl)
        \/ \E x \in Hosts : Ip(x.direction, x.ips)
        \/ \E x \in IpLists : IpIn(x.direction, x.nets)

-----------------------------------------------------------------------------
(* Expressions                                                             *)

Not == /\ stack # <<>> /\ nots < MaxNots
       /\ nots' = nots + 1
       /\ FilterTree' = Invert(FilterTree, Last(stack))
       /\ wants' = [wants EXCEPT ![Len(wants)] = [yes |-> @.no, no |-> @.yes]]
       /\ UNCHANGED <<Extended, stack>>

Operands == Len(stack) >= 2
Left == stack[Len(stack) - 1]
Reduce(self, want) == /\ stack' = Append(Front(Front(stack)), self)
                      /\ wants' = Append(Front(Front(wants)), want)
                      /\ UNCHANGED <<Extended, nots>>

And == /\ Operands
       /\ FilterTree' = Connect_AND(FilterTree, Left, Last(stack))
       /\ LET x == Last(Front(wants))
              y == Last(wants)
          IN Reduce(First(FilterTree, Left, Last(stack)),
                    [yes |-> x.yes \cap y.yes, no |-> x.no \cup y.no])

Or == /\ Operands
      /\ FilterTree' = Connect_OR(FilterTree, Left, Last(stack))
      /\ LET x == Last(Front(wants))
             y == Last(wants)
         IN Reduce(First(FilterTree, Left, Last(stack)),
                   [yes |-> x.yes \cup y.yes, no |-> x.no \cap y.no])

Next == Term \/ Not \/ And \/ Or
Spec == Init /\ [][Next]_vars

-----------------------------------------------------------------------------
(* Properties                                                              *)

Indices == DOMAIN FilterTree

\* Type invariant.
TypeOK == /\ Len(FilterTree) <= MaxBlocks /\ Len(wants) = Len(stack)
          /\ Extended \in BOOLEAN /\ nots \in 0..MaxNots
          /\ \A i \in Indices : LET block == FilterTree[i] IN
                /\ {block.OnTrue, block.OnFalse, block.superblock} \subseteq Indices \cup {0}
                /\ block.invert \in BOOLEAN /\ Range(block.blocklist) \subseteq Indices

\* Every block is in the list of exactly one group, which knows itself by it;
\* the groups are those the parser still has; and links stay in a group.
Groups ==
    /\ \A i, j \in DOMAIN stack : stack[i] = stack[j] => i = j
    /\ \A i \in Indices : LET block == FilterTree[i] IN
          /\ block.superblock \in Range(stack)
          /\ \A a \in Indices : i \in Blocks(FilterTree, a) <=> a = block.superblock
          /\ IsInjective(block.blocklist)
          /\ \A next \in {block.OnTrue, block.OnFalse} \ {0} :
                FilterTree[next].superblock = block.superblock

\* The engine comes to an end, and selects the flows the expression stands for,
\* in whatever order blocks were connected and negated; the tree is well formed.
\* A list of networks stands for those that are not dropped (Listed): one that
\* comes after a narrower one in it does not get into the tree, and addresses that
\* are only in it are not selected.
Selects ==
    /\ TypeOK /\ Groups
    /\ \A k \in DOMAIN stack : \A flow \in Flows :
          RunFilter(stack[k], flow) <=> flow \in wants[k].yes
=============================================================================
