------------------------------ MODULE MCFilter ------------------------------
(***************************************************************************)
(* Values for Filter: three addresses, of which two share a half; flows    *)
(* that differ in every field a term looks at.  A network comes after a    *)
(* wider one in one list, and after a narrower one in the other.           *)
(***************************************************************************)
EXTENDS Filter

a == <<1, 1>>
b == <<1, 2>>
c == <<2, 1>>
MCFlows == {[packets |-> p[1], ms |-> p[2], flags |-> fl, src |-> e[1], dst |-> e[2]] :
              p \in {<<1, 0>>, <<1, 1>>}, fl \in {{}, {"S"}, {"S", "A"}},
              e \in {<<a, b>>, <<b, c>>, <<c, a>>, <<a, a>>}}
MCComparisons == {[field |-> "pps", comp |-> ">", value |-> 0]}
MCFlagLists == {{"S", "A"}}
MCHosts == {[direction |-> "or", ips |-> <<>>], [direction |-> "dst", ips |-> <<a>>],
            [direction |-> "src", ips |-> <<a, b>>], [direction |-> "or", ips |-> <<a>>],
            [direction |-> "and", ips |-> <<a>>]}
MCIpLists == {[direction |-> "or", nets |-> <<{a, b}, {a}>>],
              [direction |-> "and", nets |-> <<{a}, {c}, {a, b}>>]}
=============================================================================
