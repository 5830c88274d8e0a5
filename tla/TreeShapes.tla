----------------------------- MODULE TreeShapes -----------------------------
(***************************************************************************)
(* Trees of a few entries, built from the parents of the entries: the      *)
(* material of which model-checked instances are made.                     *)
(***************************************************************************)
EXTENDS SyntaxTree, FiniteSets

\* Parents of entries 1..n: an entry hangs below the entry before it or one that holds it.
RECURSIVE Above(_, _)
Above(p, i) == IF i = 0 THEN {} ELSE {i} \union Above(p, p[i])

RECURSIVE Shapes(_)
Shapes(n) ==
  IF n = 1 THEN {<<0>>}
  ELSE UNION {{Append(p, q) : q \in Above(p, n - 1)} : p \in Shapes(n - 1)}

RECURSIVE Sorted(_)
Sorted(S) == IF S = {} THEN <<>> ELSE <<Least(S)>> \o Sorted(S \ {Least(S)})

ChildrenOf(p) == [i \in DOMAIN p |-> Sorted({j \in DOMAIN p : p[j] = i})]

LastOf(p) == [i \in DOMAIN p |-> Greatest({j \in DOMAIN p : i \in Above(p, j)})]

Leaves(p) == {i \in DOMAIN p : \A j \in DOMAIN p : p[j] # i}

Kindings(p, kinds) ==
  {k \in [DOMAIN p -> kinds \union {"node"}] :
     k[1] = "node" /\ \A i \in DOMAIN p \ Leaves(p) : k[i] = "node"}

\* The line of every token, the first on line 0; `gaps` holds the tokens that start a line.
LinesOf(k, gaps) ==
  [i \in DOMAIN k |-> IF k[i] \in NodeKind THEN 0
                      ELSE Cardinality({j \in gaps : j <= i})]

TokensOf(k) == {i \in DOMAIN k : k[i] \in TokenKind}

NextOf(p) ==
  [i \in DOMAIN p |-> LET later == {j \in DOMAIN p : j > i /\ p[j] = p[i]}
                     IN IF later = {} THEN 0 ELSE Least(later)]

Links(p) ==
  [size |-> Len(p), children |-> ChildrenOf(p), last |-> LastOf(p), parent |-> p,
   next |-> NextOf(p)]

MakeTree(links, k, lines) ==
  [size |-> links.size, children |-> links.children, last |-> links.last,
   parent |-> links.parent, next |-> links.next,
   kind |-> k, start |-> lines, end |-> lines]
=============================================================================
