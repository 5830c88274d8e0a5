--------------------------- MODULE MCRangeFormat ----------------------------
(***************************************************************************)
(* Trees of the shapes Spines, with every placement of format comments:    *)
(* the tokens are on one line or on two, and begin where the one before    *)
(* ends or on the next line.  And every range of lines.                    *)
(***************************************************************************)
EXTENDS RangeFormat, TreeShapes

CONSTANT MaxLine

Spines == {<<0, 1, 1, 1, 1>>, <<0, 1, 1, 3, 3, 1>>}

\* The lines of tokens of which `gaps` begin a line and `tall` end on the next one.
Begins(kinds, gaps, tall) ==
  [i \in DOMAIN kinds |->
     IF kinds[i] \in NodeKind THEN 0
     ELSE Cardinality({j \in gaps : j <= i}) + Cardinality({j \in tall : j < i})]

RangeTrees(spine) ==
  LET links == Links(spine)
      Tree(kinds, gaps, tall) ==
        LET begins == Begins(kinds, gaps, tall)
        IN [MakeTree(links, kinds, begins) EXCEPT
              !.end = [i \in DOMAIN kinds |-> begins[i] + Cardinality({i} \cap tall)]]
  IN UNION {{Tree(kinds, gaps, tall) :
               gaps \in SUBSET (TokensOf(kinds) \ {2}),
               tall \in SUBSET {i \in DOMAIN kinds : kinds[i] = "word"}} :
            kinds \in Kindings(spine, {"word", "disable-next"})}

\* A comment ends its line.
CommentsEndLines(t) ==
  \A i, j \in Tokens(t) : i < j /\ t.kind[i] = "disable-next" => t.end[i] < t.start[j]

MCTrees ==
  {t \in UNION {RangeTrees(spine) : spine \in Spines} :
     /\ CommentsEndLines(t)
     /\ RangesApart(t, Ignores(t))
     /\ \A i \in DOMAIN Ignores(t) : Ignores(t)[i].end \in Tokens(t)}

MCRequests ==
  {q \in [first : 0..MaxLine, last : 0..MaxLine] : q.first <= q.last}

MCIndents == {NoIndent}
=============================================================================
