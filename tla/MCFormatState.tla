--------------------------- MODULE MCFormatState ----------------------------
(***************************************************************************)
(* Every tree of at most MaxSize entries whose tokens have the kinds Kinds *)
(* and lie on the same line as the token before or on the next one.        *)
(***************************************************************************)
EXTENDS FormatState, TreeShapes

CONSTANTS MaxSize, Kinds

MakeTrees(p) ==
  LET links == Links(p)
  IN UNION {{MakeTree(links, k, LinesOf(k, g)) :
               g \in SUBSET (TokensOf(k) \ {Least(TokensOf(k) \union {Len(p)})})} :
            k \in Kindings(p, Kinds)}

AllTrees(n0) == UNION {MakeTrees(p) : p \in UNION {Shapes(n) : n \in 1..n0}}

MCTrees == {t \in AllTrees(MaxSize) : RangesApart(t, Ignores(t))}

\* The tree of
\*   ---@format disable
\*   ---@format disable-next
\*   local x = 1
MCNestedRanges ==
  {MakeTree(Links(<<0, 1, 1, 1, 4, 4, 6, 4, 4, 9, 10>>),
            <<"node", "disable", "disable-next", "node", "word", "node", "word", "word",
              "node", "node", "word">>,
            <<0, 0, 1, 0, 2, 0, 2, 2, 0, 0, 2>>)}

MCIndentNone == {NoIndent}

\* One level more, three columns less, or nothing.
MCIndents ==
  {NoIndent, [strategy |-> "Relative", indent |-> 0],
   [strategy |-> "InvertRelative", indent |-> 3]}
=============================================================================
