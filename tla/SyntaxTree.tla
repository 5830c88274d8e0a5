----------------------------- MODULE SyntaxTree -----------------------------
(***************************************************************************)
(* The syntax tree every analysis of the formatter reads (LuaSyntaxTree,   *)
(* LuaSyntaxNode).  Nodes and tokens live in one array; BuildNode and      *)
(* BuildToken append to it, so an index is a position in the preorder of   *)
(* the tree.  Index 0 holds the File node and doubles as the null node,    *)
(* index 1 is the root Block.                                              *)
(*                                                                         *)
(* A tree t is a record                                                    *)
(*   size      number of entries after index 0                             *)
(*   children  the FirstChild/NextSibling list of every entry              *)
(*   parent,   the Parent and NextSibling links, 0 for none                *)
(*   next                                                                  *)
(*   last      the last index of the subtree of every entry                *)
(*   kind      "node" for an inner node, else the kind of the token        *)
(*   start,    the lines on which a token starts and ends (0 for an inner  *)
(*   end       node, whose lines are computed)                             *)
(***************************************************************************)
EXTENDS Naturals, Sequences

\* The short comments whose text FormatDocAnalyze gives a meaning.
DocComment == {"disable", "disable-next", "disable-next-line"}

ShortComment == DocComment \union {"short"}

\* "(" is kept apart from the other words, ";" is the optional semicolon.
TokenKind == ShortComment \union {"word", "string", "(", ";", "long"}

NodeKind == {"node", "stat"}

(***************************************************************************)
(* What BuildNode and BuildToken guarantee: the children of an entry       *)
(* partition the indexes that follow it, in order.                         *)
(***************************************************************************)
IsTree(t) ==
  /\ t.size \in Nat \ {0}
  /\ t.children \in [1..t.size -> Seq(1..t.size)]
  /\ t.last \in [1..t.size -> 1..t.size]
  /\ t.parent \in [1..t.size -> 0..t.size]
  /\ t.next \in [1..t.size -> 0..t.size]
  /\ t.last[1] = t.size
  /\ \A i \in 1..t.size :
        LET c == t.children[i] IN
        /\ c = <<>> => t.last[i] = i
        /\ c # <<>> => /\ c[1] = i + 1
                       /\ t.last[i] = t.last[c[Len(c)]]
        /\ \A k \in 1..Len(c) : t.parent[c[k]] = i
        /\ \A k \in 1..(Len(c) - 1) : /\ c[k + 1] = t.last[c[k]] + 1
                                      /\ t.next[c[k]] = c[k + 1]

Indexes(t) == 1..t.size

IsNode(t, i) == i # 0 /\ t.kind[i] \in NodeKind

IsToken(t, i) == i # 0 /\ t.kind[i] \in TokenKind

Tokens(t) == {i \in Indexes(t) : IsToken(t, i)}

\* 0 for the root, whose parent is the File node.
GetParent(t, i) == IF i = 0 THEN 0 ELSE t.parent[i]

GetNextSibling(t, i) == IF i = 0 THEN 0 ELSE t.next[i]

GetFirstChild(t, i) ==
  IF t.children[i] = <<>> THEN 0 ELSE Head(t.children[i])

\* GetFirstToken and GetLastToken follow the first (last) child down to a token and
\* answer 0 when they meet a node without children on the way.
GetFirstToken(t, i) ==
  LET Down[n \in 0..t.size] ==
        IF ~IsNode(t, n) THEN n ELSE Down[GetFirstChild(t, n)]
  IN Down[i]

GetLastToken(t, i) ==
  LET Down[n \in 0..t.size] ==
        IF ~IsNode(t, n) THEN n
        ELSE LET c == t.children[n]
             IN Down[IF c = <<>> THEN 0 ELSE c[Len(c)]]
  IN Down[i]

Greatest(S) == CHOOSE x \in S : \A y \in S : y <= x

Least(S) == CHOOSE x \in S : \A y \in S : x <= y

\* The nearest token below index i, 0 when there is none.
TokenBefore(t, i) ==
  LET before == {k \in Tokens(t) : k < i}
  IN IF before = {} THEN 0 ELSE Greatest(before)

GetPrevToken(t, i) == IF i = 0 THEN 0 ELSE TokenBefore(t, i)

\* The token after i; for a node, after its last token, or after the token before an
\* empty node.
GetNextToken(t, i) ==
  LET from  == IF i = 0 \/ IsToken(t, i) THEN i
               ELSE IF GetLastToken(t, i) # 0 THEN GetLastToken(t, i)
               ELSE TokenBefore(t, i)
      after == {k \in Tokens(t) : k > from}
  IN IF from = 0 \/ after = {} THEN 0 ELSE Least(after)

\* Lines of an entry: those of its first and last token, else the line on which the
\* token before it ends, else the first line of the file.
GetStartLine(t, i) ==
  IF i = 0 THEN 0
  ELSE IF GetFirstToken(t, i) # 0 THEN t.start[GetFirstToken(t, i)]
  ELSE IF TokenBefore(t, i) # 0 THEN t.end[TokenBefore(t, i)]
  ELSE 0

GetEndLine(t, i) ==
  IF i = 0 THEN 0
  ELSE IF GetLastToken(t, i) # 0 THEN t.end[GetLastToken(t, i)]
  ELSE IF TokenBefore(t, i) # 0 THEN t.end[TokenBefore(t, i)]
  ELSE 0
=============================================================================
