----------------------------- MODULE BuildTree ------------------------------
(***************************************************************************)
(* From the events of the parser to the tree (LuaSyntaxTree::BuildTree).   *)
(* The parser leaves comments out; the tree takes the tokens in order by a *)
(* counter of its own, puts the comments back, and trusts that the token   *)
(* it has reached is the one an event speaks of.                           *)
(*                                                                         *)
(* The entries are numbered from 1; 0 is the File node, which is open from *)
(* the start.  An entry added when no node is open hangs below nothing.    *)
(***************************************************************************)
EXTENDS LuaParser, Integers, FiniteSets

Syntax == INSTANCE SyntaxTree

VARIABLES
  next,       \* the next event
  parents,    \* the kinds of the nodes that start here, the innermost first
  parentPos,  \* where the next of them is, 0 when they are all there
  entries,    \* nodes and tokens: [kind, parent, token], token = 0 for a node
  nodeStack,  \* the open nodes
  eaten       \* the number of tokens taken

tree == <<next, parents, parentPos, entries, nodeStack, eaten>>

vars == <<parser, phase, tree>>

Unlinked == -1

IsEatAllComment(kind) == kind \in {"File", "Block", "TableFieldList"}

OpenNode == IF nodeStack = <<>> THEN Unlinked ELSE Top(nodeStack)

KindOf(n) == IF n = 0 THEN "File" ELSE entries[n].kind

NodeEntry(k) == [kind |-> k, parent |-> OpenNode, token |-> 0]

TokenEntry(n) == [kind |-> "Token", parent |-> OpenNode, token |-> n]

\* Entries of the tokens eaten + 1 to n.
Taken(n) == [k \in 1..(n - eaten) |-> TokenEntry(eaten + k)]

\* EatComments takes the tokens before the next one that is no comment.
Commented == SkipComment(tokens, eaten + 1) - 1

\* EatInlineComment takes one comment on the line on which the token before it ends.
Inlined(n) == IF n > 0 /\ n < Len(tokens) /\ tokens[n + 1] = "inline" THEN n + 1 ELSE n

Replaying(type) ==
  /\ phase = "build" /\ parents = <<>>
  /\ next <= Len(events) /\ events[next].type = type

-----------------------------------------------------------------------------

\* A node starts, and the nodes that it was given as parents start around it.
ReplayStart ==
  /\ Replaying("NodeStart")
  /\ IF events[next].kind = "None" THEN UNCHANGED <<parents, parentPos>>
     ELSE /\ parents' = <<events[next].kind>>
          /\ parentPos' = events[next].parent
  /\ next' = next + 1
  /\ UNCHANGED <<parser, phase, entries, nodeStack, eaten>>

\* The loop that collects the parents; they are not started again when their turn comes.
Climb ==
  /\ phase = "build" /\ parentPos > 0
  /\ IF events[parentPos].type = "NodeStart"
     THEN /\ parents' = Append(parents, events[parentPos].kind)
          /\ parentPos' = events[parentPos].parent
          /\ events' = [events EXCEPT ![parentPos].kind = "None"]
     ELSE parentPos' = 0 /\ UNCHANGED <<parents, events>>
  /\ UNCHANGED <<source, tokens, ended, tokenIndex, todo, marks, completed, errors, phase,
                 next, entries, nodeStack, eaten>>

StartAfter(upTo) ==
  /\ phase = "build" /\ parents # <<>>
  /\ LET kind     == Top(parents)
         comments == IF IsEatAllComment(kind) THEN <<>> ELSE Taken(upTo)
     IN /\ entries' = entries \o comments \o <<NodeEntry(kind)>>
        /\ eaten' = eaten + Len(comments)
        /\ nodeStack' = Append(nodeStack, Len(entries) + Len(comments) + 1)
  /\ parents' = Pop(parents)
  /\ UNCHANGED <<parser, phase, next, parentPos>>

\* As StartNode, with the comments left to the node that starts.
StartNodeEarly == parentPos = 0 /\ StartAfter(eaten)

\* StartNode and BuildNode, the outermost node first.
StartNode == parentPos = 0 /\ StartAfter(Commented)

\* The comments before the token, the token, and a comment that ends its line.
ReplayEat ==
  /\ Replaying("EatToken")
  /\ entries' = entries \o Taken(Inlined(Commented + 1))
  /\ eaten' = Inlined(Commented + 1)
  /\ next' = next + 1
  /\ UNCHANGED <<parser, phase, parents, parentPos, nodeStack>>

\* As FinishNode, which takes no comment on a line of its own.
FinishNodeAtOnce ==
  IF nodeStack = <<>> THEN UNCHANGED <<entries, eaten, nodeStack>>
  ELSE /\ entries' = entries \o Taken(Inlined(eaten))
       /\ eaten' = Inlined(eaten)
       /\ nodeStack' = Pop(nodeStack)

FinishNode ==
  IF nodeStack = <<>> THEN UNCHANGED <<entries, eaten, nodeStack>>
  ELSE LET upTo == IF IsEatAllComment(KindOf(Top(nodeStack))) THEN Commented
                   ELSE Inlined(eaten)
       IN /\ entries' = entries \o Taken(upTo)
          /\ eaten' = upTo
          /\ nodeStack' = Pop(nodeStack)

ReplayEnd ==
  /\ Replaying("NodeEnd")
  /\ FinishNode
  /\ next' = next + 1
  /\ UNCHANGED <<parser, phase, parents, parentPos>>

ReplayError ==
  /\ Replaying("Error")
  /\ next' = next + 1
  /\ UNCHANGED <<parser, phase, parents, parentPos, entries, nodeStack, eaten>>

\* The File node ends after the last event.
Built ==
  /\ phase = "build" /\ parents = <<>> /\ next > Len(events)
  /\ FinishNode
  /\ phase' = "done"
  /\ UNCHANGED <<parser, next, parents, parentPos>>

Init ==
  /\ ParserInit
  /\ next = 1 /\ parents = <<>> /\ parentPos = 0 /\ entries = <<>> /\ nodeStack = <<0>> /\ eaten = 0

Parse == ParserNext /\ UNCHANGED tree

Terminating == phase = "done" /\ UNCHANGED vars

Next ==
  \/ Parse
  \/ ReplayStart \/ Climb \/ StartNode \/ ReplayEat \/ ReplayEnd \/ ReplayError
  \/ Built
  \/ Terminating

Spec == Init /\ [][Next]_vars

-----------------------------------------------------------------------------
(* Properties. *)

EventType == {"NodeStart", "EatToken", "Error", "NodeEnd"}

EventRecord == [type : EventType, kind : NodeKinds, parent : Nat, index : Nat]

EntryRecord ==
  [kind : NodeKinds \union {"Token"}, parent : Nat \union {Unlinked}, token : Nat]

\* The types of the events, of the Markers into them, and of the tree.
TypeOK ==
  /\ tokens \in Seq(TokenKinds)
  /\ ended \in BOOLEAN
  /\ tokenIndex \in Nat \ {0}
  /\ events \in Seq(EventRecord)
  /\ todo \in Seq(Instructions)
  /\ marks \in Seq(1..Len(events))
  /\ completed \in Nat \ {0}
  /\ errors \in Nat
  /\ phase \in {"parse", "build", "done"}
  /\ next \in Nat \ {0}
  /\ parents \in Seq(NodeKinds)
  /\ parentPos \in Nat
  /\ entries \in Seq(EntryRecord)
  /\ nodeStack \in Seq(0..Len(entries))
  /\ eaten \in Nat

\* Every Marker is open at the start of a node, and the parent that Precede gives to a node
\* is a node that was opened after it: the loop in BuildTree that climbs the parents ends,
\* and every node it meets is still to come.
EventsLinked ==
  /\ \A k \in 1..Len(marks) : events[marks[k]].type = "NodeStart"
  /\ \A q \in 1..Len(events) :
        events[q].parent # 0 => /\ events[q].parent \in (q + 1)..Len(events)
                                /\ events[events[q].parent].type = "NodeStart"
  /\ parentPos # 0 => parentPos \in next..Len(events)

\* The parser and the tree skip comments each on its own, the parser before it looks at a
\* token and the tree before and after it adds one.  Whenever the tree adds a token, it is
\* the one that the parser had read.
InStep ==
  Replaying("EatToken") => SkipComment(tokens, eaten + 1) = events[next].index

\* LuaParser::Next does not test for the end of the file, and the tree takes the token that
\* an event speaks of without a test: every function of the grammar has seen a token before
\* it reads one, so that no event speaks of a token that is not there.  The loops over
\* statements and table fields read no token when they meet an error; what ends them is that
\* the parser gives up, at most two errors late.
TokensThere ==
  /\ Replaying("EatToken") => events[next].index <= Len(tokens)
  /\ phase = "parse" /\ todo # <<>> => errors <= MaxErrors + 2

Accepted == phase = "done" /\ errors = 0

\* The members of a finite set of numbers in order: the k-th has k - 1 of them before it.
Ascending(S) ==
  [k \in 1..Cardinality(S) |->
     CHOOSE x \in S : Cardinality({y \in S : y < x}) = k - 1]

ChildrenOf(n) == {k \in DOMAIN entries : entries[k].parent = n}

\* The last entry of the subtree of n: all between them hang below n or deeper.
LastBelow(n) ==
  Syntax!Greatest({m \in n..Len(entries) : \A k \in (n + 1)..m : entries[k].parent >= n})

NextBeside(n) ==
  LET later == {k \in (n + 1)..Len(entries) : entries[k].parent = entries[n].parent}
  IN IF later = {} THEN 0 ELSE Syntax!Least(later)

\* The tree as the analyses and the walk see it.
Tree ==
  [size     |-> Len(entries),
   children |-> [n \in DOMAIN entries |-> Ascending(ChildrenOf(n))],
   last     |-> [n \in DOMAIN entries |-> LastBelow(n)],
   parent   |-> [n \in DOMAIN entries |-> entries[n].parent],
   next     |-> [n \in DOMAIN entries |-> NextBeside(n)]]

\* A file without errors becomes one tree below the Block of the file, which holds every
\* token and comment, each once and in order: the formatter writes this tree back.
TokensKept ==
  Accepted =>
    /\ Syntax!IsTree(Tree)
    /\ entries[1].kind = "Block"
    /\ \A n \in 1..Len(entries) : entries[n].kind # "None"
    /\ LET kept == Ascending({k \in DOMAIN entries : entries[k].token # 0})
       IN /\ Len(kept) = Len(tokens)
          /\ \A k \in 1..Len(kept) : entries[kept[k]].token = k

\* The entries below n that are no comments, in order.
CodeBelow(n) ==
  Ascending({k \in 1..Len(entries) :
               /\ entries[k].parent = n
               /\ entries[k].token # 0 => tokens[entries[k].token] \notin Comments})

\* The binary operators of the Lua manual, the loosest first; unary ones are level 11.
Levels ==
  <<{"or"}, {"and"}, {"<", ">", "<=", ">=", "~=", "=="}, {"|"}, {"~"}, {"&"}, {"<<", ">>"},
    {".."}, {"+", "-"}, {"*", "/", "//", "%"}, {}, {"^"}>>

UnaryLevel == 11

Level(op) == CHOOSE l \in DOMAIN Levels : op \in Levels[l]

\* The level of an expression: that of its operator, or above all.
Tightness(n) ==
  CASE entries[n].kind = "BinaryExpression" -> Level(tokens[entries[CodeBelow(n)[2]].token])
    [] entries[n].kind = "UnaryExpression"  -> UnaryLevel
    [] OTHER                                -> Len(Levels) + 1

\* In a file without errors every operator takes the operands that Lua gives it, whatever
\* the order in which nodes were opened, completed and given parents.
OperatorsNest ==
  Accepted =>
    \A n \in 1..Len(entries) :
      LET below == CodeBelow(n)
          level == Tightness(n)
      IN /\ entries[n].kind = "BinaryExpression" =>
              /\ Len(below) = 3
              /\ \/ Tightness(below[1]) > level
                 \/ Tightness(below[1]) = level /\ level \notin {8, 12}
              /\ \/ entries[below[3]].kind = "UnaryExpression"
                 \/ Tightness(below[3]) > level
                 \/ Tightness(below[3]) = level /\ level \in {8, 12}
         /\ entries[n].kind = "UnaryExpression" =>
              Len(below) = 2 /\ Tightness(below[2]) >= level

\* A comment before a statement or an expression is outside it, also when that is the first
\* operand of an operator found later: only blocks, tables and the file begin with comments.
CommentsOutside ==
  phase = "done" =>
    \A n \in 1..(Len(entries) - 1) :
      /\ entries[n].token = 0 /\ ~IsEatAllComment(entries[n].kind)
      /\ entries[n + 1].parent = n /\ entries[n + 1].token # 0
      => tokens[entries[n + 1].token] \notin Comments
=============================================================================
