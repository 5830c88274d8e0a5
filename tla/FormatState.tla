---------------------------- MODULE FormatState -----------------------------
(***************************************************************************)
(* FormatState::DfsForeach: the depth-first walk that drives formatting,   *)
(* range formatting and style checking.  It keeps the traverse stack, the  *)
(* stack of indentations the analyzers ask for, and the range of nodes     *)
(* that a format comment exempts, and calls enterHandle on the nodes it    *)
(* does not skip.                                                          *)
(*                                                                         *)
(* What the analyzers answer to Query is an input: any indentation, and    *)
(* the ranges FormatDocAnalyze found.                                      *)
(***************************************************************************)
EXTENDS FormatDoc

CONSTANTS
  Trees,          \* the trees that are walked
  IndentChoices,  \* the indentations the analyzers may ask for at a node
  IndentStyle,    \* indent_style: "Space" or "Tab"
  IndentSize,     \* indent_size
  TabWidth,       \* tab_width
  MayStop         \* whether enterHandle may call StopDfsForeach

IndentStrategy == {"Relative", "InvertRelative", "Absolute", "Same"}

NoIndent == [strategy |-> "None", indent |-> 0]

ASSUME TreesAssumption == \A t \in Trees : IsTree(t)

ASSUME StyleAssumption ==
  /\ IndentStyle \in {"Space", "Tab"}
  /\ IndentSize \in Nat
  /\ TabWidth \in Nat \ {0}
  /\ MayStop \in BOOLEAN
  /\ IndentChoices \subseteq [strategy : IndentStrategy \union {"None"}, indent : Nat]

VARIABLES
  tree,           \* the tree that is walked
  traverseStack,  \* entries [node, event], the top is the last
  indentStack,    \* _indentStack: frames [node, space, tab], the top is the last
  ignores,        \* FormatDocAnalyze::_ignores
  ignoreRange,    \* _ignoreRange
  going,          \* _foreachContinue
  handled,        \* history: the calls of enterHandle, as slices of the preorder
  entered         \* history: the nodes entered so far

vars ==
  <<tree, traverseStack, indentStack, ignores, ignoreRange, going, handled, entered>>

NoRange == [start |-> 0, end |-> 0]

Top(s) == s[Len(s)]

Pop(s) == SubSeq(s, 1, Len(s) - 1)

Init ==
  /\ tree \in Trees
  /\ traverseStack = <<[node |-> 1, event |-> "Enter"]>>
  /\ indentStack = <<>>
  /\ ignores = Ignores(tree)
  /\ ignoreRange = NoRange
  /\ going = TRUE
  /\ handled = <<>>
  /\ entered = 0

-----------------------------------------------------------------------------

\* An indentation of 0 stands for one level, except when it is absolute.
EffectiveIndent(r) ==
  IF r.indent # 0 \/ r.strategy = "Absolute" THEN r.indent
  ELSE IF IndentStyle = "Space" THEN IndentSize ELSE TabWidth

\* An indentation of n columns, as the part written with spaces and the part with tabs.
Spaces(n) == IF IndentStyle = "Space" THEN n ELSE n % TabWidth

Tabs(n) == IF IndentStyle = "Space" THEN 0 ELSE n \div TabWidth

\* As Minus, without the test for an indentation that would become negative.
MinusUnchecked(a, b) == a - b

Minus(a, b) == IF a > b THEN a - b ELSE 0

\* AddRelativeIndent, AddInvertIndent, AddAbsoluteIndent and AddSameIndent.
NewFrame(n, r) ==
  LET by    == EffectiveIndent(r)
      top   == Top(indentStack)
      first == indentStack = <<>>
  IN CASE r.strategy = "Absolute" ->
            [node |-> n, space |-> Spaces(by), tab |-> Tabs(by)]
       [] r.strategy # "Absolute" /\ first ->
            [node |-> n, space |-> 0, tab |-> 0]
       [] r.strategy = "Relative" /\ ~first ->
            [node |-> n, space |-> top.space + Spaces(by), tab |-> top.tab + Tabs(by)]
       [] r.strategy = "InvertRelative" /\ ~first ->
            [node |-> n, space |-> Minus(top.space, Spaces(by)),
             tab |-> Minus(top.tab, Tabs(by))]
       [] r.strategy = "Same" /\ ~first ->
            [node |-> n, space |-> top.space, tab |-> top.tab]

\* As PushChildren, but the first child is pushed first.
PushChildrenForward(s, n) ==
  LET c == tree.children[n]
  IN s \o [k \in 1..Len(c) |-> [node |-> c[k], event |-> "Enter"]]

\* The children are pushed last first, so that the first one is on top.
PushChildren(s, n) ==
  LET c == tree.children[n]
  IN s \o [k \in 1..Len(c) |-> [node |-> c[Len(c) + 1 - k], event |-> "Enter"]]

\* FormatDocAnalyze::Query overwrites the single _ignoreRange of the state, also at a
\* node that is being ignored.
QueryIgnore(n) ==
  IF n \in DOMAIN ignores THEN ignores[n] ELSE ignoreRange

\* As Ignored, with the end of the range excluded.
IgnoredBelowEnd(n, range) == range.end # 0 /\ n > range.start /\ n < range.end

Ignored(n, range) == range.end # 0 /\ n > range.start /\ n <= range.end

\* As Slice, but the comment alone is written, not the range it begins.
SliceOfComment(n) == [start |-> n, end |-> n]

\* What enterHandle is given: the node, or the whole range that starts at it.
Slice(n) ==
  IF n \in DOMAIN ignores THEN ignores[n] ELSE [start |-> n, end |-> n]

Enter(r) ==
  /\ going
  /\ traverseStack # <<>>
  /\ Top(traverseStack).event = "Enter"
  /\ LET n == Top(traverseStack).node IN
     /\ traverseStack' =
          PushChildren([traverseStack EXCEPT ![Len(traverseStack)].event = "Exit"], n)
     /\ indentStack' = IF r.strategy = "None" THEN indentStack
                       ELSE Append(indentStack, NewFrame(n, r))
     /\ ignoreRange' = QueryIgnore(n)
     /\ entered' = n
     /\ IF Ignored(n, QueryIgnore(n))
        THEN UNCHANGED <<handled, going>>
        ELSE /\ handled' = Append(handled, Slice(n))
             /\ going' \in IF MayStop THEN BOOLEAN ELSE {TRUE}
  /\ UNCHANGED <<tree, ignores>>

\* As Exit, without RecoverIndent.
ExitNoRecover ==
  /\ going
  /\ traverseStack # <<>>
  /\ Top(traverseStack).event = "Exit"
  /\ traverseStack' = Pop(traverseStack)
  /\ UNCHANGED <<tree, indentStack, ignores, ignoreRange, going, handled, entered>>

\* As Exit, but the entry stays on the stack.
ExitNoPop ==
  /\ going
  /\ traverseStack # <<>>
  /\ Top(traverseStack).event = "Exit"
  /\ UNCHANGED vars

\* RecoverIndent pops the frame that the node left behind when it was entered.
Exit ==
  /\ going
  /\ traverseStack # <<>>
  /\ Top(traverseStack).event = "Exit"
  /\ traverseStack' = Pop(traverseStack)
  /\ indentStack' =
       IF indentStack # <<>> /\ Top(indentStack).node = Top(traverseStack).node
       THEN Pop(indentStack) ELSE indentStack
  /\ UNCHANGED <<tree, ignores, ignoreRange, going, handled, entered>>

Next == (\E r \in IndentChoices : Enter(r)) \/ Exit

\* DfsForeach is a loop of one thread: it runs until it returns.
Spec == Init /\ [][Next]_vars /\ WF_vars(Next)

Done == traverseStack = <<>>

-----------------------------------------------------------------------------

Range == [start : Nat, end : Nat]

TypeOK ==
  /\ IsTree(tree)
  /\ traverseStack \in Seq([node : Indexes(tree), event : {"Enter", "Exit"}])
  /\ indentStack \in Seq([node : Indexes(tree), space : Nat, tab : Nat])
  /\ ignoreRange \in Range
  /\ going \in BOOLEAN
  /\ handled \in Seq(Range)
  /\ entered \in 0..tree.size

\* The nodes that were entered and not yet left.
IsOpen(n) ==
  \E j \in DOMAIN traverseStack : traverseStack[j] = [node |-> n, event |-> "Exit"]

\* Every indentation in force was asked for by a node that is still open, and inner nodes
\* stack theirs on outer ones: RecoverIndent compares only with the top frame, so a frame
\* left behind by a node that was closed would never be popped again.
FramesAreOpen ==
  /\ \A k \in DOMAIN indentStack : IsOpen(indentStack[k].node)
  /\ \A k \in 1..(Len(indentStack) - 1) :
        indentStack[k].node < indentStack[k + 1].node


\* Nodes are entered in the order of the array, none twice and none left out.
PreorderStep == [][entered' \in {entered, entered + 1}]_vars

\* The walk ends, and unless enterHandle stopped it, behind the last node.
Terminates == <>(~going \/ (Done /\ entered = tree.size))

\* The slices handed to enterHandle follow one another through the source.
Order == INSTANCE SourceOrder WITH size <- tree.size, slices <- handled

SourceInOrder == Order!Spec

\* And in the end no part of the source was left out.
SourceComplete == Done => Order!Reached = tree.size

\* "Preserving token order" (docs/format_action_EN.md:10): nothing is written a second time.
WrittenOnce ==
  \A i, j \in DOMAIN handled : i < j => handled[i].end < handled[j].start

\* What SourceInOrder and SourceComplete take for granted of FormatDocAnalyze.
Apart == RangesApart(tree, ignores)
=============================================================================
