------------------------- MODULE FormatStateProofs --------------------------
(***************************************************************************)
(* Proofs about the walk of FormatState, for every set of trees, every     *)
(* indentation the analyzers may ask for and every size of a tree.         *)
(***************************************************************************)
EXTENDS FormatState, TLAPS

Entry == [node : Indexes(tree), event : {"Enter", "Exit"}]

Frame == [node : Indexes(tree), space : Nat, tab : Nat]

(***************************************************************************)
(* The part of TypeOK that the walk itself needs.  What Ignores answers is *)
(* left open: no fact about the analysis of comments is used.              *)
(***************************************************************************)
WalkTypeOK ==
  /\ tree \in Trees
  /\ IsTree(tree)
  /\ traverseStack \in Seq(Entry)
  /\ indentStack \in Seq(Frame)
  /\ entered \in Nat

(***************************************************************************)
(* The inductive invariant of the walk.  An entry still to be entered is   *)
(* the one right behind the subtree of the entry above it; an entry still  *)
(* to be left ends where the entry above it ends.                          *)
(***************************************************************************)
Follows(lo, hi) ==
  /\ lo.event = "Enter" => lo.node = tree.last[hi.node] + 1
  /\ lo.event = "Exit" => tree.last[lo.node] = tree.last[hi.node]

WalkInv ==
  /\ traverseStack = <<>> => entered = tree.size
  /\ traverseStack # <<>> =>
       /\ tree.last[traverseStack[1].node] = tree.size
       /\ Top(traverseStack).event = "Enter" => Top(traverseStack).node = entered + 1
       /\ Top(traverseStack).event = "Exit" => tree.last[Top(traverseStack).node] = entered
  /\ \A k \in 1..(Len(traverseStack) - 1) : Follows(traverseStack[k], traverseStack[k + 1])

LEMMA EffectiveIndentNat ==
  ASSUME NEW r \in IndentChoices
  PROVE  EffectiveIndent(r) \in Nat
BY StyleAssumption DEF EffectiveIndent

LEMMA SpacesTabsNat ==
  ASSUME NEW n \in Nat
  PROVE  Spaces(n) \in Nat /\ Tabs(n) \in Nat
<1>1. TabWidth \in Nat \ {0}
  BY StyleAssumption
<1>2. n % TabWidth \in Nat /\ n \div TabWidth \in Nat
  BY <1>1
<1>3. QED
  BY <1>2 DEF Spaces, Tabs

LEMMA NewFrameType ==
  ASSUME NEW r \in IndentChoices, r.strategy # "None",
         NEW n \in Indexes(tree), indentStack \in Seq(Frame)
  PROVE  NewFrame(n, r) \in Frame
<1> DEFINE by == EffectiveIndent(r)
<1>1. r.strategy \in IndentStrategy
  BY StyleAssumption DEF IndentStrategy
<1>2. Spaces(by) \in Nat /\ Tabs(by) \in Nat
  BY EffectiveIndentNat, SpacesTabsNat
<1>3. indentStack # <<>> => Top(indentStack) \in Frame
  BY DEF Top
<1>4. ASSUME NEW a \in Nat, NEW b \in Nat PROVE Minus(a, b) \in Nat
  BY <1>4 DEF Minus
<1>5. CASE r.strategy = "Absolute"
  <2>1. NewFrame(n, r) = [node |-> n, space |-> Spaces(by), tab |-> Tabs(by)]
    BY <1>5 DEF NewFrame
  <2>2. QED BY <2>1, <1>2 DEF Frame
<1>6. CASE r.strategy # "Absolute" /\ indentStack = <<>>
  <2>1. NewFrame(n, r) = [node |-> n, space |-> 0, tab |-> 0]
    BY <1>6 DEF NewFrame
  <2>2. QED BY <2>1 DEF Frame
<1>7. CASE r.strategy = "Relative" /\ indentStack # <<>>
  <2>1. NewFrame(n, r) = [node |-> n, space |-> Top(indentStack).space + Spaces(by),
                          tab |-> Top(indentStack).tab + Tabs(by)]
    BY <1>7 DEF NewFrame
  <2>2. QED BY <2>1, <1>2, <1>3, <1>7 DEF Frame
<1>8. CASE r.strategy = "InvertRelative" /\ indentStack # <<>>
  <2>1. NewFrame(n, r) = [node |-> n, space |-> Minus(Top(indentStack).space, Spaces(by)),
                          tab |-> Minus(Top(indentStack).tab, Tabs(by))]
    BY <1>8 DEF NewFrame
  <2>2. QED BY <2>1, <1>2, <1>3, <1>4, <1>8 DEF Frame
<1>9. CASE r.strategy = "Same" /\ indentStack # <<>>
  <2>1. NewFrame(n, r) = [node |-> n, space |-> Top(indentStack).space,
                          tab |-> Top(indentStack).tab]
    BY <1>9 DEF NewFrame
  <2>2. QED BY <2>1, <1>3, <1>9 DEF Frame
<1>10. QED
  BY <1>1, <1>5, <1>6, <1>7, <1>8, <1>9 DEF IndentStrategy

\* The stack after Enter: the entries below are untouched, the node is to be left, and the
\* children lie above it, the last one lowest.
LEMMA PushChildrenShape ==
  ASSUME IsTree(tree), NEW s \in Seq(Entry), s # <<>>, NEW n \in Indexes(tree),
         Top(s).node = n
  PROVE  LET c   == tree.children[n]
             new == PushChildren([s EXCEPT ![Len(s)].event = "Exit"], n)
         IN /\ new \in Seq(Entry)
            /\ Len(new) = Len(s) + Len(c)
            /\ Len(c) \in Nat
            /\ \A k \in 1..(Len(s) - 1) : new[k] = s[k]
            /\ new[Len(s)] = [node |-> n, event |-> "Exit"]
            /\ \A k \in 1..Len(c) :
                 new[Len(s) + k] = [node |-> c[Len(c) + 1 - k], event |-> "Enter"]
<1> DEFINE c   == tree.children[n]
           b   == [s EXCEPT ![Len(s)].event = "Exit"]
           top == [k \in 1..Len(c) |-> [node |-> c[Len(c) + 1 - k], event |-> "Enter"]]
<1>1. c \in Seq(Indexes(tree)) /\ Len(c) \in Nat
  <2>1. tree.children \in [Indexes(tree) -> Seq(Indexes(tree))]
    BY Zenon DEF IsTree, Indexes
  <2>2. QED BY <2>1
<1>2. Len(s) \in Nat /\ Len(s) > 0 /\ s[Len(s)] \in Entry
  OBVIOUS
<1>3. [s[Len(s)] EXCEPT !.event = "Exit"] = [node |-> n, event |-> "Exit"]
  BY <1>2 DEF Entry, Top
<1>4. /\ b \in Seq(Entry)
      /\ Len(b) = Len(s)
      /\ b[Len(s)] = [node |-> n, event |-> "Exit"]
      /\ \A k \in 1..(Len(s) - 1) : b[k] = s[k]
  BY <1>2, <1>3 DEF Entry
<1>5. top \in Seq(Entry) /\ Len(top) = Len(c)
  <2>1. \A k \in 1..Len(c) : c[Len(c) + 1 - k] \in Indexes(tree)
    BY <1>1
  <2>2. QED BY <1>1, <2>1 DEF Entry
<1>6. PushChildren(b, n) = b \o top
  BY DEF PushChildren
<1>7. /\ b \o top \in Seq(Entry)
      /\ Len(b \o top) = Len(s) + Len(c)
      /\ \A k \in 1..Len(s) : (b \o top)[k] = b[k]
      /\ \A k \in 1..Len(c) : (b \o top)[Len(s) + k] = top[k]
  <2> HIDE DEF b, top, c
  <2>1. b \o top \in Seq(Entry)
    BY <1>4, <1>5
  <2>2. /\ Len(b \o top) = Len(b) + Len(top)
        /\ \A k \in 1..Len(b) : (b \o top)[k] = b[k]
        /\ \A k \in 1..Len(top) : (b \o top)[Len(b) + k] = top[k]
    <3>1. \A f, g \in Seq(Entry) :
             /\ Len(f \o g) = Len(f) + Len(g)
             /\ \A k \in 1..Len(f) : (f \o g)[k] = f[k]
             /\ \A k \in 1..Len(g) : (f \o g)[Len(f) + k] = g[k]
      OBVIOUS
    <3>2. b \in Seq(Entry) /\ top \in Seq(Entry)
      BY <1>4, <1>5, Zenon
    <3>3. QED
      BY <3>1, <3>2, Zenon
  <2>3. Len(b) = Len(s) /\ Len(top) = Len(c)
    BY <1>4, <1>5
  <2> HIDE DEF Entry
  <2>4. QED
    BY <2>1, <2>2, <2>3, Zenon
<1>8. \A k \in 1..Len(c) : top[k] = [node |-> c[Len(c) + 1 - k], event |-> "Enter"]
  OBVIOUS
<1>9. 1..(Len(s) - 1) \subseteq 1..Len(s) /\ Len(s) \in 1..Len(s)
  BY <1>2
<1> HIDE DEF b, top
<1>10. QED
  BY <1>1, <1>2, <1>4, <1>6, <1>7, <1>8, <1>9 DEF b

-----------------------------------------------------------------------------

\* Before an entry is entered, its node and the stack it leaves behind.
LEMMA EnterShape ==
  ASSUME WalkTypeOK, NEW r \in IndentChoices, Enter(r)
  PROVE  LET s == traverseStack
             n == Top(traverseStack).node
             c == tree.children[n]
         IN /\ Len(s) \in Nat /\ Len(s) > 0
            /\ n \in Indexes(tree)
            /\ s[Len(s)] = [node |-> n, event |-> "Enter"]
            /\ Len(c) \in Nat
            /\ traverseStack' \in Seq(Entry)
            /\ Len(traverseStack') = Len(s) + Len(c)
            /\ \A k \in 1..(Len(s) - 1) : traverseStack'[k] = s[k]
            /\ traverseStack'[Len(s)] = [node |-> n, event |-> "Exit"]
            /\ \A k \in 1..Len(c) :
                 traverseStack'[Len(s) + k] = [node |-> c[Len(c) + 1 - k], event |-> "Enter"]
<1> DEFINE s == traverseStack
           n == Top(traverseStack).node
<1>1. s \in Seq(Entry) /\ s # <<>>
  BY DEF WalkTypeOK, Enter
<1>2. Len(s) \in Nat /\ Len(s) > 0 /\ s[Len(s)] \in Entry
  BY <1>1
<1>3. n \in Indexes(tree) /\ s[Len(s)] = [node |-> n, event |-> "Enter"]
  BY <1>2 DEF Enter, Entry, Top
<1>4. traverseStack' = PushChildren([s EXCEPT ![Len(s)].event = "Exit"], n)
  BY DEF Enter
<1>5. IsTree(tree) /\ Top(s).node = n
  BY DEF WalkTypeOK
<1> HIDE DEF n, s
<1>6. QED
  BY <1>1, <1>2, <1>3, <1>4, <1>5, PushChildrenShape DEF s, n

LEMMA PopShape ==
  ASSUME NEW S, NEW q \in Seq(S), q # <<>>
  PROVE  /\ Pop(q) \in Seq(S)
         /\ Len(Pop(q)) = Len(q) - 1
         /\ \A k \in 1..(Len(q) - 1) : Pop(q)[k] = q[k]
<1>1. Len(q) \in Nat /\ Len(q) > 0
  OBVIOUS
<1>2. Pop(q) \in Seq(S)
  BY DEF Pop
<1>3. Len(Pop(q)) = Len(q) - 1
  <2>1. \A n \in Nat : n <= Len(q) => Len(SubSeq(q, 1, n)) = n
    OBVIOUS
  <2>2. Len(q) - 1 \in Nat /\ Len(q) - 1 <= Len(q)
    BY <1>1
  <2>3. QED
    BY <2>1, <2>2, Zenon DEF Pop
<1>4. ASSUME NEW k \in 1..(Len(q) - 1) PROVE Pop(q)[k] = q[k]
  BY <1>1, <1>4 DEF Pop
<1>5. QED
  BY <1>2, <1>3, <1>4

LEMMA ExitShape ==
  ASSUME WalkTypeOK, Exit
  PROVE  /\ Len(traverseStack) \in Nat /\ Len(traverseStack) > 0
         /\ traverseStack[Len(traverseStack)] \in Entry
         /\ traverseStack[Len(traverseStack)].event = "Exit"
         /\ traverseStack' \in Seq(Entry)
         /\ Len(traverseStack') = Len(traverseStack) - 1
         /\ \A k \in 1..(Len(traverseStack) - 1) : traverseStack'[k] = traverseStack[k]
<1>1. traverseStack \in Seq(Entry) /\ traverseStack # <<>>
  BY DEF WalkTypeOK, Exit
<1>2. traverseStack' = SubSeq(traverseStack, 1, Len(traverseStack) - 1)
  BY DEF Exit, Pop
<1>3. traverseStack[Len(traverseStack)].event = "Exit"
  BY DEF Exit, Top
<1>4. Len(traverseStack) \in Nat /\ Len(traverseStack) > 0
  BY <1>1
<1>5. traverseStack[Len(traverseStack)] \in Entry
  BY <1>1, <1>4
<1>6. /\ traverseStack' \in Seq(Entry)
      /\ Len(traverseStack') = Len(traverseStack) - 1
      /\ \A k \in 1..(Len(traverseStack) - 1) : traverseStack'[k] = traverseStack[k]
  BY <1>1, <1>2, PopShape DEF Pop
<1>7. QED
  BY <1>3, <1>4, <1>5, <1>6, Zenon

LEMMA TypeInit == Init => WalkTypeOK
<1> SUFFICES ASSUME Init PROVE WalkTypeOK
  OBVIOUS
<1>1. tree \in Trees /\ IsTree(tree)
  BY TreesAssumption DEF Init
<1>2. 1 \in Indexes(tree)
  BY <1>1 DEF IsTree, Indexes
<1>3. [node |-> 1, event |-> "Enter"] \in Entry
  BY <1>2 DEF Entry
<1>4. traverseStack \in Seq(Entry) /\ indentStack \in Seq(Frame) /\ entered \in Nat
  BY <1>3 DEF Init
<1>5. QED
  BY <1>1, <1>4 DEF WalkTypeOK

LEMMA TypeNext == WalkTypeOK /\ [Next]_vars => WalkTypeOK'
<1> SUFFICES ASSUME WalkTypeOK, [Next]_vars PROVE WalkTypeOK'
  OBVIOUS
<1>1. ASSUME NEW r \in IndentChoices, Enter(r) PROVE WalkTypeOK'
  <2> DEFINE n == Top(traverseStack).node
  <2>1. tree' = tree
    BY <1>1 DEF Enter
  <2>2. Entry' = Entry /\ Frame' = Frame /\ IsTree(tree)' = IsTree(tree)
    BY <2>1 DEF Entry, Frame, Indexes, IsTree
  <2>3. traverseStack' \in Seq(Entry) /\ n \in Indexes(tree)
    BY <1>1, EnterShape
  <2>4. indentStack' \in Seq(Frame)
    <3>1. indentStack \in Seq(Frame)
      BY DEF WalkTypeOK
    <3>2. CASE r.strategy = "None"
      BY <1>1, <3>1, <3>2 DEF Enter
    <3>3. CASE r.strategy # "None"
      <4>1. indentStack' = Append(indentStack, NewFrame(n, r))
        BY <1>1, <3>3 DEF Enter
      <4>2. NewFrame(n, r) \in Frame
        BY <2>3, <3>1, <3>3, NewFrameType
      <4> HIDE DEF n
      <4>3. QED
        BY <3>1, <4>1, <4>2
    <3>4. QED
      BY <3>2, <3>3
  <2>5. entered' = n
    BY <1>1 DEF Enter
  <2>6. entered' \in Nat
    BY <2>3, <2>5 DEF Indexes
  <2>7. QED
    BY <2>1, <2>2, <2>3, <2>4, <2>6 DEF WalkTypeOK
<1>2. ASSUME Exit PROVE WalkTypeOK'
  <2>1. tree' = tree /\ entered' = entered
    BY <1>2 DEF Exit
  <2>2. Entry' = Entry /\ Frame' = Frame /\ IsTree(tree)' = IsTree(tree)
    BY <2>1 DEF Entry, Frame, Indexes, IsTree
  <2>3. traverseStack' \in Seq(Entry)
    BY <1>2, ExitShape
  <2>4. indentStack' \in Seq(Frame)
    <3>1. indentStack \in Seq(Frame)
      BY DEF WalkTypeOK
    <3>2. CASE indentStack' = indentStack
      BY <3>1, <3>2
    <3>3. CASE indentStack # <<>> /\ indentStack' = Pop(indentStack)
      <4> HIDE DEF Frame
      <4>1. QED
        BY <3>1, <3>3 DEF Pop
    <3>4. QED
      BY <1>2, <3>2, <3>3 DEF Exit
  <2>5. QED
    BY <2>1, <2>2, <2>3, <2>4 DEF WalkTypeOK
<1>3. CASE UNCHANGED vars
  BY <1>3 DEF vars, WalkTypeOK, Entry, Frame, Indexes, IsTree
<1>4. QED
  BY <1>1, <1>2, <1>3 DEF Next

\* The walk keeps its stacks well formed, whatever the analyzers ask for.
THEOREM WalkTypeCorrect == Spec => []WalkTypeOK
<1>1. Init => WalkTypeOK
  BY TypeInit
<1>2. WalkTypeOK /\ [Next]_vars => WalkTypeOK'
  BY TypeNext
<1>3. QED
  BY <1>1, <1>2, PTL DEF Spec

-----------------------------------------------------------------------------

LEMMA WalkInit == Init => WalkInv
<1> SUFFICES ASSUME Init PROVE WalkInv
  OBVIOUS
<1>1. traverseStack = <<[node |-> 1, event |-> "Enter"]>> /\ entered = 0 /\ IsTree(tree)
  BY TreesAssumption DEF Init
<1>2. tree.last[1] = tree.size
  BY <1>1 DEF IsTree
<1>3. QED
  BY <1>1, <1>2 DEF WalkInv, Top

LEMMA WalkEnter ==
  ASSUME WalkTypeOK, WalkInv, NEW r \in IndentChoices, Enter(r)
  PROVE  WalkInv' /\ entered' = entered + 1
<1> DEFINE s == traverseStack
           n == Top(traverseStack).node
           c == tree.children[n]
<1>1. /\ Len(s) \in Nat /\ Len(s) > 0
      /\ n \in Indexes(tree)
      /\ s[Len(s)] = [node |-> n, event |-> "Enter"]
      /\ Len(c) \in Nat
      /\ s' \in Seq(Entry)
      /\ Len(s') = Len(s) + Len(c)
      /\ \A k \in 1..(Len(s) - 1) : s'[k] = s[k]
      /\ s'[Len(s)] = [node |-> n, event |-> "Exit"]
      /\ \A k \in 1..Len(c) : s'[Len(s) + k] = [node |-> c[Len(c) + 1 - k], event |-> "Enter"]
  BY EnterShape, Zenon
<1>2. tree' = tree /\ entered' = n /\ s # <<>> /\ Top(s).event = "Enter"
  BY DEF Enter
<1>3. n = entered + 1
  BY <1>2 DEF WalkInv
<1>4. /\ c = <<>> => tree.last[n] = n
      /\ c # <<>> => c[1] = n + 1 /\ tree.last[n] = tree.last[c[Len(c)]]
      /\ \A k \in 1..(Len(c) - 1) : c[k + 1] = tree.last[c[k]] + 1
  BY <1>1 DEF WalkTypeOK, IsTree, Indexes
<1>5. c \in Seq(Indexes(tree))
  <2>1. tree.children \in [Indexes(tree) -> Seq(Indexes(tree))]
    BY Zenon DEF WalkTypeOK, IsTree, Indexes
  <2>2. QED BY <1>1, <2>1
<1>6. c = <<>> <=> Len(c) = 0
  BY <1>5
<1>7. s' # <<>>
  BY <1>1
<1> HIDE DEF s, n, c
<1>8. tree.last[s'[1].node] = tree.size
  <2>1. tree.last[s[1].node] = tree.size
    BY <1>2 DEF WalkInv, s
  <2>2. CASE Len(s) = 1
    BY <1>1, <2>1, <2>2
  <2>3. CASE Len(s) # 1
    <3> DEFINE l == Len(s)
    <3> HIDE DEF l
    <3>1. l \in Nat /\ l > 0 /\ l # 1
      BY <1>1, <2>3, Zenon DEF l
    <3>2. 1 \in 1..(l - 1)
      BY <3>1
    <3>3. QED
      BY <1>1, <2>1, <3>2, Zenon DEF l
  <2>4. QED
    BY <2>2, <2>3, Zenon
<1>9. CASE c = <<>>
  <2>1. Top(s') = [node |-> n, event |-> "Exit"]
    BY <1>1, <1>6, <1>9 DEF Top
  <2>2. tree.last[Top(s').node] = n
    BY <2>1, <1>4, <1>9
  <2>3. ASSUME NEW k \in 1..(Len(s') - 1) PROVE Follows(s'[k], s'[k + 1])
    <3>1. k \in 1..(Len(s) - 1) /\ Follows(s[k], s[k + 1])
      BY <1>1, <1>6, <1>9, <2>3 DEF WalkInv, s
    <3>2. s'[k] = s[k] /\ s'[k + 1].node = s[k + 1].node
      BY <1>1, <1>6, <1>9, <3>1
    <3>3. QED
      BY <3>1, <3>2 DEF Follows
  <2>4. QED
    BY <1>2, <1>3, <1>7, <1>8, <2>1, <2>2, <2>3 DEF WalkInv, Follows, s
<1>10. CASE c # <<>>
  <2>1. Top(s') = [node |-> c[1], event |-> "Enter"]
    <3>1. Len(c) \in 1..Len(c) /\ Len(c) + 1 - Len(c) = 1
      BY <1>1, <1>6, <1>10
    <3>2. s'[Len(s) + Len(c)] = [node |-> c[1], event |-> "Enter"]
      BY <1>1, <3>1
    <3>3. QED
      BY <1>1, <3>2 DEF Top
  <2>2. Top(s').node = n + 1
    BY <2>1, <1>4, <1>10
  <2>3. ASSUME NEW k \in 1..(Len(s') - 1) PROVE Follows(s'[k], s'[k + 1])
    <3>1. CASE k \in 1..(Len(s) - 1)
      <4>1. Follows(s[k], s[k + 1])
        BY <3>1 DEF WalkInv, s
      <4>2. s'[k] = s[k]
        BY <1>1, <3>1
      <4>3. s'[k + 1].node = s[k + 1].node
        <5>1. CASE k + 1 = Len(s)
          BY <1>1, <5>1
        <5>2. CASE k + 1 \in 1..(Len(s) - 1)
          BY <1>1, <5>2
        <5>3. QED
          BY <1>1, <3>1, <5>1, <5>2
      <4>4. QED
        BY <4>1, <4>2, <4>3 DEF Follows
    <3>2. CASE k = Len(s)
      <4>1. s'[k + 1] = [node |-> c[Len(c)], event |-> "Enter"]
        <5>1. 1 \in 1..Len(c) /\ Len(c) + 1 - 1 = Len(c)
          BY <1>1, <1>6, <1>10
        <5>2. s'[Len(s) + 1] = [node |-> c[Len(c)], event |-> "Enter"]
          BY <1>1, <5>1
        <5>3. QED
          BY <3>2, <5>2
      <4>2. QED
        BY <1>1, <1>4, <1>10, <3>2, <4>1 DEF Follows
    <3>3. CASE k > Len(s)
      <4> DEFINE j == k - Len(s)
                 m == Len(c) - j
      <4>1. /\ j \in 1..Len(c) /\ j + 1 \in 1..Len(c) /\ m \in 1..(Len(c) - 1)
            /\ k = Len(s) + j /\ k + 1 = Len(s) + (j + 1)
            /\ Len(c) + 1 - j = m + 1 /\ Len(c) + 1 - (j + 1) = m
        BY <1>1, <2>3, <3>3
      <4> HIDE DEF j, m
      <4>2. s'[k] = [node |-> c[m + 1], event |-> "Enter"]
        BY <1>1, <4>1
      <4>3. s'[k + 1] = [node |-> c[m], event |-> "Enter"]
        BY <1>1, <4>1
      <4>4. c[m + 1] = tree.last[c[m]] + 1
        BY <1>4, <4>1
      <4>5. QED
        BY <4>2, <4>3, <4>4 DEF Follows
    <3>4. QED
      BY <1>1, <2>3, <3>1, <3>2, <3>3
  <2>4. QED
    BY <1>2, <1>3, <1>7, <1>8, <2>1, <2>2, <2>3 DEF WalkInv, Follows, s
<1>11. QED
  BY <1>2, <1>3, <1>9, <1>10

LEMMA WalkExit ==
  ASSUME WalkTypeOK, WalkInv, Exit
  PROVE  WalkInv'
<1> DEFINE s == traverseStack
           L == Len(traverseStack)
<1>1. /\ L \in Nat /\ L > 0
      /\ s[L].event = "Exit" /\ s[L] \in Entry
      /\ s' \in Seq(Entry)
      /\ Len(s') = L - 1
      /\ \A k \in 1..(L - 1) : s'[k] = s[k]
  BY ExitShape, Zenon
<1>2. tree' = tree /\ entered' = entered /\ s # <<>> /\ Top(s).event = "Exit"
  BY DEF Exit
<1>3. tree.last[s[1].node] = tree.size /\ tree.last[s[L].node] = entered
  BY <1>2 DEF WalkInv, Top
<1>4. \A k \in 1..(L - 1) : Follows(s[k], s[k + 1])
  BY DEF WalkInv
<1>5. s' = <<>> <=> L = 1
  BY <1>1
<1> HIDE DEF s, L
<1>6. CASE L = 1
  <2>1. entered = tree.size
    BY <1>3, <1>6
  <2>2. s' = <<>> /\ 1..(Len(s') - 1) = {}
    BY <1>1, <1>5, <1>6
  <2>3. QED
    BY <1>2, <2>1, <2>2 DEF WalkInv, s
<1>7. CASE L > 1
  <2>1. L - 1 \in 1..(L - 1) /\ 1 \in 1..(L - 1) /\ (L - 1) + 1 = L
    BY <1>1, <1>7
  <2>2. s'[1] = s[1] /\ Top(s') = s[L - 1]
    BY <1>1, <2>1 DEF Top
  <2>3. Follows(s[L - 1], s[L])
    BY <1>4, <2>1
  <2>4. /\ Top(s').event = "Enter" => Top(s').node = entered + 1
        /\ Top(s').event = "Exit" => tree.last[Top(s').node] = entered
    BY <1>3, <2>2, <2>3 DEF Follows
  <2>5. ASSUME NEW k \in 1..(Len(s') - 1) PROVE Follows(s'[k], s'[k + 1])
    <3>1. k \in 1..(L - 1) /\ k + 1 \in 1..(L - 1)
      BY <1>1, <2>5
    <3>2. QED
      BY <1>1, <1>4, <3>1
  <2>6. s' # <<>>
    BY <1>5, <1>7
  <2>7. QED
    BY <1>2, <1>3, <2>2, <2>4, <2>5, <2>6 DEF WalkInv, Follows, s
<1>8. QED
  BY <1>1, <1>6, <1>7

LEMMA WalkNext == WalkTypeOK /\ WalkInv /\ [Next]_vars => WalkInv'
<1> SUFFICES ASSUME WalkTypeOK, WalkInv, [Next]_vars PROVE WalkInv'
  OBVIOUS
<1>1. ASSUME NEW r \in IndentChoices, Enter(r) PROVE WalkInv'
  BY <1>1, WalkEnter
<1>2. CASE Exit
  BY <1>2, WalkExit
<1>3. CASE UNCHANGED vars
  BY <1>3 DEF vars, WalkInv, Follows, Top
<1>4. QED
  BY <1>1, <1>2, <1>3 DEF Next

THEOREM WalkCorrect == Spec => [](WalkTypeOK /\ WalkInv)
<1>1. Init => WalkTypeOK /\ WalkInv
  BY TypeInit, WalkInit
<1>2. (WalkTypeOK /\ WalkInv) /\ [Next]_vars => (WalkTypeOK /\ WalkInv)'
  BY TypeNext, WalkNext
<1>3. QED
  BY <1>1, <1>2, PTL DEF Spec

\* Nodes are entered in the order of the array, none twice and none left out, whatever
\* DfsForeach is told to ignore on the way.
THEOREM EnteredInPreorder == Spec => PreorderStep
<1>1. WalkTypeOK /\ WalkInv /\ [Next]_vars => [entered' \in {entered, entered + 1}]_vars
  <2> SUFFICES ASSUME WalkTypeOK, WalkInv, [Next]_vars
               PROVE  entered' \in {entered, entered + 1} \/ UNCHANGED vars
    OBVIOUS
  <2>1. ASSUME NEW r \in IndentChoices, Enter(r) PROVE entered' = entered + 1
    BY <2>1, WalkEnter
  <2>2. Exit => entered' = entered
    BY DEF Exit
  <2>3. QED
    BY <2>1, <2>2 DEF Next
<1>2. QED
  BY <1>1, WalkCorrect, PTL DEF Spec, PreorderStep

\* A walk that has emptied its stack has entered every node of the tree.
THEOREM DoneMeansAll == Spec => [](Done => entered = tree.size)
<1>1. WalkInv => (Done => entered = tree.size)
  BY DEF WalkInv, Done
<1>2. QED
  BY <1>1, WalkCorrect, PTL

-----------------------------------------------------------------------------

(***************************************************************************)
(* The nodes that are open were entered, the outer ones first.  Together   *)
(* with FramesAreOpen this is inductive: the frame of the node on top, if  *)
(* it left one, is the innermost frame.                                    *)
(***************************************************************************)
OpenInv ==
  /\ \A j \in DOMAIN traverseStack :
       traverseStack[j].event = "Exit" => traverseStack[j].node <= entered
  /\ \A j, k \in DOMAIN traverseStack :
       j < k /\ traverseStack[j].event = "Exit" /\ traverseStack[k].event = "Exit"
         => traverseStack[j].node < traverseStack[k].node

LEMMA OpenInit == Init => OpenInv /\ FramesAreOpen
<1> SUFFICES ASSUME Init PROVE OpenInv /\ FramesAreOpen
  OBVIOUS
<1>1. traverseStack = <<[node |-> 1, event |-> "Enter"]>> /\ indentStack = <<>>
  BY DEF Init
<1>2. OpenInv
  BY <1>1 DEF OpenInv
<1>3. FramesAreOpen
  BY <1>1 DEF FramesAreOpen
<1>4. QED
  BY <1>2, <1>3

LEMMA EnteredType ==
  ASSUME WalkTypeOK
  PROVE  /\ Len(traverseStack) \in Nat
         /\ DOMAIN traverseStack = 1..Len(traverseStack)
         /\ \A j \in DOMAIN traverseStack :
              traverseStack[j].node \in Nat /\ traverseStack[j].event \in {"Enter", "Exit"}
         /\ Len(indentStack) \in Nat
         /\ DOMAIN indentStack = 1..Len(indentStack)
         /\ \A k \in DOMAIN indentStack : indentStack[k].node \in Nat
<1>1. traverseStack \in Seq(Entry) /\ indentStack \in Seq(Frame)
  BY DEF WalkTypeOK
<1>2. \A e \in Entry : e.node \in Nat /\ e.event \in {"Enter", "Exit"}
  BY DEF Entry, Indexes
<1>3. \A f \in Frame : f.node \in Nat
  BY DEF Frame, Indexes
<1>4. /\ Len(traverseStack) \in Nat
      /\ DOMAIN traverseStack = 1..Len(traverseStack)
      /\ \A j \in DOMAIN traverseStack : traverseStack[j] \in Entry
  BY <1>1
<1>5. /\ Len(indentStack) \in Nat
      /\ DOMAIN indentStack = 1..Len(indentStack)
      /\ \A k \in DOMAIN indentStack : indentStack[k] \in Frame
  BY <1>1
<1>6. QED
  BY <1>2, <1>3, <1>4, <1>5, Zenon

LEMMA OpenEnter ==
  ASSUME WalkTypeOK, WalkInv, OpenInv, FramesAreOpen, NEW r \in IndentChoices, Enter(r)
  PROVE  OpenInv' /\ FramesAreOpen'
<1> DEFINE s == traverseStack
           n == Top(traverseStack).node
           c == tree.children[n]
           L == Len(traverseStack)
           OpenAfter(m) == \E j \in DOMAIN s' : s'[j] = [node |-> m, event |-> "Exit"]
<1>1. /\ L \in Nat /\ L > 0
      /\ n \in Indexes(tree)
      /\ s[L] = [node |-> n, event |-> "Enter"]
      /\ Len(c) \in Nat
      /\ s' \in Seq(Entry)
      /\ Len(s') = L + Len(c)
      /\ \A k \in 1..(L - 1) : s'[k] = s[k]
      /\ s'[L] = [node |-> n, event |-> "Exit"]
      /\ \A k \in 1..Len(c) : s'[L + k] = [node |-> c[Len(c) + 1 - k], event |-> "Enter"]
  BY EnterShape, Zenon
<1>2. entered' = n /\ entered' = entered + 1 /\ entered \in Nat
  BY WalkEnter DEF Enter, WalkTypeOK
<1>3. /\ DOMAIN s = 1..L
      /\ \A j \in 1..L : s[j].node \in Nat /\ s[j].event \in {"Enter", "Exit"}
      /\ Len(indentStack) \in Nat
      /\ DOMAIN indentStack = 1..Len(indentStack)
      /\ \A k \in DOMAIN indentStack : indentStack[k].node \in Nat
  BY EnteredType, Zenon
<1>4. DOMAIN s' = 1..(L + Len(c))
  BY <1>1
<1>5. indentStack \in Seq(Frame)
  BY DEF WalkTypeOK
<1>6. indentStack' = indentStack \/ indentStack' = Append(indentStack, NewFrame(n, r))
  BY DEF Enter
<1>7. NewFrame(n, r).node = n \/ indentStack' = indentStack
  <2>1. CASE r.strategy = "None"
    BY <2>1 DEF Enter
  <2>2. CASE r.strategy # "None"
    <3>1. r.strategy \in IndentStrategy
      BY <2>2, StyleAssumption DEF IndentStrategy
    <3> HIDE DEF n
    <3>2. NewFrame(n, r).node = n
      BY <3>1 DEF NewFrame, IndentStrategy
    <3>3. QED
      BY <3>2
  <2>3. QED
    BY <2>1, <2>2
<1> HIDE DEF s, n, c, L
\* An open entry is n itself or one that was open before.
<1>8. ASSUME NEW j \in DOMAIN s', s'[j].event = "Exit"
      PROVE  j \in 1..L /\ (j = L \/ (j \in 1..(L - 1) /\ s'[j] = s[j]))
  <2>1. CASE j > L
    <3>1. j - L \in 1..Len(c) /\ j = L + (j - L)
      BY <1>1, <1>4, <2>1
    <3>2. s'[L + (j - L)] = [node |-> c[Len(c) + 1 - (j - L)], event |-> "Enter"]
      BY <1>1, <3>1, Zenon
    <3>3. s'[j].event = "Enter"
      BY <3>1, <3>2
    <3>4. QED
      BY <1>8, <3>3
  <2>2. CASE ~(j > L)
    <3>1. j \in 1..L /\ (j = L \/ j \in 1..(L - 1))
      BY <1>1, <1>4, <2>2
    <3>2. QED
      BY <1>1, <3>1, Zenon
  <2>3. QED
    BY <2>1, <2>2
<1>9. ASSUME NEW j \in 1..(L - 1), s[j].event = "Exit"
      PROVE  s[j].node <= entered /\ s[j].node < n /\ s[j].node \in Nat
  <2>1. j \in DOMAIN s /\ s[j].node \in Nat
    BY <1>1, <1>3
  <2>2. s[j].node <= entered
    BY <1>9, <2>1 DEF OpenInv, s
  <2>3. QED
    BY <1>2, <2>1, <2>2
<1>10. OpenInv'
  <2>1. ASSUME NEW j \in DOMAIN s', s'[j].event = "Exit" PROVE s'[j].node <= n
    <3>1. CASE j = L
      BY <1>1, <1>2, <3>1
    <3>2. CASE j \in 1..(L - 1) /\ s'[j] = s[j]
      BY <1>2, <1>9, <2>1, <3>2
    <3>3. QED
      BY <1>8, <2>1, <3>1, <3>2
  <2>2. ASSUME NEW j \in DOMAIN s', NEW k \in DOMAIN s', j < k,
               s'[j].event = "Exit", s'[k].event = "Exit"
        PROVE  s'[j].node < s'[k].node
    <3>1. k = L \/ (k \in 1..(L - 1) /\ s'[k] = s[k])
      BY <1>8, <2>2
    <3>2. j \in 1..(L - 1) /\ s'[j] = s[j]
      BY <1>1, <1>8, <2>2
    <3>3. CASE k = L
      BY <1>1, <1>9, <2>2, <3>2, <3>3
    <3>4. CASE k \in 1..(L - 1) /\ s'[k] = s[k]
      <4>1. j \in DOMAIN s /\ k \in DOMAIN s
        BY <1>1, <1>3, <3>2, <3>4
      <4>2. QED
        BY <2>2, <3>2, <3>4, <4>1 DEF OpenInv, s
    <3>5. QED
      BY <3>1, <3>3, <3>4
  <2>3. QED
    BY <1>2, <2>1, <2>2 DEF OpenInv, s
<1>11. \A m : IsOpen(m) => OpenAfter(m) /\ m < n
  <2> SUFFICES ASSUME NEW m, IsOpen(m) PROVE OpenAfter(m) /\ m < n
    OBVIOUS
  <2>1. PICK j \in DOMAIN s : s[j] = [node |-> m, event |-> "Exit"]
    BY DEF IsOpen, s
  <2>2. j \in 1..(L - 1)
    <3>1. j # L
      BY <1>1, <2>1
    <3>2. QED
      BY <1>1, <1>3, <3>1
  <2>3. j \in DOMAIN s' /\ s'[j] = s[j]
    BY <1>1, <1>4, <2>2
  <2>4. QED
    BY <1>9, <2>1, <2>2, <2>3
<1>12. OpenAfter(n)
  <2>1. L \in DOMAIN s'
    BY <1>1, <1>4
  <2>2. QED
    BY <1>1, <2>1, Zenon
<1>13. FramesAreOpen'
  <2>1. CASE indentStack' = indentStack
    BY <1>11, <2>1 DEF FramesAreOpen, IsOpen, s
  <2>2. CASE indentStack' = Append(indentStack, NewFrame(n, r)) /\ NewFrame(n, r).node = n
    <3> DEFINE f == NewFrame(n, r)
               i == indentStack
               M == Len(indentStack)
    <3>1. \A q \in Seq(Frame) : \A x :
             /\ DOMAIN Append(q, x) = 1..(Len(q) + 1)
             /\ Len(Append(q, x)) = Len(q) + 1
             /\ Append(q, x)[Len(q) + 1] = x
             /\ \A k \in 1..Len(q) : Append(q, x)[k] = q[k]
      OBVIOUS
    <3> HIDE DEF f, i, M
    <3>2. /\ DOMAIN i' = 1..(M + 1) /\ Len(i') = M + 1
          /\ i'[M + 1].node = n
          /\ \A k \in 1..M : i'[k] = i[k]
      <4>1. i' = Append(i, f) /\ i \in Seq(Frame) /\ f.node = n /\ M = Len(i)
        BY <1>5, <2>2, Zenon DEF f, i, M
      <4>2. /\ DOMAIN Append(i, f) = 1..(Len(i) + 1)
            /\ Len(Append(i, f)) = Len(i) + 1
            /\ Append(i, f)[Len(i) + 1] = f
            /\ \A k \in 1..Len(i) : Append(i, f)[k] = i[k]
        BY <3>1, <4>1
      <4>3. /\ DOMAIN i' = 1..(M + 1) /\ Len(i') = M + 1
            /\ i'[M + 1] = f
            /\ \A k \in 1..M : i'[k] = i[k]
        BY <4>1, <4>2
      <4>4. QED
        BY <4>1, <4>3, Zenon
    <3>3. M \in Nat /\ DOMAIN i = 1..M
      BY <1>3 DEF i, M
    <3>4. \A k \in 1..M : IsOpen(i[k].node)
      BY <3>3 DEF FramesAreOpen, i
    <3>5. \A k \in 1..(M - 1) : i[k].node < i[k + 1].node
      BY DEF FramesAreOpen, i, M
    <3>6. ASSUME NEW k \in DOMAIN i' PROVE OpenAfter(i'[k].node)
      <4>1. CASE k = M + 1
        BY <1>12, <3>2, <4>1, Zenon
      <4>2. CASE k # M + 1
        <5>1. k \in 1..M
          BY <3>2, <3>3, <4>2
        <5>2. i'[k] = i[k] /\ IsOpen(i[k].node)
          BY <3>2, <3>4, <5>1
        <5>3. QED
          BY <1>11, <5>2
      <4>3. QED
        BY <4>1, <4>2
    <3>7. ASSUME NEW k \in 1..(Len(i') - 1) PROVE i'[k].node < i'[k + 1].node
      <4>1. k \in 1..M /\ i'[k] = i[k] /\ i[k].node < n
        BY <1>11, <3>2, <3>3, <3>4
      <4>2. CASE k = M
        BY <3>2, <4>1, <4>2
      <4>3. CASE k # M
        <5>1. k \in 1..(M - 1) /\ k + 1 \in 1..M
          BY <3>3, <4>1, <4>3
        <5>2. QED
          BY <3>2, <3>5, <4>1, <5>1
      <4>4. QED
        BY <4>2, <4>3
    <3>8. QED
      BY <3>6, <3>7 DEF FramesAreOpen, IsOpen, i, s
  <2>3. QED
    BY <1>6, <1>7, <2>1, <2>2
<1>14. QED
  BY <1>10, <1>13

LEMMA OpenExit ==
  ASSUME WalkTypeOK, OpenInv, FramesAreOpen, Exit
  PROVE  OpenInv' /\ FramesAreOpen'
<1> DEFINE s == traverseStack
           i == indentStack
           L == Len(traverseStack)
           M == Len(indentStack)
           n == Top(traverseStack).node
           OpenAfter(m) == \E j \in DOMAIN s' : s'[j] = [node |-> m, event |-> "Exit"]
<1>1. /\ L \in Nat /\ L > 0
      /\ s[L].event = "Exit"
      /\ s' \in Seq(Entry)
      /\ Len(s') = L - 1
      /\ \A k \in 1..(L - 1) : s'[k] = s[k]
  BY ExitShape, Zenon
<1>2. entered' = entered /\ s[L].node = n
  BY DEF Exit, Top
<1>3. /\ DOMAIN s = 1..L
      /\ \A j \in 1..L : s[j].node \in Nat
      /\ M \in Nat /\ DOMAIN i = 1..M
      /\ \A k \in DOMAIN i : i[k].node \in Nat
  BY EnteredType, Zenon
<1>4. DOMAIN s' = 1..(L - 1)
  BY <1>1
<1>5. i \in Seq(Frame)
  BY DEF WalkTypeOK
<1>6. \/ i # <<>> /\ i[M].node = n /\ i' = Pop(i)
      \/ ~(i # <<>> /\ i[M].node = n) /\ i' = i
  BY DEF Exit, Top
<1> HIDE DEF s, i, L, M, n
<1>7. OpenInv'
  <2>1. ASSUME NEW j \in DOMAIN s' PROVE j \in DOMAIN s /\ s'[j] = s[j]
    BY <1>1, <1>3, <1>4
  <2>2. QED
    BY <1>2, <2>1 DEF OpenInv, s
<1>8. ASSUME NEW m, IsOpen(m), m # n PROVE OpenAfter(m) /\ m < n
  <2>1. PICK j \in DOMAIN s : s[j] = [node |-> m, event |-> "Exit"]
    BY <1>8 DEF IsOpen, s
  <2>2. j # L
    BY <1>2, <1>8, <2>1
  <2>3. j \in 1..(L - 1) /\ L \in DOMAIN s /\ j < L
    BY <1>1, <1>3, <2>2
  <2>4. s[j].node < s[L].node
    BY <1>1, <2>1, <2>3 DEF OpenInv, s
  <2>5. QED
    BY <1>1, <1>2, <1>4, <2>1, <2>3, <2>4
<1>9. /\ \A k \in 1..M : IsOpen(i[k].node)
      /\ \A k \in 1..(M - 1) : i[k].node < i[k + 1].node
  BY <1>3 DEF FramesAreOpen, i, M
\* A frame that the node on top left behind is the innermost one.
<1>10. ASSUME NEW k \in 1..(M - 1) PROVE i[k].node # n
  <2>1. k \in 1..M /\ k + 1 \in 1..M
    BY <1>3
  <2>2. i[k].node \in Nat /\ i[k + 1].node \in Nat /\ n \in Nat
    <3>1. L \in 1..L
      BY <1>1
    <3>2. QED
      BY <1>2, <1>3, <2>1, <3>1, Zenon
  <2>3. i[k].node < i[k + 1].node /\ IsOpen(i[k + 1].node)
    BY <1>9, <2>1
  <2>4. i[k + 1].node = n \/ i[k + 1].node < n
    BY <1>8, <2>3
  <2>5. QED
    BY <2>2, <2>3, <2>4
<1>11. FramesAreOpen'
  <2>1. CASE i # <<>> /\ i[M].node = n /\ i' = Pop(i)
    <3>1. Len(i') = M - 1 /\ DOMAIN i' = 1..(M - 1) /\ \A k \in 1..(M - 1) : i'[k] = i[k]
      <4>1. Pop(i) \in Seq(Frame) /\ Len(Pop(i)) = M - 1
        BY <1>5, <2>1, PopShape DEF M, i
      <4>2. \A k \in 1..(M - 1) : Pop(i)[k] = i[k]
        BY <1>5, <2>1, PopShape DEF M, i
      <4>3. DOMAIN Pop(i) = 1..Len(Pop(i))
        BY <4>1
      <4>4. QED
        BY <2>1, <4>1, <4>2, <4>3
    <3>2. ASSUME NEW k \in DOMAIN i' PROVE OpenAfter(i'[k].node)
      <4>1. k \in 1..(M - 1) /\ k \in 1..M /\ i'[k] = i[k]
        BY <1>3, <3>1
      <4>2. QED
        BY <1>8, <1>9, <1>10, <4>1, Zenon
    <3>3. ASSUME NEW k \in 1..(Len(i') - 1) PROVE i'[k].node < i'[k + 1].node
      <4>1. k \in 1..(M - 1) /\ k + 1 \in 1..(M - 1)
        BY <1>3, <3>1
      <4>2. QED
        BY <1>9, <3>1, <4>1
    <3>4. QED
      BY <3>2, <3>3 DEF FramesAreOpen, IsOpen, i, s
  <2>2. CASE ~(i # <<>> /\ i[M].node = n) /\ i' = i
    <3>1. ASSUME NEW k \in DOMAIN i PROVE OpenAfter(i[k].node)
      <4>1. k \in 1..M /\ i # <<>>
        BY <1>3, <1>5
      <4>2. i[k].node # n
        <5>1. CASE k = M
          BY <2>2, <4>1, <5>1
        <5>2. CASE k # M
          <6>1. k \in 1..(M - 1)
            BY <1>3, <4>1, <5>2
          <6>2. QED
            BY <1>10, <6>1
        <5>3. QED
          BY <5>1, <5>2
      <4>3. QED
        BY <1>8, <1>9, <4>1, <4>2
    <3>2. QED
      BY <1>9, <2>2, <3>1 DEF FramesAreOpen, IsOpen, i, s, M
  <2>3. QED
    BY <1>6, <2>1, <2>2
<1>12. QED
  BY <1>7, <1>11

\* The frames on the indentation stack belong, inner on outer, to nodes that are still open.
THEOREM IndentFramesAreOpen == Spec => []FramesAreOpen
<1>1. Init => OpenInv /\ FramesAreOpen
  BY OpenInit
<1>2. /\ WalkTypeOK /\ WalkInv /\ OpenInv /\ FramesAreOpen /\ [Next]_vars
      => (OpenInv /\ FramesAreOpen)'
  <2> SUFFICES ASSUME WalkTypeOK, WalkInv, OpenInv, FramesAreOpen, [Next]_vars
               PROVE  (OpenInv /\ FramesAreOpen)'
    OBVIOUS
  <2>1. ASSUME NEW r \in IndentChoices, Enter(r) PROVE OpenInv' /\ FramesAreOpen'
    BY <2>1, OpenEnter
  <2>2. CASE Exit
    BY <2>2, OpenExit
  <2>3. CASE UNCHANGED vars
    BY <2>3 DEF vars, OpenInv, FramesAreOpen, IsOpen
  <2>4. QED
    BY <2>1, <2>2, <2>3 DEF Next
<1>3. QED
  BY <1>1, <1>2, WalkCorrect, PTL DEF Spec

\* No indentation outlives the walk: what a node asked for ends with the node.
THEOREM IndentIsBalanced == Spec => [](Done => indentStack = <<>>)
<1>1. WalkTypeOK /\ FramesAreOpen => (Done => indentStack = <<>>)
  <2> SUFFICES ASSUME WalkTypeOK, FramesAreOpen, traverseStack = <<>>, indentStack # <<>>
               PROVE  FALSE
    BY DEF Done
  <2>1. indentStack \in Seq(Frame)
    BY DEF WalkTypeOK
  <2>2. 1 \in DOMAIN indentStack
    BY <2>1
  <2>3. IsOpen(indentStack[1].node)
    BY <2>2 DEF FramesAreOpen
  <2>4. QED
    BY <2>3 DEF IsOpen
<1>2. QED
  BY <1>1, WalkCorrect, IndentFramesAreOpen, PTL

-----------------------------------------------------------------------------

(***************************************************************************)
(* The walk hands out the source in order.  At every moment the slices     *)
(* reach to the last node entered, or to the end of the ignored range the  *)
(* walk is in.                                                             *)
(***************************************************************************)
Reached == Order!Reached

ReachInv ==
  /\ handled \in Seq(Range)
  /\ ignoreRange = NoRange \/ (\E i \in DOMAIN ignores : i <= entered /\ ignoreRange = ignores[i])
  /\ Reached \in Nat
  /\ Reached = IF ignoreRange.end > entered THEN ignoreRange.end ELSE entered

LEMMA ReachInit == Init => ReachInv
<1> SUFFICES ASSUME Init PROVE ReachInv
  OBVIOUS
<1>1. handled = <<>> /\ ignoreRange = [start |-> 0, end |-> 0] /\ entered = 0
  BY DEF Init, NoRange
<1>2. Reached = 0
  BY <1>1 DEF Reached, Order!Reached
<1>3. handled \in Seq(Range)
  BY <1>1
<1>4. QED
  BY <1>1, <1>2, <1>3 DEF ReachInv, NoRange

LEMMA ReachAppend ==
  ASSUME NEW q \in Seq(Range), NEW x \in Range
  PROVE  /\ Append(q, x) \in Seq(Range)
         /\ Append(q, x) # <<>>
         /\ Append(q, x)[Len(Append(q, x))] = x
OBVIOUS

\* What Enter does to the slices: nothing inside the range, else the slice of the node.
LEMMA ReachEnter ==
  ASSUME WalkTypeOK, WalkInv, Apart, ReachInv, NEW r \in IndentChoices, Enter(r)
  PROVE  /\ ReachInv'
         /\ \/ handled' = handled
            \/ \E e \in (Reached + 1)..tree.size :
                 handled' = Append(handled, [start |-> Reached + 1, end |-> e])
<1> DEFINE n == Top(traverseStack).node
           range == QueryIgnore(n)
<1>1. n \in Nat /\ n >= 1 /\ n <= tree.size /\ tree.size \in Nat
  <2>1. n \in Indexes(tree)
    BY EnterShape, Zenon
  <2>2. tree.size \in Nat
    BY DEF WalkTypeOK, IsTree
  <2>3. QED
    BY <2>1, <2>2 DEF Indexes
<1>2. entered' = n /\ n = entered + 1 /\ entered \in Nat
  BY WalkEnter DEF Enter, WalkTypeOK
<1>3. /\ tree' = tree /\ ignores' = ignores /\ ignoreRange' = range
      /\ IF Ignored(n, range) THEN handled' = handled
         ELSE handled' = Append(handled, Slice(n))
  BY DEF Enter
<1>4. \A i \in DOMAIN ignores :
        /\ i \in Nat
        /\ ignores[i] \in Range
        /\ ignores[i] = [start |-> i, end |-> ignores[i].end]
        /\ ignores[i].end >= i /\ ignores[i].end <= tree.size
  <2> SUFFICES ASSUME NEW i \in DOMAIN ignores
               PROVE  /\ i \in Nat
                      /\ ignores[i] \in Range
                      /\ ignores[i] = [start |-> i, end |-> ignores[i].end]
                      /\ ignores[i].end >= i /\ ignores[i].end <= tree.size
    OBVIOUS
  <2>1. i \in Nat
    BY <1>1 DEF Apart, RangesApart, Indexes
  <2>2. ignores[i] \in [start : {i}, end : i..tree.size]
    BY DEF Apart, RangesApart
  <2>3. QED
    BY <1>1, <2>1, <2>2 DEF Range
<1>5. \A i, j \in DOMAIN ignores : i < j => ignores[i].end < j
  BY DEF Apart, RangesApart
<1>6. /\ ignoreRange.start \in Nat /\ ignoreRange.start <= entered
      /\ ignoreRange.end \in Nat /\ ignoreRange.end <= tree.size
  <2>1. CASE ignoreRange = NoRange
    BY <1>1, <1>2, <2>1 DEF NoRange
  <2>2. CASE \E i \in DOMAIN ignores : i <= entered /\ ignoreRange = ignores[i]
    <3>1. PICK i \in DOMAIN ignores : i <= entered /\ ignoreRange = ignores[i]
      BY <2>2
    <3>2. ignores[i] \in Range /\ ignores[i].start = i
      BY <1>4
    <3>3. QED
      BY <1>4, <3>1, <3>2 DEF Range
  <2>3. QED
    BY <2>1, <2>2 DEF ReachInv
<1>7. /\ handled \in Seq(Range) /\ Reached \in Nat
      /\ Reached = IF ignoreRange.end > entered THEN ignoreRange.end ELSE entered
      /\ ignoreRange = NoRange
         \/ (\E i \in DOMAIN ignores : i <= entered /\ ignoreRange = ignores[i])
  BY DEF ReachInv
<1>8. ASSUME NEW x \in Range, handled' = Append(handled, x)
      PROVE  handled' \in Seq(Range) /\ Reached' = x.end
  BY <1>7, <1>8, ReachAppend DEF Reached, Order!Reached
<1> HIDE DEF n
<1>9. CASE n \in DOMAIN ignores
  <2>1. range = ignores[n] /\ Slice(n) = ignores[n]
    BY <1>9 DEF QueryIgnore, Slice
  <2>2. ~Ignored(n, range)
    BY <1>1, <1>4, <1>9, <2>1 DEF Ignored
  <2>3. handled' = Append(handled, ignores[n])
    BY <1>3, <2>1, <2>2
  <2>4. ignoreRange.end <= entered
    <3>1. CASE ignoreRange = NoRange
      BY <1>2, <3>1 DEF NoRange
    <3>2. CASE \E i \in DOMAIN ignores : i <= entered /\ ignoreRange = ignores[i]
      <4>1. PICK i \in DOMAIN ignores : i <= entered /\ ignoreRange = ignores[i]
        BY <3>2
      <4>2. ignores[i].end < n
        BY <1>2, <1>4, <1>5, <1>9, <4>1
      <4>3. QED
        BY <1>2, <1>6, <4>1, <4>2
    <3>3. QED
      BY <1>7, <3>1, <3>2
  <2>5. Reached = entered
    BY <1>2, <1>6, <1>7, <2>4
  <2>6. handled' \in Seq(Range) /\ Reached' = ignores[n].end
    BY <1>4, <1>8, <1>9, <2>3
  <2>7. ignores[n].end \in Nat
    BY <1>4, <1>9 DEF Range
  <2>8. ReachInv'
    <3>1. Reached' = IF ignoreRange'.end > entered' THEN ignoreRange'.end ELSE entered'
      BY <1>1, <1>2, <1>3, <1>4, <1>9, <2>1, <2>6, <2>7
    <3>2. n \in DOMAIN ignores' /\ n <= entered' /\ ignoreRange' = ignores'[n]
      BY <1>1, <1>2, <1>3, <1>9, <2>1
    <3>3. QED
      BY <2>6, <2>7, <3>1, <3>2 DEF ReachInv
  <2>9. ignores[n].end \in (Reached + 1)..tree.size
    BY <1>1, <1>2, <1>4, <1>9, <2>5, <2>7
  <2>10. handled' = Append(handled, [start |-> Reached + 1, end |-> ignores[n].end])
    BY <1>2, <1>4, <1>9, <2>3, <2>5
  <2>11. QED
    BY <2>8, <2>9, <2>10
<1>10. CASE n \notin DOMAIN ignores
  <2>1. range = ignoreRange /\ Slice(n) = [start |-> n, end |-> n]
    BY <1>10 DEF QueryIgnore, Slice
  <2>2. Ignored(n, range) <=> n <= ignoreRange.end
    BY <1>1, <1>2, <1>6, <2>1 DEF Ignored
  <2>3. ignoreRange' = NoRange
        \/ (\E i \in DOMAIN ignores' : i <= entered' /\ ignoreRange' = ignores'[i])
    <3>1. CASE ignoreRange = NoRange
      BY <1>3, <2>1, <3>1 DEF NoRange
    <3>2. CASE \E i \in DOMAIN ignores : i <= entered /\ ignoreRange = ignores[i]
      <4>1. PICK i \in DOMAIN ignores : i <= entered /\ ignoreRange = ignores[i]
        BY <3>2
      <4>2. i \in DOMAIN ignores' /\ i <= entered' /\ ignoreRange' = ignores'[i]
        BY <1>2, <1>3, <1>4, <2>1, <4>1
      <4>3. QED
        BY <4>2
    <3>3. QED
      BY <1>7, <3>1, <3>2
  <2>4. CASE Ignored(n, range)
    <3>1. handled' = handled /\ Reached' = Reached
      BY <1>3, <2>4 DEF Reached, Order!Reached
    <3>2. Reached' = IF ignoreRange'.end > entered' THEN ignoreRange'.end ELSE entered'
      BY <1>1, <1>2, <1>3, <1>6, <1>7, <2>1, <2>2, <2>4, <3>1
    <3>3. ReachInv'
      BY <1>7, <2>3, <3>1, <3>2 DEF ReachInv
    <3>4. QED
      BY <3>1, <3>3
  <2>5. CASE ~Ignored(n, range)
    <3>1. [start |-> n, end |-> n] \in Range
      BY <1>1 DEF Range
    <3>2. handled' = Append(handled, [start |-> n, end |-> n])
      BY <1>3, <2>1, <2>5
    <3>3. handled' \in Seq(Range) /\ Reached' = n
      BY <1>8, <3>1, <3>2
    <3>4. Reached = entered
      BY <1>2, <1>6, <1>7, <2>2, <2>5
    <3>5. Reached' = IF ignoreRange'.end > entered' THEN ignoreRange'.end ELSE entered'
      BY <1>1, <1>2, <1>3, <1>6, <2>1, <2>2, <2>5, <3>3
    <3>6. ReachInv'
      BY <1>1, <2>3, <3>3, <3>5 DEF ReachInv
    <3>7. n \in (Reached + 1)..tree.size /\ n = Reached + 1
      BY <1>1, <1>2, <3>4
    <3>8. QED
      BY <3>2, <3>6, <3>7
  <2>6. QED
    BY <2>4, <2>5
<1>11. QED
  BY <1>9, <1>10

LEMMA ReachNext ==
  ASSUME WalkTypeOK, WalkInv, Apart, ReachInv, [Next]_vars
  PROVE  Apart' /\ ReachInv' /\ [Order!Emit]_<<tree.size, handled>>
<1>1. ASSUME tree' = tree, ignores' = ignores PROVE Apart'
  BY <1>1 DEF Apart, RangesApart, Indexes
<1>2. ASSUME UNCHANGED <<tree, ignores, ignoreRange, handled, entered>>
      PROVE  Apart' /\ ReachInv' /\ [Order!Emit]_<<tree.size, handled>>
  <2>1. ReachInv'
    BY <1>2 DEF ReachInv, Reached, Order!Reached
  <2>2. UNCHANGED <<tree.size, handled>>
    BY <1>2
  <2>3. QED
    BY <1>1, <1>2, <2>1, <2>2
<1>3. ASSUME NEW r \in IndentChoices, Enter(r)
      PROVE  Apart' /\ ReachInv' /\ [Order!Emit]_<<tree.size, handled>>
  <2>1. tree' = tree /\ ignores' = ignores
    BY <1>3 DEF Enter
  <2>2. /\ ReachInv'
        /\ \/ handled' = handled
           \/ \E e \in (Reached + 1)..tree.size :
                handled' = Append(handled, [start |-> Reached + 1, end |-> e])
    BY <1>3, ReachEnter
  <2>3. [Order!Emit]_<<tree.size, handled>>
    BY <2>1, <2>2 DEF Order!Emit, Reached
  <2>4. QED
    BY <1>1, <2>1, <2>2, <2>3
<1>4. CASE Exit
  BY <1>2, <1>4 DEF Exit
<1>5. CASE UNCHANGED vars
  BY <1>2, <1>5 DEF vars
<1>6. QED
  BY <1>3, <1>4, <1>5 DEF Next

\* If the ignored ranges lie apart, the slices handed to enterHandle follow one another
\* through the source: the walk implements SourceOrder.
THEOREM WalkImplementsOrder == Spec /\ Apart => SourceInOrder
<1>1. Init => ReachInv /\ Order!Init
  BY ReachInit DEF Init, Order!Init
<1>2. /\ WalkTypeOK /\ WalkInv /\ Apart /\ ReachInv /\ [Next]_vars
      => (Apart /\ ReachInv)' /\ [Order!Emit]_<<tree.size, handled>>
  BY ReachNext
<1>3. QED
  BY <1>1, <1>2, WalkCorrect, PTL DEF Spec, SourceInOrder, Order!Spec

\* When the walk is done the slices reach to the end of the source.
LEMMA ReachComplete ==
  ASSUME WalkTypeOK, WalkInv, Apart, ReachInv, Done
  PROVE  Reached = tree.size
<1>1. entered = tree.size /\ tree.size \in Nat
  BY DEF WalkInv, Done, WalkTypeOK, IsTree
<1>2. ignoreRange.end \in Nat /\ ignoreRange.end <= tree.size
  <2>1. CASE ignoreRange = NoRange
    BY <1>1, <2>1 DEF NoRange
  <2>2. CASE \E i \in DOMAIN ignores : i <= entered /\ ignoreRange = ignores[i]
    <3>1. PICK i \in DOMAIN ignores : ignoreRange = ignores[i]
      BY <2>2
    <3>2. i \in Nat /\ ignores[i] \in [start : {i}, end : i..tree.size]
      BY <1>1 DEF Apart, RangesApart, Indexes
    <3>3. QED
      BY <1>1, <3>1, <3>2
  <2>3. QED
    BY <2>1, <2>2 DEF ReachInv
<1>3. Reached = IF ignoreRange.end > entered THEN ignoreRange.end ELSE entered
  BY DEF ReachInv
<1>4. QED
  BY <1>1, <1>2, <1>3

\* And no part of the source is left out of a walk that is not stopped.
THEOREM WalkIsComplete == Spec /\ Apart => []SourceComplete
<1>1. Init => ReachInv
  BY ReachInit
<1>2. /\ WalkTypeOK /\ WalkInv /\ Apart /\ ReachInv /\ [Next]_vars
      => (Apart /\ ReachInv)'
  BY ReachNext
<1>3. WalkTypeOK /\ WalkInv /\ Apart /\ ReachInv => SourceComplete
  <2> SUFFICES ASSUME WalkTypeOK, WalkInv, Apart, ReachInv, Done
               PROVE  Order!Reached = tree.size
    BY DEF SourceComplete
  <2>1. Reached = tree.size
    BY ReachComplete
  <2>2. QED
    BY <2>1 DEF Reached
<1>4. QED
  BY <1>1, <1>2, <1>3, WalkCorrect, PTL DEF Spec

\* The members of the walk keep their types; indentations stay natural numbers.
THEOREM TypeCorrect == Spec /\ Apart => []TypeOK
<1>1. Init => ReachInv /\ going \in BOOLEAN
  BY ReachInit DEF Init
<1>2. /\ WalkTypeOK /\ WalkInv /\ Apart /\ ReachInv /\ going \in BOOLEAN /\ [Next]_vars
      => (Apart /\ ReachInv /\ going \in BOOLEAN)'
  <2> SUFFICES ASSUME WalkTypeOK, WalkInv, Apart, ReachInv, going \in BOOLEAN, [Next]_vars
               PROVE  (Apart /\ ReachInv /\ going \in BOOLEAN)'
    OBVIOUS
  <2>1. Apart' /\ ReachInv'
    BY ReachNext
  <2>2. going' \in BOOLEAN
    BY DEF Next, Enter, Exit, vars
  <2>3. QED
    BY <2>1, <2>2
<1>3. WalkTypeOK /\ WalkInv /\ Apart /\ ReachInv /\ going \in BOOLEAN => TypeOK
  <2> SUFFICES ASSUME WalkTypeOK, WalkInv, Apart, ReachInv, going \in BOOLEAN
               PROVE  TypeOK
    OBVIOUS
  <2>1. /\ IsTree(tree) /\ tree.size \in Nat
        /\ traverseStack \in Seq(Entry) /\ indentStack \in Seq(Frame) /\ entered \in Nat
        /\ tree.last \in [1..tree.size -> 1..tree.size]
    BY DEF WalkTypeOK, IsTree
  <2>2. entered <= tree.size
    <3>1. CASE traverseStack = <<>>
      BY <2>1, <3>1 DEF WalkInv
    <3>2. CASE traverseStack # <<>>
      <4>1. Top(traverseStack) \in Entry
        BY <2>1, <3>2 DEF Top
      <4>2. /\ Top(traverseStack).event = "Enter" => Top(traverseStack).node = entered + 1
            /\ Top(traverseStack).event = "Exit" => tree.last[Top(traverseStack).node] = entered
        BY <3>2 DEF WalkInv
      <4>3. QED
        BY <2>1, <4>1, <4>2 DEF Entry, Indexes
    <3>3. QED
      BY <3>1, <3>2
  <2>3. ignoreRange \in Range
    <3>1. CASE ignoreRange = NoRange
      BY <3>1 DEF NoRange, Range
    <3>2. CASE \E i \in DOMAIN ignores : i <= entered /\ ignoreRange = ignores[i]
      <4>1. PICK i \in DOMAIN ignores : ignoreRange = ignores[i]
        BY <3>2
      <4>2. i \in Nat /\ ignores[i] \in [start : {i}, end : i..tree.size]
        BY <2>1 DEF Apart, RangesApart, Indexes
      <4>3. QED
        BY <2>1, <4>1, <4>2 DEF Range
    <3>3. QED
      BY <3>1, <3>2 DEF ReachInv
  <2>4. handled \in Seq(Range)
    BY DEF ReachInv
  <2>5. QED
    BY <2>1, <2>2, <2>3, <2>4 DEF TypeOK, Entry, Frame
<1>4. QED
  BY <1>1, <1>2, <1>3, WalkCorrect, PTL DEF Spec
=============================================================================
