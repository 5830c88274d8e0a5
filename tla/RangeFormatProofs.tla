------------------------- MODULE RangeFormatProofs --------------------------
(***************************************************************************)
(* Proofs about the formatting of a range, for every set of trees whose    *)
(* exempt parts lie apart and every request.  They rest on those about the *)
(* walk: a step of the range formatter is a step of FormatState.           *)
(***************************************************************************)
EXTENDS RangeFormat, FormatStateProofs

T == Tokens(tree)

(***************************************************************************)
(* What the walk provides.                                                 *)
(***************************************************************************)
Walked ==
  /\ WalkTypeOK
  /\ WalkInv
  /\ Apart
  /\ ReachInv
  /\ ignores = Ignores(tree)

LEMMA WalkedInit == RangeInit => Walked
<1> SUFFICES ASSUME RangeInit PROVE Walked
  OBVIOUS
<1>1. Init /\ tree \in Trees /\ ignores = Ignores(tree)
  BY DEF RangeInit, Init
<1>2. Apart
  BY <1>1, RangeTreesAssumption DEF Apart
<1>3. QED
  BY <1>1, <1>2, TypeInit, WalkInit, ReachInit DEF Walked

LEMMA WalkedNext == Walked /\ [RangeNext]_rangeVars => Walked'
<1> SUFFICES ASSUME Walked, [RangeNext]_rangeVars PROVE Walked'
  OBVIOUS
<1>1. [Next]_vars
  BY DEF RangeNext, Refuse, Start, Visit, Leave, Return, rangeVars, Next
<1>2. UNCHANGED <<tree, ignores>>
  BY <1>1 DEF Next, Enter, Exit, vars
<1>3. QED
  BY <1>1, <1>2, TypeNext, WalkNext, ReachNext DEF Walked

-----------------------------------------------------------------------------

\* The tokens of a tree and their lines are in the same order.
LEMMA InOrder ==
  ASSUME Walked
  PROVE  /\ T \subseteq Nat
         /\ \A i \in T : i \in 1..tree.size /\ tree.start[i] \in Nat /\ tree.end[i] \in Nat
         /\ \A i, j \in T : i <= j => /\ tree.start[i] <= tree.start[j]
                                      /\ tree.start[i] <= tree.end[j]
                                      /\ tree.end[i] <= tree.end[j]
         /\ \A i, j \in T : i < j => tree.end[i] <= tree.start[j]
<1>1. LinesInOrder(tree) /\ tree.size \in Nat
  BY RangeTreesAssumption DEF Walked, WalkTypeOK, IsTree
<1>2. T \subseteq 1..tree.size
  BY DEF T, Tokens, Indexes
<1>3. /\ \A i \in T : /\ i \in Nat /\ i \in 1..tree.size
                      /\ tree.start[i] \in Nat /\ tree.end[i] \in Nat
                      /\ tree.start[i] <= tree.end[i]
      /\ \A i, j \in T : i < j => tree.end[i] <= tree.start[j]
  BY <1>1, <1>2 DEF LinesInOrder, T
<1>4. ASSUME NEW i \in T, NEW j \in T, i <= j
      PROVE  /\ tree.start[i] <= tree.start[j]
             /\ tree.start[i] <= tree.end[j]
             /\ tree.end[i] <= tree.end[j]
  <2>1. CASE i = j
    BY <1>3, <2>1
  <2>2. CASE i < j
    <3>1. /\ tree.end[i] <= tree.start[j]
          /\ tree.start[i] <= tree.end[i] /\ tree.start[j] <= tree.end[j]
          /\ tree.start[i] \in Nat /\ tree.end[i] \in Nat
          /\ tree.start[j] \in Nat /\ tree.end[j] \in Nat
      BY <1>3, <2>2
    <3>2. QED
      BY <3>1
  <2>3. QED
    BY <1>3, <1>4, <2>1, <2>2
<1>5. QED
  BY <1>3, <1>4

\* A slice that begins at a token ends at one, and is more than that token only where an
\* exempt part begins.
LEMMA SliceOfTokens ==
  ASSUME Walked, NEW n \in Nat
  PROVE  /\ Slice(n).start = n
         /\ n \in T => Slice(n).end \in T
         /\ n \notin DOMAIN ignores => Slice(n) = [start |-> n, end |-> n]
         /\ n \in DOMAIN ignores => n \in T /\ Slice(n) = ignores[n]
<1>1. \A i \in DOMAIN ignores : {i, ignores[i].end} \subseteq T
  BY RangeTreesAssumption DEF Walked, WalkTypeOK, T
<1>2. \A i \in DOMAIN ignores : ignores[i].start = i
  BY DEF Walked, Apart, RangesApart
<1>3. QED
  BY <1>1, <1>2 DEF Slice

\* What Enter hands out: nothing inside an exempt part, else what follows the part of the
\* source that was handed out before.
LEMMA Handed ==
  ASSUME Walked, NEW r \in IndentChoices, Enter(r), NEW n, n = Top(traverseStack).node
  PROVE  /\ n \in 1..tree.size
         /\ UNCHANGED <<tree, ignores>> /\ going = TRUE
         /\ Reached \in Nat /\ Reached' \in Nat
         /\ handled \in Seq(Range)
         /\ IF Ignored(n, QueryIgnore(n))
            THEN handled' = handled /\ Reached' = Reached
            ELSE /\ n = Reached + 1
                 /\ Slice(n) \in Range
                 /\ Slice(n).end \in n..tree.size
                 /\ handled' = Append(handled, Slice(n))
                 /\ Reached' = Slice(n).end
<1>1. WalkTypeOK /\ WalkInv /\ Apart /\ ReachInv /\ tree.size \in Nat
  BY DEF Walked, WalkTypeOK, IsTree
<1>2. n \in 1..tree.size
  <2>1. n \in Indexes(tree)
    BY <1>1, EnterShape, Zenon
  <2>2. QED
    BY <2>1 DEF Indexes
<1>3. UNCHANGED <<tree, ignores>> /\ going
  BY DEF Enter
<1>4. /\ ReachInv'
      /\ \/ handled' = handled
         \/ \E e \in (Reached + 1)..tree.size :
              handled' = Append(handled, [start |-> Reached + 1, end |-> e])
  BY <1>1, ReachEnter
<1>5. handled \in Seq(Range) /\ handled' \in Seq(Range) /\ Reached \in Nat /\ Reached' \in Nat
  BY <1>1, <1>4 DEF ReachInv, Range
<1>6. going = TRUE
  BY <1>3
<1>7. IF Ignored(n, QueryIgnore(n)) THEN handled' = handled
      ELSE handled' = Append(handled, Slice(n))
  BY DEF Enter
<1>8. CASE Ignored(n, QueryIgnore(n))
  <2>1. handled' = handled
    BY <1>7, <1>8
  <2>2. Reached' = Reached
    BY <2>1 DEF Reached, Order!Reached
  <2>3. QED
    BY <1>2, <1>3, <1>5, <1>6, <1>8, <2>1, <2>2
<1>9. CASE ~Ignored(n, QueryIgnore(n))
  <2>1. handled' = Append(handled, Slice(n))
    BY <1>7, <1>9
  <2>2. Len(handled') = Len(handled) + 1 /\ handled'[Len(handled) + 1] = Slice(n)
    BY <1>5, <2>1
  <2>3. handled' # handled
    BY <1>5, <2>2
  <2>4. PICK e \in (Reached + 1)..tree.size :
          handled' = Append(handled, [start |-> Reached + 1, end |-> e])
    BY <1>4, <2>3
  <2>5. Slice(n) = [start |-> Reached + 1, end |-> e]
    BY <1>5, <2>2, <2>4
  <2>6. Slice(n).start = n
    BY <1>2, SliceOfTokens
  <2>7. n = Reached + 1 /\ Slice(n).end = e
    BY <2>5, <2>6
  <2>8. Reached' = e
    BY <1>5, <2>4, ReachAppend DEF Reached, Order!Reached
  <2>9. Slice(n) \in Range
    BY <1>1, <1>5, <2>4, <2>5 DEF Range
  <2>10. QED
    BY <1>1, <1>2, <1>3, <1>5, <1>6, <1>9, <2>1, <2>4, <2>7, <2>8, <2>9
<1>10. QED
  BY <1>8, <1>9

-----------------------------------------------------------------------------

(***************************************************************************)
(* The inductive invariant of the range formatter.                         *)
(***************************************************************************)
First == written[1].start

Last == written[Len(written)].end

RangeShape ==
  /\ request \in Requests
  /\ range \in [start : Nat, from : 0..tree.size, end : Nat]
  /\ validRange \in {"Init", "Process", "Finish"}
  /\ written \in Seq(Range)
  /\ pc \in {"start", "walk", "done"}
  /\ going \in BOOLEAN
  /\ pc = "start" => validRange = "Init"

\* Until something is written the range is the one requested, and no token that the walk has
\* passed ends in it.
Waiting ==
  validRange = "Init" =>
    /\ written = <<>>
    /\ range = [start |-> request.first, from |-> 0, end |-> request.last]
    /\ pc = "walk" => ~IgnoresLines
    /\ \A i \in T : i <= Reached => tree.end[i] \notin range.start..range.end

\* What is written are the tokens from one to another; those before stay.
Covered ==
  validRange # "Init" =>
    /\ written # <<>>
    /\ First \in T /\ First <= Last /\ Last <= Reached
    /\ \A i \in T : IsWritten(i) <=> First <= i /\ i <= Last
    /\ \A j, k \in DOMAIN written : j < k => written[j].end < written[k].start
    /\ \A k \in DOMAIN written : written[k].end <= Last
    /\ \A i \in T : i < First => StaysBefore(i)
    /\ \A i \in T : First <= i /\ i <= Last => ~StaysBefore(i) /\ tree.end[i] <= range.end
    /\ range.from = 0 => range.start <= tree.start[First]

\* The walk goes on until it comes to a token behind the range.
Onward ==
  /\ validRange = "Process" => \A i \in T : Last < i => Reached < i
  /\ validRange = "Finish" => ~going /\ \A i \in T : Last < i => tree.start[i] > range.end
  /\ going \/ validRange = "Finish"

\* What was left out when the walk is over.
Answered ==
  pc = "done" =>
    IF validRange = "Init"
    THEN IgnoresLines \/ \A i \in T : tree.end[i] \notin range.start..range.end
    ELSE \A i \in T : Last < i => tree.start[i] > range.end

RangeInv == RangeShape /\ Waiting /\ Covered /\ Onward /\ Answered

LEMMA AppendShape ==
  ASSUME NEW q \in Seq(Range), NEW x \in Range, NEW p, p = Append(q, x)
  PROVE  /\ p \in Seq(Range) /\ p # <<>>
         /\ Len(q) \in Nat /\ Len(p) = Len(q) + 1
         /\ DOMAIN q = 1..Len(q) /\ DOMAIN p = 1..Len(p)
         /\ \A k \in 1..Len(q) : p[k] = q[k]
         /\ p[Len(p)] = x
OBVIOUS

\* Either no token is handed out, or the next ones of the source, and CheckRange sees them.
LEMMA VisitShape ==
  ASSUME Walked, RangeShape, NEW r \in IndentChoices, Visit(r),
         NEW n, n = Top(traverseStack).node
  PROVE  /\ pc = "walk" /\ pc' = pc /\ request' = request /\ going = TRUE
         /\ UNCHANGED <<tree, ignores>> /\ T' = T /\ going' \in BOOLEAN
         /\ Reached \in Nat /\ Reached' \in Nat /\ handled \in Seq(Range)
         /\ \/ /\ UNCHANGED <<range, validRange, written>> /\ going'
               /\ \A i \in T : Reached < i => Reached' < i
               /\ Reached <= Reached'
               /\ handled' = handled \/ \E x \in Range : handled' = Append(handled, x)
            \/ /\ n \in T /\ n = Reached + 1
               /\ Slice(n) \in Range /\ Slice(n).start = n
               /\ Slice(n).end \in T /\ n <= Slice(n).end
               /\ Reached' = Slice(n).end
               /\ handled' = Append(handled, Slice(n))
               /\ CheckRange(Slice(n)) /\ Write(Slice(n))
<1>1. Enter(r) /\ pc = "walk" /\ UNCHANGED <<request, pc>>
  BY DEF Visit
<1>2. /\ n \in 1..tree.size
      /\ UNCHANGED <<tree, ignores>> /\ going = TRUE
      /\ Reached \in Nat /\ Reached' \in Nat
      /\ handled \in Seq(Range)
      /\ Ignored(n, QueryIgnore(n)) => handled' = handled /\ Reached' = Reached
      /\ ~Ignored(n, QueryIgnore(n)) => /\ n = Reached + 1
                                        /\ Slice(n) \in Range
                                        /\ Slice(n).end \in n..tree.size
                                        /\ handled' = Append(handled, Slice(n))
                                        /\ Reached' = Slice(n).end
  BY <1>1, Handed
<1>0. going' \in BOOLEAN
  BY <1>1 DEF Enter
<1>3. T' = T /\ tree.size \in Nat /\ n \in Nat
  BY <1>2 DEF T, Tokens, Indexes, IsToken, Walked, WalkTypeOK, IsTree
<1>4. /\ Slice(n).start = n
      /\ n \in T => Slice(n).end \in T
      /\ n \notin DOMAIN ignores => Slice(n) = [start |-> n, end |-> n]
      /\ n \in DOMAIN ignores => n \in T /\ Slice(n) = ignores[n]
  BY <1>3, SliceOfTokens
<1>5. n \in T <=> IsToken(tree, n)
  BY <1>2 DEF T, Tokens, Indexes
<1>6. T \subseteq Nat
  BY InOrder
<1>7. CASE Ignored(n, QueryIgnore(n))
  <2>1. UNCHANGED <<range, validRange, written>> /\ going'
    BY <1>7 DEF Visit
  <2>2. QED
    BY <1>0, <1>1, <1>2, <1>3, <1>7, <2>1
<1>8. CASE ~Ignored(n, QueryIgnore(n)) /\ n \notin T
  <2>1. UNCHANGED <<range, validRange, written>> /\ going'
    BY <1>5, <1>8 DEF Visit
  <2>2. Slice(n) = [start |-> n, end |-> n]
    BY <1>4, <1>8
  <2>3. Reached' = n /\ n = Reached + 1 /\ handled' = Append(handled, Slice(n))
    BY <1>2, <1>8, <2>2
  <2>4. \A i \in T : Reached < i => Reached' < i
    BY <1>2, <1>3, <1>6, <1>8, <2>3
  <2>5. QED
    BY <1>0, <1>1, <1>2, <1>3, <1>8, <2>1, <2>3, <2>4
<1>9. CASE ~Ignored(n, QueryIgnore(n)) /\ n \in T
  <2>1. CheckRange(Slice(n)) /\ Write(Slice(n))
    BY <1>5, <1>9 DEF Visit
  <2>2. QED
    BY <1>0, <1>1, <1>2, <1>3, <1>4, <1>9, <2>1
<1>10. QED
  BY <1>7, <1>8, <1>9

\* A slice of which an exempt part begins does not end in the range, as long as that is the
\* requested one.
LEMMA SliceOutside ==
  ASSUME Walked, RangeShape, ~IgnoresLines, NEW n \in T, range.start <= range.end,
         Slice(n).end # n, NEW i \in T, n <= i, i <= Slice(n).end
  PROVE  tree.end[i] \notin range.start..range.end
<1> DEFINE s == Slice(n)
<1>1. n \in Nat
  BY InOrder
<1>2. n \in DOMAIN ignores /\ s = ignores[n] /\ s.start = n /\ s.end \in T
  BY <1>1, SliceOfTokens
<1>3. /\ ~(range.start \in FirstLine(s)..LastLine(s))
      /\ ~(range.start < FirstLine(s) /\ FirstLine(s) <= range.end)
  BY <1>2 DEF IgnoresLines
<1>4. /\ FirstLine(s) = tree.start[n] /\ LastLine(s) = tree.end[s.end]
  BY <1>2 DEF FirstLine, LastLine
<1> HIDE DEF s
<1>5. /\ tree.start[n] \in Nat /\ tree.end[s.end] \in Nat /\ tree.end[i] \in Nat
      /\ tree.start[n] <= tree.end[i] /\ tree.end[i] <= tree.end[s.end]
  BY <1>2, InOrder DEF s
<1>6. range.start \in Nat /\ range.end \in Nat
  BY DEF RangeShape
<1>7. QED
  BY <1>3, <1>4, <1>5, <1>6

LEMMA WrittenAppend ==
  ASSUME NEW x \in Range, written \in Seq(Range), written' = Append(written, x), NEW i
  PROVE  IsWritten(i)' <=> IsWritten(i) \/ (x.start <= i /\ i <= x.end)
<1>1. /\ Len(written) \in Nat /\ Len(written') = Len(written) + 1
      /\ DOMAIN written = 1..Len(written) /\ DOMAIN written' = 1..Len(written')
      /\ \A k \in 1..Len(written) : written'[k] = written[k]
      /\ written'[Len(written) + 1] = x
  BY AppendShape
<1>2. DOMAIN written' = DOMAIN written \union {Len(written) + 1}
  BY <1>1
<1>3. QED
  BY <1>1, <1>2 DEF IsWritten

LEMMA FirstLast ==
  ASSUME written \in Seq(Range), written # <<>>
  PROVE  First \in Nat /\ Last \in Nat
<1>1. Len(written) \in Nat \ {0} /\ 1 \in 1..Len(written) /\ Len(written) \in 1..Len(written)
  OBVIOUS
<1>2. written[1] \in Range /\ written[Len(written)] \in Range
  BY <1>1
<1>3. QED
  BY <1>2 DEF First, Last, Range

\* The range and the texts do not change: what was said of them stays true.
LEMMA QuietStep ==
  ASSUME Walked, RangeInv, UNCHANGED <<tree, ignores, request, range, validRange, written, pc>>,
         T' = T, pc = "walk", going = TRUE, going' = TRUE,
         Reached \in Nat, Reached' \in Nat, Reached <= Reached',
         \A i \in T : Reached < i => Reached' < i
  PROVE  RangeInv'
<1>1. RangeShape' /\ Answered'
  BY DEF RangeInv, RangeShape, Answered
<1>2. T \subseteq Nat
  BY InOrder
<1>3. \A i \in T : i <= Reached' => i <= Reached
  BY <1>2
<1>4. Waiting'
  <2>1. (~IgnoresLines)' <=> ~IgnoresLines
    BY DEF IgnoresLines, FirstLine, LastLine
  <2>2. QED
    BY <1>3, <2>1 DEF RangeInv, Waiting
<1>5. Covered'
  <2> SUFFICES ASSUME validRange # "Init" PROVE Covered'
    BY DEF Covered
  <2>1. First' = First /\ Last' = Last
    BY DEF First, Last
  <2>2. First \in Nat /\ Last \in Nat
    <3>1. written \in Seq(Range) /\ written # <<>>
      BY DEF RangeInv, RangeShape, Covered
    <3>2. QED
      BY <3>1, FirstLast
  <2>3. Last <= Reached'
    BY <2>2 DEF RangeInv, Covered
  <2>4. \A i : (IsWritten(i)' <=> IsWritten(i)) /\ (StaysBefore(i)' <=> StaysBefore(i))
    BY DEF IsWritten, StaysBefore
  <2>5. QED
    BY <2>1, <2>3, <2>4 DEF RangeInv, Covered
<1>6. Onward'
  BY DEF RangeInv, Onward, Last
<1>7. QED
  BY <1>1, <1>4, <1>5, <1>6 DEF RangeInv

\* Begin: the slice is one token, the first one that ends in the range.
LEMMA BeginStep ==
  ASSUME Walked, RangeInv, UNCHANGED <<tree, ignores, request, pc>>, T' = T,
         pc = "walk", going = TRUE, NEW n \in T, NEW s \in Range, s = Slice(n),
         s.start = n, s.end \in T, n <= s.end,
         Reached \in Nat, Reached' = s.end, n = Reached + 1, Begin(s), Write(s)
  PROVE  RangeInv'
<1>1. /\ validRange = "Init" /\ validRange' = "Process" /\ going' = TRUE
      /\ LastLine(s) \in range.start..range.end
      /\ range' = IF FirstLine(s) < range.start
                  THEN [start |-> FirstLine(s), from |-> s.start, end |-> range.end] ELSE range
      /\ written' = Append(written, s)
  BY DEF Begin, Reaches, Write
<1>2. /\ written = <<>>
      /\ range = [start |-> request.first, from |-> 0, end |-> request.last]
      /\ ~IgnoresLines
      /\ \A i \in T : i <= Reached => tree.end[i] \notin range.start..range.end
  BY <1>1 DEF RangeInv, Waiting
<1>3. /\ request \in Requests
      /\ range.start \in Nat /\ range.end \in Nat /\ range.start <= range.end /\ range.from = 0
  BY <1>2, RequestsAssumption DEF RangeInv, RangeShape
<1>4. /\ T \subseteq Nat
      /\ \A i \in T : i \in 1..tree.size /\ tree.start[i] \in Nat /\ tree.end[i] \in Nat
      /\ \A i, j \in T : i <= j => /\ tree.start[i] <= tree.start[j]
                                   /\ tree.start[i] <= tree.end[j]
                                   /\ tree.end[i] <= tree.end[j]
  BY InOrder
<1>5. s.end = n
  <2> SUFFICES ASSUME s.end # n PROVE FALSE
    OBVIOUS
  <2>1. /\ RangeShape /\ ~IgnoresLines /\ range.start <= range.end
        /\ Slice(n).end # n /\ s.end \in T /\ n <= s.end /\ s.end <= Slice(n).end
    <3>1. s.end \in Nat
      BY <1>4
    <3>2. QED
      BY <1>2, <1>3, <3>1 DEF RangeInv
  <2>2. tree.end[s.end] \notin range.start..range.end
    BY <2>1, SliceOutside
  <2>3. QED
    BY <1>1, <2>2 DEF LastLine
<1>6. /\ written' = <<s>> /\ First' = n /\ Last' = n
  BY <1>1, <1>2, <1>5 DEF First, Last
<1>7. FirstLine(s) = tree.start[n] /\ LastLine(s) = tree.end[n]
  BY <1>5 DEF FirstLine, LastLine
<1>8. /\ range'.start = IF tree.start[n] < range.start THEN tree.start[n] ELSE range.start
      /\ range'.from = IF tree.start[n] < range.start THEN n ELSE 0
      /\ range'.end = range.end
      /\ range' \in [start : Nat, from : 0..tree.size, end : Nat]
  <2>1. n \in 0..tree.size /\ 0 \in 0..tree.size /\ tree.start[n] \in Nat
    <3>1. tree.size \in Nat /\ n \in 1..tree.size /\ tree.start[n] \in Nat
      BY <1>4 DEF Walked, WalkTypeOK, IsTree
    <3>2. QED
      BY <3>1
  <2>2. range' = IF tree.start[n] < range.start
                 THEN [start |-> tree.start[n], from |-> n, end |-> range.end]
                 ELSE [start |-> range.start, from |-> 0, end |-> range.end]
    <3>1. range = [start |-> range.start, from |-> 0, end |-> range.end]
      BY <1>2
    <3>2. QED
      BY <1>1, <1>7, <3>1
  <2>3. QED
    BY <1>3, <2>1, <2>2
<1>9. \A i \in T : IsWritten(i)' <=> i = n
  BY <1>4, <1>5, <1>6 DEF IsWritten
<1>10. \A i \in T : i < n => StaysBefore(i)'
  <2> SUFFICES ASSUME NEW i \in T, i < n PROVE StaysBefore(i)'
    OBVIOUS
  <2>1. tree.end[i] \notin range.start..range.end
    BY <1>2, <1>4
  <2>2. tree.end[i] <= tree.end[n] /\ tree.end[n] <= range.end
    BY <1>1, <1>4, <1>7
  <2>3. tree.end[i] < range.start
    BY <1>3, <1>4, <2>1, <2>2
  <2>4. CASE tree.start[n] < range.start
    BY <1>4, <1>8, <2>4 DEF StaysBefore
  <2>5. CASE ~(tree.start[n] < range.start)
    BY <1>8, <2>3, <2>5 DEF StaysBefore
  <2>6. QED
    BY <2>4, <2>5
<1>11. ~StaysBefore(n)' /\ tree.end[n] <= range'.end
  <2>1. range.start <= tree.end[n] /\ tree.end[n] <= range.end /\ tree.start[n] <= tree.end[n]
    BY <1>1, <1>4, <1>7
  <2>2. ~(tree.end[n] < range'.start)
    BY <1>3, <1>4, <1>8, <2>1
  <2>3. QED
    BY <1>4, <1>8, <2>1, <2>2 DEF StaysBefore
<1>12. range'.from = 0 => range'.start <= tree.start[n]
  <2>1. n # 0 /\ tree.start[n] \in Nat
    BY <1>4
  <2>2. QED
    BY <1>3, <1>8, <2>1
<1>13. RangeShape'
  BY <1>1, <1>6, <1>8 DEF RangeInv, RangeShape
<1>14. Covered'
  <2>1. \A i \in T : First' <= i /\ i <= Last' <=> i = n
    BY <1>4, <1>6
  <2>2. DOMAIN written' = {1} /\ written'[1] = s
    BY <1>6
  <2>3. n <= n /\ n <= Reached' /\ tree' = tree
    BY <1>4, <1>5
  <2>4. QED
    BY <1>4, <1>5, <1>6, <1>9, <1>10, <1>11, <1>12, <2>1, <2>2, <2>3 DEF Covered
<1>15. Onward'
  BY <1>1, <1>4, <1>5, <1>6 DEF Onward
<1>16. Waiting' /\ Answered'
  BY <1>1 DEF Waiting, Answered
<1>17. QED
  BY <1>13, <1>14, <1>15, <1>16 DEF RangeInv

\* Wait: no token of the slice ends in the range.
LEMMA WaitStep ==
  ASSUME Walked, RangeInv, UNCHANGED <<tree, ignores, request, pc>>, T' = T,
         pc = "walk", going = TRUE, NEW n \in T, NEW s \in Range, s = Slice(n),
         s.start = n, s.end \in T, n <= s.end,
         Reached \in Nat, Reached' = s.end, n = Reached + 1, Wait(s), Write(s)
  PROVE  RangeInv'
<1>1. /\ validRange = "Init" /\ validRange' = "Init" /\ going' = TRUE /\ range' = range
      /\ LastLine(s) \notin range.start..range.end
      /\ written' = written
  BY DEF Wait, Reaches, Write
<1>2. /\ written = <<>>
      /\ range = [start |-> request.first, from |-> 0, end |-> request.last]
      /\ ~IgnoresLines
      /\ \A i \in T : i <= Reached => tree.end[i] \notin range.start..range.end
  BY <1>1 DEF RangeInv, Waiting
<1>3. request \in Requests /\ range.start <= range.end /\ RangeShape
  BY <1>2, RequestsAssumption DEF RangeInv, RangeShape
<1>4. T \subseteq Nat
  BY InOrder
<1>5. ASSUME NEW i \in T, i <= Reached' PROVE tree.end[i] \notin range.start..range.end
  <2>1. CASE i <= Reached
    BY <1>2, <2>1
  <2>2. CASE ~(i <= Reached)
    <3>1. n <= i /\ i <= s.end
      BY <1>4, <1>5, <2>2
    <3>2. CASE s.end = n
      <4>1. i = n /\ i = s.end
        BY <1>4, <3>1, <3>2
      <4>2. QED
        BY <1>1, <4>1 DEF LastLine
    <3>3. CASE s.end # n
      <4>1. /\ RangeShape /\ ~IgnoresLines /\ range.start <= range.end
            /\ Slice(n).end # n /\ i <= Slice(n).end
        BY <1>2, <1>3, <3>1, <3>3
      <4>2. QED
        BY <3>1, <4>1, SliceOutside
    <3>4. QED
      BY <3>2, <3>3
  <2>3. QED
    BY <2>1, <2>2
<1>6. RangeShape'
  BY <1>1, <1>3 DEF RangeShape
<1>7. Waiting'
  <2>1. ~IgnoresLines'
    BY <1>1, <1>2 DEF IgnoresLines, FirstLine, LastLine
  <2>2. QED
    BY <1>1, <1>2, <1>5, <2>1 DEF Waiting
<1>8. Covered' /\ Onward' /\ Answered'
  BY <1>1 DEF Covered, Onward, Answered
<1>9. QED
  BY <1>6, <1>7, <1>8 DEF RangeInv

\* Grow: the slice continues what is written.
LEMMA GrowStep ==
  ASSUME Walked, RangeInv, UNCHANGED <<tree, ignores, request, pc>>, T' = T,
         pc = "walk", going = TRUE, NEW n \in T, NEW s \in Range, s = Slice(n),
         s.start = n, s.end \in T, n <= s.end,
         Reached \in Nat, Reached' = s.end, n = Reached + 1, Grow(s), Write(s)
  PROVE  RangeInv'
<1> DEFINE e == s.end
<1>1. /\ validRange = "Process" /\ validRange' = "Process" /\ going' = TRUE
      /\ range' = [range EXCEPT !.end = IF LastLine(s) > @ THEN LastLine(s) ELSE @]
      /\ written' = Append(written, s)
  BY DEF Grow, Write
<1>2. /\ written \in Seq(Range) /\ written # <<>>
      /\ First \in T /\ First <= Last /\ Last <= Reached
      /\ \A i \in T : IsWritten(i) <=> First <= i /\ i <= Last
      /\ \A j, k \in DOMAIN written : j < k => written[j].end < written[k].start
      /\ \A k \in DOMAIN written : written[k].end <= Last
      /\ \A i \in T : i < First => StaysBefore(i)
      /\ \A i \in T : First <= i /\ i <= Last => ~StaysBefore(i) /\ tree.end[i] <= range.end
      /\ range.from = 0 => range.start <= tree.start[First]
      /\ \A i \in T : Last < i => Reached < i
  BY <1>1 DEF RangeInv, RangeShape, Covered, Onward
<1>3. First \in Nat /\ Last \in Nat
  BY <1>2, FirstLast
<1>4. /\ T \subseteq Nat
      /\ \A i \in T : i \in 1..tree.size /\ tree.start[i] \in Nat /\ tree.end[i] \in Nat
      /\ \A i, j \in T : i <= j => tree.end[i] <= tree.end[j]
  BY InOrder
<1>5. /\ range.start \in Nat /\ range.from \in 0..tree.size /\ range.end \in Nat
      /\ range \in [start : Nat, from : 0..tree.size, end : Nat]
  BY DEF RangeInv, RangeShape
<1>6. LastLine(s) = tree.end[e] /\ e \in T /\ e \in Nat /\ n \in Nat /\ n <= e
  BY <1>4 DEF LastLine
<1> HIDE DEF e
<1>7. /\ range'.start = range.start /\ range'.from = range.from
      /\ range'.end \in Nat /\ range.end <= range'.end /\ tree.end[e] <= range'.end
      /\ range' \in [start : Nat, from : 0..tree.size, end : Nat]
  BY <1>1, <1>4, <1>5, <1>6
<1>8. /\ Len(written) \in Nat /\ Len(written) > 0 /\ Len(written') = Len(written) + 1
      /\ written' \in Seq(Range) /\ written' # <<>>
      /\ DOMAIN written = 1..Len(written) /\ DOMAIN written' = 1..Len(written')
      /\ \A k \in 1..Len(written) : written'[k] = written[k]
      /\ written'[Len(written')] = s
  BY <1>1, <1>2, AppendShape
<1>9. First' = First /\ Last' = e /\ Reached' = e
  BY <1>8 DEF First, Last, e
<1>10. \A i \in T : (IsWritten(i)' <=> First <= i /\ i <= e)
  <2> SUFFICES ASSUME NEW i \in T PROVE IsWritten(i)' <=> First <= i /\ i <= e
    OBVIOUS
  <2>1. IsWritten(i)' <=> IsWritten(i) \/ (n <= i /\ i <= e)
    BY <1>1, <1>2, WrittenAppend DEF e
  <2>2. Last < i <=> n <= i
    BY <1>2, <1>3, <1>4, <1>6
  <2>3. (First <= i /\ i <= Last) \/ (n <= i /\ i <= e) <=> First <= i /\ i <= e
    BY <1>2, <1>3, <1>4, <1>6, <2>2
  <2>4. QED
    BY <1>2, <2>1, <2>3
<1>11. \A k \in DOMAIN written : written[k].end \in Nat
  <2>1. \A k \in 1..Len(written) : written[k] \in Range
    BY <1>2
  <2>2. QED
    BY <1>8, <2>1 DEF Range
<1>12. \A j, k \in DOMAIN written' : j < k => written'[j].end < written'[k].start
  <2> SUFFICES ASSUME NEW j \in DOMAIN written', NEW k \in DOMAIN written', j < k
               PROVE  written'[j].end < written'[k].start
    OBVIOUS
  <2>1. j \in DOMAIN written /\ written'[j] = written[j]
    BY <1>8
  <2>2. CASE k \in DOMAIN written
    BY <1>2, <1>8, <2>1, <2>2
  <2>3. CASE k \notin DOMAIN written
    <3>1. k = Len(written')
      BY <1>8, <2>3
    <3>2. written'[k].start = n
      BY <1>8, <3>1
    <3>3. written[j].end <= Last
      BY <1>2, <2>1
    <3>4. QED
      BY <1>2, <1>3, <1>6, <1>11, <2>1, <3>2, <3>3
  <2>4. QED
    BY <2>2, <2>3
<1>13. \A k \in DOMAIN written' : written'[k].end <= e
  <2> SUFFICES ASSUME NEW k \in DOMAIN written' PROVE written'[k].end <= e
    OBVIOUS
  <2>1. CASE k \in DOMAIN written
    <3>1. written'[k] = written[k] /\ written[k].end <= Last
      BY <1>2, <1>8, <2>1
    <3>2. QED
      BY <1>2, <1>3, <1>6, <1>11, <2>1, <3>1
  <2>2. CASE k \notin DOMAIN written
    <3>1. k = Len(written')
      BY <1>8, <2>2
    <3>2. QED
      BY <1>6, <1>8, <3>1 DEF e
  <2>3. QED
    BY <2>1, <2>2
<1>14. \A i \in T : StaysBefore(i)' <=> StaysBefore(i)
  BY <1>7 DEF StaysBefore
<1>15. ASSUME NEW i \in T, First <= i, i <= e
       PROVE  ~StaysBefore(i)' /\ tree.end[i] <= range'.end
  <2>1. ~StaysBefore(First)
    BY <1>2, <1>3
  <2>2. tree.end[First] <= tree.end[i] /\ tree.end[i] <= tree.end[e]
    BY <1>2, <1>4, <1>6, <1>15
  <2>3. ~StaysBefore(i)
    BY <1>2, <1>3, <1>4, <1>5, <1>15, <2>1, <2>2 DEF StaysBefore
  <2>4. QED
    BY <1>4, <1>6, <1>7, <1>14, <2>2, <2>3
<1>16. Covered'
  <2>1. First <= e
    BY <1>2, <1>3, <1>6
  <2>2. QED
    BY <1>1, <1>2, <1>6, <1>7, <1>8, <1>9, <1>10, <1>12, <1>13, <1>14, <1>15, <2>1 DEF Covered
<1>17. RangeShape'
  BY <1>1, <1>7, <1>8 DEF RangeInv, RangeShape
<1>18. Waiting' /\ Onward' /\ Answered'
  BY <1>1, <1>9 DEF Waiting, Onward, Answered
<1>19. QED
  BY <1>16, <1>17, <1>18 DEF RangeInv

\* Stop: the slice is behind the range, and so is all that follows.
LEMMA StopStep ==
  ASSUME Walked, RangeInv, UNCHANGED <<tree, ignores, request, pc>>, T' = T,
         pc = "walk", going = TRUE, NEW n \in T, NEW s \in Range, s = Slice(n),
         s.start = n, s.end \in T, n <= s.end,
         going' \in BOOLEAN,
         Reached \in Nat, Reached' = s.end, n = Reached + 1, Stop(s), Write(s)
  PROVE  RangeInv'
<1>1. /\ validRange = "Process" /\ validRange' = "Finish" /\ ~going'
      /\ range' = range /\ written' = written /\ FirstLine(s) > range.end
  BY DEF Stop, Write
<1>2. /\ written \in Seq(Range) /\ written # <<>> /\ Last <= Reached
      /\ \A i \in T : Last < i => Reached < i
      /\ Covered /\ RangeShape
  BY <1>1 DEF RangeInv, RangeShape, Covered, Onward
<1>3. Last \in Nat /\ Last' = Last /\ First' = First
  BY <1>1, <1>2, FirstLast DEF First, Last
<1>4. /\ T \subseteq Nat
      /\ \A i \in T : tree.start[i] \in Nat
      /\ \A i, j \in T : i <= j => tree.start[i] <= tree.start[j]
  BY InOrder
<1>5. range.end \in Nat /\ tree.start[n] > range.end
  BY <1>1, <1>2 DEF RangeShape, FirstLine
<1>6. \A i \in T : Last < i => tree.start[i] > range.end
  <2> SUFFICES ASSUME NEW i \in T, Last < i PROVE tree.start[i] > range.end
    OBVIOUS
  <2>1. n <= i
    BY <1>2, <1>4
  <2>2. QED
    BY <1>4, <1>5, <2>1
<1>7. Onward'
  BY <1>1, <1>3, <1>6 DEF Onward
<1>8. Covered'
  <2>1. Last <= Reached'
    <3>1. n \in Nat /\ s.end \in Nat
      BY <1>4
    <3>2. QED
      BY <1>2, <1>3, <3>1
  <2>2. \A i : (IsWritten(i)' <=> IsWritten(i)) /\ (StaysBefore(i)' <=> StaysBefore(i))
    BY <1>1 DEF IsWritten, StaysBefore
  <2>3. QED
    BY <1>1, <1>2, <1>3, <2>1, <2>2 DEF Covered
<1>9. RangeShape'
  BY <1>1, <1>2 DEF RangeShape
<1>10. Waiting' /\ Answered'
  BY <1>1 DEF Waiting, Answered
<1>11. QED
  BY <1>7, <1>8, <1>9, <1>10 DEF RangeInv

LEMMA VisitStep ==
  ASSUME Walked, RangeInv, NEW r \in IndentChoices, Visit(r)
  PROVE  RangeInv'
<1> DEFINE n == Top(traverseStack).node
           s == Slice(n)
<1>1. RangeShape
  BY DEF RangeInv
<1>2. /\ pc = "walk" /\ pc' = pc /\ request' = request /\ going = TRUE
      /\ UNCHANGED <<tree, ignores>> /\ T' = T /\ going' \in BOOLEAN
      /\ Reached \in Nat /\ Reached' \in Nat
      /\ \/ /\ UNCHANGED <<range, validRange, written>> /\ going'
            /\ \A i \in T : Reached < i => Reached' < i
            /\ Reached <= Reached'
         \/ /\ n \in T /\ n = Reached + 1
            /\ s \in Range /\ s.start = n /\ s.end \in T /\ n <= s.end
            /\ Reached' = s.end
            /\ CheckRange(s) /\ Write(s)
  BY <1>1, VisitShape
<1>3. CASE /\ UNCHANGED <<range, validRange, written>> /\ going'
           /\ \A i \in T : Reached < i => Reached' < i
           /\ Reached <= Reached'
  <2>1. going' = TRUE
    BY <1>2, <1>3
  <2>2. QED
    BY <1>2, <1>3, <2>1, QuietStep
<1>4. CASE /\ n \in T /\ n = Reached + 1
           /\ s \in Range /\ s.start = n /\ s.end \in T /\ n <= s.end
           /\ Reached' = s.end
           /\ CheckRange(s) /\ Write(s)
  <2> HIDE DEF n, s
  <2>1. s = Slice(n)
    BY DEF s
  <2>2. CASE Begin(s)
    BY <1>2, <1>4, <2>1, <2>2, BeginStep
  <2>3. CASE Wait(s)
    BY <1>2, <1>4, <2>1, <2>3, WaitStep
  <2>4. CASE Grow(s)
    BY <1>2, <1>4, <2>1, <2>4, GrowStep
  <2>5. CASE Stop(s)
    BY <1>2, <1>4, <2>1, <2>5, StopStep
  <2>6. QED
    BY <1>4, <2>2, <2>3, <2>4, <2>5 DEF CheckRange
<1>5. QED
  BY <1>2, <1>3, <1>4

LEMMA RangeInvInit == RangeInit => RangeInv
<1> SUFFICES ASSUME RangeInit PROVE RangeInv
  OBVIOUS
<1>1. Walked
  BY WalkedInit
<1>2. /\ request \in Requests /\ validRange = "Init" /\ written = <<>> /\ pc = "start"
      /\ range = [start |-> request.first, from |-> 0, end |-> request.last]
      /\ going = TRUE /\ handled = <<>>
  BY DEF RangeInit, Init
<1>3. request.first \in Nat /\ request.last \in Nat /\ tree.size \in Nat
  BY <1>1, <1>2, RequestsAssumption DEF Walked, WalkTypeOK, IsTree
<1>4. RangeShape
  BY <1>2, <1>3 DEF RangeShape
<1>5. Waiting
  <2>1. Reached = 0
    BY <1>2 DEF Reached, Order!Reached
  <2>2. \A i \in T : i \in 1..tree.size
    BY <1>1, InOrder
  <2>3. QED
    BY <1>2, <1>3, <2>1, <2>2 DEF Waiting
<1>6. Covered /\ Onward /\ Answered
  BY <1>2 DEF Covered, Onward, Answered
<1>7. QED
  BY <1>4, <1>5, <1>6 DEF RangeInv

\* A step that moves no part of the range.
LEMMA RangeFrame ==
  ASSUME RangeInv, UNCHANGED <<tree, ignores, handled, going, request, range, validRange, written>>,
         pc' \in {"start", "walk", "done"}, pc' = "start" => pc = "start",
         pc' = "walk" => pc = "walk" \/ ~IgnoresLines,
         pc' = "done" => Answered'
  PROVE  RangeInv'
<1>1. T' = T /\ Reached' = Reached /\ First' = First /\ Last' = Last
  BY DEF T, Tokens, Indexes, IsToken, Reached, Order!Reached, First, Last
<1>2. IgnoresLines' <=> IgnoresLines
  BY DEF IgnoresLines, FirstLine, LastLine
<1>3. \A i : (IsWritten(i)' <=> IsWritten(i)) /\ (StaysBefore(i)' <=> StaysBefore(i))
  BY DEF IsWritten, StaysBefore
<1>4. RangeShape'
  BY DEF RangeInv, RangeShape
<1>5. Waiting'
  BY <1>1, <1>2 DEF RangeInv, Waiting
<1>6. Covered'
  BY <1>1, <1>3 DEF RangeInv, Covered
<1>7. Onward'
  BY <1>1 DEF RangeInv, Onward
<1>8. Answered'
  BY DEF Answered
<1>9. QED
  BY <1>4, <1>5, <1>6, <1>7, <1>8 DEF RangeInv

LEMMA RangeInvNext ==
  ASSUME Walked, RangeInv, [RangeNext]_rangeVars
  PROVE  RangeInv'
<1>1. ASSUME NEW r \in IndentChoices, Visit(r) PROVE RangeInv'
  BY <1>1, VisitStep
<1>2. CASE Refuse
  <2>1. /\ pc' = "done" /\ validRange = "Init" /\ IgnoresLines
        /\ UNCHANGED <<tree, ignores, handled, going, request, range, validRange, written>>
    BY <1>2 DEF Refuse, vars, RangeInv, RangeShape
  <2>2. IgnoresLines'
    BY <2>1 DEF IgnoresLines, FirstLine, LastLine
  <2>3. Answered'
    BY <2>1, <2>2 DEF Answered
  <2>4. QED
    BY <2>1, <2>3, RangeFrame
<1>3. CASE Start
  BY <1>3, RangeFrame DEF Start, vars
<1>4. CASE Leave
  BY <1>4, RangeFrame DEF Leave, Exit, Answered, RangeInv, RangeShape
<1>5. CASE Return
  <2>1. /\ pc' = "done" /\ (~going \/ Done)
        /\ UNCHANGED <<tree, ignores, handled, going, request, range, validRange, written>>
    BY <1>5 DEF Return, vars
  <2>2. validRange # "Finish" => Reached = tree.size
    BY <2>1, ReachComplete DEF Walked, RangeInv, Onward
  <2>3. \A i \in T : i \in 1..tree.size /\ tree.size \in Nat
    BY InOrder DEF Walked, WalkTypeOK, IsTree
  <2>4. T' = T /\ Last' = Last
    BY <2>1 DEF T, Tokens, Indexes, IsToken, Last
  <2>5. Answered'
    <3>1. CASE validRange = "Init"
      <4>1. \A i \in T : tree.end[i] \notin range.start..range.end
        BY <2>2, <2>3, <3>1 DEF RangeInv, Waiting
      <4>2. QED
        BY <2>1, <2>4, <3>1, <4>1 DEF Answered
    <3>2. CASE validRange = "Process"
      <4>1. \A i \in T : Last < i => tree.size < i
        BY <2>2, <3>2 DEF RangeInv, Onward
      <4>2. \A i \in T : ~(Last < i)
        BY <2>3, <4>1
      <4>3. QED
        BY <2>1, <2>4, <3>2, <4>2 DEF Answered
    <3>3. CASE validRange = "Finish"
      BY <2>1, <2>4, <3>3 DEF Answered, RangeInv, Onward
    <3>4. QED
      BY <3>1, <3>2, <3>3 DEF RangeInv, RangeShape
  <2>6. QED
    BY <2>1, <2>5, RangeFrame
<1>6. CASE UNCHANGED rangeVars
  <2>1. /\ pc' = pc
        /\ UNCHANGED <<tree, ignores, handled, going, request, range, validRange, written>>
    BY <1>6 DEF rangeVars, vars
  <2>2. Answered'
    <3>1. T' = T /\ Last' = Last /\ (IgnoresLines' <=> IgnoresLines)
      BY <2>1 DEF T, Tokens, Indexes, IsToken, Last, IgnoresLines, FirstLine, LastLine
    <3>2. QED
      BY <2>1, <3>1 DEF RangeInv, Answered
  <2>3. QED
    BY <2>1, <2>2, RangeFrame DEF RangeInv, RangeShape
<1>7. QED
  BY <1>1, <1>2, <1>3, <1>4, <1>5, <1>6 DEF RangeNext

\* At every moment what is written reaches from one token to another, the range holds these
\* tokens and none before them, and every token behind them is one the walk has not come to.
THEOREM RangeCorrect == RangeSpec => [](Walked /\ RangeInv)
<1>1. RangeInit => Walked /\ RangeInv
  BY WalkedInit, RangeInvInit
<1>2. Walked /\ RangeInv /\ [RangeNext]_rangeVars => (Walked /\ RangeInv)'
  BY WalkedNext, RangeInvNext
<1>3. QED
  BY <1>1, <1>2, PTL DEF RangeSpec

-----------------------------------------------------------------------------

\* When the walk is over, what is written are the tokens of the replaced lines.
LEMMA WrittenIsReplaced ==
  ASSUME Walked, RangeInv, pc = "done", written # <<>>, NEW i \in T
  PROVE  IsWritten(i) <=> ~(StaysBefore(i) \/ StaysAfter(i))
<1>1. validRange # "Init" /\ Covered /\ range.end \in Nat
  BY DEF RangeInv, RangeShape, Waiting
<1>2. /\ First <= Last /\ (IsWritten(i) <=> First <= i /\ i <= Last)
      /\ i < First => StaysBefore(i)
      /\ First <= i /\ i <= Last => ~StaysBefore(i) /\ tree.end[i] <= range.end
      /\ Last < i => tree.start[i] > range.end
  BY <1>1 DEF Covered, RangeInv, Answered
<1>3. /\ i \in Nat /\ tree.start[i] \in Nat /\ tree.end[i] \in Nat
      /\ tree.start[i] <= tree.end[i]
  BY InOrder
<1>4. First \in Nat /\ Last \in Nat
  BY FirstLast DEF RangeInv, RangeShape
<1>5. CASE i < First
  BY <1>2, <1>3, <1>4, <1>5
<1>6. CASE First <= i /\ i <= Last
  BY <1>1, <1>2, <1>3, <1>6 DEF StaysAfter
<1>7. CASE Last < i
  BY <1>2, <1>3, <1>4, <1>7 DEF StaysAfter
<1>8. QED
  BY <1>3, <1>4, <1>5, <1>6, <1>7

\* And they lie inside them.
LEMMA WrittenIsInside ==
  ASSUME Walked, RangeInv, Covered, validRange # "Init", NEW i \in T, IsWritten(i)
  PROVE  Inside(i)
<1>1. /\ First \in T /\ First <= i /\ tree.end[i] <= range.end
      /\ range.from = 0 => range.start <= tree.start[First]
  BY DEF Covered
<1>2. /\ tree.start[First] <= tree.start[i]
      /\ tree.start[First] \in Nat /\ tree.start[i] \in Nat /\ range.start \in Nat
  BY <1>1, InOrder DEF RangeInv, RangeShape
<1>3. QED
  BY <1>1, <1>2 DEF Inside

\* What the handlers of the server send replaces every token by itself.
THEOREM RangeKeepsTokens ==
  ASSUME Client = "format"
  PROVE  RangeSpec => []EditKeepsTokens
<1>1. Walked /\ RangeInv => EditKeepsTokens
  <2> SUFFICES ASSUME Walked, RangeInv, Edits
               PROVE  /\ \A i \in T : IsWritten(i) <=> ~(StaysBefore(i) \/ StaysAfter(i))
                      /\ \A i \in T : IsWritten(i) => Inside(i)
                      /\ \A j, k \in DOMAIN written : j < k => written[j].end < written[k].start
    BY DEF EditKeepsTokens, T
  <2>1. pc = "done" /\ written # <<>>
    BY DEF Edits
  <2>2. validRange # "Init" /\ Covered
    BY <2>1 DEF RangeInv, Waiting
  <2>3. QED
    BY <2>1, <2>2, WrittenIsReplaced, WrittenIsInside DEF Covered
<1>2. QED
  BY <1>1, RangeCorrect, PTL

(***************************************************************************)
(* How the range grows: it always holds the requested lines, and beyond    *)
(* them only what tokens that cross its border lead to.                    *)
(***************************************************************************)
Widened ==
  /\ range.start <= request.first /\ request.last <= range.end
  /\ \A i \in T : StaysBefore(i) => tree.end[i] < request.first

GrowthInv == Widened /\ GrowsOnlyForTokens

LEMMA GrowthInit == RangeInit => GrowthInv
<1> SUFFICES ASSUME RangeInit PROVE GrowthInv
  OBVIOUS
<1>1. /\ request \in Requests
      /\ range = [start |-> request.first, from |-> 0, end |-> request.last]
  BY DEF RangeInit
<1>2. request.first \in Nat /\ request.last \in Nat
  BY <1>1, RequestsAssumption
<1>3. Widened
  BY <1>1, <1>2 DEF Widened, StaysBefore
<1>4. GrowsOnlyForTokens
  BY <1>1, <1>2 DEF GrowsOnlyForTokens
<1>5. QED
  BY <1>3, <1>4 DEF GrowthInv

\* A line that a slice leads on from stays one.
LEMMA CrossedStays ==
  ASSUME Walked, UNCHANGED tree, NEW l, Crossed(l), handled \in Seq(Range),
         handled' = handled \/ \E x \in Range : handled' = Append(handled, x)
  PROVE  Crossed(l)'
<1>1. PICK j \in DOMAIN handled : /\ IsToken(tree, handled[j].start)
                                  /\ FirstLine(handled[j]) <= l /\ l < LastLine(handled[j])
  BY DEF Crossed
<1>2. j \in DOMAIN handled' /\ handled'[j] = handled[j]
  <2>1. CASE handled' = handled
    BY <2>1
  <2>2. CASE \E x \in Range : handled' = Append(handled, x)
    <3>1. PICK x \in Range : handled' = Append(handled, x)
      BY <2>2
    <3>2. QED
      BY <3>1, AppendShape
  <2>3. QED
    BY <2>1, <2>2
<1>3. /\ IsToken(tree', handled'[j].start)
      /\ tree'.start[handled'[j].start] <= l /\ l < tree'.end[handled'[j].end]
  BY <1>1, <1>2 DEF FirstLine, LastLine
<1>4. QED
  BY <1>2, <1>3 DEF Crossed, FirstLine, LastLine

\* The slice that is handed out now leads on from each of its lines but the last.
LEMMA CrossedNow ==
  ASSUME Walked, UNCHANGED tree, NEW n \in T, NEW s \in Range, s.start = n,
         handled \in Seq(Range), handled' = Append(handled, s),
         NEW l, FirstLine(s) <= l, l < LastLine(s)
  PROVE  Crossed(l)'
<1>1. Len(handled') \in DOMAIN handled' /\ handled'[Len(handled')] = s
  BY AppendShape
<1>2. IsToken(tree, s.start)
  BY DEF T, Tokens
<1>3. QED
  BY <1>1, <1>2 DEF Crossed, FirstLine, LastLine

LEMMA GrowthVisit ==
  ASSUME Walked, RangeInv, GrowthInv, NEW r \in IndentChoices, Visit(r)
  PROVE  GrowthInv'
<1> DEFINE n == Top(traverseStack).node
           s == Slice(n)
<1>1. RangeShape
  BY DEF RangeInv
<1>2. /\ request' = request /\ going = TRUE
      /\ UNCHANGED <<tree, ignores>> /\ T' = T
      /\ handled \in Seq(Range)
      /\ \/ /\ UNCHANGED <<range, validRange, written>>
            /\ handled' = handled \/ \E x \in Range : handled' = Append(handled, x)
         \/ /\ n \in T
            /\ s \in Range /\ s.start = n /\ s.end \in T /\ n <= s.end
            /\ handled' = Append(handled, s)
            /\ CheckRange(s)
  BY <1>1, VisitShape
<1>3. /\ request.first \in Nat /\ request.last \in Nat
      /\ range.start \in Nat /\ range.end \in Nat /\ range.from \in 0..tree.size
      /\ tree.size \in Nat
  BY RequestsAssumption DEF RangeInv, RangeShape, Walked, WalkTypeOK, IsTree
<1>4. /\ range.start <= request.first /\ request.last <= range.end
      /\ \A i \in T : StaysBefore(i) => tree.end[i] < request.first
      /\ \A l \in range.start..(request.first - 1) : Crossed(l)
      /\ \A l \in request.last..(range.end - 1) : Crossed(l)
  BY DEF GrowthInv, Widened, GrowsOnlyForTokens
<1>5. \A l : Crossed(l) => Crossed(l)'
  <2>1. handled' = handled \/ \E x \in Range : handled' = Append(handled, x)
    BY <1>2
  <2>2. QED
    BY <1>2, <2>1, CrossedStays
<1>6. /\ T \subseteq Nat
      /\ \A i \in T : i \in 1..tree.size /\ tree.start[i] \in Nat /\ tree.end[i] \in Nat
      /\ \A i, j \in T : i < j => tree.end[i] <= tree.start[j]
  BY InOrder
<1>7. ASSUME range' = range PROVE GrowthInv'
  <2>1. \A i : StaysBefore(i)' <=> StaysBefore(i)
    BY <1>2, <1>7 DEF StaysBefore
  <2>2. Widened'
    BY <1>2, <1>4, <1>7, <2>1 DEF Widened
  <2>3. GrowsOnlyForTokens'
    BY <1>2, <1>4, <1>5, <1>7 DEF GrowsOnlyForTokens
  <2>4. QED
    BY <2>2, <2>3 DEF GrowthInv
<1>8. ASSUME n \in T, s \in Range, s.start = n, s.end \in T, n <= s.end,
             handled' = Append(handled, s), Begin(s)
      PROVE  GrowthInv'
  <2> HIDE DEF n, s
  <2>1. /\ validRange = "Init" /\ LastLine(s) \in range.start..range.end
        /\ range' = IF FirstLine(s) < range.start
                    THEN [start |-> FirstLine(s), from |-> s.start, end |-> range.end]
                    ELSE range
    BY <1>8 DEF Begin, Reaches
  <2>2. range.start = request.first /\ range.end = request.last
    BY <2>1 DEF RangeInv, Waiting
  <2>3. CASE ~(FirstLine(s) < range.start)
    BY <1>7, <2>1, <2>3
  <2>4. CASE FirstLine(s) < range.start
    <3>1. /\ range'.start = tree.start[n] /\ range'.from = n /\ range'.end = range.end
          /\ tree.start[n] \in Nat /\ tree.start[n] < request.first
      BY <1>6, <1>8, <2>1, <2>2, <2>4 DEF FirstLine
    <3>2. \A i \in T : StaysBefore(i)' => tree.end[i] < request.first
      <4> SUFFICES ASSUME NEW i \in T, StaysBefore(i)' PROVE tree.end[i] < request.first
        OBVIOUS
      <4>1. tree.end[i] < tree.start[n] \/ i < n
        BY <1>2, <3>1 DEF StaysBefore
      <4>2. i < n => tree.end[i] <= tree.start[n]
        BY <1>6, <1>8
      <4>3. QED
        BY <1>3, <1>6, <3>1, <4>1, <4>2
    <3>3. Widened'
      BY <1>2, <1>3, <1>4, <3>1, <3>2 DEF Widened
    <3>4. ASSUME NEW l \in tree.start[n]..(request.first - 1) PROVE Crossed(l)'
      <4>1. FirstLine(s) <= l /\ l < LastLine(s)
        BY <1>3, <1>8, <2>1, <2>2, <3>1 DEF FirstLine
      <4>2. QED
        BY <1>2, <1>8, <4>1, CrossedNow
    <3>5. GrowsOnlyForTokens'
      BY <1>2, <1>4, <1>5, <3>1, <3>4 DEF GrowsOnlyForTokens
    <3>6. QED
      BY <3>3, <3>5 DEF GrowthInv
  <2>5. QED
    BY <2>3, <2>4
<1>9. ASSUME n \in T, s \in Range, s.start = n, s.end \in T, n <= s.end,
             handled' = Append(handled, s), Grow(s)
      PROVE  GrowthInv'
  <2> HIDE DEF n, s
  <2>1. /\ FirstLine(s) <= range.end
        /\ range' = [range EXCEPT !.end = IF LastLine(s) > @ THEN LastLine(s) ELSE @]
        /\ LastLine(s) \in Nat /\ FirstLine(s) \in Nat
        /\ range \in [start : Nat, from : 0..tree.size, end : Nat]
    BY <1>6, <1>8, <1>9 DEF Grow, FirstLine, LastLine, RangeInv, RangeShape
  <2>2. /\ range'.start = range.start /\ range'.from = range.from
        /\ range'.end = IF LastLine(s) > range.end THEN LastLine(s) ELSE range.end
    BY <2>1
  <2>3. \A i : StaysBefore(i)' <=> StaysBefore(i)
    BY <1>2, <2>2 DEF StaysBefore
  <2>4. Widened'
    BY <1>2, <1>3, <1>4, <2>1, <2>2, <2>3 DEF Widened
  <2>5. ASSUME NEW l \in request.last..(range'.end - 1) PROVE Crossed(l)'
    <3>1. CASE l < range.end
      <4>1. l \in request.last..(range.end - 1)
        BY <1>3, <2>1, <2>2, <2>5, <3>1
      <4>2. QED
        BY <1>4, <1>5, <4>1
    <3>2. CASE ~(l < range.end)
      <4>1. FirstLine(s) <= l /\ l < LastLine(s)
        BY <1>3, <2>1, <2>2, <2>5, <3>2
      <4>2. QED
        BY <1>2, <1>9, <4>1, CrossedNow
    <3>3. QED
      BY <3>1, <3>2
  <2>6. GrowsOnlyForTokens'
    BY <1>2, <1>4, <1>5, <2>2, <2>5 DEF GrowsOnlyForTokens
  <2>7. QED
    BY <2>4, <2>6 DEF GrowthInv
<1>10. Wait(s) \/ Stop(s) => range' = range
  BY DEF Wait, Stop
<1>11. QED
  BY <1>2, <1>7, <1>8, <1>9, <1>10 DEF CheckRange

LEMMA GrowthNext ==
  ASSUME Walked, RangeInv, GrowthInv, [RangeNext]_rangeVars
  PROVE  GrowthInv'
<1>1. ASSUME NEW r \in IndentChoices, Visit(r) PROVE GrowthInv'
  BY <1>1, GrowthVisit
<1>2. ASSUME UNCHANGED <<tree, handled, request, range>> PROVE GrowthInv'
  <2>1. \A l : Crossed(l)' <=> Crossed(l)
    BY <1>2 DEF Crossed, IsToken, FirstLine, LastLine
  <2>2. T' = T /\ \A i : StaysBefore(i)' <=> StaysBefore(i)
    BY <1>2 DEF T, Tokens, Indexes, IsToken, StaysBefore
  <2>3. QED
    BY <1>2, <2>1, <2>2 DEF GrowthInv, Widened, GrowsOnlyForTokens
<1>3. CASE Refuse \/ Start \/ Leave \/ Return \/ UNCHANGED rangeVars
  BY <1>2, <1>3 DEF Refuse, Start, Leave, Exit, Return, rangeVars, vars
<1>4. QED
  BY <1>1, <1>3 DEF RangeNext

LEMMA GrowthCorrect == RangeSpec => []GrowthInv
<1>1. RangeInit => GrowthInv
  BY GrowthInit
<1>2. Walked /\ RangeInv /\ GrowthInv /\ [RangeNext]_rangeVars => GrowthInv'
  BY GrowthNext
<1>3. QED
  BY <1>1, <1>2, RangeCorrect, PTL DEF RangeSpec

\* Beyond the requested lines only those are rewritten that a token leads to which begins or
\* ends among the others.
THEOREM RangeGrowsOnlyForTokens == RangeSpec => []GrowsOnlyForTokens
<1>1. GrowthInv => GrowsOnlyForTokens
  BY DEF GrowthInv
<1>2. QED
  BY <1>1, GrowthCorrect, PTL

\* All of the requested lines is answered, or nothing.
THEOREM RangeAllOrNothing == RangeSpec => []AllOrNothing
<1>1. Walked /\ RangeInv /\ GrowthInv => AllOrNothing
  <2> SUFFICES ASSUME Walked, RangeInv, GrowthInv, pc = "done"
               PROVE  IF written # <<>>
                      THEN \A i \in T :
                             tree.start[i] <= request.last /\ tree.end[i] >= request.first
                             => IsWritten(i)
                      ELSE \/ IgnoresLines
                           \/ \A i \in T : tree.end[i] \notin request.first..request.last
    BY DEF AllOrNothing, T
  <2>1. /\ request.first \in Nat /\ request.last \in Nat
        /\ range.start \in Nat /\ range.end \in Nat
    BY RequestsAssumption DEF RangeInv, RangeShape
  <2>2. ASSUME written # <<>>, NEW i \in T,
               tree.start[i] <= request.last, tree.end[i] >= request.first
        PROVE  IsWritten(i)
    <3>1. tree.start[i] \in Nat /\ tree.end[i] \in Nat
      BY InOrder
    <3>2. ~StaysBefore(i)
      BY <2>1, <2>2, <3>1 DEF GrowthInv, Widened
    <3>3. ~StaysAfter(i)
      BY <2>1, <2>2, <3>1 DEF GrowthInv, Widened, StaysAfter
    <3>4. QED
      BY <2>2, <3>2, <3>3, WrittenIsReplaced
  <2>3. ASSUME written = <<>>
        PROVE  IgnoresLines \/ \A i \in T : tree.end[i] \notin request.first..request.last
    <3>1. validRange = "Init"
      BY <2>3 DEF RangeInv, Covered
    <3>2. range.start = request.first /\ range.end = request.last
      BY <3>1 DEF RangeInv, Waiting
    <3>3. QED
      BY <3>1, <3>2 DEF RangeInv, Answered
  <2>4. QED
    BY <2>2, <2>3
<1>2. QED
  BY <1>1, RangeCorrect, GrowthCorrect, PTL
=============================================================================
