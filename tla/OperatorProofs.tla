--------------------------- MODULE OperatorProofs ---------------------------
(***************************************************************************)
(* In the tree of a file without errors, every operator has the operands   *)
(* that Lua gives it.                                                      *)
(*                                                                         *)
(* Where a node begins is not where its Marker was opened when it was put  *)
(* around another one.  The proof gives every node the events from which   *)
(* and up to which it extends, says with the frames of the open nodes what *)
(* has been read of them, and follows the tree while it is built from the  *)
(* events.                                                                 *)
(***************************************************************************)
EXTENDS BuildTreeProofs

-----------------------------------------------------------------------------
(* What the body of a rule does to the operators that wait for an operand. *)

\* The operator at hand binds tighter to its left than the limit.
Binds(token, limit) == token \in Binary /\ priority[token].left > limit

\* As what the innermost open node may be seen at the token `token`, when a rule is called in
\* it: as one of which less is known, and after an operand as one in which an operator follows
\* or none does.
SeenAs(rule, arg, token, f, t) ==
  \/ t = f
  \/ f \in {Single, Made} /\ t = Free
  \/ /\ rule = "BinaryOperators" /\ f \in {Made, As("filled", arg)}
     /\ Binds(token, arg) /\ t = Facing(f, priority[token].right)
  \/ /\ rule = "BinaryOperators" /\ f = As("filled", arg) /\ t = As("closed", arg)
     /\ ~Binds(token, arg)

\* An operator's priority to its right is neither that of the unary operators nor none, and it
\* says what the priority to its left is.
LEMMA RightSaysLeft ==
  ASSUME NEW op \in Binary
  PROVE  /\ priority[op].right \in Nat \ {0, UNARY_PRIORITY}
         /\ \A o \in Binary : priority[o].right = priority[op].right
                                => priority[o].left = priority[op].left
<1>1. \A o \in Binary :
        priority[o].right \in Nat \ {0, UNARY_PRIORITY}
        /\ priority[o].left = (IF priority[o].right = 13 THEN 14
                               ELSE IF priority[o].right = 8 THEN 9 ELSE priority[o].right)
  BY DEF priority, Priorities, Priority, UNARY_PRIORITY
<1>2. QED BY <1>1

\* The instructions of the operators.
LEMMA OperatorsTurn ==
  ASSUME NEW b \in Frames, NEW f \in Frame, NEW g \in Frame, NEW n \in Nat
  PROVE  /\ f \in Holding => Passes(Mark, Append(b, f), Append(Append(b, f), As("operator", UNARY_PRIORITY)))
         /\ n \notin {0, UNARY_PRIORITY} =>
              /\ Passes(Precede, Append(b, Facing(Made, n)), Append(Append(b, Free), As("operator", n)))
              /\ \A l \in Nat :
                   Passes(Precede, Append(b, Facing(As("filled", l), n)),
                          Append(Append(b, As("filled", l)), As("operator", n)))
         /\ Passes(Eat, Append(b, As("operator", n)), Append(b, As("lacking", n)))
         /\ Passes(Subexpression(n), Append(b, As("lacking", n)), Append(b, As("closed", n)))
         /\ Passes(DoWith("BinaryOperators", n), Append(b, As("filled", n)), Append(b, As("closed", n)))
         /\ Passes(DoWith("BinaryOperators", n), Append(b, Made), Append(b, Made))
         /\ Passes(DoWith("BinaryOperators", n), Append(b, Made), Append(b, Free))
         /\ Takes(f, g) /\ f # Blank =>
              /\ Passes(Complete("UnaryExpression"),
                        Append(Append(b, f), As("closed", UNARY_PRIORITY)), Append(b, g))
              /\ f = Free /\ n # UNARY_PRIORITY =>
                   Passes(Complete("BinaryExpression"), Append(Append(b, f), As("closed", n)), Append(b, g))
         /\ \A l \in Nat : n # UNARY_PRIORITY /\ Looser(l, n) =>
              Passes(Complete("BinaryExpression"),
                     Append(Append(b, As("filled", l)), As("closed", n)), Append(b, As("filled", l)))
         /\ Takes(f, g) => Passes(Undo, Append(Append(b, f), Single), Append(b, g))
<1> DEFINE In(o, w, a) == [op |-> o, what |-> w, arg |-> a]
<1>1. /\ \A o \in {"Mark", "Undo", "Precede", "Eat"} : In(o, "none", 0) \in Instructions
      /\ In("Complete", "UnaryExpression", 0) \in Instructions
      /\ In("Complete", "BinaryExpression", 0) \in Instructions
      /\ In("Do", "Subexpression", n) \in Instructions
      /\ In("Do", "BinaryOperators", n) \in Instructions
  BY DEF Instructions, ExpressionRules, NodeKinds
<1>2. \A l \in Nat : /\ Append(b, As("filled", l)) \in Frames /\ As("filled", l) \in Frame
                     /\ As("operator", l) \in Frame /\ As("closed", l) \in Frame
                     /\ As("lacking", l) \in Frame /\ Facing(As("filled", l), n) \in Frame
  BY FramesTyped
<1>3. /\ Append(b, f) \in Frames /\ Append(b, Made) \in Frames /\ Append(b, Free) \in Frames
      /\ Facing(Made, n) \in Frame /\ Made \in Frame /\ Free \in Frame /\ Single \in Frame
      /\ UNARY_PRIORITY \in Nat
      /\ \A c \in Frames, h \in Frame : Append(c, h) \in Frames
  BY FramesTyped DEF UNARY_PRIORITY
<1>4. ASSUME NEW in \in Instructions, NEW h \in Frame, NEW k \in Frame, NEW t \in Frame
      PROVE  /\ Staying(in, h, k) => Passes(<<in>>, Append(b, h), Append(b, k))
             /\ Entering(in, h, k, t) => Passes(<<in>>, Append(b, h), Append(Append(b, k), t))
             /\ Ending(in, h, t, k) => Passes(<<in>>, Append(Append(b, h), t), Append(b, k))
  BY <1>3, PassesOne DEF Turn
<1>5. f \in Holding =>
        Passes(Mark, Append(b, f), Append(Append(b, f), As("operator", UNARY_PRIORITY)))
  BY <1>1, <1>2, <1>3, <1>4 DEF Mark, Instruction, Entering
<1>6. ASSUME n \notin {0, UNARY_PRIORITY}
      PROVE  /\ Passes(Precede, Append(b, Facing(Made, n)), Append(Append(b, Free), As("operator", n)))
             /\ \A l \in Nat :
                  Passes(Precede, Append(b, Facing(As("filled", l), n)),
                         Append(Append(b, As("filled", l)), As("operator", n)))
  BY <1>1, <1>2, <1>3, <1>4, <1>6 DEF Precede, Instruction, Entering
<1>7. Passes(Eat, Append(b, As("operator", n)), Append(b, As("lacking", n)))
  BY <1>1, <1>2, <1>3, <1>4 DEF Eat, Instruction, Staying
<1>8. Passes(Subexpression(n), Append(b, As("lacking", n)), Append(b, As("closed", n)))
  BY <1>1, <1>2, <1>3, <1>4 DEF Subexpression, DoWith, Instruction, Staying
<1>9. /\ Passes(DoWith("BinaryOperators", n), Append(b, As("filled", n)), Append(b, As("closed", n)))
      /\ Passes(DoWith("BinaryOperators", n), Append(b, Made), Append(b, Made))
      /\ Passes(DoWith("BinaryOperators", n), Append(b, Made), Append(b, Free))
  BY <1>1, <1>2, <1>3, <1>4 DEF DoWith, Instruction, Staying
<1>10. ASSUME Takes(f, g), f # Blank
       PROVE  /\ Passes(Complete("UnaryExpression"),
                        Append(Append(b, f), As("closed", UNARY_PRIORITY)), Append(b, g))
              /\ f = Free /\ n # UNARY_PRIORITY =>
                   Passes(Complete("BinaryExpression"), Append(Append(b, f), As("closed", n)), Append(b, g))
  <2>1. f = Free => g \in {Free, Made}
    BY <1>10, StatesSay DEF Takes
  <2>2. QED BY <1>1, <1>2, <1>3, <1>4, <1>10, <2>1 DEF Complete, Instruction, Ending
<1>11. ASSUME NEW l \in Nat, n # UNARY_PRIORITY, Looser(l, n)
       PROVE  Passes(Complete("BinaryExpression"),
                     Append(Append(b, As("filled", l)), As("closed", n)), Append(b, As("filled", l)))
  BY <1>1, <1>2, <1>3, <1>4, <1>11 DEF Complete, Instruction, Ending
<1>12. ASSUME Takes(f, g) PROVE Passes(Undo, Append(Append(b, f), Single), Append(b, g))
  BY <1>1, <1>2, <1>3, <1>4, <1>12 DEF Undo, Instruction, Ending
<1>13. QED BY <1>5, <1>6, <1>7, <1>8, <1>9, <1>10, <1>11, <1>12, Zenon

\* A subexpression: a node of which an operand is expected gets it, and no operator follows
\* that binds tighter than the limit.
LEMMA SubexpressionTurns ==
  ASSUME NEW arg \in Nat, NEW token, NEW ahead, NEW b \in Frames
  PROVE  LET p == ExpressionBody("Subexpression", arg, token, ahead) IN
         /\ Passes(p, Append(b, Free), Append(b, Free))
         /\ Passes(p, Append(b, Free), Append(b, Made))
         /\ Passes(p, Append(b, As("lacking", arg)), Append(b, As("closed", arg)))
<1> DEFINE unary == Mark \o Eat \o Subexpression(UNARY_PRIORITY) \o Complete("UnaryExpression")
           first == IF token \in Unary THEN unary ELSE SimpleExpression(token)
           p     == ExpressionBody("Subexpression", arg, token, ahead)
<1>1. p = first \o DoWith("BinaryOperators", arg)
  BY DEF ExpressionBody
<1>2. ASSUME NEW f \in Frame, NEW g \in Frame, Takes(f, g), f # Blank
      PROVE  first \in Program /\ Passes(first, Append(b, f), Append(b, g))
  <2>1. CASE token \in Unary
    <3> DEFINE u == UNARY_PRIORITY
               c == Append(b, f)
    <3>1. u \in Nat /\ f \in Holding /\ c \in Frames /\ Append(b, g) \in Frames
      BY <1>2, FramesTyped DEF UNARY_PRIORITY
    <3>2. /\ As("operator", u) \in Frame /\ As("lacking", u) \in Frame /\ As("closed", u) \in Frame
          /\ \A h \in Frame : Append(c, h) \in Frames
      BY <3>1, FramesTyped
    <3> HIDE DEF u
    <3>3. /\ Passes(Mark, c, Append(c, As("operator", UNARY_PRIORITY)))
          /\ Passes(Complete("UnaryExpression"), Append(c, As("closed", UNARY_PRIORITY)), Append(b, g))
      BY <1>2, <3>1, OperatorsTurn
    <3>4. /\ Passes(Eat, Append(c, As("operator", u)), Append(c, As("lacking", u)))
          /\ Passes(Subexpression(u), Append(c, As("lacking", u)), Append(c, As("closed", u)))
      BY <3>1, OperatorsTurn, FramesTyped
    <3>5. /\ Mark \in Program /\ Eat \in Program /\ Subexpression(u) \in Program
          /\ Complete("UnaryExpression") \in Program
      <4>1. "UnaryExpression" \in NodeKinds /\ "Subexpression" \in Rules \ {"BinaryOperators"}
        BY DEF NodeKinds, Rules, ExpressionRules
      <4>2. QED BY <3>1, <4>1, InstructionsPrepared, PreparedComposes DEF Subexpression
    <3>6. Passes(Mark \o Eat, c, Append(c, As("lacking", u))) /\ Mark \o Eat \in Program
      BY <3>1, <3>2, <3>3, <3>4, <3>5, PassesOn, ProgramsCompose DEF u
    <3>7. /\ Passes(Mark \o Eat \o Subexpression(u), c, Append(c, As("closed", u)))
          /\ Mark \o Eat \o Subexpression(u) \in Program
      BY <3>1, <3>2, <3>4, <3>5, <3>6, PassesOn, ProgramsCompose
    <3>8. /\ Passes(Mark \o Eat \o Subexpression(u) \o Complete("UnaryExpression"), c, Append(b, g))
          /\ Mark \o Eat \o Subexpression(u) \o Complete("UnaryExpression") \in Program
      BY <3>1, <3>2, <3>3, <3>5, <3>7, PassesOn, ProgramsCompose DEF u
    <3>9. QED BY <2>1, <3>8 DEF u
  <2>2. CASE token \notin Unary
    BY <1>2, <2>2, SimpleMakes DEF Supplies
  <2>3. QED BY <2>1, <2>2
<1>3. /\ DoWith("BinaryOperators", arg) \in Program
      /\ Passes(DoWith("BinaryOperators", arg), Append(b, Made), Append(b, Made))
      /\ Passes(DoWith("BinaryOperators", arg), Append(b, Made), Append(b, Free))
      /\ Passes(DoWith("BinaryOperators", arg), Append(b, As("filled", arg)), Append(b, As("closed", arg)))
  BY OperatorsTurn, FramesTyped, InstructionsPrepared
<1>4. /\ Takes(Free, Made) /\ Takes(As("lacking", arg), As("filled", arg))
      /\ Free # Blank /\ As("lacking", arg) # Blank
  BY DEF Takes, Free, Blank, As
<1>5. /\ Free \in Frame /\ Made \in Frame /\ As("lacking", arg) \in Frame
      /\ As("filled", arg) \in Frame /\ As("closed", arg) \in Frame
      /\ \A h \in Frame : Append(b, h) \in Frames
  BY FramesTyped
<1> HIDE DEF first, p
<1>6. /\ first \in Program
      /\ Passes(first, Append(b, Free), Append(b, Made))
      /\ Passes(first, Append(b, As("lacking", arg)), Append(b, As("filled", arg)))
  BY <1>2, <1>4, <1>5
<1>7. /\ Passes(p, Append(b, Free), Append(b, Free))
      /\ Passes(p, Append(b, Free), Append(b, Made))
      /\ Passes(p, Append(b, As("lacking", arg)), Append(b, As("closed", arg)))
  BY <1>1, <1>3, <1>5, <1>6, PassesOn
<1>8. QED BY <1>7 DEF p

\* The operators that follow an operand: those that bind tighter than the limit are read, and
\* the one that does not is left.
LEMMA OperatorsTurns ==
  ASSUME NEW arg \in Nat, NEW token, NEW ahead, NEW b \in Frames, Binds(token, arg),
         NEW r, r = priority[token].right
  PROVE  LET p == ExpressionBody("BinaryOperators", arg, token, ahead) IN
         /\ Passes(p, Append(b, Facing(Made, r)), Append(b, Free))
         /\ Passes(p, Append(b, Facing(Made, r)), Append(b, Made))
         /\ Passes(p, Append(b, Facing(As("filled", arg), r)), Append(b, As("closed", arg)))
<1> DEFINE op   == Precede \o Eat \o Subexpression(r) \o Complete("BinaryExpression")
           more == DoWith("BinaryOperators", arg)
           p    == ExpressionBody("BinaryOperators", arg, token, ahead)
<1>1. p = op \o more
  BY DEF ExpressionBody, Binds
<1>2. r \in Nat /\ r \notin {0, UNARY_PRIORITY} /\ Looser(arg, r)
  BY RightSaysLeft DEF Binds, Looser
<1>3. /\ Precede \in Program /\ Eat \in Program /\ Subexpression(r) \in Program
      /\ Complete("BinaryExpression") \in Program /\ more \in Program
  <2>1. "BinaryExpression" \in NodeKinds /\ "Subexpression" \in Rules \ {"BinaryOperators"}
    BY DEF NodeKinds, Rules, ExpressionRules
  <2>2. QED BY <1>2, <2>1, InstructionsPrepared, PreparedComposes DEF Subexpression
<1>4. ASSUME NEW f \in Frame, NEW h \in Frame, NEW g \in Frame,
             Passes(Precede, Append(b, f), Append(Append(b, h), As("operator", r))),
             Passes(Complete("BinaryExpression"), Append(Append(b, h), As("closed", r)), Append(b, g))
      PROVE  op \in Program /\ Passes(op, Append(b, f), Append(b, g))
  <2> DEFINE c == Append(b, h)
  <2>1. c \in Frames /\ Append(b, f) \in Frames /\ Append(b, g) \in Frames
    BY FramesTyped
  <2>2. /\ Append(c, As("operator", r)) \in Frames /\ Append(c, As("lacking", r)) \in Frames
        /\ Append(c, As("closed", r)) \in Frames
    BY <1>2, <2>1, FramesTyped
  <2>3. /\ Passes(Eat, Append(c, As("operator", r)), Append(c, As("lacking", r)))
        /\ Passes(Subexpression(r), Append(c, As("lacking", r)), Append(c, As("closed", r)))
    BY <1>2, <2>1, OperatorsTurn, FramesTyped
  <2>4. Passes(Precede \o Eat, Append(b, f), Append(c, As("lacking", r))) /\ Precede \o Eat \in Program
    BY <1>3, <1>4, <2>1, <2>2, <2>3, PassesOn, ProgramsCompose
  <2>5. /\ Passes(Precede \o Eat \o Subexpression(r), Append(b, f), Append(c, As("closed", r)))
        /\ Precede \o Eat \o Subexpression(r) \in Program
    BY <1>3, <2>1, <2>2, <2>3, <2>4, PassesOn, ProgramsCompose
  <2>6. QED BY <1>3, <1>4, <2>1, <2>2, <2>5, PassesOn, ProgramsCompose
<1>5. /\ Free \in Frame /\ Made \in Frame /\ Facing(Made, r) \in Frame
      /\ As("filled", arg) \in Frame /\ As("closed", arg) \in Frame
      /\ Facing(As("filled", arg), r) \in Frame
      /\ \A h \in Frame : Append(b, h) \in Frames
  BY <1>2, FramesTyped
<1>6. Takes(Free, Made) /\ Free # Blank
  BY DEF Takes, Free, Blank, As
<1>7. /\ Passes(Precede, Append(b, Facing(Made, r)), Append(Append(b, Free), As("operator", r)))
      /\ Passes(Precede, Append(b, Facing(As("filled", arg), r)),
                Append(Append(b, As("filled", arg)), As("operator", r)))
      /\ Passes(Complete("BinaryExpression"), Append(Append(b, Free), As("closed", r)), Append(b, Made))
      /\ Passes(Complete("BinaryExpression"),
                Append(Append(b, As("filled", arg)), As("closed", r)), Append(b, As("filled", arg)))
  BY <1>2, <1>5, <1>6, OperatorsTurn
<1>8. /\ Passes(more, Append(b, Made), Append(b, Made)) /\ Passes(more, Append(b, Made), Append(b, Free))
      /\ Passes(more, Append(b, As("filled", arg)), Append(b, As("closed", arg)))
  BY <1>5, OperatorsTurn
<1> HIDE DEF op, more, p
<1>9. /\ op \in Program
      /\ Passes(op, Append(b, Facing(Made, r)), Append(b, Made))
      /\ Passes(op, Append(b, Facing(As("filled", arg), r)), Append(b, As("filled", arg)))
  BY <1>4, <1>5, <1>7
<1>10. /\ Passes(p, Append(b, Facing(Made, r)), Append(b, Free))
       /\ Passes(p, Append(b, Facing(Made, r)), Append(b, Made))
       /\ Passes(p, Append(b, Facing(As("filled", arg), r)), Append(b, As("closed", arg)))
  BY <1>1, <1>3, <1>5, <1>8, <1>9, PassesOn
<1>11. QED BY <1>10 DEF p

\* Whatever the tokens, but for a function that is declared global, the body of a rule does to
\* the open nodes what the call of the rule is said to do; a node may have to be seen as one of
\* which less is known, or as one before or after whose next operator the rule stands.
THEOREM BodyKeepsFrames ==
  ASSUME NEW rule \in Rules, NEW arg \in Nat, NEW token, NEW ahead,
         ~(rule = "StatementList" /\ token = "global" /\ ahead = "function"),
         NEW in, in = [op |-> "Do", what |-> rule, arg |-> arg],
         NEW fs \in Frames, NEW after \in Frames, Turn(in, fs, after),
         NEW p, p = Body(rule, arg, token, ahead)
  PROVE  \E b \in Frames, f \in Frame, t \in Frame :
           /\ fs = Append(b, f) /\ SeenAs(rule, arg, token, f, t)
           /\ Passes(p, Append(b, t), after)
<1> DEFINE Goal == \E b \in Frames, f \in Frame, t \in Frame :
                     /\ fs = Append(b, f) /\ SeenAs(rule, arg, token, f, t)
                     /\ Passes(p, Append(b, t), after)
<1>1. LeadsAs(p, rule, arg)
  BY ExpressionBodyLeads, StatementBodyLeads DEF Body, Rules
<1>2. ASSUME NEW b \in Frames, NEW f \in Frame, NEW t \in Frame, fs = Append(b, f),
             SeenAs(rule, arg, token, f, t), Passes(p, Append(b, t), after)
      PROVE  Goal
  BY <1>2
<1>3. /\ Free \in Frame /\ Made \in Frame /\ Single \in Frame
      /\ \A n \in Nat : As("lacking", n) \in Frame /\ As("filled", n) \in Frame
                        /\ As("closed", n) \in Frame
      /\ \A c \in Frames, h \in Frame : Append(c, h) \in Frames
  BY FramesTyped
<1> HIDE DEF Goal
<1>4. ASSUME NEW b \in Frames, NEW f \in Frame, NEW g \in Frame,
             fs = Append(b, f), after = Append(b, g), Staying(in, f, g)
      PROVE  Goal
  <2>1. CASE rule \notin Closing \union Undoing \union {"BinaryOperators"} /\ f = Free /\ g = Free
    <3>1. p \in Calm
      <4>1. CASE rule = "Subexpression"
        <5>1. p = ExpressionBody("Subexpression", arg, token, ahead)
          BY <4>1 DEF Body, ExpressionRules
        <5>2. p \in Program
          BY <1>1, <4>1 DEF LeadsAs, Making, Prepared, Closing, Undoing
        <5>3. QED BY <5>1, <5>2, SubexpressionTurns DEF Calm
      <4>2. CASE rule # "Subexpression"
        BY <1>1, <2>1, <4>2 DEF LeadsAs, Closing, Undoing, Neutral
      <4>3. QED BY <4>1, <4>2
    <3>2. QED BY <1>2, <1>4, <2>1, <3>1 DEF Calm, SeenAs
  <2>2. CASE rule = "Subexpression"
             /\ \/ f = Free /\ g = Made
                \/ f = As("lacking", arg) /\ g = As("closed", arg)
    <3>1. p = ExpressionBody("Subexpression", arg, token, ahead)
      BY <2>2 DEF Body, ExpressionRules
    <3>2. Passes(p, Append(b, f), after)
      BY <1>4, <2>2, <3>1, SubexpressionTurns
    <3>3. QED BY <1>2, <1>4, <3>2 DEF SeenAs
  <2>3. CASE rule = "BinaryOperators"
             /\ \/ f = Made /\ g \in {Free, Made}
                \/ f = As("filled", arg) /\ g = As("closed", arg)
    <3>1. p = ExpressionBody("BinaryOperators", arg, token, ahead)
      BY <2>3 DEF Body, ExpressionRules
    <3>2. CASE Binds(token, arg)
      <4> DEFINE r == priority[token].right
      <4>1. r \in Nat
        BY <3>2, RightSaysLeft DEF Binds
      <4>2. Facing(f, r) \in Frame
        BY <4>1, FramesTyped
      <4>3. Passes(p, Append(b, Facing(f, r)), after)
        BY <1>4, <2>3, <3>1, <3>2, OperatorsTurns
      <4>4. SeenAs(rule, arg, token, f, Facing(f, r))
        BY <2>3, <3>2 DEF SeenAs
      <4>5. QED BY <1>2, <1>4, <4>2, <4>3, <4>4
    <3>3. CASE ~Binds(token, arg)
      <4>1. p = <<>>
        BY <3>1, <3>3 DEF ExpressionBody, Binds
      <4>2. Passes(p, after, after)
        BY <4>1, PassesNone
      <4>3. SeenAs(rule, arg, token, f, g)
        BY <2>3, <3>3 DEF SeenAs
      <4>4. QED BY <1>2, <1>4, <4>2, <4>3
    <3>4. QED BY <3>2, <3>3
  <2>4. QED BY <1>4, <2>1, <2>2, <2>3 DEF Staying
<1>5. ASSUME NEW b \in Frames, NEW f \in Frame, NEW g \in Frame, NEW t \in Frame,
             fs = Append(Append(b, f), t), after = Append(b, g), Ending(in, f, t, g)
      PROVE  Goal
  <2>1. Append(b, f) \in Frames
    BY <1>3
  <2>2. CASE rule \in Closing /\ (rule = "Suffixes" => arg = 1) /\ t = Free /\ Takes(f, g)
    <3>1. p \in Leaves
      BY <1>1, <2>2 DEF LeadsAs, Closes
    <3>2. QED BY <1>2, <1>5, <2>1, <2>2, <3>1 DEF Leaves, SeenAs
  <2>3. CASE /\ rule \in Undoing /\ (rule = "Suffixes" => arg = 0)
             /\ t = Free /\ f = Free /\ g = Free
    <3>1. p \in Lets
      BY <1>1, <2>3 DEF LeadsAs, Undoing, Closing, Drops
    <3>2. QED BY <1>2, <1>5, <2>1, <2>3, <3>1 DEF Lets, SeenAs
  <2>4. CASE rule = "Suffixes" /\ arg = 0 /\ t = Single /\ Takes(f, g)
    <3>1. p = ExpressionBody(rule, arg, token, ahead)
      BY <2>4 DEF Body, ExpressionRules
    <3>2. p \in Leaves \/ p = Undo
      <4>1. rule \in ExpressionRules
        BY <2>4 DEF ExpressionRules
      <4>2. QED BY <2>4, <3>1, <4>1, SuffixesLeave DEF Closes
    <3>3. CASE p \in Leaves
      <4>1. Passes(p, Append(Append(b, f), Free), after)
        BY <1>5, <2>4, <3>3 DEF Leaves
      <4>2. QED BY <1>2, <1>3, <1>5, <2>1, <2>4, <4>1 DEF SeenAs
    <3>4. CASE p = Undo
      <4>1. Passes(p, Append(Append(b, f), Single), after)
        BY <1>5, <2>4, <3>4, OperatorsTurn
      <4>2. QED BY <1>2, <1>3, <1>5, <2>1, <2>4, <4>1 DEF SeenAs
    <3>5. QED BY <3>2, <3>3, <3>4
  <2>5. QED BY <1>5, <2>2, <2>3, <2>4 DEF Ending
<1>6. QED BY <1>4, <1>5 DEF Turn, Entering, Goal

-----------------------------------------------------------------------------
(* The extents of the nodes in the events. *)

Nodes(ev) == {q \in 1..Len(ev) : IsLive(ev[q])}

\* Node p begins at event low[p], where the first of the nodes around which it was put begins,
\* and ends at event close[p]: an event ends one node, one that starts in another ends in it,
\* and two nodes are apart or one in the other.
Extents(ev, low, close) ==
  /\ \A p \in Nodes(ev) : /\ low[p] \in 1..p
                          /\ close[p] \in (p + 1)..Len(ev) /\ IsEnd(ev[close[p]])
  /\ \A e \in 1..Len(ev) : IsEnd(ev[e]) => \E p \in Nodes(ev) : close[p] = e
  /\ \A p, q \in Nodes(ev) : close[p] = close[q] => p = q
  /\ \A p, q \in Nodes(ev) : p < q /\ q < close[p] => p < low[q] /\ close[q] < close[p]
  /\ \A p, q \in Nodes(ev) : close[p] < close[q] => close[p] < low[q] \/ low[q] <= low[p]

\* A node is before an open Marker, or behind it.
Held(ev, ms, low, close) ==
  /\ \A k \in 1..Len(ms) :
       /\ ev[ms[k]].type = "NodeStart" /\ ev[ms[k]].kind = "None" /\ low[ms[k]] \in 1..ms[k]
       /\ \A p \in Nodes(ev) : /\ p < ms[k] => close[p] < ms[k]
                               /\ p > ms[k] => low[p] > ms[k]
  /\ \A j, k \in 1..Len(ms) : j < k => ms[j] < low[ms[k]]

PlacesOf(ms) == {ms[k] : k \in 1..Len(ms)}

\* A node that was given a parent ends just before that, and begins where it begins.
Chained(ev, ms, low, close) ==
  /\ \A q \in 1..Len(ev) :
       ev[q].parent # 0 => /\ q \in Nodes(ev) /\ close[q] = ev[q].parent - 1
                           /\ low[q] = low[ev[q].parent]
  /\ \A y \in Nodes(ev) \union PlacesOf(ms) :
       low[y] # y => \E q \in Nodes(ev) : ev[q].parent = y

Woven(ev, ms, low, close) ==
  Extents(ev, low, close) /\ Held(ev, ms, low, close) /\ Chained(ev, ms, low, close)

Places == [Nat -> Nat]

\* One more event, that starts no node yet, and the others as they were but for their parents.
Prolongs(ev, new) ==
  /\ Len(new) = Len(ev) + 1 /\ ~IsLive(new[Len(ev) + 1])
  /\ \A q \in 1..Len(ev) : /\ new[q].type = ev[q].type /\ new[q].kind = ev[q].kind
                           /\ new[q].index = ev[q].index

LEMMA NodesStay ==
  ASSUME NEW ev \in Seq(EventRecord), NEW new \in Seq(EventRecord), Prolongs(ev, new)
  PROVE  /\ Nodes(new) = Nodes(ev) /\ Len(ev) \in Nat /\ Nodes(ev) \subseteq 1..Len(ev)
         /\ \A q \in 1..Len(ev) : IsEnd(new[q]) <=> IsEnd(ev[q])
<1>1. Len(ev) \in Nat
  OBVIOUS
<1>2. \A q \in 1..Len(ev) : /\ IsLive(new[q]) <=> IsLive(ev[q])
                            /\ IsEnd(new[q]) <=> IsEnd(ev[q])
  BY DEF Prolongs, IsLive, IsEnd
<1>3. \A q \in 1..Len(new) : IsLive(new[q]) <=> q \in 1..Len(ev) /\ IsLive(ev[q])
  BY <1>1, <1>2 DEF Prolongs
<1>4. 1..Len(ev) \subseteq 1..Len(new)
  BY <1>1 DEF Prolongs
<1>5. QED BY <1>1, <1>2, <1>3, <1>4 DEF Nodes

\* The extents stay when an event is added that ends no node.
LEMMA ExtentsLonger ==
  ASSUME NEW ev \in Seq(EventRecord), NEW new \in Seq(EventRecord), Prolongs(ev, new),
         ~IsEnd(new[Len(ev) + 1]),
         NEW low \in Places, NEW now \in Places, \A q \in 1..Len(ev) : now[q] = low[q],
         NEW close \in Places, Extents(ev, low, close)
  PROVE  Extents(new, now, close)
<1>1. /\ Nodes(new) = Nodes(ev) /\ Len(ev) \in Nat
      /\ \A p \in Nodes(ev) : p \in 1..Len(ev) /\ now[p] = low[p]
      /\ \A q \in 1..Len(ev) : IsEnd(new[q]) <=> IsEnd(ev[q])
  BY NodesStay
<1>2. Len(new) = Len(ev) + 1
  BY DEF Prolongs
<1>3. \A p \in Nodes(ev) : /\ now[p] \in 1..p
                           /\ close[p] \in (p + 1)..Len(new) /\ IsEnd(new[close[p]])
  BY <1>1, <1>2 DEF Extents
<1>4. \A e \in 1..Len(new) : IsEnd(new[e]) => \E p \in Nodes(ev) : close[p] = e
  BY <1>1, <1>2 DEF Extents
<1>5. \A p, q \in Nodes(ev) : p < q /\ q < close[p] => p < now[q] /\ close[q] < close[p]
  BY <1>1 DEF Extents
<1>6. \A p, q \in Nodes(ev) : close[p] < close[q] => close[p] < now[q] \/ now[q] <= now[p]
  BY <1>1 DEF Extents
<1>7. QED BY <1>1, <1>3, <1>4, <1>5, <1>6 DEF Extents

\* So do the nodes' places among the Markers.
LEMMA HeldLonger ==
  ASSUME NEW ev \in Seq(EventRecord), NEW new \in Seq(EventRecord), Prolongs(ev, new),
         NEW ms \in Seq(1..Len(ev)),
         NEW low \in Places, NEW now \in Places, \A q \in 1..Len(ev) : now[q] = low[q],
         NEW close \in Places, Held(ev, ms, low, close)
  PROVE  Held(new, ms, now, close)
<1>1. /\ Nodes(new) = Nodes(ev) /\ \A p \in Nodes(ev) : now[p] = low[p]
  BY NodesStay
<1>2. \A k \in 1..Len(ms) : /\ ms[k] \in 1..Len(ev) /\ now[ms[k]] = low[ms[k]]
                            /\ new[ms[k]].type = ev[ms[k]].type /\ new[ms[k]].kind = ev[ms[k]].kind
  BY DEF Prolongs
<1>3. QED BY <1>1, <1>2 DEF Held

\* A Marker is opened at the event that is added.
LEMMA HeldMore ==
  ASSUME NEW ev \in Seq(EventRecord), NEW new \in Seq(EventRecord), Prolongs(ev, new),
         new[Len(ev) + 1].type = "NodeStart", new[Len(ev) + 1].kind = "None",
         NEW ms \in Seq(1..Len(ev)),
         NEW low \in Places, NEW now \in Places, \A q \in 1..Len(ev) : now[q] = low[q],
         NEW close \in Places, Extents(ev, low, close), Held(ev, ms, low, close),
         now[Len(ev) + 1] \in 1..(Len(ev) + 1),
         \A k \in 1..Len(ms) : ms[k] < now[Len(ev) + 1]
  PROVE  Held(new, Append(ms, Len(ev) + 1), now, close)
<1> DEFINE l == Len(ev) + 1
           more == Append(ms, l)
<1>1. Held(new, ms, now, close)
  BY HeldLonger
<1>2. /\ Nodes(new) = Nodes(ev) /\ Len(ev) \in Nat /\ Nodes(ev) \subseteq 1..Len(ev)
  BY NodesStay
<1>3. /\ Len(more) = Len(ms) + 1 /\ Len(ms) \in Nat /\ more[Len(ms) + 1] = l
      /\ \A k \in 1..Len(ms) : more[k] = ms[k] /\ ms[k] \in 1..Len(ev)
  OBVIOUS
<1> HIDE DEF more
<1>4. \A p \in Nodes(new) : p < l /\ close[p] < l
  BY <1>2 DEF Extents
<1>5. ASSUME NEW k \in 1..Len(more)
      PROVE  /\ new[more[k]].type = "NodeStart" /\ new[more[k]].kind = "None"
             /\ now[more[k]] \in 1..more[k]
             /\ \A p \in Nodes(new) : /\ p < more[k] => close[p] < more[k]
                                      /\ p > more[k] => now[p] > more[k]
  <2>1. CASE k \in 1..Len(ms)
    BY <1>1, <1>3, <2>1 DEF Held
  <2>2. CASE k = Len(ms) + 1
    <3>1. more[k] = l
      BY <1>3, <2>2
    <3>2. \A p \in Nodes(new) : ~(p > l)
      BY <1>2, <1>4
    <3>3. QED BY <1>4, <3>1, <3>2
  <2>3. QED BY <1>3, <2>1, <2>2
<1>6. ASSUME NEW j \in 1..Len(more), NEW k \in 1..Len(more), j < k
      PROVE  more[j] < now[more[k]]
  <2>1. j \in 1..Len(ms)
    BY <1>3, <1>6
  <2>2. CASE k \in 1..Len(ms)
    BY <1>1, <1>3, <1>6, <2>1, <2>2 DEF Held
  <2>3. CASE k = Len(ms) + 1
    BY <1>3, <2>1, <2>3
  <2>4. QED BY <1>3, <2>2, <2>3
<1>7. QED BY <1>5, <1>6 DEF Held, more

\* An event that starts no node and ends none leaves everything as it is.
LEMMA WovenEaten ==
  ASSUME NEW ev \in Seq(EventRecord), NEW e \in EventRecord, e.parent = 0, ~IsLive(e), ~IsEnd(e),
         NEW ms \in Seq(1..Len(ev)), NEW low \in Places, NEW close \in Places,
         Woven(ev, ms, low, close), NEW new, new = Append(ev, e)
  PROVE  Woven(new, ms, low, close) /\ Prolongs(ev, new)
<1>1. /\ new \in Seq(EventRecord) /\ Len(new) = Len(ev) + 1 /\ Len(ev) \in Nat
      /\ new[Len(ev) + 1] = e /\ \A q \in 1..Len(ev) : new[q] = ev[q]
  BY EventAdded
<1>2. Prolongs(ev, new)
  BY <1>1 DEF Prolongs
<1>3. Extents(new, low, close) /\ Held(new, ms, low, close)
  BY <1>1, <1>2, ExtentsLonger, HeldLonger DEF Woven
<1>4. Nodes(new) = Nodes(ev) /\ Nodes(ev) \subseteq 1..Len(ev)
  BY <1>1, <1>2, NodesStay
<1>5. Chained(new, ms, low, close)
  <2>1. Chained(ev, ms, low, close)
    BY DEF Woven
  <2>2. \A q \in 1..Len(new) : new[q].parent # 0 => q \in 1..Len(ev) /\ new[q] = ev[q]
    BY <1>1
  <2>3. QED BY <1>1, <1>4, <2>1, <2>2 DEF Chained
<1>6. QED BY <1>2, <1>3, <1>5 DEF Woven

\* Where the nodes begin stays when events are added.
Agree(ev, low, now) == now \in Places /\ \A q \in 1..Len(ev) : now[q] = low[q]

\* A Marker is opened at a new event.
Begins(ev, new, low, now) ==
  /\ Len(new) = Len(ev) + 1 /\ new[Len(ev) + 1] = NodeStart
  /\ \A q \in 1..Len(ev) : new[q] = ev[q]
  /\ Agree(ev, low, now) /\ now[Len(ev) + 1] = Len(ev) + 1

\* One is opened around node c.
Precedes(ev, new, low, now, c) ==
  /\ Len(new) = Len(ev) + 1 /\ new[Len(ev) + 1] = NodeStart
  /\ \A q \in 1..Len(ev) :
       /\ new[q].type = ev[q].type /\ new[q].kind = ev[q].kind /\ new[q].index = ev[q].index
       /\ new[q].parent = IF q = c THEN Len(ev) + 1 ELSE ev[q].parent
  /\ Agree(ev, low, now) /\ now[Len(ev) + 1] = low[c]

\* A Marker is opened: its node will begin where it stands.
LEMMA WovenMarked ==
  ASSUME NEW ev \in Seq(EventRecord), NEW ms \in Seq(1..Len(ev)), Linked(ev),
         NEW low \in Places, NEW close \in Places, Woven(ev, ms, low, close),
         NEW new \in Seq(EventRecord), NEW now, Begins(ev, new, low, now)
  PROVE  Woven(new, Append(ms, Len(ev) + 1), now, close) /\ Prolongs(ev, new)
<1> DEFINE l == Len(ev) + 1
<1>1. /\ new \in Seq(EventRecord) /\ Len(new) = l /\ Len(ev) \in Nat /\ l \in Nat
      /\ new[l] = NodeStart /\ \A q \in 1..Len(ev) : new[q] = ev[q]
  BY DEF Begins
<1>2. NodeStart.type = "NodeStart" /\ NodeStart.kind = "None" /\ NodeStart.parent = 0
  BY DEF NodeStart, Event
<1>3. now \in Places /\ now[l] = l /\ \A q \in 1..Len(ev) : now[q] = low[q]
  BY DEF Begins, Agree
<1>4. Prolongs(ev, new) /\ ~IsEnd(new[l])
  BY <1>1, <1>2 DEF Prolongs, IsLive, IsEnd
<1>5. \A k \in 1..Len(ms) : ms[k] \in 1..Len(ev) /\ ms[k] < l
  BY <1>1
<1>6. Extents(new, now, close) /\ Held(new, Append(ms, l), now, close)
  <2>1. Extents(ev, low, close) /\ Held(ev, ms, low, close)
    BY DEF Woven
  <2>2. Extents(new, now, close)
    BY <1>1, <1>3, <1>4, <2>1, ExtentsLonger
  <2>3. /\ now[Len(ev) + 1] \in 1..(Len(ev) + 1)
        /\ \A k \in 1..Len(ms) : ms[k] < now[Len(ev) + 1]
        /\ new[Len(ev) + 1].type = "NodeStart" /\ new[Len(ev) + 1].kind = "None"
    BY <1>1, <1>2, <1>3, <1>5
  <2>4. QED BY <1>1, <1>3, <1>4, <2>1, <2>2, <2>3, HeldMore
<1>7. Nodes(new) = Nodes(ev) /\ Nodes(ev) \subseteq 1..Len(ev)
  BY <1>1, <1>4, NodesStay
<1>8. PlacesOf(Append(ms, l)) \subseteq PlacesOf(ms) \union {l}
  BY DEF PlacesOf
<1>9. Chained(new, Append(ms, l), now, close)
  <2>1. Chained(ev, ms, low, close)
    BY DEF Woven
  <2>2. ASSUME NEW q \in 1..Len(new), new[q].parent # 0
        PROVE  /\ q \in Nodes(new) /\ close[q] = new[q].parent - 1
               /\ now[q] = now[new[q].parent]
    <3>1. q \in 1..Len(ev) /\ new[q] = ev[q]
      BY <1>1, <1>2, <2>2
    <3>2. ev[q].parent \in 1..Len(ev)
      BY <1>1, <2>2, <3>1 DEF Linked
    <3>3. QED BY <1>3, <1>7, <2>1, <2>2, <3>1, <3>2 DEF Chained
  <2>3. ASSUME NEW y \in Nodes(new) \union PlacesOf(Append(ms, l)), now[y] # y
        PROVE  \E q \in Nodes(new) : new[q].parent = y
    <3>1. y # l
      BY <1>3, <2>3
    <3>2. y \in Nodes(ev) \union PlacesOf(ms) /\ y \in 1..Len(ev)
      BY <1>5, <1>7, <1>8, <2>3, <3>1 DEF PlacesOf
    <3>3. PICK q \in Nodes(ev) : ev[q].parent = y
      BY <1>3, <2>1, <2>3, <3>2 DEF Chained
    <3>4. QED BY <1>1, <1>7, <3>3
  <2>4. QED BY <2>2, <2>3 DEF Chained
<1>10. QED BY <1>3, <1>4, <1>6, <1>9 DEF Woven

\* One is opened around the node that ends with the last event, and begins where that begins.
LEMMA WovenPreceded ==
  ASSUME NEW ev \in Seq(EventRecord), NEW ms \in Seq(1..Len(ev)), Linked(ev),
         NEW low \in Places, NEW close \in Places, Woven(ev, ms, low, close),
         NEW c \in Nodes(ev), close[c] = Len(ev),
         NEW new \in Seq(EventRecord), NEW now, Precedes(ev, new, low, now, c)
  PROVE  /\ Woven(new, Append(ms, Len(ev) + 1), now, close) /\ Prolongs(ev, new)
         /\ ev[c].parent = 0 /\ \A k \in 1..Len(ms) : ms[k] < low[c]
<1> DEFINE l == Len(ev) + 1
<1>1. Len(ev) \in Nat /\ l \in Nat /\ c \in 1..Len(ev) /\ IsLive(ev[c]) /\ ms \in Seq(1..Len(ev))
  BY DEF Nodes
<1>4. NodeStart.type = "NodeStart" /\ NodeStart.kind = "None" /\ NodeStart.parent = 0
  BY DEF NodeStart, Event
<1>5. /\ new \in Seq(EventRecord) /\ Len(new) = l /\ new[l] = NodeStart
      /\ \A q \in 1..Len(ev) : /\ new[q].type = ev[q].type /\ new[q].kind = ev[q].kind
                              /\ new[q].index = ev[q].index
  BY DEF Precedes
<1>6. Prolongs(ev, new) /\ ~IsEnd(new[l])
  BY <1>1, <1>4, <1>5 DEF Prolongs, IsLive, IsEnd
<1>7. now \in Places /\ now[l] = low[c] /\ \A q \in 1..Len(ev) : now[q] = low[q]
  BY DEF Precedes, Agree
<1>8. Extents(ev, low, close) /\ Held(ev, ms, low, close) /\ Chained(ev, ms, low, close)
  BY DEF Woven
<1>9. low[c] \in 1..l
  BY <1>1, <1>8 DEF Extents
<1>10. ASSUME NEW k \in 1..Len(ms) PROVE ms[k] \in 1..Len(ev) /\ ms[k] < low[c]
  <2>1. ms[k] \in 1..Len(ev)
    BY <1>1
  <2>2. c # ms[k]
    BY <1>1, <1>8 DEF Held, IsLive
  <2>3. ~(c < ms[k])
    <3>1. c < ms[k] => close[c] < ms[k]
      BY <1>8 DEF Held
    <3>2. close[c] = Len(ev) /\ ms[k] <= Len(ev) /\ Len(ev) \in Nat /\ ms[k] \in Nat
      BY <1>1, <2>1
    <3>3. QED BY <3>1, <3>2
  <2>4. c > ms[k]
    BY <1>1, <2>1, <2>2, <2>3
  <2>5. QED BY <1>8, <2>1, <2>4 DEF Held
<1>11. Extents(new, now, close) /\ Held(new, Append(ms, l), now, close)
  <2>1. Extents(new, now, close)
    BY <1>5, <1>6, <1>7, <1>8, ExtentsLonger
  <2>2. /\ now[Len(ev) + 1] \in 1..(Len(ev) + 1)
        /\ \A k \in 1..Len(ms) : ms[k] < now[Len(ev) + 1]
        /\ new[Len(ev) + 1].type = "NodeStart" /\ new[Len(ev) + 1].kind = "None"
    BY <1>4, <1>5, <1>7, <1>9, <1>10
  <2>3. QED BY <1>1, <1>5, <1>6, <1>7, <1>8, <2>1, <2>2, HeldMore
<1>12. Nodes(new) = Nodes(ev) /\ Nodes(ev) \subseteq 1..Len(ev)
  BY <1>5, <1>6, NodesStay
<1>13. PlacesOf(Append(ms, l)) \subseteq PlacesOf(ms) \union {l}
  BY <1>1 DEF PlacesOf
<1>14. ev[c].parent = 0
  <2>1. ASSUME ev[c].parent # 0 PROVE FALSE
    <3>1. ev[c].parent \in 1..Len(ev) /\ Len(ev) = ev[c].parent - 1
      BY <1>1, <1>8, <2>1 DEF Chained, Linked
    <3>2. QED BY <1>1, <3>1
  <2>2. QED BY <2>1
<1>15. /\ new[c].parent = l
       /\ \A q \in 1..Len(ev) : q # c => new[q].parent = ev[q].parent
  BY <1>1, <1>5 DEF Precedes
<1>16. Chained(new, Append(ms, l), now, close)
  <2>1. ASSUME NEW q \in 1..Len(new), new[q].parent # 0
        PROVE  /\ q \in Nodes(new) /\ close[q] = new[q].parent - 1
               /\ now[q] = now[new[q].parent]
    <3>1. q \in 1..Len(ev)
      BY <1>1, <1>4, <1>5, <2>1
    <3>2. CASE q = c
      <4>1. new[q].parent = l /\ q \in Nodes(new)
        BY <1>12, <1>15, <3>2
      <4>2. close[q] = l - 1
        BY <1>1, <3>2
      <4>3. QED BY <1>1, <1>7, <3>2, <4>1, <4>2
    <3>3. CASE q # c
      <4>1. new[q].parent = ev[q].parent /\ ev[q].parent \in 1..Len(ev)
        BY <1>1, <1>15, <2>1, <3>1, <3>3 DEF Linked
      <4>2. QED BY <1>7, <1>8, <1>12, <2>1, <3>1, <4>1 DEF Chained
    <3>4. QED BY <3>2, <3>3
  <2>2. ASSUME NEW y \in Nodes(new) \union PlacesOf(Append(ms, l)), now[y] # y
        PROVE  \E q \in Nodes(new) : new[q].parent = y
    <3>1. CASE y = l
      BY <1>12, <1>15, <3>1
    <3>2. CASE y # l
      <4>1. y \in Nodes(ev) \union PlacesOf(ms) /\ y \in 1..Len(ev)
        BY <1>10, <1>12, <1>13, <2>2, <3>2 DEF PlacesOf
      <4>2. PICK q \in Nodes(ev) : ev[q].parent = y
        BY <1>7, <1>8, <2>2, <4>1 DEF Chained
      <4>3. q # c /\ q \in 1..Len(ev)
        BY <1>12, <1>14, <4>1, <4>2
      <4>4. QED BY <1>12, <1>15, <4>2, <4>3
    <3>3. QED BY <3>1, <3>2
  <2>3. QED BY <2>1, <2>2 DEF Chained
<1>17. QED BY <1>6, <1>10, <1>11, <1>14, <1>16 DEF Woven

\* The Marker at event m is completed as a node of kind k.
Completes(ev, new, close, now, m, k) ==
  /\ Len(new) = Len(ev) + 1 /\ new[Len(ev) + 1] = NodeEnd
  /\ \A q \in 1..Len(ev) :
       /\ new[q].type = ev[q].type /\ new[q].index = ev[q].index
       /\ new[q].parent = ev[q].parent /\ new[q].kind = IF q = m THEN k ELSE ev[q].kind
  /\ now[m] = Len(ev) + 1 /\ \A q \in Nat : q # m => now[q] = close[q]

\* The innermost Marker is completed: the node is around all that came behind it.
LEMMA WovenCompleted ==
  ASSUME NEW ev \in Seq(EventRecord), NEW ms \in Seq(1..Len(ev)), ms # <<>>, Linked(ev),
         NEW low \in Places, NEW close \in Places, Woven(ev, ms, low, close),
         NEW m, m = Top(ms), NEW k \in NodeKinds \ {"None"},
         NEW new \in Seq(EventRecord), NEW now \in Places, Completes(ev, new, close, now, m, k)
  PROVE  /\ Woven(new, Pop(ms), low, now)
         /\ m \in 1..Len(ev) /\ m \notin Nodes(ev) /\ Nodes(new) = Nodes(ev) \union {m}
         /\ \A q \in Nodes(ev) : now[q] = close[q] /\ close[q] \in 1..Len(ev)
<1> DEFINE l == Len(ev) + 1
<1>1. /\ m \in 1..Len(ev) /\ Len(ev) \in Nat /\ l \in Nat /\ m \in Nat
      /\ Len(ms) \in Nat /\ Len(ms) \in 1..Len(ms) /\ m = ms[Len(ms)]
      /\ Len(Pop(ms)) = Len(ms) - 1 /\ \A j \in 1..(Len(ms) - 1) : Pop(ms)[j] = ms[j]
  <2>1. m \in 1..Len(ev) /\ Len(Pop(ms)) = Len(ms) - 1
        /\ \A j \in 1..(Len(ms) - 1) : Pop(ms)[j] = ms[j]
    BY PopTyped
  <2>2. Len(ms) \in Nat /\ Len(ms) # 0
    OBVIOUS
  <2>3. QED BY <2>1, <2>2 DEF Top
<1>4. /\ new \in Seq(EventRecord) /\ Len(new) = l /\ new[l] = NodeEnd
      /\ \A q \in 1..Len(ev) : /\ new[q].type = ev[q].type /\ new[q].parent = ev[q].parent
                               /\ new[q].kind = IF q = m THEN k ELSE ev[q].kind
  BY DEF Completes
<1>5. Extents(ev, low, close) /\ Held(ev, ms, low, close) /\ Chained(ev, ms, low, close)
  BY DEF Woven
<1>6. /\ ev[m].type = "NodeStart" /\ ev[m].kind = "None" /\ low[m] \in 1..m
      /\ \A p \in Nodes(ev) : (p < m => close[p] < m) /\ (p > m => low[p] > m)
  BY <1>1, <1>5 DEF Held
<1>7. /\ NodeEnd.type = "NodeEnd" /\ NodeEnd.parent = 0 /\ k # "None"
      /\ m \notin Nodes(ev) /\ Nodes(ev) \subseteq 1..Len(ev)
  BY <1>6, EventsTyped DEF Nodes, IsLive
<1>8. /\ IsEnd(new[l]) /\ ~IsLive(new[l])
      /\ \A q \in 1..Len(ev) : /\ IsEnd(new[q]) <=> IsEnd(ev[q])
                               /\ IsLive(new[q]) <=> q = m \/ IsLive(ev[q])
  BY <1>4, <1>6, <1>7 DEF IsEnd, IsLive
<1>9. Nodes(new) = Nodes(ev) \union {m}
  <2>1. \A q \in 1..l : q = l \/ q \in 1..Len(ev)
    BY <1>1
  <2>2. 1..Len(ev) \subseteq 1..l
    BY <1>1
  <2>3. QED BY <1>1, <1>4, <1>8, <2>1, <2>2 DEF Nodes
<1>10. now \in Places /\ now[m] = l /\ \A q \in Nodes(ev) : now[q] = close[q]
  <2>1. \A q \in Nodes(ev) : q # m /\ q \in Nat
    BY <1>1, <1>7
  <2>2. now \in Places /\ now[m] = l /\ \A q \in Nat : q # m => now[q] = close[q]
    BY DEF Completes
  <2>3. QED BY <2>1, <2>2
<1>11. \A p \in Nodes(ev) : /\ p \in Nat /\ low[p] \in 1..p /\ close[p] \in (p + 1)..Len(ev)
                            /\ IsEnd(ev[close[p]]) /\ close[p] < l /\ close[p] \in 1..Len(ev)
  <2>1. \A p \in Nodes(ev) : /\ p \in 1..Len(ev) /\ low[p] \in 1..p
                             /\ close[p] \in (p + 1)..Len(ev) /\ IsEnd(ev[close[p]])
    BY <1>5, <1>7 DEF Extents
  <2>2. QED BY <1>1, <2>1
<1>12. Extents(new, low, now)
  <2>1. ASSUME NEW p \in Nodes(new)
        PROVE  low[p] \in 1..p /\ now[p] \in (p + 1)..Len(new) /\ IsEnd(new[now[p]])
    <3>1. CASE p = m
      BY <1>1, <1>4, <1>6, <1>8, <1>10, <3>1
    <3>2. CASE p \in Nodes(ev)
      <4>1. now[p] = close[p] /\ low[p] \in 1..p /\ p \in Nat
        BY <1>10, <1>11, <3>2
      <4>2. close[p] \in 1..Len(ev) /\ IsEnd(new[close[p]])
        BY <1>8, <1>11, <3>2
      <4>3. close[p] \in (p + 1)..Len(ev) /\ Len(new) = Len(ev) + 1 /\ Len(ev) \in Nat
        BY <1>1, <1>4, <1>11, <3>2
      <4>4. now[p] \in (p + 1)..Len(new)
        BY <4>1, <4>2, <4>3
      <4>5. QED BY <4>1, <4>2, <4>4
    <3>3. QED BY <1>9, <2>1, <3>1, <3>2
  <2>2. ASSUME NEW e \in 1..Len(new), IsEnd(new[e])
        PROVE  \E p \in Nodes(new) : now[p] = e
    <3>1. CASE e = l
      BY <1>9, <1>10, <3>1
    <3>2. CASE e # l
      <4>1. e \in 1..Len(ev) /\ IsEnd(ev[e])
        BY <1>1, <1>4, <1>8, <2>2, <3>2
      <4>2. QED BY <1>5, <1>9, <1>10, <4>1 DEF Extents
    <3>3. QED BY <3>1, <3>2
  <2>3. ASSUME NEW p \in Nodes(new), NEW q \in Nodes(new), now[p] = now[q]
        PROVE  p = q
    <3>1. CASE p = m \/ q = m
      BY <1>1, <1>9, <1>10, <1>11, <2>3, <3>1
    <3>2. CASE p \in Nodes(ev) /\ q \in Nodes(ev)
      BY <1>5, <1>10, <2>3, <3>2 DEF Extents
    <3>3. QED BY <1>9, <3>1, <3>2
  <2>4. ASSUME NEW p \in Nodes(new), NEW q \in Nodes(new), p < q, q < now[p]
        PROVE  p < low[q] /\ now[q] < now[p]
    <3>1. CASE p = m
      <4>1. q \in Nodes(ev) /\ q > m
        BY <1>1, <1>9, <2>4, <3>1
      <4>2. QED BY <1>6, <1>10, <1>11, <3>1, <4>1
    <3>2. CASE p \in Nodes(ev) /\ q = m
      <4>1. p < m /\ m < close[p]
        BY <1>10, <2>4, <3>2
      <4>2. close[p] < m /\ close[p] \in Nat /\ m \in Nat
        <5>1. close[p] < m
          BY <1>6, <3>2, <4>1
        <5>2. close[p] \in Nat
          BY <1>11, <3>2
        <5>3. QED BY <1>1, <5>1, <5>2
      <4>3. QED BY <4>1, <4>2
    <3>3. CASE p \in Nodes(ev) /\ q \in Nodes(ev)
      BY <1>5, <1>10, <2>4, <3>3 DEF Extents
    <3>4. QED BY <1>9, <3>1, <3>2, <3>3
  <2>5. ASSUME NEW p \in Nodes(new), NEW q \in Nodes(new), now[p] < now[q]
        PROVE  now[p] < low[q] \/ low[q] <= low[p]
    <3>1. p \in Nodes(ev)
      <4>1. CASE p = m /\ q = m
        BY <1>1, <1>10, <2>5, <4>1
      <4>2. CASE p = m /\ q \in Nodes(ev)
        BY <1>1, <1>10, <1>11, <2>5, <4>2
      <4>3. QED BY <1>9, <4>1, <4>2
    <3>2. CASE q \in Nodes(ev)
      BY <1>5, <1>10, <2>5, <3>1, <3>2 DEF Extents
    <3>3. CASE q = m
      <4>1. CASE p > m
        <5>1. low[p] > m /\ low[m] <= m /\ low[m] \in Nat /\ low[p] \in Nat /\ m \in Nat
          BY <1>1, <1>6, <1>11, <3>1, <4>1
        <5>2. QED BY <3>3, <5>1
      <4>2. CASE p < m
        <5>1. close[p] < m
          BY <1>6, <3>1, <4>2
        <5>2. CASE low[m] = m
          BY <1>10, <3>1, <3>3, <5>1, <5>2
        <5>3. CASE low[m] # m
          <6>1. m \in PlacesOf(ms)
            BY <1>1 DEF PlacesOf
          <6>2. PICK c \in Nodes(ev) : ev[c].parent = m
            BY <1>5, <5>3, <6>1 DEF Chained
          <6>3. c \in 1..Len(ev) /\ close[c] = m - 1 /\ low[c] = low[m]
            <7>1. c \in 1..Len(ev) /\ ev[c].parent # 0
              BY <1>1, <1>7, <6>2
            <7>2. close[c] = ev[c].parent - 1 /\ low[c] = low[ev[c].parent]
              BY <1>5, <7>1 DEF Chained
            <7>3. QED BY <6>2, <7>1, <7>2
          <6>4. CASE p = c
            BY <1>6, <1>11, <3>1, <3>3, <6>3, <6>4
          <6>5. CASE p # c
            <7>1. close[p] # close[c]
              BY <1>5, <3>1, <6>5 DEF Extents
            <7>2. close[p] < close[c]
              <8>1. close[p] \in Nat /\ close[c] \in Nat /\ m \in Nat
                BY <1>1, <1>11, <3>1
              <8>2. QED BY <5>1, <6>3, <7>1, <8>1
            <7>3. close[p] < low[c] \/ low[c] <= low[p]
              BY <1>5, <3>1, <7>2 DEF Extents
            <7>4. QED BY <1>10, <3>1, <3>3, <6>3, <7>3
          <6>6. QED BY <6>4, <6>5
        <5>4. QED BY <5>2, <5>3
      <4>3. p # m
        BY <1>7, <3>1
      <4>4. QED BY <1>1, <1>11, <3>1, <4>1, <4>2, <4>3
    <3>4. QED BY <1>9, <3>2, <3>3
  <2>6. QED BY <2>1, <2>2, <2>3, <2>4, <2>5 DEF Extents
<1>13. Held(new, Pop(ms), low, now)
  <2>1. ASSUME NEW j \in 1..Len(Pop(ms))
        PROVE  /\ Pop(ms)[j] = ms[j] /\ j \in 1..Len(ms) /\ ms[j] \in 1..Len(ev)
               /\ ms[j] < low[m] /\ ms[j] # m
    <3>1. j \in 1..(Len(ms) - 1) /\ j \in 1..Len(ms) /\ j < Len(ms)
      BY <1>1
    <3>2. ms[j] \in 1..Len(ev) /\ ms[j] < low[m]
      <4>1. ms[j] < low[ms[Len(ms)]]
        BY <1>1, <1>5, <3>1 DEF Held
      <4>2. QED BY <1>1, <3>1, <4>1
    <3>3. low[m] \in Nat /\ m \in Nat /\ ms[j] \in Nat /\ low[m] <= m
      BY <1>1, <1>6, <3>2
    <3>4. ms[j] # m
      BY <3>2, <3>3
    <3>5. QED BY <1>1, <3>1, <3>2, <3>4
  <2>2. ASSUME NEW j \in 1..Len(Pop(ms)), NEW p \in Nodes(new)
        PROVE  (p < ms[j] => now[p] < ms[j]) /\ (p > ms[j] => low[p] > ms[j])
    <3>1. CASE p = m
      <4>1. low[m] \in Nat /\ m \in Nat /\ ms[j] \in Nat /\ low[m] <= m /\ ms[j] < low[m]
        <5>1. low[m] \in 1..m /\ m \in Nat
          BY <1>1, <1>6
        <5>2. ms[j] \in 1..Len(ev) /\ ms[j] < low[m]
          BY <2>1
        <5>3. QED BY <5>1, <5>2
      <4>2. ~(m < ms[j])
        BY <4>1
      <4>3. QED BY <3>1, <4>1, <4>2
    <3>2. CASE p \in Nodes(ev)
      BY <1>5, <1>10, <2>1, <3>2 DEF Held
    <3>3. QED BY <1>9, <3>1, <3>2
  <2>3. \A j \in 1..Len(Pop(ms)) : /\ new[ms[j]].type = "NodeStart" /\ new[ms[j]].kind = "None"
                                   /\ low[ms[j]] \in 1..ms[j]
    <3>1. ASSUME NEW j \in 1..Len(Pop(ms))
          PROVE  /\ new[ms[j]].type = ev[ms[j]].type /\ new[ms[j]].kind = ev[ms[j]].kind
                 /\ j \in 1..Len(ms)
      BY <1>4, <2>1
    <3>2. QED BY <1>5, <3>1 DEF Held
  <2>4. \A i, j \in 1..Len(Pop(ms)) : i < j => ms[i] < low[ms[j]]
    BY <1>5, <2>1 DEF Held
  <2>5. QED BY <2>1, <2>2, <2>3, <2>4 DEF Held
<1>14. Chained(new, Pop(ms), low, now)
  <2>1. ASSUME NEW q \in 1..Len(new), new[q].parent # 0
        PROVE  /\ q \in Nodes(new) /\ now[q] = new[q].parent - 1
               /\ low[q] = low[new[q].parent]
    <3>1. q # l
      BY <1>4, <1>7, <2>1
    <3>2. q \in 1..Len(ev)
      BY <1>1, <1>4, <3>1
    <3>3. new[q].parent = ev[q].parent
      BY <1>4, <3>2
    <3>4. QED BY <1>5, <1>9, <1>10, <2>1, <3>2, <3>3 DEF Chained
  <2>2. PlacesOf(Pop(ms)) \subseteq PlacesOf(ms) /\ m \in PlacesOf(ms)
    <3>1. \A j \in 1..Len(Pop(ms)) : Pop(ms)[j] = ms[j] /\ j \in 1..Len(ms)
      BY <1>1
    <3>2. QED BY <1>1, <3>1 DEF PlacesOf
  <2>3. ASSUME NEW y \in Nodes(new) \union PlacesOf(Pop(ms)), low[y] # y
        PROVE  \E q \in Nodes(new) : new[q].parent = y
    <3>1. y \in Nodes(ev) \union PlacesOf(ms)
      BY <1>9, <2>2, <2>3
    <3>2. PICK q \in Nodes(ev) : ev[q].parent = y
      BY <1>5, <2>3, <3>1 DEF Chained
    <3>3. QED BY <1>4, <1>7, <1>9, <3>2
  <2>4. QED BY <2>1, <2>3 DEF Chained
<1>15. QED BY <1>1, <1>7, <1>9, <1>10, <1>11, <1>12, <1>13, <1>14 DEF Woven

\* A Marker that is undone was none that a node begins before; nothing else changes.
LEMMA WovenUndone ==
  ASSUME NEW ev \in Seq(EventRecord), NEW ms \in Seq(1..Len(ev)), ms # <<>>,
         NEW low \in Places, NEW close \in Places, Woven(ev, ms, low, close),
         NEW m, m = Top(ms)
  PROVE  Woven(ev, Pop(ms), low, close) /\ WithKind(ev, m, "None") = ev
<1>1. /\ m \in 1..Len(ev) /\ Len(ms) \in Nat /\ Len(ms) \in 1..Len(ms) /\ m = ms[Len(ms)]
      /\ Len(Pop(ms)) = Len(ms) - 1 /\ \A j \in 1..(Len(ms) - 1) : Pop(ms)[j] = ms[j]
  <2>1. m \in 1..Len(ev) /\ Len(Pop(ms)) = Len(ms) - 1
        /\ \A j \in 1..(Len(ms) - 1) : Pop(ms)[j] = ms[j]
    BY PopTyped
  <2>2. Len(ms) \in Nat /\ Len(ms) # 0
    OBVIOUS
  <2>3. QED BY <2>1, <2>2 DEF Top
<1>2. \A j \in 1..Len(Pop(ms)) : Pop(ms)[j] = ms[j] /\ j \in 1..Len(ms)
  BY <1>1
<1>3. Held(ev, Pop(ms), low, close)
  BY <1>2 DEF Woven, Held
<1>4. PlacesOf(Pop(ms)) \subseteq PlacesOf(ms)
  BY <1>2 DEF PlacesOf
<1>5. Chained(ev, Pop(ms), low, close)
  BY <1>4 DEF Woven, Chained
<1>6. ev[m].kind = "None"
  BY <1>1 DEF Woven, Held
<1>7. WithKind(ev, m, "None") = ev
  <2>1. ev[m] \in EventRecord
    BY <1>1
  <2>2. [ev[m] EXCEPT !.kind = "None"] = ev[m]
    BY <1>6, <2>1 DEF EventRecord
  <2>3. QED BY <1>1, <2>2 DEF WithKind
<1>8. QED BY <1>3, <1>5, <1>7 DEF Woven

-----------------------------------------------------------------------------
(* What has been read of an open node, where an operator waits for an operand. *)

\* The node at event q begins with the token op, or has it behind its first operand.
Reads(ev, file, q, op) ==
  /\ q + 1 \in 1..Len(ev) /\ Eats(ev, q + 1) /\ ev[q + 1].index \in 1..Len(file)
  /\ file[ev[q + 1].index] = op

\* No node starts and no token is read from event i to event j.
Clear(ev, i, j) == \A q \in 1..Len(ev) : i <= q /\ q <= j => ~IsLive(ev[q]) /\ ~Eats(ev, q)

\* The first node from event i on is x, and it ends at event j.
One(ev, low, close, i, x, j) ==
  x \in Nodes(ev) /\ i <= low[x] /\ close[x] = j /\ Clear(ev, i, low[x] - 1)

\* Node q may be what the operator op has on its left.
LeftOf(ev, file, q, op) ==
  /\ ev[q].kind = "BinaryExpression" =>
       \E o \in Binary : Reads(ev, file, q, o) /\ priority[op].left <= priority[o].right
  /\ ev[q].kind = "UnaryExpression" => priority[op].left <= UNARY_PRIORITY

\* Node x may be what an operator with the priority `limit` to its right has there.
RightOf(ev, file, x, limit) ==
  ev[x].kind = "BinaryExpression" =>
    \E o \in Binary : Reads(ev, file, x, o) /\ priority[o].left > limit

\* The node at event m is put around q, of which op is the operator.
Around(ev, file, low, close, m, q, op) ==
  q \in Nodes(ev) /\ close[q] = m - 1 /\ low[q] = low[m] /\ LeftOf(ev, file, q, op)

\* The node at event m has read an operator with the priority r to its right, and what it has
\* on its left, which for a unary one is nothing.
Operates(ev, file, low, close, m, r) ==
  /\ m + 1 \in 1..Len(ev) /\ Eats(ev, m + 1)
  /\ r = UNARY_PRIORITY => low[m] = m
  /\ r # UNARY_PRIORITY =>
       \E op \in Binary, q \in Nodes(ev) :
         /\ Reads(ev, file, m, op) /\ priority[op].right = r
         /\ Around(ev, file, low, close, m, q, op)

\* Node y is an operator with its operands, and the last of them is x.
Applies(ev, file, low, close, y, r, x) ==
  /\ Operates(ev, file, low, close, y, r)
  /\ r = UNARY_PRIORITY <=> ev[y].kind = "UnaryExpression"
  /\ One(ev, low, close, y + 2, x, close[y] - 1)
  /\ RightOf(ev, file, x, r)

Operated(ev, file, low, close) ==
  \A y \in Nodes(ev) :
    ev[y].kind \in Operations => \E r \in Nat, x \in Nodes(ev) : Applies(ev, file, low, close, y, r, x)

\* What the frame of the open node m says of it, when the next event that belongs to another
\* node is `gap`.
Below(ev, file, low, close, f, m, gap) ==
  /\ f.at = "bare" => low[m] = m /\ Clear(ev, m + 1, gap - 1)
  /\ f.at \in {"lacking", "filled"} =>
       Operates(ev, file, low, close, m, f.lim) /\ m + 2 <= gap /\ Clear(ev, m + 2, gap - 1)

\* An operator that comes next may have node c on its left.
NextFits(ev, file, c, cur, seen) ==
  ev[c].kind \in Operations => seen /\ (cur \in Binary => LeftOf(ev, file, c, cur))

\* What the frame of the innermost open node says, when node c was completed last and the next
\* token is cur, if it was seen.
Atop(ev, file, low, close, f, m, c, cur, seen) ==
  /\ f.at \in {"bare", "lacking"} => Below(ev, file, low, close, f, m, Len(ev) + 1)
  /\ f.at = "single" =>
       low[m] = m /\ One(ev, low, close, m + 1, c, Len(ev)) /\ ev[c].kind \notin Operations
  /\ f.at = "made" =>
       c \in Nodes(ev) /\ close[c] = Len(ev) /\ NextFits(ev, file, c, cur, seen)
  /\ f.at = "operator" =>
       /\ m = Len(ev)
       /\ f.lim = UNARY_PRIORITY => low[m] = m
       /\ f.lim # UNARY_PRIORITY =>
            /\ cur \in Binary /\ priority[cur].right = f.lim
            /\ \E q \in Nodes(ev) : Around(ev, file, low, close, m, q, cur)
  /\ f.at \in {"filled", "closed"} =>
       /\ Operates(ev, file, low, close, m, f.lim)
       /\ One(ev, low, close, m + 2, c, Len(ev)) /\ RightOf(ev, file, c, f.lim)
  /\ f.at = "filled" => NextFits(ev, file, c, cur, seen)
  /\ f.at = "closed" => seen /\ ~Binds(cur, f.lim)
  /\ f.ahead # 0 => cur \in Binary /\ priority[cur].right = f.ahead

\* The frames fs say so of the open Markers ms, and every operator has its operands.
Framed(ev, file, ms, fs, low, close, c, cur, seen) ==
  /\ Woven(ev, ms, low, close) /\ Operated(ev, file, low, close)
  /\ Len(fs) = Len(ms)
  /\ \A k \in 1..(Len(fs) - 1) : Below(ev, file, low, close, fs[k], ms[k], low[ms[k + 1]])
  /\ fs # <<>> => Atop(ev, file, low, close, fs[Len(fs)], ms[Len(ms)], c, cur, seen)

\* More events and more tokens; nothing changes for the nodes there are.
Stays(ev, file, low, close, new, longer, now, shut) ==
  /\ Len(ev) <= Len(new) /\ Len(file) <= Len(longer)
  /\ \A i \in 1..Len(file) : longer[i] = file[i]
  /\ \A q \in 1..Len(ev) : /\ new[q].type = ev[q].type /\ new[q].index = ev[q].index
                           /\ now[q] = low[q]
  /\ \A q \in Nodes(ev) : q \in Nodes(new) /\ new[q].kind = ev[q].kind /\ shut[q] = close[q]

\* No event from i to j becomes the start of a node.
Same(ev, new, i, j) == \A q \in Nodes(new) : i <= q /\ q <= j => q \in Nodes(ev)

LEMMA NodesThere ==
  ASSUME NEW ev \in Seq(EventRecord)
  PROVE  Len(ev) \in Nat /\ Nodes(ev) \subseteq 1..Len(ev) /\ Nodes(ev) \subseteq Nat
BY DEF Nodes

LEMMA FactsStay ==
  ASSUME NEW ev \in Seq(EventRecord), NEW new \in Seq(EventRecord),
         NEW file \in Seq(TokenKinds), NEW longer \in Seq(TokenKinds),
         NEW low, NEW close, NEW now, NEW shut,
         Stays(ev, file, low, close, new, longer, now, shut)
  PROVE  /\ \A q, op : Reads(ev, file, q, op) => Reads(new, longer, q, op)
         /\ \A q \in Nodes(ev) : \A op : LeftOf(ev, file, q, op) => LeftOf(new, longer, q, op)
         /\ \A q \in Nodes(ev) : \A r : RightOf(ev, file, q, r) => RightOf(new, longer, q, r)
         /\ \A m \in 1..Len(ev) : \A r : Operates(ev, file, low, close, m, r)
                                       => Operates(new, longer, now, shut, m, r)
<1>1. /\ Len(ev) \in Nat /\ Len(new) \in Nat /\ Nodes(ev) \subseteq 1..Len(ev)
      /\ Len(ev) <= Len(new) /\ Len(file) <= Len(longer) /\ Len(file) \in Nat /\ Len(longer) \in Nat
  BY NodesThere DEF Stays
<1>2. \A q \in 1..Len(ev) : q \in 1..Len(new) /\ (Eats(ev, q) => Eats(new, q))
  BY <1>1 DEF Stays, Eats
<1>3. ASSUME NEW q, NEW op, Reads(ev, file, q, op) PROVE Reads(new, longer, q, op)
  <2>1. /\ q + 1 \in 1..Len(ev) /\ ev[q + 1].index \in 1..Len(file)
        /\ file[ev[q + 1].index] = op /\ Eats(ev, q + 1)
    BY <1>3 DEF Reads
  <2>2. new[q + 1].index = ev[q + 1].index /\ new[q + 1].index \in 1..Len(longer)
    BY <1>1, <2>1 DEF Stays
  <2>3. longer[new[q + 1].index] = op
    BY <2>1, <2>2 DEF Stays
  <2>4. QED BY <1>2, <2>1, <2>2, <2>3 DEF Reads
<1>4. \A q \in Nodes(ev) : new[q].kind = ev[q].kind
  BY DEF Stays
<1>5. ASSUME NEW q \in Nodes(ev), NEW op, LeftOf(ev, file, q, op) PROVE LeftOf(new, longer, q, op)
  BY <1>3, <1>4, <1>5 DEF LeftOf
<1>6. ASSUME NEW q \in Nodes(ev), NEW r, RightOf(ev, file, q, r) PROVE RightOf(new, longer, q, r)
  BY <1>3, <1>4, <1>6 DEF RightOf
<1>7. ASSUME NEW m \in 1..Len(ev), NEW r, Operates(ev, file, low, close, m, r)
      PROVE  Operates(new, longer, now, shut, m, r)
  <2>1. m + 1 \in 1..Len(ev) /\ Eats(ev, m + 1) /\ now[m] = low[m]
    BY <1>7 DEF Operates, Stays
  <2>2. m + 1 \in 1..Len(new) /\ Eats(new, m + 1)
    BY <1>2, <2>1
  <2>3. r = UNARY_PRIORITY => now[m] = m
    BY <1>7, <2>1 DEF Operates
  <2>4. ASSUME r # UNARY_PRIORITY
        PROVE  \E op \in Binary, q \in Nodes(new) :
                 /\ Reads(new, longer, m, op) /\ priority[op].right = r
                 /\ Around(new, longer, now, shut, m, q, op)
    <3>1. PICK op \in Binary, q \in Nodes(ev) :
            /\ Reads(ev, file, m, op) /\ priority[op].right = r
            /\ Around(ev, file, low, close, m, q, op)
      BY <1>7, <2>4 DEF Operates
    <3>2. q \in Nodes(new) /\ shut[q] = close[q] /\ now[q] = low[q]
      BY <1>1, <3>1 DEF Stays
    <3>3. Around(new, longer, now, shut, m, q, op)
      BY <1>5, <2>1, <3>1, <3>2 DEF Around
    <3>4. QED BY <1>3, <3>1, <3>2, <3>3
  <2>5. QED BY <2>2, <2>3, <2>4 DEF Operates
<1>8. QED BY <1>3, <1>5, <1>6, <1>7

LEMMA ClearStays ==
  ASSUME NEW ev \in Seq(EventRecord), NEW new \in Seq(EventRecord),
         Len(ev) <= Len(new), \A q \in 1..Len(ev) : new[q].type = ev[q].type,
         NEW i, NEW j \in Int, j <= Len(ev), Clear(ev, i, j), Same(ev, new, i, j)
  PROVE  Clear(new, i, j)
<1>1. SUFFICES ASSUME NEW q \in 1..Len(new), i <= q, q <= j
               PROVE  ~IsLive(new[q]) /\ ~Eats(new, q)
  BY DEF Clear
<1>2. q \in 1..Len(ev)
  BY <1>1
<1>3. ~IsLive(ev[q]) /\ ~Eats(ev, q)
  BY <1>1, <1>2 DEF Clear
<1>4. ~Eats(new, q)
  BY <1>2, <1>3 DEF Eats
<1>5. ~IsLive(new[q])
  BY <1>1, <1>2, <1>3 DEF Same, Nodes
<1>6. QED BY <1>4, <1>5

LEMMA OneStays ==
  ASSUME NEW ev \in Seq(EventRecord), NEW new \in Seq(EventRecord), NEW file, NEW longer,
         NEW low \in Places, NEW close, NEW now, NEW shut,
         Stays(ev, file, low, close, new, longer, now, shut),
         NEW i, NEW x, NEW j, One(ev, low, close, i, x, j), low[x] <= x,
         Same(ev, new, i, low[x] - 1)
  PROVE  One(new, now, shut, i, x, j)
<1>1. x \in Nodes(ev) /\ i <= low[x] /\ close[x] = j /\ Clear(ev, i, low[x] - 1)
  BY DEF One
<1>2. /\ Len(ev) \in Nat /\ x \in 1..Len(ev) /\ low[x] \in Nat
  BY <1>1, NodesThere DEF Places
<1>3. now[x] = low[x] /\ x \in Nodes(new) /\ shut[x] = close[x]
  BY <1>1, <1>2 DEF Stays
<1>4. /\ Len(ev) <= Len(new) /\ \A q \in 1..Len(ev) : new[q].type = ev[q].type
  BY DEF Stays
<1>5. low[x] - 1 \in Int /\ low[x] - 1 <= Len(ev)
  BY <1>2
<1>6. Clear(new, i, low[x] - 1)
  BY <1>1, <1>4, <1>5, ClearStays
<1>7. QED BY <1>1, <1>3, <1>6 DEF One

LEMMA BelowStays ==
  ASSUME NEW ev \in Seq(EventRecord), NEW new \in Seq(EventRecord),
         NEW file \in Seq(TokenKinds), NEW longer \in Seq(TokenKinds),
         NEW low, NEW close, NEW now, NEW shut,
         Stays(ev, file, low, close, new, longer, now, shut),
         NEW f, NEW m \in 1..Len(ev), NEW gap \in 1..(Len(ev) + 1), Same(ev, new, m + 1, gap - 1),
         Below(ev, file, low, close, f, m, gap)
  PROVE  Below(new, longer, now, shut, f, m, gap)
<1>1. /\ Len(ev) \in Nat /\ Len(ev) <= Len(new) /\ now[m] = low[m]
      /\ \A q \in 1..Len(ev) : new[q].type = ev[q].type
  BY DEF Stays
<1>2. gap - 1 \in Int /\ gap - 1 <= Len(ev)
  BY <1>1
<1>3. ASSUME f.at = "bare" PROVE now[m] = m /\ Clear(new, m + 1, gap - 1)
  BY <1>1, <1>2, <1>3, ClearStays DEF Below
<1>4. ASSUME f.at \in {"lacking", "filled"}
      PROVE  /\ Operates(new, longer, now, shut, m, f.lim) /\ m + 2 <= gap
             /\ Clear(new, m + 2, gap - 1)
  <2>1. /\ Operates(ev, file, low, close, m, f.lim) /\ m + 2 <= gap
        /\ Clear(ev, m + 2, gap - 1)
    BY <1>4 DEF Below
  <2>2. Operates(new, longer, now, shut, m, f.lim)
    BY <2>1, FactsStay
  <2>3. Same(ev, new, m + 2, gap - 1)
    <3>1. \A q \in Nodes(new) : q \in Nat /\ m \in Nat
      BY NodesThere
    <3>2. \A q \in Nodes(new) : m + 2 <= q => m + 1 <= q
      BY <3>1
    <3>3. QED BY <3>2 DEF Same
  <2>4. QED BY <1>1, <1>2, <2>1, <2>2, <2>3, ClearStays
<1>5. QED BY <1>3, <1>4 DEF Below

\* An operator keeps its operands, unless a node starts in front of them.
LEMMA OperatedStays ==
  ASSUME NEW ev \in Seq(EventRecord), NEW new \in Seq(EventRecord),
         NEW file \in Seq(TokenKinds), NEW longer \in Seq(TokenKinds),
         NEW low \in Places, NEW close, NEW now, NEW shut,
         Stays(ev, file, low, close, new, longer, now, shut),
         Operated(ev, file, low, close), \A x \in Nodes(ev) : low[x] <= x,
         \A y, x \in Nodes(ev) : y < x /\ x < close[y] => Same(ev, new, y + 2, low[x] - 1),
         \A y \in Nodes(ev) : close[y] \in Nat,
         \A x \in Nodes(ev) : x < close[x],
         NEW y \in Nodes(ev), ev[y].kind \in Operations
  PROVE  \E r \in Nat, x \in Nodes(new) : Applies(new, longer, now, shut, y, r, x)
<1>1. PICK r \in Nat, x \in Nodes(ev) : Applies(ev, file, low, close, y, r, x)
  BY DEF Operated
<1>2. /\ Operates(ev, file, low, close, y, r)
      /\ r = UNARY_PRIORITY <=> ev[y].kind = "UnaryExpression"
      /\ One(ev, low, close, y + 2, x, close[y] - 1) /\ RightOf(ev, file, x, r)
  BY <1>1 DEF Applies
<1>3. /\ y \in 1..Len(ev) /\ x \in 1..Len(ev) /\ Len(ev) \in Nat /\ low[x] \in Nat /\ low[x] <= x
      /\ close[y] \in Nat /\ x < close[x] /\ y + 2 <= low[x] /\ close[x] = close[y] - 1
  BY <1>2, NodesThere DEF Places, One
<1>4. y < x /\ x < close[y]
  BY <1>3
<1>5. One(new, now, shut, y + 2, x, close[y] - 1)
  BY <1>2, <1>3, <1>4, OneStays
<1>6. x \in Nodes(new) /\ shut[y] = close[y] /\ new[y].kind = ev[y].kind
  BY DEF Stays
<1>7. Operates(new, longer, now, shut, y, r) /\ RightOf(new, longer, x, r)
  BY <1>2, <1>3, FactsStay
<1>8. QED BY <1>2, <1>5, <1>6, <1>7 DEF Applies

\* When nothing but an event is added, that starts no node, all stays.
LEMMA ProlongedStays ==
  ASSUME NEW ev \in Seq(EventRecord), NEW new \in Seq(EventRecord), Prolongs(ev, new),
         NEW file \in Seq(TokenKinds), NEW low, NEW now, \A q \in 1..Len(ev) : now[q] = low[q],
         NEW close
  PROVE  /\ Stays(ev, file, low, close, new, file, now, close)
         /\ \A i, j : Same(ev, new, i, j)
<1>1. Nodes(new) = Nodes(ev) /\ Len(ev) \in Nat /\ Nodes(ev) \subseteq 1..Len(ev)
  BY NodesStay
<1>2. \A q \in Nodes(ev) : new[q].kind = ev[q].kind
  BY <1>1 DEF Prolongs
<1>3. QED BY <1>1, <1>2 DEF Stays, Same, Prolongs

\* A node takes another one, which ends with the last event, as what it waits for.
LEMMA NodeTaken ==
  ASSUME NEW ev \in Seq(EventRecord), NEW file, NEW low \in Places, NEW close,
         NEW f \in Frame, NEW g \in Frame, NEW m \in Nat, NEW x \in Nodes(ev), m < low[x],
         close[x] = Len(ev), NEW cur, NEW seen, NextFits(ev, file, x, cur, seen),
         Below(ev, file, low, close, f, m, low[x]),
         \/ f = Free /\ g \in {Free, Made}
         \/ f = Blank /\ g = Single /\ ev[x].kind \notin Operations
         \/ \E n \in Nat : /\ f \in {As("lacking", n), As("filled", n)} /\ g = As("filled", n)
                           /\ RightOf(ev, file, x, n)
  PROVE  Atop(ev, file, low, close, g, m, x, cur, seen)
<1>1. low[x] \in Nat
  BY NodesThere DEF Places
<1>2. CASE f = Free /\ g = Free
  BY <1>2 DEF Atop, Free, As
<1>3. CASE f = Free /\ g = Made
  BY <1>3 DEF Atop, Made, As
<1>4. CASE f = Blank /\ g = Single /\ ev[x].kind \notin Operations
  <2>1. low[m] = m /\ Clear(ev, m + 1, low[x] - 1)
    BY <1>4 DEF Below, Blank, As
  <2>2. One(ev, low, close, m + 1, x, Len(ev))
    BY <1>1, <2>1 DEF One
  <2>3. QED BY <1>4, <2>1, <2>2 DEF Atop, Single, As
<1>5. ASSUME NEW n \in Nat, f \in {As("lacking", n), As("filled", n)}, g = As("filled", n),
             RightOf(ev, file, x, n)
      PROVE  Atop(ev, file, low, close, g, m, x, cur, seen)
  <2>1. /\ Operates(ev, file, low, close, m, n) /\ m + 2 <= low[x]
        /\ Clear(ev, m + 2, low[x] - 1)
    BY <1>5 DEF Below, As
  <2>2. One(ev, low, close, m + 2, x, Len(ev))
    BY <2>1 DEF One
  <2>3. QED BY <1>5, <2>1, <2>2 DEF Atop, As
<1>6. QED BY <1>2, <1>3, <1>4, <1>5

LEMMA PlaceSet ==
  ASSUME NEW f \in Places, NEW i \in Nat, NEW n \in Nat
  PROVE  \E g \in Places : g[i] = n /\ \A q \in Nat : q # i => g[q] = f[q]
<1> DEFINE g == [f EXCEPT ![i] = n]
<1>1. g \in Places /\ g[i] = n /\ \A q \in Nat : q # i => g[q] = f[q]
  BY DEF Places
<1>2. QED BY <1>1

LEMMA FrameAdded ==
  ASSUME NEW b \in Frames, NEW f \in Frame
  PROVE  /\ Append(b, f) \in Frames /\ Append(b, f) # <<>> /\ Len(b) \in Nat
         /\ Len(Append(b, f)) = Len(b) + 1 /\ Append(b, f)[Len(b) + 1] = f
         /\ \A k \in 1..Len(b) : Append(b, f)[k] = b[k]
<1>1. Append(b, f) \in Frames /\ Append(b, f) # <<>>
  BY AppendTyped DEF Frames
<1>2. QED BY <1>1 DEF Frames

\* The frames of the innermost open nodes.
LEMMA InnerFrames ==
  ASSUME NEW ev \in Seq(EventRecord), NEW ms \in Seq(1..Len(ev)), NEW file,
         NEW b \in Frames, NEW f \in Frame, NEW low \in Places, NEW close, NEW c, NEW cur, NEW seen,
         Framed(ev, file, ms, Append(b, f), low, close, c, cur, seen)
  PROVE  /\ Len(b) \in Nat /\ Len(ms) = Len(b) + 1 /\ Top(ms) = ms[Len(b) + 1] /\ Top(ms) \in 1..Len(ev)
         /\ Atop(ev, file, low, close, f, Top(ms), c, cur, seen)
         /\ \A k \in 1..Len(b) : /\ ms[k] \in 1..Len(ev) /\ ms[k + 1] \in 1..Len(ev)
                                 /\ ms[k] < low[ms[k + 1]] /\ low[ms[k + 1]] \in 1..ms[k + 1]
                                 /\ low[ms[k + 1]] \in 1..Len(ev)
                                 /\ Below(ev, file, low, close, b[k], ms[k], low[ms[k + 1]])
<1> DEFINE fs == Append(b, f)
<1>1. /\ Len(b) \in Nat /\ Len(fs) = Len(b) + 1 /\ fs[Len(b) + 1] = f /\ fs # <<>>
      /\ \A k \in 1..Len(b) : fs[k] = b[k]
  BY FrameAdded
<1>2. /\ Len(fs) = Len(ms) /\ Held(ev, ms, low, close)
      /\ \A k \in 1..(Len(fs) - 1) : Below(ev, file, low, close, fs[k], ms[k], low[ms[k + 1]])
      /\ fs # <<>> => Atop(ev, file, low, close, fs[Len(fs)], ms[Len(ms)], c, cur, seen)
  BY DEF Framed, Woven
<1> HIDE DEF fs
<1>3. /\ Len(ms) = Len(b) + 1 /\ Top(ms) = ms[Len(b) + 1] /\ Top(ms) \in 1..Len(ev)
      /\ Atop(ev, file, low, close, f, Top(ms), c, cur, seen)
  BY <1>1, <1>2 DEF Top
<1>4. ASSUME NEW k \in 1..Len(b)
      PROVE  /\ ms[k] \in 1..Len(ev) /\ ms[k + 1] \in 1..Len(ev)
             /\ ms[k] < low[ms[k + 1]] /\ low[ms[k + 1]] \in 1..ms[k + 1]
             /\ low[ms[k + 1]] \in 1..Len(ev)
             /\ Below(ev, file, low, close, b[k], ms[k], low[ms[k + 1]])
  <2>1. k \in 1..Len(ms) /\ k + 1 \in 1..Len(ms) /\ k < k + 1 /\ k \in 1..(Len(fs) - 1)
    BY <1>1, <1>3
  <2>2. ms[k] \in 1..Len(ev) /\ ms[k + 1] \in 1..Len(ev)
    BY <2>1
  <2>3. ms[k] < low[ms[k + 1]] /\ low[ms[k + 1]] \in 1..ms[k + 1]
    BY <1>2, <2>1 DEF Held
  <2>4. Below(ev, file, low, close, b[k], ms[k], low[ms[k + 1]])
    BY <1>1, <1>2, <2>1
  <2>5. QED BY <2>2, <2>3, <2>4
<1>5. QED BY <1>1, <1>3, <1>4

\* They are put together again.
LEMMA FramesMade ==
  ASSUME NEW ev \in Seq(EventRecord), NEW ms \in Seq(1..Len(ev)), NEW file,
         NEW b \in Frames, NEW f \in Frame, NEW low, NEW close, NEW c, NEW cur, NEW seen,
         Woven(ev, ms, low, close), Operated(ev, file, low, close), Len(ms) = Len(b) + 1,
         \A k \in 1..Len(b) : Below(ev, file, low, close, b[k], ms[k], low[ms[k + 1]]),
         Atop(ev, file, low, close, f, ms[Len(b) + 1], c, cur, seen)
  PROVE  Framed(ev, file, ms, Append(b, f), low, close, c, cur, seen)
<1> DEFINE fs == Append(b, f)
<1>1. /\ Len(b) \in Nat /\ Len(fs) = Len(b) + 1 /\ fs[Len(b) + 1] = f
      /\ \A k \in 1..Len(b) : fs[k] = b[k]
  BY DEF Frames
<1> HIDE DEF fs
<1>2. Framed(ev, file, ms, fs, low, close, c, cur, seen)
  <2>1. \A k \in 1..(Len(fs) - 1) : k \in 1..Len(b)
    BY <1>1
  <2>2. QED BY <1>1, <2>1 DEF Framed
<1>3. QED BY <1>2 DEF fs

\* The innermost open node is seen as another, while tokens or an event are added.
LEMMA FrameTurns ==
  ASSUME NEW ev \in Seq(EventRecord), NEW ms \in Seq(1..Len(ev)), NEW file \in Seq(TokenKinds),
         NEW b \in Frames, NEW f \in Frame, NEW g \in Frame, NEW low \in Places, NEW close \in Places,
         NEW c, NEW cur, NEW seen, Framed(ev, file, ms, Append(b, f), low, close, c, cur, seen),
         NEW new \in Seq(EventRecord), NEW longer \in Seq(TokenKinds),
         Stays(ev, file, low, close, new, longer, low, close), \A i, j : Same(ev, new, i, j),
         Woven(new, ms, low, close),
         NEW d, NEW tok, NEW known, Atop(new, longer, low, close, g, Top(ms), d, tok, known)
  PROVE  Framed(new, longer, ms, Append(b, g), low, close, d, tok, known)
<1>1. /\ Len(b) \in Nat /\ Len(ms) = Len(b) + 1 /\ Top(ms) = ms[Len(b) + 1]
      /\ \A k \in 1..Len(b) : /\ ms[k] \in 1..Len(ev) /\ ms[k + 1] \in 1..Len(ev)
                              /\ low[ms[k + 1]] \in 1..Len(ev)
                              /\ Below(ev, file, low, close, b[k], ms[k], low[ms[k + 1]])
  BY InnerFrames
<1>2. \A k \in 1..Len(b) : Below(new, longer, low, close, b[k], ms[k], low[ms[k + 1]])
  <2>1. ASSUME NEW k \in 1..Len(b)
        PROVE  Below(new, longer, low, close, b[k], ms[k], low[ms[k + 1]])
    <3> DEFINE gap == low[ms[k + 1]]
    <3>1. /\ ms[k] \in 1..Len(ev) /\ gap \in 1..Len(ev)
          /\ Below(ev, file, low, close, b[k], ms[k], gap)
      BY <1>1
    <3> HIDE DEF gap
    <3>2. gap \in 1..(Len(ev) + 1) /\ Same(ev, new, ms[k] + 1, gap - 1)
      BY <3>1
    <3>3. Below(new, longer, low, close, b[k], ms[k], gap)
      BY <3>1, <3>2, BelowStays
    <3>4. QED BY <3>3 DEF gap
  <2>2. QED BY <2>1
<1>3. Operated(new, longer, low, close)
  <2>1. Operated(ev, file, low, close) /\ Extents(ev, low, close)
    BY DEF Framed, Woven
  <2>2. \A p \in Nodes(ev) : low[p] <= p /\ close[p] \in Nat /\ p < close[p]
    BY <2>1, NodesThere DEF Extents
  <2>3. \A p \in Nodes(new) : p \in Nodes(ev)
    <3>1. \A p \in Nodes(new) : p <= p
      BY NodesThere
    <3>2. QED BY <3>1 DEF Same
  <2>4. \A p \in Nodes(ev) : new[p].kind = ev[p].kind
    BY DEF Stays
  <2>5. ASSUME NEW y \in Nodes(ev), ev[y].kind \in Operations
        PROVE  \E r \in Nat, x \in Nodes(new) : Applies(new, longer, low, close, y, r, x)
    BY <2>1, <2>2, <2>5, OperatedStays
  <2>6. QED BY <2>3, <2>4, <2>5 DEF Operated
<1>4. Len(ev) <= Len(new)
  BY DEF Stays
<1>5. ms \in Seq(1..Len(new))
  BY <1>4, SeqWider
<1>6. QED BY <1>1, <1>2, <1>3, <1>5, FramesMade

\* A node is opened in the innermost one.
LEMMA FrameEntered ==
  ASSUME NEW ev \in Seq(EventRecord), NEW ms \in Seq(1..Len(ev)), NEW file \in Seq(TokenKinds),
         NEW b \in Frames, NEW f \in Frame, NEW g \in Frame, NEW t \in Frame,
         NEW low \in Places, NEW close \in Places,
         NEW c, NEW cur, NEW seen, Framed(ev, file, ms, Append(b, f), low, close, c, cur, seen),
         NEW new \in Seq(EventRecord), Prolongs(ev, new),
         NEW now, Agree(ev, low, now),
         NEW l, l = Len(ev) + 1, Woven(new, Append(ms, l), now, close),
         Below(new, file, now, close, g, Top(ms), now[l]),
         Atop(new, file, now, close, t, l, c, cur, seen)
  PROVE  Framed(new, file, Append(ms, l), Append(Append(b, g), t), now, close, c, cur, seen)
<1>1. /\ Len(b) \in Nat /\ Len(ms) = Len(b) + 1 /\ Top(ms) = ms[Len(b) + 1]
      /\ \A k \in 1..Len(b) : /\ ms[k] \in 1..Len(ev) /\ ms[k + 1] \in 1..Len(ev)
                              /\ low[ms[k + 1]] \in 1..Len(ev)
                              /\ Below(ev, file, low, close, b[k], ms[k], low[ms[k + 1]])
  BY InnerFrames
<1>0. now \in Places /\ \A q \in 1..Len(ev) : now[q] = low[q]
  BY DEF Agree
<1>2. /\ Stays(ev, file, low, close, new, file, now, close) /\ \A i, j : Same(ev, new, i, j)
  BY <1>0, ProlongedStays
<1>3. \A k \in 1..Len(b) : Below(new, file, now, close, b[k], ms[k], now[ms[k + 1]])
  <2>1. ASSUME NEW k \in 1..Len(b)
        PROVE  Below(new, file, now, close, b[k], ms[k], now[ms[k + 1]])
    <3> DEFINE gap == low[ms[k + 1]]
    <3>1. /\ ms[k] \in 1..Len(ev) /\ gap \in 1..Len(ev) /\ now[ms[k + 1]] = gap
          /\ Below(ev, file, low, close, b[k], ms[k], gap)
      BY <1>0, <1>1
    <3> HIDE DEF gap
    <3>2. gap \in 1..(Len(ev) + 1) /\ Same(ev, new, ms[k] + 1, gap - 1)
      BY <1>2, <3>1
    <3>3. Below(new, file, now, close, b[k], ms[k], gap)
      BY <1>2, <3>1, <3>2, BelowStays
    <3>4. QED BY <3>1, <3>3
  <2>2. QED BY <2>1
<1>4. Operated(new, file, now, close)
  <2>1. Operated(ev, file, low, close) /\ Extents(ev, low, close)
    BY DEF Framed, Woven
  <2>2. \A p \in Nodes(ev) : low[p] <= p /\ close[p] \in Nat /\ p < close[p]
    BY <2>1, NodesThere DEF Extents
  <2>3. Nodes(new) = Nodes(ev)
    BY NodesStay
  <2>4. \A p \in Nodes(ev) : new[p].kind = ev[p].kind
    BY <1>2 DEF Stays
  <2>5. ASSUME NEW y \in Nodes(ev), ev[y].kind \in Operations
        PROVE  \E r \in Nat, x \in Nodes(new) : Applies(new, file, now, close, y, r, x)
    BY <1>2, <2>1, <2>2, <2>5, OperatedStays
  <2>6. QED BY <2>3, <2>4, <2>5 DEF Operated
<1> DEFINE inner == Append(b, g)
           more  == Append(ms, l)
<1>5. /\ inner \in Frames /\ Len(inner) = Len(b) + 1 /\ inner[Len(b) + 1] = g
      /\ \A k \in 1..Len(b) : inner[k] = b[k]
  BY DEF Frames
<1>6. /\ Len(ev) \in Nat /\ Len(new) = Len(ev) + 1
  BY DEF Prolongs
<1>7. /\ more \in Seq(1..Len(new)) /\ Len(more) = Len(ms) + 1 /\ more[Len(ms) + 1] = l
      /\ \A k \in 1..Len(ms) : more[k] = ms[k]
  <2>1. ms \in Seq(1..Len(new))
    BY <1>6, SeqWider
  <2>2. l \in 1..Len(new)
    BY <1>6
  <2>3. QED BY <2>1, <2>2
<1> HIDE DEF inner, more
<1>8. \A k \in 1..Len(inner) : Below(new, file, now, close, inner[k], more[k], now[more[k + 1]])
  <2>1. ASSUME NEW k \in 1..Len(b)
        PROVE  Below(new, file, now, close, inner[k], more[k], now[more[k + 1]])
    <3>1. k \in 1..Len(ms) /\ k + 1 \in 1..Len(ms)
      BY <1>1
    <3>2. QED BY <1>3, <1>5, <1>7, <3>1
  <2>2. Below(new, file, now, close, inner[Len(b) + 1], more[Len(b) + 1], now[more[(Len(b) + 1) + 1]])
    <3>1. inner[Len(b) + 1] = g /\ more[Len(b) + 1] = Top(ms) /\ more[(Len(b) + 1) + 1] = l
      <4>1. Len(b) + 1 = Len(ms) /\ (Len(b) + 1) + 1 = Len(ms) + 1 /\ Len(ms) \in 1..Len(ms)
        BY <1>1
      <4>2. inner[Len(b) + 1] = g /\ more[Len(ms)] = ms[Len(ms)] /\ Top(ms) = ms[Len(ms)]
        BY <1>1, <1>5, <1>7, <4>1
      <4>3. QED BY <1>7, <4>1, <4>2
    <3>2. QED BY <3>1
  <2>3. \A k \in 1..Len(inner) : k \in 1..Len(b) \/ k = Len(b) + 1
    BY <1>1, <1>5
  <2>4. QED BY <2>1, <2>2, <2>3
<1>9. Len(more) = Len(inner) + 1 /\ more[Len(inner) + 1] = l
  BY <1>1, <1>5, <1>7
<1>10. Framed(new, file, more, Append(inner, t), now, close, c, cur, seen)
  <2>1. Woven(new, more, now, close)
    BY DEF more
  <2>2. Atop(new, file, now, close, t, more[Len(inner) + 1], c, cur, seen)
    BY <1>9
  <2>3. QED BY <1>4, <1>5, <1>7, <1>8, <1>9, <2>1, <2>2, FramesMade
<1>11. QED BY <1>10 DEF inner, more

\* How a node may be completed as one of kind k when its frame is t: an operator has its
\* operands, and a unary one the limit of no other.
Whole(k, t) ==
  \/ k \notin Operations
  \/ k = "UnaryExpression" /\ t = As("closed", UNARY_PRIORITY)
  \/ k = "BinaryExpression" /\ \E r \in Nat \ {UNARY_PRIORITY} : t = As("closed", r)

\* What may take it: an operation is right of an operator that binds less.
Yields(k, t, n) ==
  k = "BinaryExpression" => \E r \in Nat : t = As("closed", r) /\ Looser(n, r)

\* A node of kind k at event m is added, around all that comes behind it.
Joined(ev, new, close, now, m, k) ==
  /\ m \notin Nodes(ev) /\ \A p \in Nodes(ev) : p < m => close[p] < m
  /\ Len(new) = Len(ev) + 1 /\ Nodes(new) = Nodes(ev) \union {m} /\ new[m].kind = k
  /\ \A q \in 1..Len(ev) : new[q].type = ev[q].type /\ new[q].index = ev[q].index
  /\ \A q \in Nodes(ev) : new[q].kind = ev[q].kind
  /\ now[m] = Len(ev) + 1 /\ \A q \in Nodes(ev) : now[q] = close[q]

LEMMA NodeCompleted ==
  ASSUME NEW ev \in Seq(EventRecord), NEW file \in Seq(TokenKinds),
         NEW low \in Places, NEW close \in Places, Extents(ev, low, close),
         Operated(ev, file, low, close),
         NEW m \in 1..Len(ev),
         NEW c, NEW cur, NEW seen, NEW t \in Frame, Atop(ev, file, low, close, t, m, c, cur, seen),
         NEW k, Whole(k, t),
         NEW new \in Seq(EventRecord), NEW now \in Places, Joined(ev, new, close, now, m, k)
  PROVE  /\ Stays(ev, file, low, close, new, file, low, now)
         /\ \A i, j \in Int : (m < i \/ m > j) => Same(ev, new, i, j)
         /\ Operated(new, file, low, now) /\ NextFits(new, file, m, cur, seen)
         /\ \A n \in Nat : Yields(k, t, n) => RightOf(new, file, m, n)
<1>0. /\ m \notin Nodes(ev) /\ \A p \in Nodes(ev) : p < m => close[p] < m
      /\ Len(new) = Len(ev) + 1 /\ Nodes(new) = Nodes(ev) \union {m} /\ new[m].kind = k
      /\ \A q \in 1..Len(ev) : new[q].type = ev[q].type /\ new[q].index = ev[q].index
      /\ \A q \in Nodes(ev) : new[q].kind = ev[q].kind
      /\ now[m] = Len(ev) + 1 /\ \A q \in Nodes(ev) : now[q] = close[q]
  BY DEF Joined
<1>1. Len(ev) \in Nat /\ m \in Nat /\ Nodes(ev) \subseteq 1..Len(ev)
  BY NodesThere
<1>2. Stays(ev, file, low, close, new, file, low, now)
  BY <1>0, <1>1 DEF Stays
<1>3. ASSUME NEW i \in Int, NEW j \in Int, m < i \/ m > j PROVE Same(ev, new, i, j)
  <2>1. ~(i <= m /\ m <= j)
    <3>1. SUFFICES ASSUME i <= m, m <= j PROVE FALSE
      OBVIOUS
    <3>2. QED BY <1>1, <1>3, <3>1
  <2>2. QED BY <1>0, <2>1 DEF Same
<1>4. \A p \in Nodes(ev) : low[p] <= p /\ close[p] \in Nat /\ p < close[p] /\ low[p] \in Nat
  <2>1. \A p \in Nodes(ev) : /\ p \in 1..Len(ev) /\ low[p] \in 1..p
                             /\ close[p] \in (p + 1)..Len(ev)
    BY <1>1 DEF Extents
  <2>2. QED BY <1>1, <2>1
<1>5. ASSUME NEW y \in Nodes(ev), ev[y].kind \in Operations
      PROVE  \E r \in Nat, x \in Nodes(new) : Applies(new, file, low, now, y, r, x)
  <2>1. ASSUME NEW p \in Nodes(ev), NEW x \in Nodes(ev), p < x, x < close[p]
        PROVE  Same(ev, new, p + 2, low[x] - 1)
    <3>1. p \in Nat /\ x \in Nat /\ low[x] \in Nat /\ low[x] <= x /\ close[p] \in Nat
      BY <1>1, <1>4
    <3>2. m < p + 2 \/ m > low[x] - 1
      <4>1. CASE p < m
        <5>1. close[p] < m
          BY <1>0, <4>1
        <5>2. QED BY <1>1, <2>1, <3>1, <5>1
      <4>2. CASE ~(p < m)
        BY <1>1, <3>1, <4>2
      <4>3. QED BY <4>1, <4>2
    <3>3. p + 2 \in Int /\ low[x] - 1 \in Int
      BY <3>1
    <3>4. QED BY <1>3, <3>2, <3>3
  <2>2. QED BY <1>2, <1>4, <1>5, <2>1, OperatedStays
<1>6. ASSUME k \in Operations
      PROVE  \E r \in Nat :
               /\ t = As("closed", r) /\ (r = UNARY_PRIORITY <=> k = "UnaryExpression")
               /\ c \in Nodes(new) /\ Applies(new, file, low, now, m, r, c) /\ seen /\ ~Binds(cur, r)
  <2>1. UNARY_PRIORITY \in Nat
    BY DEF UNARY_PRIORITY
  <2>2. PICK r \in Nat : t = As("closed", r) /\ (r = UNARY_PRIORITY <=> k = "UnaryExpression")
    BY <1>6, <2>1 DEF Whole, Operations
  <2>3. /\ Operates(ev, file, low, close, m, r)
        /\ One(ev, low, close, m + 2, c, Len(ev)) /\ RightOf(ev, file, c, r)
        /\ seen /\ ~Binds(cur, r)
    BY <2>2 DEF Atop, As
  <2>4. c \in Nodes(ev) /\ low[c] <= c
    BY <1>4, <2>3 DEF One
  <2>5. Same(ev, new, m + 2, low[c] - 1)
    <3>1. m + 2 \in Int /\ low[c] - 1 \in Int /\ m < m + 2
      BY <1>1, <1>4, <2>4
    <3>2. QED BY <1>3, <3>1
  <2>6. One(new, low, now, m + 2, c, Len(ev))
    BY <1>2, <2>3, <2>4, <2>5, OneStays
  <2>7. now[m] - 1 = Len(ev) /\ new[m].kind = k
    BY <1>0, <1>1
  <2>8. Operates(new, file, low, now, m, r) /\ RightOf(new, file, c, r)
    BY <1>2, <2>3, <2>4, FactsStay
  <2>9. Applies(new, file, low, now, m, r, c)
    BY <2>2, <2>6, <2>7, <2>8 DEF Applies
  <2>11. c \in Nodes(new)
    BY <1>0, <2>4
  <2>10. QED BY <2>2, <2>3, <2>9, <2>11
<1>7. Operated(new, file, low, now)
  <2>1. ASSUME NEW y \in Nodes(new), new[y].kind \in Operations
        PROVE  \E r \in Nat, x \in Nodes(new) : Applies(new, file, low, now, y, r, x)
    <3>1. CASE y = m
      BY <1>0, <1>6, <2>1, <3>1
    <3>2. CASE y \in Nodes(ev)
      BY <1>0, <1>5, <2>1, <3>2
    <3>3. QED BY <1>0, <2>1, <3>1, <3>2
  <2>2. QED BY <2>1 DEF Operated
<1>8. ASSUME k = "BinaryExpression"
      PROVE  \E r \in Nat, o \in Binary :
               t = As("closed", r) /\ Reads(new, file, m, o) /\ priority[o].right = r
  <2>1. k \in Operations
    BY <1>8 DEF Operations
  <2>2. PICK r \in Nat : /\ t = As("closed", r) /\ (r = UNARY_PRIORITY <=> k = "UnaryExpression")
                         /\ Applies(new, file, low, now, m, r, c)
    BY <1>6, <2>1
  <2>3. r # UNARY_PRIORITY /\ Operates(new, file, low, now, m, r)
    BY <1>8, <2>2 DEF Applies
  <2>4. QED BY <2>2, <2>3 DEF Operates
<1>9. NextFits(new, file, m, cur, seen)
  <2>1. SUFFICES ASSUME k \in Operations
                 PROVE  seen /\ (cur \in Binary => LeftOf(new, file, m, cur))
    BY <1>0 DEF NextFits
  <2>2. PICK r \in Nat : /\ t = As("closed", r) /\ (r = UNARY_PRIORITY <=> k = "UnaryExpression")
                         /\ seen /\ ~Binds(cur, r)
    BY <1>6, <2>1
  <2>3. ASSUME cur \in Binary PROVE LeftOf(new, file, m, cur)
    <3>1. priority[cur].left \in Nat /\ priority[cur].left <= r
      <4>1. priority[cur].left \in Nat /\ ~(priority[cur].left > r)
        BY <2>2, <2>3, PrioritiesTyped DEF Binds
      <4>2. QED BY <4>1
    <3>2. k = "UnaryExpression" => priority[cur].left <= UNARY_PRIORITY
      BY <2>2, <3>1
    <3>3. ASSUME k = "BinaryExpression"
          PROVE  \E o \in Binary : Reads(new, file, m, o) /\ priority[cur].left <= priority[o].right
      <4>1. PICK s \in Nat, o \in Binary :
              t = As("closed", s) /\ Reads(new, file, m, o) /\ priority[o].right = s
        BY <1>8, <3>3
      <4>2. s = r
        BY <2>2, <4>1 DEF As
      <4>3. QED BY <3>1, <4>1, <4>2
    <3>4. QED BY <1>0, <3>2, <3>3 DEF LeftOf
  <2>4. QED BY <2>2, <2>3
<1>10. ASSUME NEW n \in Nat, Yields(k, t, n) PROVE RightOf(new, file, m, n)
  <2>1. SUFFICES ASSUME k = "BinaryExpression"
                 PROVE  \E o \in Binary : Reads(new, file, m, o) /\ priority[o].left > n
    BY <1>0 DEF RightOf
  <2>2. PICK s \in Nat, o \in Binary :
          t = As("closed", s) /\ Reads(new, file, m, o) /\ priority[o].right = s
    BY <1>8, <2>1
  <2>3. PICK r \in Nat : t = As("closed", r) /\ Looser(n, r)
    BY <1>10, <2>1 DEF Yields
  <2>4. r = s
    BY <2>2, <2>3 DEF As
  <2>5. priority[o].left > n
    BY <2>2, <2>3, <2>4 DEF Looser
  <2>6. QED BY <2>2, <2>5
<1>11. QED BY <1>2, <1>3, <1>7, <1>9, <1>10

\* The frames of the open nodes around a Marker that is no longer open.
LEMMA FramesPopped ==
  ASSUME NEW ev \in Seq(EventRecord), NEW ms \in Seq(1..Len(ev)), NEW file \in Seq(TokenKinds),
         NEW b \in Frames, NEW f \in Frame, NEW g \in Frame, NEW t \in Frame,
         NEW low \in Places, NEW close \in Places, NEW c, NEW cur, NEW seen,
         Framed(ev, file, ms, Append(Append(b, f), t), low, close, c, cur, seen),
         NEW new \in Seq(EventRecord), NEW now \in Places,
         Stays(ev, file, low, close, new, file, low, now),
         \A i, j \in Int : Top(ms) > j => Same(ev, new, i, j),
         Woven(new, Pop(ms), low, now), Operated(new, file, low, now),
         NEW x \in Nodes(new), Top(ms) <= x, now[x] = Len(new), NextFits(new, file, x, cur, seen),
         low[Top(ms)] <= low[x], Below(new, file, low, now, f, ms[Len(b) + 1], low[x])
           \/ low[x] = low[Top(ms)],
         \/ f = Free /\ g \in {Free, Made}
         \/ f = Blank /\ g = Single /\ new[x].kind \notin Operations
         \/ \E n \in Nat : /\ f \in {As("lacking", n), As("filled", n)} /\ g = As("filled", n)
                           /\ RightOf(new, file, x, n)
  PROVE  Framed(new, file, Pop(ms), Append(b, g), low, now, x, cur, seen)
<1> DEFINE inner == Append(b, f)
           m     == Top(ms)
           n     == Len(b) + 1
<1>1. /\ inner \in Frames /\ Len(inner) = n /\ inner[n] = f /\ Len(b) \in Nat /\ n \in Nat
      /\ \A k \in 1..Len(b) : inner[k] = b[k]
  BY FrameAdded
<1>2. Framed(ev, file, ms, Append(inner, t), low, close, c, cur, seen)
  OBVIOUS
<1> HIDE DEF inner, n
<1>3. /\ Len(ms) = n + 1 /\ m = ms[n + 1] /\ m \in 1..Len(ev)
      /\ \A k \in 1..n : /\ ms[k] \in 1..Len(ev) /\ ms[k + 1] \in 1..Len(ev)
                         /\ ms[k] < low[ms[k + 1]] /\ low[ms[k + 1]] \in 1..ms[k + 1]
                         /\ low[ms[k + 1]] \in 1..Len(ev)
                         /\ Below(ev, file, low, close, inner[k], ms[k], low[ms[k + 1]])
  <2>1. /\ Len(ms) = Len(inner) + 1 /\ Top(ms) = ms[Len(inner) + 1] /\ Top(ms) \in 1..Len(ev)
        /\ \A k \in 1..Len(inner) :
             /\ ms[k] \in 1..Len(ev) /\ ms[k + 1] \in 1..Len(ev)
             /\ ms[k] < low[ms[k + 1]] /\ low[ms[k + 1]] \in 1..ms[k + 1]
             /\ low[ms[k + 1]] \in 1..Len(ev)
             /\ Below(ev, file, low, close, inner[k], ms[k], low[ms[k + 1]])
    <3>1. inner \in Frames
      BY <1>1
    <3> HIDE DEF m
    <3>2. /\ Len(inner) \in Nat /\ Len(ms) = Len(inner) + 1 /\ Top(ms) = ms[Len(inner) + 1]
          /\ Top(ms) \in 1..Len(ev)
          /\ Atop(ev, file, low, close, t, Top(ms), c, cur, seen)
          /\ \A k \in 1..Len(inner) :
               /\ ms[k] \in 1..Len(ev) /\ ms[k + 1] \in 1..Len(ev)
               /\ ms[k] < low[ms[k + 1]] /\ low[ms[k + 1]] \in 1..ms[k + 1]
               /\ low[ms[k + 1]] \in 1..Len(ev)
               /\ Below(ev, file, low, close, inner[k], ms[k], low[ms[k + 1]])
      BY <1>2, <3>1, InnerFrames
    <3>3. QED BY <3>2
  <2>2. QED BY <1>1, <2>1
<1>4. \A k \in 1..n : ms[k + 1] <= m
  <2>1. Held(ev, ms, low, close)
    BY <1>2 DEF Framed, Woven
  <2>2. ASSUME NEW k \in 1..n, k # n PROVE ms[k + 1] <= m
    <3>1. k + 1 \in 1..Len(ms) /\ n + 1 \in 1..Len(ms) /\ k + 1 < n + 1 /\ n \in 1..n
      BY <1>1, <1>3, <2>2
    <3>2. ms[k + 1] < low[ms[n + 1]]
      BY <2>1, <3>1 DEF Held
    <3>3. low[ms[n + 1]] \in 1..ms[n + 1] /\ ms[k + 1] \in 1..Len(ev) /\ ms[n + 1] \in 1..Len(ev)
      BY <1>3, <3>1
    <3>4. QED BY <1>3, <3>2, <3>3
  <2>3. QED BY <1>3, <2>2
<1>5. ASSUME NEW k \in 1..n
      PROVE  Below(new, file, low, now, inner[k], ms[k], low[ms[k + 1]])
  <2> DEFINE gap == low[ms[k + 1]]
  <2>1. /\ ms[k] \in 1..Len(ev) /\ gap \in 1..Len(ev) /\ gap <= m
        /\ Below(ev, file, low, close, inner[k], ms[k], gap)
    <3>1. gap \in 1..ms[k + 1] /\ ms[k + 1] \in 1..Len(ev) /\ ms[k + 1] <= m
      BY <1>3, <1>4
    <3>2. QED BY <1>3, <3>1
  <2> HIDE DEF gap
  <2>2. gap \in 1..(Len(ev) + 1) /\ m > gap - 1
    BY <1>3, <2>1
  <2>3. Same(ev, new, ms[k] + 1, gap - 1)
    BY <2>1, <2>2
  <2>4. Below(new, file, low, now, inner[k], ms[k], gap)
    BY <2>1, <2>2, <2>3, BelowStays
  <2>5. QED BY <2>4 DEF gap
<1>6. /\ Pop(ms) \in Seq(1..Len(ev)) /\ Len(Pop(ms)) = n
      /\ \A k \in 1..n : Pop(ms)[k] = ms[k]
  <2>1. ms # <<>>
    BY <1>1, <1>3
  <2>2. Pop(ms) \in Seq(1..Len(ev)) /\ Len(Pop(ms)) = Len(ms) - 1
        /\ \A k \in 1..(Len(ms) - 1) : Pop(ms)[k] = ms[k]
    BY <2>1, PopTyped
  <2>3. QED BY <1>1, <1>3, <2>2
<1>7. Pop(ms) \in Seq(1..Len(new))
  <2>1. 1..Len(ev) \subseteq 1..Len(new)
    BY DEF Stays
  <2>2. QED BY <1>6, <2>1, SeqWider
<1>8. \A k \in 1..Len(b) : Below(new, file, low, now, b[k], Pop(ms)[k], low[Pop(ms)[k + 1]])
  <2>1. \A k \in 1..Len(b) : k \in 1..n /\ k + 1 \in 1..n
    BY <1>1 DEF n
  <2>2. QED BY <1>1, <1>5, <1>6, <2>1
<1>9. Atop(new, file, low, now, g, Pop(ms)[n], x, cur, seen)
  <2>1. n \in 1..n
    BY <1>1 DEF n
  <2>2. ms[n] \in Nat /\ ms[n] < low[m] /\ Below(new, file, low, now, f, ms[n], low[m])
    BY <1>1, <1>3, <1>5, <2>1
  <2>3. Below(new, file, low, now, f, ms[n], low[x])
    BY <2>2 DEF n
  <2>4. low[m] \in Nat /\ low[x] \in Nat
    <3>1. x \in Nat /\ m \in Nat
      BY <1>3, NodesThere
    <3>2. QED BY <3>1 DEF Places
  <2>5. ms[n] < low[x]
    BY <2>2, <2>4
  <2>6. QED BY <1>6, <2>1, <2>2, <2>3, <2>5, NodeTaken
<1>10. QED BY <1>6, <1>7, <1>8, <1>9, FramesMade DEF n

\* A Marker is opened.
LEMMA FrameMarked ==
  ASSUME NEW ev \in Seq(EventRecord), NEW ms \in Seq(1..Len(ev)), NEW file \in Seq(TokenKinds),
         Linked(ev), NEW b \in Frames, NEW f \in Holding,
         NEW t, t \in {Free, Blank, As("operator", UNARY_PRIORITY)},
         NEW low \in Places, NEW close \in Places,
         NEW c, NEW cur, NEW seen, Framed(ev, file, ms, Append(b, f), low, close, c, cur, seen),
         NEW new \in Seq(EventRecord), NEW now, Begins(ev, new, low, now)
  PROVE  Framed(new, file, Append(ms, Len(ev) + 1), Append(Append(b, f), t), now, close, c, cur, seen)
<1> DEFINE l == Len(ev) + 1
<1>1. Woven(new, Append(ms, l), now, close) /\ Prolongs(ev, new)
  <2>1. Woven(ev, ms, low, close)
    BY DEF Framed
  <2>2. Woven(new, Append(ms, Len(ev) + 1), now, close) /\ Prolongs(ev, new)
    BY <2>1, WovenMarked
  <2>3. QED BY <2>2
<1>2. f \in Frame /\ t \in Frame
  <2>1. UNARY_PRIORITY \in Nat
    BY DEF UNARY_PRIORITY
  <2>2. QED BY <2>1, FramesTyped
<1>3. /\ Top(ms) \in 1..Len(ev) /\ Len(ev) \in Nat
      /\ Atop(ev, file, low, close, f, Top(ms), c, cur, seen)
  <2>1. Framed(ev, file, ms, Append(b, f), low, close, c, cur, seen)
    OBVIOUS
  <2>2. Top(ms) \in 1..Len(ev) /\ Atop(ev, file, low, close, f, Top(ms), c, cur, seen)
    BY <1>2, <2>1, InnerFrames
  <2>3. QED BY <2>2
<1>12. Agree(ev, low, now) /\ now \in Places /\ \A q \in 1..Len(ev) : now[q] = low[q]
  BY DEF Begins, Agree
<1>4. l \in Nat /\ l = Len(new) /\ now[l] = l /\ l \in 1..(Len(ev) + 1)
  BY <1>3 DEF Begins
<1>5. Below(ev, file, low, close, f, Top(ms), l)
  <2>1. f.at \in {"free", "bare", "lacking"}
    BY StatesSay DEF Holding
  <2>2. CASE f.at = "free"
    BY <2>2 DEF Below
  <2>3. CASE f.at \in {"bare", "lacking"}
    BY <1>3, <2>3 DEF Atop
  <2>4. QED BY <2>1, <2>2, <2>3
<1>6. Below(new, file, now, close, f, Top(ms), l)
  <2>1. /\ Stays(ev, file, low, close, new, file, now, close) /\ \A i, j : Same(ev, new, i, j)
    BY <1>1, <1>12, ProlongedStays
  <2>2. QED BY <1>3, <1>4, <1>5, <2>1, BelowStays
<1>7. Atop(new, file, now, close, t, l, c, cur, seen)
  <2>1. CASE t = Free
    BY <2>1, StatesSay DEF Atop
  <2>2. CASE t = Blank
    <3>1. Clear(new, l + 1, (Len(new) + 1) - 1)
      <4>1. \A q \in 1..Len(new) : ~(l + 1 <= q)
        BY <1>4
      <4>2. QED BY <4>1 DEF Clear
    <3>2. Below(new, file, now, close, t, l, Len(new) + 1)
      BY <1>4, <2>2, <3>1, StatesSay DEF Below
    <3>3. QED BY <2>2, <3>2, StatesSay DEF Atop
  <2>3. CASE t = As("operator", UNARY_PRIORITY)
    BY <1>4, <2>3, StatesSay DEF Atop
  <2>4. QED BY <2>1, <2>2, <2>3
<1>8. Below(new, file, now, close, f, Top(ms), now[l])
  BY <1>4, <1>6
<1> HIDE DEF l
<1>9. l = Len(ev) + 1
  BY DEF l
<1>10. Framed(new, file, Append(ms, l), Append(Append(b, f), t), now, close, c, cur, seen)
  <2>1. l = Len(ev) + 1 /\ Woven(new, Append(ms, l), now, close) /\ Prolongs(ev, new)
    BY <1>1, <1>9
  <2>2. Framed(ev, file, ms, Append(b, f), low, close, c, cur, seen)
    OBVIOUS
  <2>3. QED BY <1>2, <1>7, <1>8, <1>12, <2>1, <2>2, FrameEntered
<1>11. QED BY <1>9, <1>10

\* A Marker is opened around the node completed last.
LEMMA FramePreceded ==
  ASSUME NEW ev \in Seq(EventRecord), NEW ms \in Seq(1..Len(ev)), NEW file \in Seq(TokenKinds),
         Linked(ev), NEW b \in Frames, NEW f \in Frame, NEW g \in Frame, NEW t \in Frame,
         NEW low \in Places, NEW close \in Places,
         NEW c, NEW cur, NEW seen, Framed(ev, file, ms, Append(b, f), low, close, c, cur, seen),
         \/ f = Made /\ g = Free /\ t = Free
         \/ \E r \in Nat \ {0, UNARY_PRIORITY} :
              /\ t = As("operator", r)
              /\ \/ f = Facing(Made, r) /\ g = Free
                 \/ \E n \in Nat : f = Facing(As("filled", n), r) /\ g = As("filled", n),
         NEW new \in Seq(EventRecord), NEW now, Precedes(ev, new, low, now, c)
  PROVE  Framed(new, file, Append(ms, Len(ev) + 1), Append(Append(b, g), t), now, close, c, cur, seen)
<1> DEFINE l == Len(ev) + 1
           m == Top(ms)
<1>1. /\ m \in 1..Len(ev) /\ Len(ev) \in Nat
      /\ Atop(ev, file, low, close, f, m, c, cur, seen)
  <2>1. Framed(ev, file, ms, Append(b, f), low, close, c, cur, seen)
    OBVIOUS
  <2>2. Top(ms) \in 1..Len(ev) /\ Atop(ev, file, low, close, f, Top(ms), c, cur, seen)
    BY <2>1, InnerFrames
  <2>3. QED BY <2>2
<1>2. f.at \in {"made", "filled"}
  <2>1. \A n \in Nat : As("filled", n) \in Frame /\ Made \in Frame
    BY FramesTyped
  <2>2. \A n \in Nat, r \in Nat : /\ Facing(As("filled", n), r).at = "filled"
                                  /\ Facing(Made, r).at = "made"
    <3>1. ASSUME NEW n \in Nat, NEW r \in Nat
          PROVE  /\ Facing(As("filled", n), r).at = "filled"
                 /\ Facing(Made, r).at = "made"
      <4>1. Facing(As("filled", n), r).at = As("filled", n).at /\ Facing(Made, r).at = Made.at
        BY <2>1, StatesSay
      <4>2. QED BY <4>1, StatesSay
    <3>2. QED BY <3>1
  <2>3. CASE f = Made
    BY <2>3, StatesSay
  <2>4. CASE f # Made
    BY <2>2, <2>4
  <2>5. QED BY <2>3, <2>4
<1>3. c \in Nodes(ev) /\ close[c] = Len(ev) /\ NextFits(ev, file, c, cur, seen)
  BY <1>1, <1>2 DEF Atop, One
<1>4. l \in Nat /\ l = Len(new) /\ now[l] = low[c] /\ c \in 1..Len(ev) /\ c # l
      /\ low[c] \in 1..c
  <2>1. c \in 1..Len(ev)
    BY <1>3 DEF Nodes
  <2>2. low[c] \in 1..c
    BY <1>3 DEF Framed, Woven, Extents
  <2>3. Len(new) = l /\ now[l] = low[c]
    BY DEF Precedes
  <2>4. QED BY <1>1, <2>1, <2>2, <2>3
<1>13. Agree(ev, low, now) /\ now \in Places /\ \A q \in 1..Len(ev) : now[q] = low[q]
  BY DEF Precedes, Agree
<1>5. Woven(new, Append(ms, l), now, close) /\ Prolongs(ev, new)
  <2>1. Woven(ev, ms, low, close)
    BY DEF Framed
  <2>2. Woven(new, Append(ms, Len(ev) + 1), now, close) /\ Prolongs(ev, new)
    BY <1>3, <2>1, WovenPreceded
  <2>3. QED BY <2>2
<1>6. /\ Stays(ev, file, low, close, new, file, now, close) /\ \A i, j : Same(ev, new, i, j)
  BY <1>5, <1>13, ProlongedStays
<1>7. Below(new, file, now, close, g, m, now[l])
  <2>1. CASE g = Free
    BY <2>1, StatesSay DEF Below
  <2>2. CASE g # Free
    <3>1. PICK r \in Nat, n \in Nat : f = Facing(As("filled", n), r) /\ g = As("filled", n)
      BY <2>2
    <3>2. f.at = "filled" /\ f.lim = n
      <4>1. As("filled", n) \in Frame
        BY FramesTyped
      <4>2. f.at = As("filled", n).at /\ f.lim = As("filled", n).lim
        BY <3>1, <4>1, StatesSay
      <4>3. QED BY <4>2, StatesSay
    <3>3. Operates(ev, file, low, close, m, n) /\ m + 2 <= low[c] /\ Clear(ev, m + 2, low[c] - 1)
      BY <1>1, <3>2 DEF Atop, One
    <3>4. Below(ev, file, low, close, g, m, low[c])
      BY <3>1, <3>3, StatesSay DEF Below
    <3>5. low[c] \in 1..(Len(ev) + 1)
      BY <1>1, <1>4
    <3>6. Same(ev, new, m + 1, low[c] - 1)
      BY <1>6
    <3>7. Below(new, file, now, close, g, m, low[c])
      BY <1>1, <1>6, <3>4, <3>5, <3>6, BelowStays
    <3>8. QED BY <1>4, <3>7
  <2>3. QED BY <2>1, <2>2
<1>8. Atop(new, file, now, close, t, l, c, cur, seen)
  <2>1. CASE t = Free
    BY <2>1, StatesSay DEF Atop
  <2>2. ASSUME NEW r \in Nat \ {0, UNARY_PRIORITY}, t = As("operator", r), f.ahead = r
        PROVE  Atop(new, file, now, close, t, l, c, cur, seen)
    <3>1. cur \in Binary /\ priority[cur].right = r
      BY <1>1, <2>2 DEF Atop
    <3>2. LeftOf(ev, file, c, cur)
      <4>1. CASE ev[c].kind \in Operations
        BY <1>3, <3>1, <4>1 DEF NextFits
      <4>2. CASE ev[c].kind \notin Operations
        BY <4>2 DEF LeftOf, Operations
      <4>3. QED BY <4>1, <4>2
    <3>3. LeftOf(new, file, c, cur)
      BY <1>3, <1>6, <3>2, FactsStay
    <3>4. Around(new, file, now, close, l, c, cur)
      <4>1. c \in Nodes(new)
        BY <1>3, <1>6 DEF Stays
      <4>2. close[c] = l - 1 /\ now[c] = now[l]
        <5>1. now[c] = low[c]
          BY <1>4, <1>13
        <5>2. close[c] = l - 1
          BY <1>1, <1>3
        <5>3. QED BY <1>4, <5>1, <5>2
      <4>3. QED BY <3>3, <4>1, <4>2 DEF Around
    <3>5. t.at = "operator" /\ t.lim = r /\ t.ahead = 0
      BY <2>2, StatesSay
    <3>6. c \in Nodes(new)
      BY <3>4 DEF Around
    <3>7. QED BY <1>4, <2>2, <3>1, <3>4, <3>5, <3>6 DEF Atop
  <2>3. \A r \in Nat, n \in Nat : /\ Facing(As("filled", n), r).ahead = r
                                  /\ Facing(Made, r).ahead = r
    <3>1. \A n \in Nat : As("filled", n) \in Frame /\ Made \in Frame
      BY FramesTyped
    <3>2. QED BY <3>1, StatesSay
  <2>4. QED BY <2>1, <2>2, <2>3
<1> HIDE DEF l, m
<1>9. l = Len(ev) + 1
  BY DEF l
<1>10. Below(new, file, now, close, g, Top(ms), now[l])
  BY <1>7 DEF m
<1>11. Framed(new, file, Append(ms, l), Append(Append(b, g), t), now, close, c, cur, seen)
  <2>1. l = Len(ev) + 1 /\ Woven(new, Append(ms, l), now, close) /\ Prolongs(ev, new)
    BY <1>5, <1>9
  <2>2. Framed(ev, file, ms, Append(b, f), low, close, c, cur, seen)
    OBVIOUS
  <2>3. QED BY <1>8, <1>10, <1>13, <2>1, <2>2, FrameEntered
<1>12. QED BY <1>9, <1>11

\* A token is read.
LEMMA FrameEats ==
  ASSUME NEW ev \in Seq(EventRecord), NEW ms \in Seq(1..Len(ev)), NEW file \in Seq(TokenKinds),
         NEW b \in Frames, NEW f \in Frame, NEW g \in Frame,
         NEW low \in Places, NEW close \in Places,
         NEW c, NEW cur, NEW seen, Framed(ev, file, ms, Append(b, f), low, close, c, cur, seen),
         \/ g = Free
         \/ \E n \in Nat : f = As("operator", n) /\ g = As("lacking", n),
         NEW e \in EventRecord, e.type = "EatToken", e.parent = 0,
         cur \in Binary => e.index \in 1..Len(file) /\ file[e.index] = cur,
         NEW new, new = Append(ev, e), NEW tok, NEW known
  PROVE  Framed(new, file, ms, Append(b, g), low, close, c, tok, known)
<1> DEFINE l == Len(ev) + 1
           m == Top(ms)
<1>1. /\ m \in 1..Len(ev) /\ Len(ev) \in Nat
      /\ Atop(ev, file, low, close, f, m, c, cur, seen)
  <2>1. Framed(ev, file, ms, Append(b, f), low, close, c, cur, seen)
    OBVIOUS
  <2>2. Top(ms) \in 1..Len(ev) /\ Atop(ev, file, low, close, f, Top(ms), c, cur, seen)
    BY <2>1, InnerFrames
  <2>3. QED BY <2>2
<1>2. /\ new \in Seq(EventRecord) /\ Len(new) = l /\ new[l] = e
  BY EventAdded
<1>3. Woven(new, ms, low, close) /\ Prolongs(ev, new)
  <2>1. Woven(ev, ms, low, close)
    BY DEF Framed
  <2>2. ~IsLive(e) /\ ~IsEnd(e)
    BY DEF IsLive, IsEnd
  <2>3. QED BY <2>1, <2>2, WovenEaten
<1>4. /\ Stays(ev, file, low, close, new, file, low, close) /\ \A i, j : Same(ev, new, i, j)
  BY <1>2, <1>3, ProlongedStays
<1>5. Atop(new, file, low, close, g, m, c, tok, known)
  <2>1. CASE g = Free
    BY <2>1, StatesSay DEF Atop
  <2>2. ASSUME NEW n \in Nat, f = As("operator", n), g = As("lacking", n)
        PROVE  Atop(new, file, low, close, g, m, c, tok, known)
    <3>1. /\ m = Len(ev) /\ (n = UNARY_PRIORITY => low[m] = m)
          /\ n # UNARY_PRIORITY =>
               /\ cur \in Binary /\ priority[cur].right = n
               /\ \E q \in Nodes(ev) : Around(ev, file, low, close, m, q, cur)
      BY <1>1, <2>2, StatesSay DEF Atop
    <3>2. m + 1 \in 1..Len(new) /\ m + 1 = l /\ Eats(new, m + 1)
      BY <1>1, <1>2, <3>1 DEF Eats
    <3>3. ASSUME n # UNARY_PRIORITY
          PROVE  \E op \in Binary, q \in Nodes(new) :
                   /\ Reads(new, file, m, op) /\ priority[op].right = n
                   /\ Around(new, file, low, close, m, q, op)
      <4>1. PICK q \in Nodes(ev) : Around(ev, file, low, close, m, q, cur)
        BY <3>1, <3>3
      <4>2. cur \in Binary /\ priority[cur].right = n
        BY <3>1, <3>3
      <4>3. Reads(new, file, m, cur)
        BY <1>2, <3>2, <4>2 DEF Reads
      <4>4. q \in Nodes(ev) /\ LeftOf(ev, file, q, cur) /\ close[q] = m - 1 /\ low[q] = low[m]
        BY <4>1 DEF Around
      <4>5. q \in Nodes(new)
        BY <1>4, <4>4 DEF Stays
      <4>7. LeftOf(new, file, q, cur)
        BY <1>2, <1>4, <4>4, FactsStay
      <4>8. Around(new, file, low, close, m, q, cur)
        BY <4>4, <4>5, <4>7 DEF Around
      <4>6. QED BY <4>2, <4>3, <4>5, <4>8
    <3>4. Operates(new, file, low, close, m, n)
      BY <3>1, <3>2, <3>3 DEF Operates
    <3>5. m + 2 <= Len(new) + 1 /\ Clear(new, m + 2, (Len(new) + 1) - 1)
      <4>1. \A q \in 1..Len(new) : ~(m + 2 <= q)
        BY <1>1, <1>2, <3>1
      <4>2. QED BY <1>1, <1>2, <3>1, <4>1 DEF Clear
    <3>6. Below(new, file, low, close, g, m, Len(new) + 1)
      BY <2>2, <3>4, <3>5, StatesSay DEF Below
    <3>7. QED BY <2>2, <3>6, StatesSay DEF Atop
  <2>3. QED BY <2>1, <2>2
<1>6. QED BY <1>2, <1>3, <1>4, <1>5, FrameTurns

\* The node at event m was completed as one of kind k, while its frame was t.
Ended(ev, file, ms, low, close, t, m, k, cur, seen, new, now) ==
  /\ Woven(new, Pop(ms), low, now) /\ Operated(new, file, low, now)
  /\ Stays(ev, file, low, close, new, file, low, now)
  /\ \A i, j \in Int : m > j => Same(ev, new, i, j)
  /\ m \in Nodes(new) /\ m \in Nat /\ now[m] = Len(new) /\ new[m].kind = k
  /\ NextFits(new, file, m, cur, seen)
  /\ \A n \in Nat : Yields(k, t, n) => RightOf(new, file, m, n)

\* The innermost Marker is completed.
LEMMA FrameEnds ==
  ASSUME NEW ev \in Seq(EventRecord), NEW ms \in Seq(1..Len(ev)), NEW file \in Seq(TokenKinds),
         Linked(ev), NEW d \in Frames, NEW t \in Frame,
         NEW low \in Places, NEW close \in Places,
         NEW c, NEW cur, NEW seen, Framed(ev, file, ms, Append(d, t), low, close, c, cur, seen),
         NEW m, m = Top(ms), NEW k \in NodeKinds \ {"None"}, Whole(k, t),
         NEW new \in Seq(EventRecord), NEW now \in Places, Completes(ev, new, close, now, m, k)
  PROVE  Ended(ev, file, ms, low, close, t, m, k, cur, seen, new, now)
<1>1. /\ Len(d) \in Nat /\ Len(ms) = Len(d) + 1
      /\ Atop(ev, file, low, close, t, m, c, cur, seen)
  <2>1. /\ Len(d) \in Nat /\ Len(ms) = Len(d) + 1
        /\ Atop(ev, file, low, close, t, Top(ms), c, cur, seen)
    BY InnerFrames
  <2>2. QED BY <2>1
<1>2. ms # <<>> /\ Woven(ev, ms, low, close) /\ Operated(ev, file, low, close)
  <2>1. ms # <<>>
    BY <1>1
  <2>2. QED BY <2>1 DEF Framed
<1>3. /\ Woven(new, Pop(ms), low, now)
      /\ m \in 1..Len(ev) /\ m \notin Nodes(ev) /\ Nodes(new) = Nodes(ev) \union {m}
      /\ \A q \in Nodes(ev) : now[q] = close[q] /\ close[q] \in 1..Len(ev)
  BY <1>2, WovenCompleted
<1>4. /\ Len(new) = Len(ev) + 1 /\ now[m] = Len(ev) + 1 /\ new[m].kind = k
      /\ \A q \in 1..Len(ev) : new[q].type = ev[q].type /\ new[q].index = ev[q].index
      /\ \A q \in Nodes(ev) : new[q].kind = ev[q].kind
  <2>1. \A q \in Nodes(ev) : q \in 1..Len(ev) /\ q # m
    BY <1>3, NodesThere
  <2>2. QED BY <1>3, <2>1 DEF Completes
<1>5. Extents(ev, low, close) /\ \A p \in Nodes(ev) : p < m => close[p] < m
  <2>1. Extents(ev, low, close) /\ Held(ev, ms, low, close)
    BY <1>2 DEF Woven
  <2>2. Len(ms) \in 1..Len(ms) /\ m = ms[Len(ms)]
    BY <1>1 DEF Top
  <2>3. QED BY <2>1, <2>2 DEF Held
<1>6. /\ Stays(ev, file, low, close, new, file, low, now)
      /\ \A i, j \in Int : (m < i \/ m > j) => Same(ev, new, i, j)
      /\ Operated(new, file, low, now) /\ NextFits(new, file, m, cur, seen)
      /\ \A n \in Nat : Yields(k, t, n) => RightOf(new, file, m, n)
  <2>1. Joined(ev, new, close, now, m, k)
    BY <1>3, <1>4, <1>5 DEF Joined
  <2>2. QED BY <1>1, <1>2, <1>3, <1>5, <2>1, NodeCompleted
<1>7. QED BY <1>3, <1>4, <1>6 DEF Ended

LEMMA FrameCompleted ==
  ASSUME NEW ev \in Seq(EventRecord), NEW ms \in Seq(1..Len(ev)), NEW file \in Seq(TokenKinds),
         Linked(ev), NEW fs \in Frames, NEW after \in Frames,
         NEW low \in Places, NEW close \in Places,
         NEW c, NEW cur, NEW seen, Framed(ev, file, ms, fs, low, close, c, cur, seen),
         NEW in, in.op = "Complete", in.what \in NodeKinds, Turn(in, fs, after),
         NEW m, m = Top(ms),
         NEW new \in Seq(EventRecord), NEW now \in Places,
         Completes(ev, new, close, now, m, in.what)
  PROVE  Framed(new, file, Pop(ms), after, low, now, m, cur, seen)
<1> DEFINE k == in.what
<1>1. CASE k \notin Operations \union {"None"} /\ fs = <<Free>> /\ after = <<>>
  <2>1. <<>> \in Frames /\ Free \in Frame /\ fs = Append(<<>>, Free)
    BY <1>1, FramesTyped DEF Frames
  <2>2. Whole(k, Free) /\ k \in NodeKinds \ {"None"}
    BY <1>1 DEF Whole
  <2>5. Framed(ev, file, ms, Append(<<>>, Free), low, close, c, cur, seen)
    BY <2>1
  <2>3. Woven(new, Pop(ms), low, now) /\ Operated(new, file, low, now)
    <3> DEFINE d == <<>>
    <3>1. d \in Frames /\ Framed(ev, file, ms, Append(d, Free), low, close, c, cur, seen)
      BY <2>1, <2>5
    <3> HIDE DEF d, k
    <3>2. Completes(ev, new, close, now, m, k)
      BY DEF k
    <3>3. Ended(ev, file, ms, low, close, Free, m, k, cur, seen, new, now)
      BY <2>1, <2>2, <3>1, <3>2, FrameEnds
    <3>4. QED BY <3>3 DEF Ended
  <2>4. Len(after) = 0 /\ Len(Pop(ms)) = 0 /\ \A j \in 1..(Len(after) - 1) : FALSE
    <3>1. Len(fs) = Len(ms) /\ Len(fs) = 1
      <4>1. Len(<<Free>>) = 1
        OBVIOUS
      <4>2. QED BY <1>1, <4>1 DEF Framed
    <3>2. Len(<<>>) = 0
      OBVIOUS
    <3>3. ms # <<>>
      <4>1. ms = <<>> => Len(ms) = 0
        BY <3>2, Zenon
      <4>2. QED BY <3>1, <4>1
    <3>4. Len(Pop(ms)) = Len(ms) - 1
      BY <3>3, PopTyped
    <3>5. Len(Pop(ms)) = 0 /\ Len(after) = 0
      <4>1. Len(after) = 0
        BY <1>1, <3>2, Zenon
      <4>2. Len(ms) = 1
        BY <3>1
      <4>3. Len(Pop(ms)) = 0
        BY <3>4, <4>2
      <4>4. QED BY <4>1, <4>3
    <3>6. QED BY <3>5
  <2>6. QED BY <1>1, <2>3, <2>4 DEF Framed
<1>2. ASSUME NEW b \in Frames, NEW f \in Frame, NEW g \in Frame, NEW t \in Frame,
             fs = Append(Append(b, f), t), after = Append(b, g), Ending(in, f, t, g)
      PROVE  Framed(new, file, Pop(ms), after, low, now, m, cur, seen)
  <2>1. Append(b, f) \in Frames /\ UNARY_PRIORITY \in Nat
    BY FramesTyped DEF UNARY_PRIORITY
  <2>2. /\ Whole(k, t) /\ k # "None"
        /\ \/ f = Free /\ g \in {Free, Made}
           \/ f = Blank /\ g = Single /\ k \notin Operations
           \/ \E n \in Nat : /\ f \in {As("lacking", n), As("filled", n)} /\ g = As("filled", n)
                             /\ Yields(k, t, n)
    <3>1. CASE k \notin Operations \union {"None"} /\ t = Free /\ Takes(f, g)
      <4>1. k # "BinaryExpression"
        BY <3>1 DEF Operations
      <4>2. QED BY <3>1, <4>1 DEF Takes, Whole, Yields
    <3>2. CASE k = "UnaryExpression" /\ t = As("closed", UNARY_PRIORITY) /\ Takes(f, g) /\ f # Blank
      BY <3>2 DEF Takes, Whole, Yields
    <3>3. CASE /\ k = "BinaryExpression"
               /\ \E r \in Nat \ {UNARY_PRIORITY} :
                    /\ t = As("closed", r)
                    /\ \/ f = Free /\ g \in {Free, Made}
                       \/ \E n \in Nat : f = As("filled", n) /\ g = f /\ Looser(n, r)
      <4>1. PICK r \in Nat \ {UNARY_PRIORITY} :
              /\ t = As("closed", r)
              /\ \/ f = Free /\ g \in {Free, Made}
                 \/ \E n \in Nat : f = As("filled", n) /\ g = f /\ Looser(n, r)
        BY <3>3
      <4>2. Whole(k, t)
        BY <3>3, <4>1 DEF Whole
      <4>3. CASE f = Free /\ g \in {Free, Made}
        BY <3>3, <4>2, <4>3
      <4>4. ASSUME NEW n \in Nat, f = As("filled", n), g = f, Looser(n, r)
            PROVE  Yields(k, t, n)
        BY <4>1, <4>4 DEF Yields
      <4>5. QED BY <3>3, <4>1, <4>2, <4>3, <4>4
    <3>4. QED BY <1>2, <3>1, <3>2, <3>3 DEF Ending
  <2> HIDE DEF k
  <2>3. k \in NodeKinds \ {"None"} /\ Completes(ev, new, close, now, m, k)
    BY <2>2 DEF k
  <2>10. Ended(ev, file, ms, low, close, t, m, k, cur, seen, new, now)
    <3> DEFINE d == Append(b, f)
    <3>1. d \in Frames /\ Framed(ev, file, ms, Append(d, t), low, close, c, cur, seen)
      BY <1>2, <2>1
    <3> HIDE DEF d
    <3>2. Whole(k, t)
      BY <2>2
    <3>3. QED BY <2>3, <3>1, <3>2, FrameEnds
  <2>4. /\ Woven(new, Pop(ms), low, now) /\ Operated(new, file, low, now)
        /\ Stays(ev, file, low, close, new, file, low, now)
        /\ \A i, j \in Int : m > j => Same(ev, new, i, j)
        /\ m \in Nodes(new) /\ m \in Nat /\ now[m] = Len(new) /\ new[m].kind = k
        /\ NextFits(new, file, m, cur, seen)
        /\ \A n \in Nat : Yields(k, t, n) => RightOf(new, file, m, n)
    BY <2>10 DEF Ended
  <2>5. \/ f = Free /\ g \in {Free, Made}
        \/ f = Blank /\ g = Single /\ new[m].kind \notin Operations
        \/ \E n \in Nat : /\ f \in {As("lacking", n), As("filled", n)} /\ g = As("filled", n)
                          /\ RightOf(new, file, m, n)
    BY <2>2, <2>4
  <2>6. Framed(ev, file, ms, Append(Append(b, f), t), low, close, c, cur, seen)
    BY <1>2
  <2>7. /\ \A i, j \in Int : Top(ms) > j => Same(ev, new, i, j)
        /\ Top(ms) <= m /\ low[Top(ms)] <= low[m] /\ low[m] = low[Top(ms)]
    <3>1. m <= m /\ low[m] <= low[m]
      <4>1. low[m] \in Nat
        BY <2>4 DEF Places
      <4>2. QED BY <2>4, <4>1
    <3>2. QED BY <2>4, <3>1
  <2>8. Framed(new, file, Pop(ms), Append(b, g), low, now, m, cur, seen)
    BY <2>4, <2>5, <2>6, <2>7, FramesPopped
  <2>9. QED BY <1>2, <2>8
<1>3. QED
  <2>1. ASSUME NEW f, NEW g PROVE ~Staying(in, f, g)
    BY DEF Staying
  <2>2. ASSUME NEW f, NEW g, NEW t PROVE ~Entering(in, f, g, t)
    BY DEF Entering
  <2>3. QED BY <1>1, <1>2, <2>1, <2>2 DEF Turn

\* The innermost Marker is undone: what it stood for is a node that was completed, or nothing.
LEMMA FrameUndone ==
  ASSUME NEW ev \in Seq(EventRecord), NEW ms \in Seq(1..Len(ev)), NEW file \in Seq(TokenKinds),
         NEW fs \in Frames, NEW after \in Frames,
         NEW low \in Places, NEW close \in Places,
         NEW c, NEW cur, NEW seen, Framed(ev, file, ms, fs, low, close, c, cur, seen),
         NEW in, in.op = "Undo", Turn(in, fs, after)
  PROVE  Framed(ev, file, Pop(ms), after, low, close, c, cur, seen)
<1>1. ASSUME NEW b \in Frames, NEW f \in Frame, NEW g \in Frame, NEW t \in Frame,
             fs = Append(Append(b, f), t), after = Append(b, g), Ending(in, f, t, g)
      PROVE  Framed(ev, file, Pop(ms), after, low, close, c, cur, seen)
  <2> DEFINE inner == Append(b, f)
             m     == Top(ms)
             n     == Len(b) + 1
  <2>1. /\ inner \in Frames /\ Len(inner) = n /\ inner[n] = f /\ Len(b) \in Nat /\ n \in Nat
        /\ \A j \in 1..Len(b) : inner[j] = b[j]
    BY FrameAdded
  <2>2. Framed(ev, file, ms, Append(inner, t), low, close, c, cur, seen)
    BY <1>1
  <2> HIDE DEF inner, n
  <2>3. /\ Len(ms) = Len(inner) + 1 /\ Top(ms) = ms[Len(inner) + 1] /\ Top(ms) \in 1..Len(ev)
        /\ Len(inner) \in Nat
        /\ Atop(ev, file, low, close, t, Top(ms), c, cur, seen)
        /\ \A j \in 1..Len(inner) :
             /\ ms[j] \in 1..Len(ev) /\ ms[j + 1] \in 1..Len(ev)
             /\ ms[j] < low[ms[j + 1]] /\ low[ms[j + 1]] \in 1..ms[j + 1]
             /\ low[ms[j + 1]] \in 1..Len(ev)
             /\ Below(ev, file, low, close, inner[j], ms[j], low[ms[j + 1]])
    <3> HIDE DEF m
    <3>1. /\ Len(inner) \in Nat /\ Len(ms) = Len(inner) + 1 /\ Top(ms) = ms[Len(inner) + 1]
          /\ Top(ms) \in 1..Len(ev)
          /\ Atop(ev, file, low, close, t, Top(ms), c, cur, seen)
          /\ \A j \in 1..Len(inner) :
               /\ ms[j] \in 1..Len(ev) /\ ms[j + 1] \in 1..Len(ev)
               /\ ms[j] < low[ms[j + 1]] /\ low[ms[j + 1]] \in 1..ms[j + 1]
               /\ low[ms[j + 1]] \in 1..Len(ev)
               /\ Below(ev, file, low, close, inner[j], ms[j], low[ms[j + 1]])
      <4>1. inner \in Frames
        BY <2>1
      <4>2. QED BY <2>2, <4>1, InnerFrames
    <3>2. QED BY <3>1
  <2>4. /\ Woven(ev, ms, low, close) /\ Operated(ev, file, low, close) /\ ms # <<>>
        /\ Held(ev, ms, low, close) /\ Extents(ev, low, close)
    <3>1. ms # <<>>
      BY <2>3
    <3>2. QED BY <2>2, <3>1 DEF Framed, Woven
  <2>5. Woven(ev, Pop(ms), low, close)
    BY <2>4, WovenUndone
  <2>6. CASE t = Free /\ f = Free /\ g = Free
    <3>1. /\ Pop(ms) \in Seq(1..Len(ev)) /\ Len(Pop(ms)) = Len(b) + 1
          /\ \A j \in 1..(Len(b) + 1) : Pop(ms)[j] = ms[j]
      <4>1. /\ Pop(ms) \in Seq(1..Len(ev)) /\ Len(Pop(ms)) = Len(ms) - 1
            /\ \A j \in 1..(Len(ms) - 1) : Pop(ms)[j] = ms[j]
        BY <2>4, PopTyped
      <4>2. Len(ms) - 1 = Len(b) + 1
        BY <2>1, <2>3 DEF n
      <4>3. QED BY <4>1, <4>2
    <3>2. \A j \in 1..Len(b) : Below(ev, file, low, close, b[j], Pop(ms)[j], low[Pop(ms)[j + 1]])
      <4>1. \A j \in 1..Len(b) : j \in 1..Len(inner) /\ j \in 1..(Len(b) + 1) /\ j + 1 \in 1..(Len(b) + 1)
        BY <2>1 DEF n
      <4>2. QED BY <2>1, <2>3, <3>1, <4>1
    <3>3. Atop(ev, file, low, close, g, Pop(ms)[Len(b) + 1], c, cur, seen)
      BY <2>6, StatesSay DEF Atop
    <3>4. QED BY <1>1, <2>4, <2>5, <3>1, <3>2, <3>3, FramesMade
  <2>7. CASE t = Single /\ Takes(f, g)
    <3>1. /\ low[m] = m /\ c \in Nodes(ev) /\ m + 1 <= low[c] /\ close[c] = Len(ev)
          /\ Clear(ev, m + 1, low[c] - 1) /\ ev[c].kind \notin Operations
      BY <2>3, <2>7, StatesSay DEF Atop, One
    <3>2. /\ m \in Nat /\ c \in Nat /\ low[c] \in Nat /\ low[c] <= c /\ m <= c /\ low[m] <= low[c]
          /\ Len(ev) \in Nat /\ m \in 1..Len(ev)
      <4>1. m \in 1..Len(ev) /\ Len(ev) \in Nat /\ c \in Nat
        BY <2>3, <3>1, NodesThere
      <4>2. low[c] \in 1..c
        BY <2>4, <3>1 DEF Extents
      <4>3. QED BY <3>1, <4>1, <4>2
    <3>3. ~IsLive(ev[m]) /\ ~Eats(ev, m)
      <4>1. Len(ms) \in 1..Len(ms) /\ m = ms[Len(ms)]
        BY <2>3 DEF Top
      <4>2. ev[m].type = "NodeStart" /\ ev[m].kind = "None"
        BY <2>4, <4>1 DEF Held
      <4>3. QED BY <4>2 DEF IsLive, Eats
    <3>4. ASSUME NEW i, Clear(ev, i, m - 1) PROVE Clear(ev, i, low[c] - 1)
      <4>1. \A q \in 1..Len(ev) : q <= low[c] - 1 => q <= m - 1 \/ q = m \/ (m + 1 <= q /\ q <= low[c] - 1)
        BY <3>2
      <4>2. QED BY <3>1, <3>3, <3>4, <4>1 DEF Clear
    <3>5. Below(ev, file, low, close, f, ms[n], m)
      <4>1. n \in 1..Len(inner) /\ n + 1 = Len(inner) + 1
        BY <2>1 DEF n
      <4>2. QED BY <2>1, <2>3, <3>1, <4>1
    <3>6. Below(ev, file, low, close, f, ms[n], low[c])
      <4>1. f.at = "bare" => low[ms[n]] = ms[n] /\ Clear(ev, ms[n] + 1, low[c] - 1)
        BY <3>4, <3>5 DEF Below
      <4>2. ASSUME f.at \in {"lacking", "filled"}
            PROVE  /\ Operates(ev, file, low, close, ms[n], f.lim) /\ ms[n] + 2 <= low[c]
                   /\ Clear(ev, ms[n] + 2, low[c] - 1)
        <5>1. /\ Operates(ev, file, low, close, ms[n], f.lim) /\ ms[n] + 2 <= m
              /\ Clear(ev, ms[n] + 2, m - 1)
          BY <3>5, <4>2 DEF Below
        <5>2. ms[n] \in Nat
          <6>1. n \in 1..Len(inner)
            BY <2>1 DEF n
          <6>2. ms[n] \in 1..Len(ev)
            BY <2>3, <6>1
          <6>3. QED BY <6>2
        <5>3. QED BY <3>1, <3>2, <3>4, <5>1, <5>2
      <4>3. QED BY <4>1, <4>2 DEF Below
    <3>7. NextFits(ev, file, c, cur, seen) /\ \A j \in Nat : RightOf(ev, file, c, j)
      BY <3>1 DEF NextFits, RightOf, Operations
    <3>8. /\ Stays(ev, file, low, close, ev, file, low, close)
          /\ \A i, j \in Int : Top(ms) > j => Same(ev, ev, i, j)
      BY <3>2 DEF Stays, Same
    <3>9. \/ f = Free /\ g \in {Free, Made}
          \/ f = Blank /\ g = Single /\ ev[c].kind \notin Operations
          \/ \E j \in Nat : /\ f \in {As("lacking", j), As("filled", j)} /\ g = As("filled", j)
                            /\ RightOf(ev, file, c, j)
      BY <2>7, <3>1, <3>7 DEF Takes
    <3>10. Framed(ev, file, ms, Append(Append(b, f), t), low, close, c, cur, seen)
      BY <1>1
    <3>11. Top(ms) <= c /\ low[Top(ms)] <= low[c] /\ Below(ev, file, low, close, f, ms[Len(b) + 1], low[c])
      BY <3>2, <3>6 DEF n
    <3>12. Framed(ev, file, Pop(ms), Append(b, g), low, close, c, cur, seen)
      BY <2>4, <2>5, <3>1, <3>7, <3>8, <3>9, <3>10, <3>11, FramesPopped
    <3>13. QED BY <1>1, <3>12
  <2>8. QED BY <1>1, <2>6, <2>7 DEF Ending
<1>2. ASSUME NEW f, NEW g PROVE ~Staying(in, f, g)
  BY DEF Staying
<1>3. ASSUME NEW f, NEW g, NEW t PROVE ~Entering(in, f, g, t)
  BY DEF Entering
<1>4. QED BY <1>1, <1>2, <1>3 DEF Turn

\* More of the file is known, and with it the next token.
LEMMA FramesSee ==
  ASSUME NEW ev \in Seq(EventRecord), NEW ms \in Seq(1..Len(ev)), NEW file \in Seq(TokenKinds),
         NEW b \in Frames, NEW f \in Frame, NEW low \in Places, NEW close \in Places,
         NEW c, NEW cur, NEW seen, Framed(ev, file, ms, Append(b, f), low, close, c, cur, seen),
         NEW longer \in Seq(TokenKinds), Len(file) <= Len(longer),
         \A i \in 1..Len(file) : longer[i] = file[i],
         NEW tok, NEW known, (seen = TRUE \/ cur \in Binary) => tok = cur /\ known = TRUE,
         seen \in BOOLEAN
  PROVE  Framed(ev, longer, ms, Append(b, f), low, close, c, tok, known)
<1>1. /\ Top(ms) \in 1..Len(ev) /\ Atop(ev, file, low, close, f, Top(ms), c, cur, seen)
  BY InnerFrames
<1>2. /\ Stays(ev, file, low, close, ev, longer, low, close) /\ \A i, j : Same(ev, ev, i, j)
  BY DEF Stays, Same
<1>3. Woven(ev, ms, low, close) /\ Extents(ev, low, close)
  BY DEF Framed, Woven
<1> DEFINE m == Top(ms)
<1>4. /\ Len(ev) \in Nat /\ m \in 1..Len(ev)
      /\ \A x \in Nodes(ev) : low[x] <= x
  BY <1>1, <1>3, NodesThere DEF Extents
<1>5. /\ \A q \in Nodes(ev) : \A op : LeftOf(ev, file, q, op) => LeftOf(ev, longer, q, op)
      /\ \A q \in Nodes(ev) : \A r : RightOf(ev, file, q, r) => RightOf(ev, longer, q, r)
      /\ \A r : Operates(ev, file, low, close, m, r) => Operates(ev, longer, low, close, m, r)
  BY <1>2, <1>4, FactsStay
<1>6. ASSUME NEW i, NEW x, NEW j, One(ev, low, close, i, x, j)
      PROVE  One(ev, low, close, i, x, j) /\ x \in Nodes(ev)
  BY <1>6 DEF One
<1>7. ASSUME c \in Nodes(ev), NextFits(ev, file, c, cur, seen)
      PROVE  NextFits(ev, longer, c, tok, known)
  BY <1>5, <1>7 DEF NextFits
<1>8. Atop(ev, longer, low, close, f, m, c, tok, known)
  <2>1. f.at \in {"bare", "lacking"} => Below(ev, longer, low, close, f, m, Len(ev) + 1)
    BY <1>1, <1>5 DEF Atop, Below
  <2>2. f.at = "single" =>
          low[m] = m /\ One(ev, low, close, m + 1, c, Len(ev)) /\ ev[c].kind \notin Operations
    BY <1>1 DEF Atop
  <2>3. f.at = "made" =>
          c \in Nodes(ev) /\ close[c] = Len(ev) /\ NextFits(ev, longer, c, tok, known)
    BY <1>1, <1>7 DEF Atop
  <2>4. ASSUME f.at = "operator"
        PROVE  /\ m = Len(ev)
               /\ f.lim = UNARY_PRIORITY => low[m] = m
               /\ f.lim # UNARY_PRIORITY =>
                    /\ tok \in Binary /\ priority[tok].right = f.lim
                    /\ \E q \in Nodes(ev) : Around(ev, longer, low, close, m, q, tok)
    <3>1. m = Len(ev) /\ (f.lim = UNARY_PRIORITY => low[m] = m)
      BY <1>1, <2>4 DEF Atop
    <3>2. ASSUME f.lim # UNARY_PRIORITY
          PROVE  /\ tok \in Binary /\ priority[tok].right = f.lim
                 /\ \E q \in Nodes(ev) : Around(ev, longer, low, close, m, q, tok)
      <4>1. /\ cur \in Binary /\ priority[cur].right = f.lim
            /\ \E q \in Nodes(ev) : Around(ev, file, low, close, m, q, cur)
        BY <1>1, <2>4, <3>2 DEF Atop
      <4>2. PICK q \in Nodes(ev) : Around(ev, file, low, close, m, q, cur)
        BY <4>1
      <4>3. Around(ev, longer, low, close, m, q, cur) /\ tok = cur
        BY <1>5, <4>1, <4>2 DEF Around
      <4>4. QED BY <4>1, <4>3
    <3>3. QED BY <3>1, <3>2
  <2>5. f.at \in {"filled", "closed"} =>
          /\ Operates(ev, longer, low, close, m, f.lim)
          /\ One(ev, low, close, m + 2, c, Len(ev)) /\ RightOf(ev, longer, c, f.lim)
    BY <1>1, <1>5, <1>6 DEF Atop
  <2>6. f.at = "filled" => NextFits(ev, longer, c, tok, known)
    BY <1>1, <1>6, <1>7 DEF Atop
  <2>7. f.at = "closed" => known /\ ~Binds(tok, f.lim)
    BY <1>1 DEF Atop
  <2>8. f.ahead # 0 => tok \in Binary /\ priority[tok].right = f.ahead
    BY <1>1 DEF Atop
  <2>9. QED BY <2>1, <2>2, <2>3, <2>4, <2>5, <2>6, <2>7, <2>8 DEF Atop
<1>9. QED BY <1>2, <1>3, <1>8, FrameTurns

\* When a rule looks at the next token, the innermost open node is seen as another.
LEMMA FrameSeenAs ==
  ASSUME NEW ev \in Seq(EventRecord), NEW ms \in Seq(1..Len(ev)), NEW file \in Seq(TokenKinds),
         NEW b \in Frames, NEW f \in Frame, NEW t \in Frame,
         NEW low \in Places, NEW close \in Places,
         NEW c, NEW cur, NEW seen, seen = TRUE, Framed(ev, file, ms, Append(b, f), low, close, c, cur, seen),
         NEW rule, NEW arg \in Nat, SeenAs(rule, arg, cur, f, t)
  PROVE  Framed(ev, file, ms, Append(b, t), low, close, c, cur, seen)
<1>1. Atop(ev, file, low, close, f, Top(ms), c, cur, seen)
  BY InnerFrames
<1>2. /\ Stays(ev, file, low, close, ev, file, low, close) /\ \A i, j : Same(ev, ev, i, j)
  BY DEF Stays, Same
<1>3. Woven(ev, ms, low, close)
  BY DEF Framed
<1> DEFINE m == Top(ms)
<1>4. Atop(ev, file, low, close, t, m, c, cur, seen)
  <2>1. CASE t = f
    BY <1>1, <2>1
  <2>2. CASE t = Free
    BY <2>2, StatesSay DEF Atop
  <2>3. CASE /\ f \in {Made, As("filled", arg)} /\ Binds(cur, arg)
             /\ t = Facing(f, priority[cur].right)
    <3>1. cur \in Binary /\ priority[cur].right \in Nat
      BY <2>3, RightSaysLeft DEF Binds
    <3>2. t.at = f.at /\ t.lim = f.lim /\ t.ahead = priority[cur].right
      BY <2>3, <3>1, StatesSay
    <3>3. f.at \in {"made", "filled"}
      BY <2>3, StatesSay
    <3>4. QED BY <1>1, <3>1, <3>2, <3>3 DEF Atop
  <2>4. CASE f = As("filled", arg) /\ t = As("closed", arg) /\ ~Binds(cur, arg)
    <3>1. f.at = "filled" /\ f.lim = arg /\ t.at = "closed" /\ t.lim = arg /\ t.ahead = 0
      BY <2>4, StatesSay
    <3>2. QED BY <1>1, <2>4, <3>1 DEF Atop
  <2>5. QED BY <2>1, <2>2, <2>3, <2>4 DEF SeenAs
<1>5. QED BY <1>2, <1>3, <1>4, FrameTurns

\* The node completed last ends with the last event where another may be put around it.
LEMMA MadeIsNode ==
  ASSUME NEW ev \in Seq(EventRecord), NEW ms \in Seq(1..Len(ev)), NEW file,
         NEW b \in Frames, NEW f \in Frame, NEW low \in Places, NEW close,
         NEW c, NEW cur, NEW seen, Framed(ev, file, ms, Append(b, f), low, close, c, cur, seen),
         NEW g, NEW t,
         \/ f = Made /\ g = Free /\ t = Free
         \/ \E r \in Nat \ {0, UNARY_PRIORITY} :
              /\ t = As("operator", r)
              /\ \/ f = Facing(Made, r) /\ g = Free
                 \/ \E n \in Nat : f = Facing(As("filled", n), r) /\ g = As("filled", n)
  PROVE  f.at \in {"made", "filled"} /\ c \in Nodes(ev)
<1>1. f.at \in {"made", "filled"}
  <2>1. \A n \in Nat : As("filled", n) \in Frame /\ Made \in Frame
    BY FramesTyped
  <2>2. ASSUME NEW n \in Nat, NEW r \in Nat
        PROVE  Facing(As("filled", n), r).at = "filled" /\ Facing(Made, r).at = "made"
    <3>1. Facing(As("filled", n), r).at = As("filled", n).at /\ Facing(Made, r).at = Made.at
      BY <2>1, StatesSay
    <3>2. QED BY <3>1, StatesSay
  <2>3. CASE f = Made
    BY <2>3, StatesSay
  <2>4. CASE f # Made
    BY <2>2, <2>4
  <2>5. QED BY <2>3, <2>4
<1>2. Atop(ev, file, low, close, f, Top(ms), c, cur, seen)
  BY InnerFrames
<1>3. QED BY <1>1, <1>2 DEF Atop, One

-----------------------------------------------------------------------------
(* The operators while a file is parsed without errors. *)

\* The next token is known.
Seen == ended \/ Position <= Len(tokens)

\* What is left to do completes the open nodes, of which the frames fs are told.
FramesAt(fs, low, close) ==
  /\ Framed(events, tokens, marks, fs, low, close, completed, Current, Seen)
  /\ Passes(todo, fs, <<>>)

FramesLead == \E fs \in Frames, low \in Places, close \in Places : FramesAt(fs, low, close)

WellFramed == phase = "parse" /\ Clean /\ events # <<>> => FramesLead

\* The next instruction leads from the frames fs to others.
Turning(fs, after, low, close) ==
  /\ Framed(events, tokens, marks, fs, low, close, completed, Current, Seen)
  /\ Turn(Instr, fs, after) /\ Passes(Tail(todo), after, <<>>)

LEMMA FramesGoOn ==
  ASSUME IInv, FramesLead, todo # <<>>, Instr.op # "Error"
  PROVE  \E fs \in Frames, after \in Frames, low \in Places, close \in Places :
           Turning(fs, after, low, close)
<1>1. todo \in Program /\ Instr = Head(todo)
  BY DEF IInv, TypeOK, Program, Instr
<1>2. PICK fs \in Frames, low \in Places, close \in Places : FramesAt(fs, low, close)
  BY DEF FramesLead
<1>3. <<>> \in Frames
  BY DEF Frames
<1>4. Passes(todo, fs, <<>>)
  BY <1>2 DEF FramesAt
<1>5. PICK after \in Frames : Turn(Instr, fs, after) /\ Passes(Tail(todo), after, <<>>)
  BY <1>1, <1>3, <1>4, PassesFirst
<1>6. Turning(fs, after, low, close)
  BY <1>2, <1>5 DEF Turning, FramesAt
<1>7. QED BY <1>6

\* What the next token is depends on the file and on what was read of it.
LEMMA SameSight ==
  ASSUME tokens' = tokens, tokenIndex' = tokenIndex, ended' = ended
  PROVE  Current' = Current /\ Seen' = Seen
BY DEF Current, Position, TokenAt, Seen

\* The rest of the block of a file.
LEMMA BlockPasses == Passes(Tail(Block), <<Free>>, <<>>)
<1> DEFINE do   == [op |-> "Do", what |-> "StatementList", arg |-> 0]
           mark == [op |-> "Mark", what |-> "none", arg |-> 0]
<1>1. Do("StatementList") = DoWith("StatementList", 0) /\ Do("StatementList") = <<do>>
  BY DEF Do, DoWith, Instruction
<1>2. Complete("Block") = <<BlockEnd>> /\ Mark = <<mark>>
  BY DEF Complete, Instruction, BlockEnd, Mark
<1>3. "StatementList" \in Rules \ (Closing \union Undoing \union {"BinaryOperators"})
      /\ "Block" \in NodeKinds \ (Operations \union {"None"})
  BY DEF Rules, StatementRules, Closing, Undoing, NodeKinds, Operations
<1>4. do \in Instructions /\ BlockEnd \in Instructions
  BY <1>3 DEF Instructions, BlockEnd, Rules
<1>5. /\ <<>> \in Frames /\ Free \in Frame /\ <<Free>> = Append(<<>>, Free)
      /\ <<Free>> \in Frames
  BY FramesTyped DEF Frames
<1>6. Turn(do, <<Free>>, <<Free>>)
  <2>1. Staying(do, Free, Free)
    BY <1>3 DEF Staying
  <2>2. QED BY <1>5, <2>1 DEF Turn
<1>7. Turn(BlockEnd, <<Free>>, <<>>)
  BY <1>3 DEF Turn, BlockEnd
<1> HIDE DEF do, mark
<1>8. <<do>> \in Program /\ <<BlockEnd>> \in Program
  BY <1>4 DEF Program
<1>9. Passes(<<do>>, <<Free>>, <<Free>>) /\ Passes(<<BlockEnd>>, <<Free>>, <<>>)
  BY <1>4, <1>5, <1>6, <1>7, PassesOne
<1>10. Passes(<<do>> \o <<BlockEnd>>, <<Free>>, <<>>)
  BY <1>5, <1>8, <1>9, PassesOn
<1>11. Block = <<mark>> \o <<do>> \o <<BlockEnd>>
  BY <1>1, <1>2 DEF Block
<1>12. Tail(Block) = <<do>> \o <<BlockEnd>>
  BY <1>11
<1>13. QED BY <1>10, <1>12

\* The block of the file is opened.
LEMMA BlockFrames ==
  ASSUME IInv, OpenMarker, events = <<>>, marks = <<>>, todo = Block
  PROVE  FramesLead'
<1> DEFINE low == [n \in Nat |-> n]
<1>1. /\ events' = Append(<<>>, NodeStart) /\ marks' = Append(<<>>, Len(<<>>) + 1)
      /\ todo' = Tail(Block)
  BY DEF OpenMarker
<1>2. low \in Places /\ \A n \in Nat : low[n] = n
  BY DEF Places
<1> HIDE DEF low
<1>3. <<>> \in Seq(EventRecord) /\ Len(<<>>) = 0 /\ <<>> \in Seq(1..Len(<<>>)) /\ Linked(<<>>)
  BY DEF Linked
<1>4. Nodes(<<>>) = {} /\ PlacesOf(<<>>) = {}
  BY <1>3 DEF Nodes, PlacesOf
<1>5. Woven(<<>>, <<>>, low, low)
  <2>1. Extents(<<>>, low, low)
    BY <1>3, <1>4 DEF Extents
  <2>2. Held(<<>>, <<>>, low, low)
    BY <1>3 DEF Held
  <2>3. Chained(<<>>, <<>>, low, low)
    BY <1>3, <1>4 DEF Chained
  <2>4. QED BY <2>1, <2>2, <2>3 DEF Woven
<1>6. /\ events' \in Seq(EventRecord) /\ Len(events') = 1 /\ events'[1] = NodeStart
      /\ marks' = Append(<<>>, 1)
  BY <1>1, <1>3, EventsTyped
<1>7. Begins(<<>>, events', low, low)
  <2>1. Agree(<<>>, low, low) /\ low[1] = 1
    BY <1>2 DEF Agree
  <2>2. QED BY <1>3, <1>6, <2>1 DEF Begins
<1>8. Woven(events', marks', low, low) /\ Prolongs(<<>>, events')
  <2> DEFINE none == <<>>
  <2>1. /\ none \in Seq(EventRecord) /\ none \in Seq(1..Len(none)) /\ Linked(none)
        /\ Woven(none, none, low, low) /\ Begins(none, events', low, low)
        /\ marks' = Append(none, Len(none) + 1)
    BY <1>1, <1>3, <1>5, <1>7
  <2> HIDE DEF none
  <2>2. Woven(events', Append(none, Len(none) + 1), low, low) /\ Prolongs(none, events')
    BY <1>2, <1>6, <2>1, WovenMarked
  <2>3. Woven(events', marks', low, low) /\ Prolongs(none, events')
    BY <2>1, <2>2
  <2>4. QED BY <2>3 DEF none
<1>9. Nodes(events') = {}
  <2>1. NodeStart.kind = "None"
    BY DEF NodeStart, Event
  <2>2. \A q \in 1..1 : q = 1
    OBVIOUS
  <2>3. QED BY <1>6, <2>1, <2>2 DEF Nodes, IsLive
<1>10. Framed(events', tokens', marks', <<Free>>, low, low, completed', Current', Seen')
  <2>1. Operated(events', tokens', low, low)
    BY <1>9 DEF Operated
  <2>2. Len(<<Free>>) = 1 /\ Len(marks') = 1 /\ <<Free>>[1] = Free /\ <<Free>> # <<>>
    BY <1>6
  <2>3. \A k \in 1..(Len(<<Free>>) - 1) : FALSE
    BY <2>2
  <2>4. Atop(events', tokens', low, low, Free, marks'[1], completed', Current', Seen')
    BY StatesSay DEF Atop
  <2>5. QED BY <1>8, <2>1, <2>2, <2>3, <2>4 DEF Framed
<1>11. <<Free>> \in Frames
  BY FramesTyped DEF Frames
<1>12. FramesAt(<<Free>>, low, low)'
  BY <1>1, <1>10, BlockPasses DEF FramesAt
<1>13. QED BY <1>2, <1>11, <1>12 DEF FramesLead

\* A Marker is opened.
LEMMA MarkFrames ==
  ASSUME IInv, FramesLead, OpenMarker
  PROVE  FramesLead'
<1> DEFINE l == Len(events) + 1
<1>1. /\ Instr.op = "Mark" /\ todo # <<>> /\ events' = Append(events, NodeStart)
      /\ marks' = Append(marks, l) /\ todo' = Tail(todo) /\ completed' = completed
      /\ tokens' = tokens /\ tokenIndex' = tokenIndex /\ ended' = ended
  BY DEF OpenMarker, Runs, Input
<1>2. PICK fs \in Frames, after \in Frames, low \in Places, close \in Places :
        Turning(fs, after, low, close)
  BY <1>1, FramesGoOn
<1>3. PICK b \in Frames, f \in Frame, g \in Frame, t \in Frame :
        /\ fs = Append(b, f) /\ after = Append(Append(b, g), t) /\ f \in Holding /\ g = f
        /\ t \in {Free, Blank, As("operator", UNARY_PRIORITY)}
  <2>1. Turn(Instr, fs, after)
    BY <1>2 DEF Turning
  <2>2. ASSUME NEW f, NEW g PROVE ~Staying(Instr, f, g)
    BY <1>1 DEF Staying
  <2>3. ASSUME NEW f, NEW g, NEW t PROVE ~Ending(Instr, f, t, g)
    BY <1>1 DEF Ending
  <2>4. QED BY <1>1, <2>1, <2>2, <2>3 DEF Turn, Entering
<1>4. /\ events \in Seq(EventRecord) /\ marks \in Seq(1..Len(events)) /\ Linked(events)
      /\ Len(events) \in Nat /\ l \in Nat /\ tokens \in Seq(TokenKinds)
  BY <1>1, WhileParsing
<1>5. PICK now \in Places : now[l] = l /\ \A q \in Nat : q # l => now[q] = low[q]
  <2>1. \A was \in Places, i \in Nat, n \in Nat :
          \E set \in Places : set[i] = n /\ \A q \in Nat : q # i => set[q] = was[q]
    BY PlaceSet
  <2> HIDE DEF l
  <2>2. QED BY <1>4, <2>1
<1>6. /\ events' \in Seq(EventRecord) /\ Begins(events, events', low, now)
  <2>1. /\ events' \in Seq(EventRecord) /\ Len(events') = l /\ events'[l] = NodeStart
        /\ \A q \in 1..Len(events) : events'[q] = events[q]
    BY <1>1, <1>4, EventsTyped, EventAdded
  <2>2. \A q \in 1..Len(events) : q \in Nat /\ q # l
    BY <1>4
  <2>3. Agree(events, low, now)
    BY <1>5, <2>2 DEF Agree
  <2>4. QED BY <1>5, <2>1, <2>3 DEF Begins
<1>7. Framed(events, tokens, marks, Append(b, f), low, close, completed, Current, Seen)
  BY <1>2, <1>3 DEF Turning
<1>8. Framed(events', tokens, Append(marks, Len(events) + 1), Append(Append(b, f), t), now, close,
             completed, Current, Seen)
  BY <1>3, <1>4, <1>6, <1>7, FrameMarked
<1>9. Framed(events', tokens', marks', after, now, close, completed', Current', Seen')
  BY <1>1, <1>3, <1>8, SameSight
<1>10. FramesAt(after, now, close)'
  BY <1>1, <1>2, <1>9 DEF FramesAt, Turning
<1>11. QED BY <1>2, <1>5, <1>10 DEF FramesLead

\* A Marker is opened around the node completed last.
LEMMA PrecedeFrames ==
  ASSUME IInv, FramesLead, PrecedeNode
  PROVE  FramesLead'
<1> DEFINE l == Len(events) + 1
           c == completed
<1>1. /\ Instr.op = "Precede" /\ todo # <<>>
      /\ events' = Append(IF events[c].type = "NodeStart"
                          THEN WithParent(events, c, l) ELSE events, NodeStart)
      /\ marks' = Append(marks, l) /\ todo' = Tail(todo) /\ completed' = completed
      /\ tokens' = tokens /\ tokenIndex' = tokenIndex /\ ended' = ended
  BY DEF PrecedeNode, PrecedeAs, Runs, Input, WithParent
<1>2. PICK fs \in Frames, after \in Frames, low \in Places, close \in Places :
        Turning(fs, after, low, close)
  BY <1>1, FramesGoOn
<1>3. PICK b \in Frames, f \in Frame, g \in Frame, t \in Frame :
        /\ fs = Append(b, f) /\ after = Append(Append(b, g), t)
        /\ \/ f = Made /\ g = Free /\ t = Free
           \/ \E r \in Nat \ {0, UNARY_PRIORITY} :
                /\ t = As("operator", r)
                /\ \/ f = Facing(Made, r) /\ g = Free
                   \/ \E n \in Nat : f = Facing(As("filled", n), r) /\ g = As("filled", n)
  <2>1. Turn(Instr, fs, after)
    BY <1>2 DEF Turning
  <2>2. ASSUME NEW f, NEW g PROVE ~Staying(Instr, f, g)
    BY <1>1 DEF Staying
  <2>3. ASSUME NEW f, NEW g, NEW t PROVE ~Ending(Instr, f, t, g)
    BY <1>1 DEF Ending
  <2>4. PICK b \in Frames, f \in Frame, g \in Frame, t \in Frame :
          fs = Append(b, f) /\ after = Append(Append(b, g), t) /\ Entering(Instr, f, g, t)
    BY <1>1, <2>1, <2>2, <2>3 DEF Turn
  <2>5. \/ f = Made /\ g = Free /\ t = Free
        \/ \E r \in Nat \ {0, UNARY_PRIORITY} :
             /\ t = As("operator", r)
             /\ \/ f = Facing(Made, r) /\ g = Free
                \/ \E n \in Nat : f = Facing(As("filled", n), r) /\ g = As("filled", n)
    BY <1>1, <2>4 DEF Entering
  <2>6. QED BY <2>4, <2>5
<1>4. /\ events \in Seq(EventRecord) /\ marks \in Seq(1..Len(events)) /\ Linked(events)
      /\ Len(events) \in Nat /\ l \in Nat /\ tokens \in Seq(TokenKinds) /\ c \in Nat
  BY <1>1, WhileParsing
<1>5. Framed(events, tokens, marks, Append(b, f), low, close, c, Current, Seen)
  BY <1>2, <1>3 DEF Turning
<1>6. c \in Nodes(events)
  BY <1>3, <1>4, <1>5, MadeIsNode
<1>7. events[c].type = "NodeStart" /\ c \in 1..Len(events)
  BY <1>6 DEF Nodes, IsLive
<1> DEFINE mid == WithParent(events, c, l)
<1>8. PICK now \in Places : now[l] = low[c] /\ \A q \in Nat : q # l => now[q] = low[q]
  <2>1. low[c] \in Nat
    BY <1>4 DEF Places
  <2>3. PICK i \in Nat, n \in Nat : i = l /\ n = low[c]
    BY <1>4, <2>1, Zenon
  <2>4. PICK set \in Places : set[i] = n /\ \A q \in Nat : q # i => set[q] = low[q]
    BY PlaceSet
  <2> HIDE DEF l, c
  <2>5. QED BY <2>3, <2>4, Zenon
<1>9. /\ mid \in Seq(EventRecord) /\ Len(mid) = Len(events)
      /\ \A q \in 1..Len(events) :
           /\ mid[q].type = events[q].type /\ mid[q].index = events[q].index
           /\ mid[q].parent = IF q = c THEN l ELSE events[q].parent
           /\ mid[q].kind = events[q].kind
  <2> HIDE DEF c, l
  <2>1. /\ mid \in Seq(EventRecord) /\ Len(mid) = Len(events)
        /\ \A q \in 1..Len(events) :
             /\ mid[q].type = events[q].type /\ mid[q].index = events[q].index
             /\ mid[q].parent = IF q = c THEN l ELSE events[q].parent
    BY <1>4, ParentSet
  <2>2. \A q \in 1..Len(events) : mid[q].kind = events[q].kind
    BY <1>4, ParentKeepsKind
  <2>3. QED BY <2>1, <2>2
<1>10. events' = Append(mid, NodeStart)
  BY <1>1, <1>7
<1> HIDE DEF mid, c
<1>11. /\ events' \in Seq(EventRecord) /\ Precedes(events, events', low, now, c)
  <2>1. /\ events' \in Seq(EventRecord) /\ Len(events') = Len(mid) + 1
        /\ events'[Len(mid) + 1] = NodeStart /\ \A q \in 1..Len(mid) : events'[q] = mid[q]
    BY <1>9, <1>10, EventsTyped, EventAdded
  <2>2. \A q \in 1..Len(events) : q \in Nat /\ q # l
    BY <1>4
  <2>3. Agree(events, low, now)
    BY <1>8, <2>2 DEF Agree
  <2>4. \A q \in 1..Len(events) :
          /\ events'[q].type = events[q].type /\ events'[q].kind = events[q].kind
          /\ events'[q].index = events[q].index
          /\ events'[q].parent = IF q = c THEN Len(events) + 1 ELSE events[q].parent
    BY <1>9, <2>1
  <2>5. QED BY <1>8, <1>9, <2>1, <2>3, <2>4 DEF Precedes
<1>12. Framed(events', tokens, Append(marks, Len(events) + 1), Append(Append(b, g), t), now, close,
              c, Current, Seen)
  BY <1>3, <1>4, <1>5, <1>11, FramePreceded
<1>13. Framed(events', tokens', marks', after, now, close, completed', Current', Seen')
  BY <1>1, <1>3, <1>12, SameSight DEF c
<1>14. FramesAt(after, now, close)'
  BY <1>1, <1>2, <1>13 DEF FramesAt, Turning
<1>15. QED BY <1>2, <1>8, <1>14 DEF FramesLead

\* The innermost Marker is completed.
LEMMA CompleteFrames ==
  ASSUME IInv, FramesLead, CompleteMarker
  PROVE  FramesLead'
<1> DEFINE m == Top(marks)
           k == Instr.what
<1>1. /\ Instr.op = "Complete" /\ todo # <<>> /\ marks # <<>>
      /\ events' = Append(WithKind(events, m, k), NodeEnd)
      /\ marks' = Pop(marks) /\ todo' = Tail(todo) /\ completed' = m
      /\ tokens' = tokens /\ tokenIndex' = tokenIndex /\ ended' = ended
  BY DEF CompleteMarker, CompleteAs, Runs, Input, WithKind
<1>2. PICK fs \in Frames, after \in Frames, low \in Places, close \in Places :
        Turning(fs, after, low, close)
  BY <1>1, FramesGoOn
<1>3. /\ events \in Seq(EventRecord) /\ marks \in Seq(1..Len(events)) /\ Linked(events)
      /\ Len(events) \in Nat /\ tokens \in Seq(TokenKinds) /\ k \in NodeKinds
  BY <1>1, WhileParsing, InstructionSays
<1>4. m \in 1..Len(events) /\ m \in Nat
  <2>1. m \in 1..Len(events)
    BY <1>1, <1>3, PopTyped
  <2>2. QED BY <1>3, <2>1
<1> DEFINE mid == WithKind(events, m, k)
<1>5. PICK now \in Places :
        now[m] = Len(events) + 1 /\ \A q \in Nat : q # m => now[q] = close[q]
  <2>1. Len(events) + 1 \in Nat
    BY <1>3
  <2>3. PICK i \in Nat, n \in Nat : i = m /\ n = Len(events) + 1
    BY <1>4, <2>1, Zenon
  <2>4. PICK set \in Places : set[i] = n /\ \A q \in Nat : q # i => set[q] = close[q]
    BY PlaceSet
  <2> HIDE DEF m
  <2>5. QED BY <2>3, <2>4, Zenon
<1>6. /\ mid \in Seq(EventRecord) /\ Len(mid) = Len(events)
      /\ \A q \in 1..Len(events) :
           /\ mid[q].type = events[q].type /\ mid[q].index = events[q].index
           /\ mid[q].parent = events[q].parent
           /\ mid[q].kind = IF q = m THEN k ELSE events[q].kind
  <2> HIDE DEF m, k
  <2>1. /\ mid \in Seq(EventRecord) /\ Len(mid) = Len(events)
        /\ \A q \in 1..Len(events) :
             /\ mid[q].type = events[q].type /\ mid[q].index = events[q].index
             /\ mid[q].parent = events[q].parent
    BY <1>3, <1>4, KindSet
  <2>2. \A q \in 1..Len(events) : mid[q].kind = IF q = m THEN k ELSE events[q].kind
    BY <1>3, <1>4, KindsSet
  <2>3. QED BY <2>1, <2>2
<1>7. events' = Append(mid, NodeEnd)
  BY <1>1
<1> HIDE DEF mid, m
<1>8. /\ events' \in Seq(EventRecord) /\ Completes(events, events', close, now, m, k)
  <2>1. /\ events' \in Seq(EventRecord) /\ Len(events') = Len(mid) + 1
        /\ events'[Len(mid) + 1] = NodeEnd /\ \A q \in 1..Len(mid) : events'[q] = mid[q]
    BY <1>6, <1>7, EventsTyped, EventAdded
  <2>2. \A q \in 1..Len(events) :
          /\ events'[q].type = events[q].type /\ events'[q].index = events[q].index
          /\ events'[q].parent = events[q].parent
          /\ events'[q].kind = IF q = m THEN k ELSE events[q].kind
    BY <1>6, <2>1
  <2>3. QED BY <1>5, <1>6, <2>1, <2>2 DEF Completes
<1>9. Framed(events, tokens, marks, fs, low, close, completed, Current, Seen) /\ Turn(Instr, fs, after)
  BY <1>2 DEF Turning
<1>10. Framed(events', tokens, Pop(marks), after, low, now, m, Current, Seen)
  <2>1. m = Top(marks)
    BY DEF m
  <2>2. QED BY <1>1, <1>3, <1>5, <1>8, <1>9, <2>1, FrameCompleted
<1>11. Framed(events', tokens', marks', after, low, now, completed', Current', Seen')
  BY <1>1, <1>10, SameSight
<1>12. FramesAt(after, low, now)'
  BY <1>1, <1>2, <1>11 DEF FramesAt, Turning
<1>13. QED BY <1>2, <1>5, <1>12 DEF FramesLead

\* The innermost Marker is undone.
LEMMA UndoFrames ==
  ASSUME IInv, FramesLead, UndoMarker
  PROVE  FramesLead'
<1>1. /\ Instr.op = "Undo" /\ todo # <<>> /\ marks # <<>>
      /\ events' = WithKind(events, Top(marks), "None")
      /\ marks' = Pop(marks) /\ todo' = Tail(todo) /\ completed' = completed
      /\ tokens' = tokens /\ tokenIndex' = tokenIndex /\ ended' = ended
  BY DEF UndoMarker, Runs, Input, WithKind
<1>2. PICK fs \in Frames, after \in Frames, low \in Places, close \in Places :
        Turning(fs, after, low, close)
  BY <1>1, FramesGoOn
<1>3. /\ events \in Seq(EventRecord) /\ marks \in Seq(1..Len(events)) /\ tokens \in Seq(TokenKinds)
  BY <1>1, WhileParsing
<1>4. Framed(events, tokens, marks, fs, low, close, completed, Current, Seen) /\ Turn(Instr, fs, after)
  BY <1>2 DEF Turning
<1>5. events' = events
  <2>1. Woven(events, marks, low, close)
    BY <1>4 DEF Framed
  <2>2. QED BY <1>1, <1>3, <2>1, WovenUndone
<1>6. Framed(events, tokens, Pop(marks), after, low, close, completed, Current, Seen)
  BY <1>1, <1>3, <1>4, FrameUndone
<1>7. Framed(events', tokens', marks', after, low, close, completed', Current', Seen')
  BY <1>1, <1>5, <1>6, SameSight
<1>8. FramesAt(after, low, close)'
  BY <1>1, <1>2, <1>7 DEF FramesAt, Turning
<1>9. QED BY <1>2, <1>8 DEF FramesLead

\* A token is read.
LEMMA EatFrames ==
  ASSUME IInv, FramesLead, phase = "parse", todo # <<>>, Instr.op \in {"Eat", "Check", "Test"},
         UNCHANGED <<Input, marks, completed>>, todo' = Tail(todo), Advance
  PROVE  FramesLead'
<1> DEFINE e == EatToken(Position)
<1>1. /\ events' = Append(events, e) /\ marks' = marks /\ completed' = completed
      /\ tokens' = tokens
  BY DEF Advance, Input
<1>2. PICK fs \in Frames, after \in Frames, low \in Places, close \in Places :
        Turning(fs, after, low, close)
  BY FramesGoOn
<1>3. PICK b \in Frames, f \in Frame, g \in Frame :
        /\ fs = Append(b, f) /\ after = Append(b, g)
        /\ \/ g = Free
           \/ \E n \in Nat : f = As("operator", n) /\ g = As("lacking", n)
  <2>1. Turn(Instr, fs, after)
    BY <1>2 DEF Turning
  <2>2. ASSUME NEW f, NEW g, NEW t PROVE ~Entering(Instr, f, g, t)
    BY DEF Entering
  <2>3. ASSUME NEW f, NEW g, NEW t PROVE ~Ending(Instr, f, t, g)
    BY DEF Ending
  <2>4. PICK b \in Frames, f \in Frame, g \in Frame :
          fs = Append(b, f) /\ after = Append(b, g) /\ Staying(Instr, f, g)
    BY <2>1, <2>2, <2>3 DEF Turn
  <2>5. g = Free \/ \E n \in Nat : f = As("operator", n) /\ g = As("lacking", n)
    BY <2>4 DEF Staying
  <2>6. QED BY <2>4, <2>5
<1>4. /\ events \in Seq(EventRecord) /\ marks \in Seq(1..Len(events)) /\ tokens \in Seq(TokenKinds)
      /\ tokenIndex \in Nat
  BY WhileParsing
<1>5. Position \in Nat \ {0} /\ Len(tokens) \in Nat
  <2>1. Position \in Nat \ {0}
    BY <1>4, SkipCommentTyped DEF Position
  <2>2. QED BY <1>4, <2>1
<1>6. e \in EventRecord /\ e.type = "EatToken" /\ e.parent = 0 /\ e.index = Position
  BY <1>5, EventsTyped DEF EatToken, Event
<1>7. Current \in Binary => e.index \in 1..Len(tokens) /\ tokens[e.index] = Current
  <2>1. Eof \notin Binary
    BY DEF Eof, Binary
  <2>2. QED BY <1>5, <1>6, <2>1 DEF Current, TokenAt
<1>8. Framed(events, tokens, marks, Append(b, f), low, close, completed, Current, Seen)
  BY <1>2, <1>3 DEF Turning
<1> HIDE DEF e
<1>9. Framed(events', tokens, marks, Append(b, g), low, close, completed, Current', Seen')
  BY <1>1, <1>3, <1>4, <1>6, <1>7, <1>8, FrameEats
<1>10. Framed(events', tokens', marks', after, low, close, completed', Current', Seen')
  BY <1>1, <1>3, <1>9
<1>11. FramesAt(after, low, close)'
  BY <1>2, <1>10 DEF FramesAt, Turning
<1>12. QED BY <1>2, <1>11 DEF FramesLead

\* A token is not read, as it is not the one that may come.
LEMMA TestFrames ==
  ASSUME IInv, FramesLead, phase = "parse", todo # <<>>, Instr.op \in {"Check", "Test"},
         UNCHANGED <<Input, marks, completed, events, tokenIndex>>, todo' = Tail(todo)
  PROVE  FramesLead'
<1>1. /\ events' = events /\ marks' = marks /\ completed' = completed
      /\ tokens' = tokens /\ ended' = ended /\ tokenIndex' = tokenIndex
  BY DEF Input
<1>2. PICK fs \in Frames, after \in Frames, low \in Places, close \in Places :
        Turning(fs, after, low, close)
  BY FramesGoOn
<1>3. after = fs
  <2>1. Turn(Instr, fs, after)
    BY <1>2 DEF Turning
  <2>2. ASSUME NEW f, NEW g, NEW t PROVE ~Entering(Instr, f, g, t)
    BY DEF Entering
  <2>3. ASSUME NEW f, NEW g, NEW t PROVE ~Ending(Instr, f, t, g)
    BY DEF Ending
  <2>4. ASSUME NEW f, NEW g, Staying(Instr, f, g) PROVE f = g
    BY <2>4 DEF Staying
  <2>5. QED BY <2>1, <2>2, <2>3, <2>4 DEF Turn
<1>4. Framed(events', tokens', marks', after, low, close, completed', Current', Seen')
  BY <1>1, <1>2, <1>3, SameSight DEF Turning
<1>5. FramesAt(after, low, close)'
  BY <1>2, <1>4 DEF FramesAt, Turning
<1>6. QED BY <1>2, <1>5 DEF FramesLead

\* A function is called.
LEMMA CallFrames ==
  ASSUME IInv, FramesLead, GlobalFunctionFree, Call
  PROVE  FramesLead'
<1> DEFINE p == Body(Instr.what, Instr.arg, Current, LookAhead)
<1>1. /\ Instr.op = "Do" /\ todo # <<>> /\ Ready /\ todo' = p \o Tail(todo)
      /\ events' = events /\ marks' = marks /\ completed' = completed
      /\ tokens' = tokens /\ ended' = ended /\ tokenIndex' = tokenIndex
  BY DEF Call, Runs, Input
<1>2. PICK fs \in Frames, after \in Frames, low \in Places, close \in Places :
        Turning(fs, after, low, close)
  BY <1>1, FramesGoOn
<1>3. /\ Instr.what \in Rules /\ Instr.arg \in Nat
      /\ Instr = [op |-> "Do", what |-> Instr.what, arg |-> Instr.arg]
      /\ Tail(todo) \in Program
  BY <1>1, WhileParsing, InstructionSays DEF Instructions, Program
<1>4. ~(Instr.what = "StatementList" /\ Current = "global" /\ LookAhead = "function")
  <2>1. SUFFICES ASSUME Current = "global", LookAhead = "function" PROVE FALSE
    OBVIOUS
  <2>2. Position \in Nat \ {0} /\ Len(tokens) \in Nat
    BY <1>1, WhileParsing, SkipCommentTyped DEF Position
  <2>3. Position <= Len(tokens) /\ tokens[Position] = "global"
    BY <2>1 DEF Current, TokenAt, Eof
  <2>4. QED BY <2>1, <2>2, <2>3 DEF GlobalFunctionFree, LookAhead
<1>5. p \in Program
  BY <1>3, BodyTyped
<1>6. Turn(Instr, fs, after) /\ Passes(Tail(todo), after, <<>>)
  BY <1>2 DEF Turning
<1>7. PICK b \in Frames, f \in Frame, t \in Frame :
        /\ fs = Append(b, f) /\ SeenAs(Instr.what, Instr.arg, Current, f, t)
        /\ Passes(p, Append(b, t), after)
  <2> DEFINE Goal(what, arg, token, body) ==
               \E b \in Frames, f \in Frame, t \in Frame :
                 /\ fs = Append(b, f) /\ SeenAs(what, arg, token, f, t)
                 /\ Passes(body, Append(b, t), after)
  <2>1. PICK rule, arg, token, ahead :
          rule = Instr.what /\ arg = Instr.arg /\ token = Current /\ ahead = LookAhead
    OBVIOUS
  <2>2. PICK in, body : /\ in = [op |-> "Do", what |-> rule, arg |-> arg]
                        /\ body = Body(rule, arg, token, ahead)
    OBVIOUS
  <2>3. /\ rule \in Rules /\ arg \in Nat /\ Turn(in, fs, after)
        /\ ~(rule = "StatementList" /\ token = "global" /\ ahead = "function")
    BY <1>3, <1>4, <1>6, <2>1, <2>2
  <2>4. Goal(rule, arg, token, body)
    BY <2>2, <2>3, BodyKeepsFrames
  <2>5. body = p
    BY <2>1, <2>2
  <2> HIDE DEF Goal, p
  <2>6. Goal(Instr.what, Instr.arg, Current, p)
    BY <2>1, <2>4, <2>5
  <2>7. QED BY <2>6 DEF Goal
<1> HIDE DEF p
<1>8. Seen = TRUE
  BY <1>1 DEF Ready, Looking, Seen
<1>9. /\ events \in Seq(EventRecord) /\ marks \in Seq(1..Len(events)) /\ tokens \in Seq(TokenKinds)
  BY <1>1, WhileParsing
<1>10. Framed(events, tokens, marks, Append(b, f), low, close, completed, Current, Seen)
  BY <1>2, <1>7 DEF Turning
<1>11. Framed(events, tokens, marks, Append(b, t), low, close, completed, Current, Seen)
  BY <1>3, <1>7, <1>8, <1>9, <1>10, FrameSeenAs
<1>12. PICK now \in Frames : now = Append(b, t)
  BY FrameAdded
<1>13. Framed(events', tokens', marks', now, low, close, completed', Current', Seen')
  BY <1>1, <1>11, <1>12, SameSight
<1>14. Passes(p \o Tail(todo), now, <<>>)
  <2>1. <<>> \in Frames
    BY DEF Frames
  <2>2. QED BY <1>3, <1>5, <1>6, <1>7, <1>12, <2>1, PassesOn
<1>15. FramesAt(now, low, close)'
  BY <1>1, <1>13, <1>14 DEF FramesAt
<1>16. QED BY <1>12, <1>15 DEF FramesLead

\* The next token is known, or the file is at its end.
LEMMA LexFrames ==
  ASSUME IInv, FramesLead, Lex
  PROVE  FramesLead'
<1>1. /\ todo # <<>> /\ ~Ready /\ events' = events /\ marks' = marks /\ completed' = completed
      /\ todo' = todo /\ tokenIndex' = tokenIndex
  BY DEF Lex
<1>2. /\ events \in Seq(EventRecord) /\ marks \in Seq(1..Len(events)) /\ tokens \in Seq(TokenKinds)
      /\ Len(tokens) \in Nat /\ tokenIndex \in Nat \ {0}
  BY <1>1, WhileParsing
<1>3. ended = FALSE /\ todo \in Program
  BY <1>1 DEF Ready, IInv, TypeOK, Program
<1>4. PICK fs \in Frames, low \in Places, close \in Places : FramesAt(fs, low, close)
  BY DEF FramesLead
<1>5. fs # <<>>
  <2>1. <<>> \in Frames /\ Passes(todo, fs, <<>>)
    BY <1>4 DEF Frames, FramesAt
  <2>2. ASSUME NEW b \in Frames, NEW f \in Frame
        PROVE  Append(b, f) # <<>> /\ Append(b, f) \in Frames
    BY FrameAdded
  <2>3. <<Free>> # <<>>
    OBVIOUS
  <2>4. QED BY <1>1, <1>3, <2>1, <2>2, <2>3, PassesFirst DEF Turn
<1>6. PICK b \in Frames, f \in Frame : fs = Append(b, f)
  <2>1. Top(fs) \in Frame /\ Pop(fs) \in Frames /\ fs = Append(Pop(fs), Top(fs))
    <3>1. /\ Top(fs) \in Frame /\ Pop(fs) \in Seq(Frame) /\ Len(Pop(fs)) = Len(fs) - 1
          /\ \A k \in 1..(Len(fs) - 1) : Pop(fs)[k] = fs[k]
      BY <1>5, PopTyped DEF Frames
    <3>2. Top(fs) = fs[Len(fs)] /\ Len(fs) \in Nat /\ fs \in Seq(Frame)
      BY DEF Top, Frames
    <3>3. QED BY <3>1, <3>2 DEF Frames
  <2>2. QED BY <2>1
<1>7. /\ tokens' \in Seq(TokenKinds) /\ Len(tokens) <= Len(tokens')
      /\ \A i \in 1..Len(tokens) : tokens'[i] = tokens[i]
      /\ Seen = TRUE \/ Current \in Binary => Current' = Current /\ Seen' = TRUE
  <2>1. Seen = TRUE \/ Current \in Binary => Position <= Len(tokens)
    <3>1. Eof \notin Binary
      BY DEF Eof, Binary
    <3>2. QED BY <1>3, <3>1 DEF Seen, Current, TokenAt
  <2>2. CASE ended' = TRUE /\ tokens' = tokens
    BY <1>1, <1>2, <2>2 DEF Current, Position, TokenAt, Seen
  <2>3. ASSUME Len(tokens) < Len(source), NEW k \in source[Len(tokens) + 1],
               tokens' = Append(tokens, k)
        PROVE  /\ tokens' \in Seq(TokenKinds) /\ Len(tokens) <= Len(tokens')
               /\ \A i \in 1..Len(tokens) : tokens'[i] = tokens[i]
               /\ Seen = TRUE \/ Current \in Binary => Current' = Current /\ Seen' = TRUE
    <3>1. k \in TokenKinds
      <4>1. source \in Seq(SUBSET TokenKinds)
        BY SourcesAssumption DEF IInv
      <4>2. Len(tokens) + 1 \in 1..Len(source)
        BY <1>2, <2>3, <4>1
      <4>3. QED BY <4>1, <4>2
    <3>2. /\ tokens' \in Seq(TokenKinds) /\ Len(tokens') = Len(tokens) + 1
          /\ \A i \in 1..Len(tokens) : tokens'[i] = tokens[i]
      BY <1>2, <2>3, <3>1
    <3>3. ASSUME Position <= Len(tokens)
          PROVE  Current' = Current /\ Seen' = TRUE
      <4>1. Position' = Position
        BY <1>1, <1>2, <2>3, <3>1, <3>3, SkipStays DEF Position
      <4>2. Position \in 1..Len(tokens)
        BY <1>2, <3>3, SkipCommentTyped DEF Position
      <4>3. Position' <= Len(tokens') /\ tokens'[Position'] = tokens[Position]
        BY <1>2, <3>2, <4>1, <4>2
      <4>4. QED BY <3>3, <4>3 DEF Current, TokenAt, Seen
    <3>4. Seen = TRUE \/ Current \in Binary => Current' = Current /\ Seen' = TRUE
      BY <2>1, <3>3
    <3>5. Len(tokens) <= Len(tokens')
      BY <1>2, <3>2
    <3>6. QED BY <3>2, <3>4, <3>5
  <2>4. QED BY <2>2, <2>3 DEF Lex
<1>8. Framed(events, tokens', marks, Append(b, f), low, close, completed, Current', Seen')
  <2>1. Framed(events, tokens, marks, Append(b, f), low, close, completed, Current, Seen)
    BY <1>4, <1>6 DEF FramesAt
  <2>2. Seen \in BOOLEAN
    BY DEF Seen
  <2>3. QED BY <1>2, <1>7, <2>1, <2>2, FramesSee
<1>9. Framed(events', tokens', marks', fs, low, close, completed', Current', Seen')
  BY <1>1, <1>6, <1>8
<1>10. Passes(todo', fs, <<>>)
  BY <1>1, <1>4 DEF FramesAt
<1>11. FramesAt(fs, low, close)'
  BY <1>9, <1>10 DEF FramesAt
<1>12. QED BY <1>4, <1>11 DEF FramesLead

\* No instruction undoes a node that was completed.
LEMMA FramesUndoNothing ==
  ASSUME IInv, FramesLead, todo # <<>>
  PROVE  Instr.op # "UndoLast"
<1>1. SUFFICES ASSUME Instr.op = "UndoLast" PROVE FALSE
  OBVIOUS
<1>2. PICK fs \in Frames, after \in Frames, low \in Places, close \in Places :
        Turning(fs, after, low, close)
  BY <1>1, FramesGoOn
<1>3. QED BY <1>1, <1>2 DEF Turning, Turn, Staying, Entering, Ending

\* Once there are events, what is known of them holds.
LEMMA HasFrames ==
  ASSUME WellParsed, WellFramed, phase = "parse", Clean, todo # <<>> => Instr.op # "Mark"
  PROVE  FramesLead
<1>1. events # <<>>
  BY BlockLeads DEF WellParsed, Instr
<1>2. QED BY <1>1 DEF WellFramed

\* Every step of the parser, in a file without errors.
LEMMA ParserFrames ==
  ASSUME IInv, WellParsed, WellFramed, ParserNext, phase' = "parse", Clean', events' # <<>>
  PROVE  FramesLead'
<1>1. errors' = 0 /\ GlobalFunctionFree' /\ errors \in Nat
  BY DEF Clean, IInv, TypeOK
<1>2. ASSUME tokens' = tokens PROVE GlobalFunctionFree
  BY <1>1, <1>2 DEF GlobalFunctionFree, TokenAt
<1>3. ASSUME UNCHANGED Input, errors' = errors PROVE Clean /\ GlobalFunctionFree
  BY <1>1, <1>2, <1>3 DEF Clean, Input
<1>4. CASE Lex
  <2>1. phase = "parse" /\ events' = events /\ errors' = errors
    BY <1>4 DEF Lex
  <2>2. Clean
    BY <1>1, <1>4, <2>1, LexKeepsFree DEF Clean
  <2>3. FramesLead
    BY <2>1, <2>2 DEF WellFramed
  <2>4. QED BY <1>4, <2>3, LexFrames
<1>5. CASE OpenMarker
  <2>1. phase = "parse" /\ todo # <<>> /\ Clean
    BY <1>3, <1>5 DEF OpenMarker, Runs
  <2>2. CASE events = <<>>
    BY <1>5, <2>1, <2>2, BlockFrames DEF WellParsed
  <2>3. CASE events # <<>>
    BY <1>5, <2>1, <2>3, MarkFrames DEF WellFramed
  <2>4. QED BY <2>2, <2>3
<1>6. CASE CompleteMarker
  <2>1. phase = "parse" /\ Clean /\ Instr.op = "Complete"
    BY <1>3, <1>6 DEF CompleteMarker, Runs
  <2>2. QED BY <1>6, <2>1, HasFrames, CompleteFrames
<1>7. CASE UndoMarker
  <2>1. phase = "parse" /\ Clean /\ Instr.op = "Undo"
    BY <1>3, <1>7 DEF UndoMarker, Runs
  <2>2. QED BY <1>7, <2>1, HasFrames, UndoFrames
<1>8. CASE UndoCompleted
  <2>1. phase = "parse" /\ todo # <<>> /\ Clean /\ Instr.op = "UndoLast"
    BY <1>3, <1>8 DEF UndoCompleted, Runs
  <2>2. QED BY <2>1, HasFrames, FramesUndoNothing
<1>9. CASE PrecedeNode
  <2>1. phase = "parse" /\ Clean /\ Instr.op = "Precede"
    BY <1>3, <1>9 DEF PrecedeNode, PrecedeAs, Runs
  <2>2. QED BY <1>9, <2>1, HasFrames, PrecedeFrames
<1>10. ASSUME phase = "parse", todo # <<>>, Instr.op \in {"Eat", "Check", "Test"},
              UNCHANGED <<Input, marks, completed>>, todo' = Tail(todo),
              Advance \/ (Instr.op # "Eat" /\ UNCHANGED <<events, tokenIndex, errors>>)
       PROVE  FramesLead'
  <2>1. errors' = errors
    BY <1>10 DEF Advance
  <2>2. FramesLead
    BY <1>3, <1>10, <2>1, HasFrames
  <2>3. CASE Advance
    BY <1>10, <2>2, <2>3, EatFrames
  <2>4. CASE Instr.op # "Eat" /\ UNCHANGED <<events, tokenIndex, errors>>
    BY <1>10, <2>2, <2>4, TestFrames
  <2>5. QED BY <1>10, <2>3, <2>4
<1>11. ASSUME LuaExpectedError PROVE FALSE
  BY <1>1, <1>11 DEF LuaExpectedError
<1>12. CASE EatCurrent
  BY <1>10, <1>12 DEF EatCurrent, Runs
<1>13. CASE CheckAndNext
  BY <1>10, <1>11, <1>13 DEF CheckAndNext, Runs
<1>14. CASE TestAndNext
  BY <1>10, <1>14 DEF TestAndNext, Runs
<1>15. CASE ExpectError
  BY <1>11, <1>15 DEF ExpectError
<1>16. CASE Call
  <2>1. phase = "parse" /\ Clean /\ GlobalFunctionFree /\ Instr.op = "Do"
    BY <1>3, <1>16 DEF Call, Runs
  <2>2. QED BY <1>16, <2>1, HasFrames, CallFrames
<1>17. CASE Throw
  BY <1>1, <1>17 DEF Throw
<1>18. CASE Parsed
  BY <1>18 DEF Parsed
<1>19. QED
  BY <1>4, <1>5, <1>6, <1>7, <1>8, <1>9, <1>12, <1>13, <1>14, <1>15, <1>16, <1>17, <1>18
  DEF ParserNext

\* Every step.
LEMMA WellFramedNext ==
  ASSUME IInv, WellParsed, WellFramed, [Next]_vars
  PROVE  WellFramed'
<1>1. CASE Parse
  BY <1>1, ParserFrames DEF Parse, WellFramed
<1>2. CASE UNCHANGED vars
  BY <1>2 DEF vars, parser, tree, WellFramed, FramesLead, FramesAt, Clean, GlobalFunctionFree,
              TokenAt, Current, Position, Seen
<1>3. CASE phase = "build" /\ phase' # "parse"
  BY <1>3 DEF WellFramed
<1>4. QED
  BY <1>1, <1>2, <1>3
  DEF Next, Terminating, ReplayStart, Climb, StartNode, StartAfter, ReplayEat, ReplayEnd,
      ReplayError, Built, Replaying, parser

\* At the end of a file without errors every operator in the events has its operands.
LEMMA ParsedFrames ==
  ASSUME IInv, FramesLead, todo = <<>>
  PROVE  \E low \in Places, close \in Places :
           Woven(events, <<>>, low, close) /\ Operated(events, tokens, low, close)
<1>1. PICK fs \in Frames, low \in Places, close \in Places : FramesAt(fs, low, close)
  BY DEF FramesLead
<1>2. fs = <<>>
  <2>1. <<>> \in Frames
    BY DEF Frames
  <2>2. Passes(<<>>, fs, <<>>)
    BY <1>1 DEF FramesAt
  <2>3. QED BY <2>1, <2>2, PassesNone
<1>3. marks \in Seq(1..Len(events))
  BY DEF IInv, TypeOK
<1>4. Framed(events, tokens, marks, <<>>, low, close, completed, Current, Seen)
  BY <1>1, <1>2 DEF FramesAt
<1>5. Len(marks) = 0
  <2>1. Len(<<>>) = 0
    OBVIOUS
  <2>2. QED BY <1>4, <2>1 DEF Framed
<1>6. marks = <<>>
  BY <1>3, <1>5
<1>7. QED BY <1>4, <1>6 DEF Framed

-----------------------------------------------------------------------------
(* Which nodes and tokens are below which node. *)

\* Where a node or a token begins, and where it ends.
Start(ev, low, e) == IF e \in Nodes(ev) THEN low[e] ELSE e

Stop(ev, close, e) == IF e \in Nodes(ev) THEN close[e] ELSE e

Inside(ev, low, close, y, e) ==
  low[y] <= Start(ev, low, e) /\ Stop(ev, close, e) < close[y]

\* The innermost node around e is y.
Under(ev, low, close, y, e) ==
  /\ y \in Nodes(ev) /\ Inside(ev, low, close, y, e)
  /\ \A z \in Nodes(ev) : Inside(ev, low, close, z, e) => z = y \/ close[y] < close[z]

\* The events that have an entry in the tree, but for the nodes that are waiting for theirs.
Listed(ev) == Nodes(ev) \union {e \in 1..Len(ev) : Eats(ev, e)}

LEMMA ExtentsSay ==
  ASSUME NEW ev \in Seq(EventRecord), NEW low \in Places, NEW close \in Places,
         Extents(ev, low, close)
  PROVE  /\ Len(ev) \in Nat
         /\ \A p \in Nodes(ev) :
              /\ p \in 1..Len(ev) /\ p \in Nat /\ low[p] \in 1..p /\ low[p] \in Nat
              /\ close[p] \in Nat /\ p < close[p] /\ close[p] <= Len(ev)
              /\ \A e \in Listed(ev) \ Nodes(ev) : e # p /\ e # close[p]
              /\ \A q \in Nodes(ev) : q # close[p]
<1>1. Len(ev) \in Nat /\ Nodes(ev) \subseteq 1..Len(ev)
  BY NodesThere
<1>2. ASSUME NEW p \in Nodes(ev)
      PROVE  /\ p \in 1..Len(ev) /\ p \in Nat /\ low[p] \in 1..p /\ low[p] \in Nat
             /\ close[p] \in Nat /\ p < close[p] /\ close[p] <= Len(ev)
             /\ \A e \in Listed(ev) \ Nodes(ev) : e # p /\ e # close[p]
             /\ \A q \in Nodes(ev) : q # close[p]
  <2>1. p \in 1..Len(ev) /\ low[p] \in 1..p /\ close[p] \in (p + 1)..Len(ev) /\ IsEnd(ev[close[p]])
    BY <1>1 DEF Extents
  <2>2. \A e \in Listed(ev) \ Nodes(ev) : Eats(ev, e)
    BY DEF Listed
  <2>3. \A q \in Nodes(ev) : ev[q].type = "NodeStart"
    BY DEF Nodes, IsLive
  <2>4. p \in Nat /\ low[p] \in Nat /\ close[p] \in Nat /\ p < close[p] /\ close[p] <= Len(ev)
    BY <1>1, <2>1
  <2>5. QED BY <2>1, <2>2, <2>3, <2>4 DEF IsEnd, Eats
<1>3. QED BY <1>1, <1>2

\* A node begins with one that begins where it is opened.
LEMMA LowestIs ==
  ASSUME NEW ev \in Seq(EventRecord), NEW low \in Places, NEW close \in Places,
         Linked(ev), Woven(ev, <<>>, low, close), NEW p \in Nodes(ev)
  PROVE  low[p] \in Nodes(ev) /\ low[low[p]] = low[p]
<1>1. /\ Len(ev) \in Nat /\ Extents(ev, low, close) /\ Chained(ev, <<>>, low, close)
      /\ \A q \in Nodes(ev) : q \in 1..Len(ev)
  BY NodesThere DEF Woven
<1> DEFINE A == {q \in Nodes(ev) : low[q] = low[p]}
           z == Syntax!Least(A)
<1>2. A \in SUBSET (0..Len(ev)) /\ A # {}
  BY <1>1
<1> HIDE DEF A
<1>3. z \in A /\ \A y \in A : z <= y
  BY <1>1, <1>2, HasLeast
<1> HIDE DEF z
<1>4. z \in Nodes(ev) /\ low[z] = low[p]
  BY <1>3 DEF A
<1>5. low[z] = z
  <2>1. SUFFICES ASSUME low[z] # z PROVE FALSE
    OBVIOUS
  <2>2. PICK q \in Nodes(ev) : ev[q].parent = z
    BY <1>1, <1>4, <2>1 DEF Chained
  <2>3. q \in 1..Len(ev) /\ z \in 1..Len(ev) /\ ev[q].parent # 0
    BY <1>1, <1>4, <2>2
  <2>4. low[q] = low[z] /\ z \in (q + 1)..Len(ev)
    BY <1>1, <2>2, <2>3 DEF Chained, Linked
  <2>5. q \in A
    BY <1>4, <2>4 DEF A
  <2>6. QED BY <1>3, <2>3, <2>4, <2>5
<1>6. QED BY <1>4, <1>5

\* Where a chain of parents ends, all nodes that begin with the first one are in it.
LEMMA ChainEnds ==
  ASSUME NEW ev \in Seq(EventRecord), NEW low \in Places, NEW close \in Places,
         Linked(ev), Woven(ev, <<>>, low, close),
         NEW n \in Nodes(ev), NEW pend \in Seq(Nat), pend # <<>>, pend[1] = n,
         \A j \in 1..(Len(pend) - 1) : ev[pend[j]].parent = pend[j + 1],
         ev[Top(pend)].parent = 0,
         NEW y \in Nodes(ev), low[y] = n
  PROVE  \E j \in 1..Len(pend) : pend[j] = y
<1>1. /\ Len(ev) \in Nat /\ Chained(ev, <<>>, low, close)
      /\ \A q \in Nodes(ev) : q \in 1..Len(ev)
  BY NodesThere DEF Woven
<1>2. Len(pend) \in Nat /\ 1 \in 1..Len(pend)
  BY PopTyped
<1> DEFINE A == {q \in Nodes(ev) : low[q] = n /\ \A j \in 1..Len(pend) : pend[j] # q}
           z == Syntax!Least(A)
<1>3. SUFFICES ASSUME y \in A PROVE FALSE
  OBVIOUS
<1>4. A \in SUBSET (0..Len(ev)) /\ A # {}
  BY <1>1, <1>3
<1> HIDE DEF A
<1>5. z \in A /\ \A x \in A : z <= x
  BY <1>1, <1>4, HasLeast
<1> HIDE DEF z
<1>6. z \in Nodes(ev) /\ low[z] = n /\ \A j \in 1..Len(pend) : pend[j] # z
  BY <1>5 DEF A
<1>7. low[z] # z
  BY <1>2, <1>6
<1>8. PICK q \in Nodes(ev) : ev[q].parent = z
  BY <1>1, <1>6, <1>7 DEF Chained
<1>9. q \in 1..Len(ev) /\ z \in 1..Len(ev) /\ ev[q].parent # 0
  BY <1>1, <1>6, <1>8
<1>10. low[q] = n /\ z \in (q + 1)..Len(ev)
  BY <1>1, <1>6, <1>8, <1>9 DEF Chained, Linked
<1>11. q \notin A
  BY <1>5, <1>9, <1>10
<1>12. PICK j \in 1..Len(pend) : pend[j] = q
  BY <1>10, <1>11 DEF A
<1>13. CASE j = Len(pend)
  BY <1>8, <1>9, <1>12, <1>13 DEF Top
<1>14. CASE j \in 1..(Len(pend) - 1)
  <2>1. pend[j + 1] = z /\ j + 1 \in 1..Len(pend)
    BY <1>2, <1>8, <1>12, <1>14
  <2>2. QED BY <1>6, <2>1
<1>15. QED BY <1>2, <1>12, <1>13, <1>14

\* A node in which another one is opened, or one put around that, ends behind it.
LEMMA EndsBehind ==
  ASSUME NEW ev \in Seq(EventRecord), NEW low \in Places, NEW close \in Places,
         Extents(ev, low, close), NEW y \in Nodes(ev), NEW z \in Nodes(ev),
         z # y, low[z] <= y, y < close[z]
  PROVE  close[y] < close[z]
<1>1. /\ \A p \in Nodes(ev) : /\ p \in Nat /\ low[p] \in 1..p /\ low[p] \in Nat
                              /\ close[p] \in Nat /\ p < close[p]
      /\ close[y] = close[z] => y = z
      /\ z < y /\ y < close[z] => z < low[y] /\ close[y] < close[z]
      /\ y < z /\ z < close[y] => y < low[z] /\ close[z] < close[y]
  <2>1. \A p \in Nodes(ev) : /\ p \in Nat /\ low[p] \in 1..p /\ low[p] \in Nat
                             /\ close[p] \in Nat /\ p < close[p]
    BY ExtentsSay
  <2>2. /\ close[y] = close[z] => y = z
        /\ z < y /\ y < close[z] => z < low[y] /\ close[y] < close[z]
        /\ y < z /\ z < close[y] => y < low[z] /\ close[z] < close[y]
    BY DEF Extents
  <2>3. QED BY <2>1, <2>2
<1>2. QED BY <1>1

\* Node y has read a token between what it has on its left, if anything, and x.
Grasps(ev, low, close, y, left, x) ==
  /\ y \in Nodes(ev) /\ y + 1 \in 1..Len(ev) /\ Eats(ev, y + 1)
  /\ One(ev, low, close, y + 2, x, close[y] - 1)
  /\ \/ left = {} /\ low[y] = y
     \/ \E q \in Nodes(ev) : left = {q} /\ close[q] = y - 1 /\ low[q] = low[y]

\* What is below an operator with its operands: those and the token.
LEMMA OperandsUnder ==
  ASSUME NEW ev \in Seq(EventRecord), NEW low \in Places, NEW close \in Places,
         Linked(ev), Woven(ev, <<>>, low, close),
         NEW y, NEW left, NEW x, Grasps(ev, low, close, y, left, x), NEW c \in Listed(ev)
  PROVE  Under(ev, low, close, y, c) <=> c \in left \union {y + 1, x}
<1> DEFINE In(z) == Inside(ev, low, close, z, c)
<1>0. /\ y \in Nodes(ev) /\ y + 1 \in 1..Len(ev) /\ Eats(ev, y + 1)
      /\ One(ev, low, close, y + 2, x, close[y] - 1)
      /\ \/ left = {} /\ low[y] = y
         \/ \E q \in Nodes(ev) : left = {q} /\ close[q] = y - 1 /\ low[q] = low[y]
  BY DEF Grasps
<1> USE <1>0
<1>1. /\ Extents(ev, low, close) /\ Len(ev) \in Nat /\ x \in Nodes(ev)
      /\ y + 2 <= low[x] /\ close[x] = close[y] - 1
      /\ \A q \in 1..Len(ev) : y + 2 <= q /\ q <= low[x] - 1 => ~IsLive(ev[q]) /\ ~Eats(ev, q)
  BY NodesThere DEF Woven, One, Clear
<1>2. /\ \A p \in Nodes(ev) :
           /\ p \in 1..Len(ev) /\ p \in Nat /\ low[p] \in 1..p /\ low[p] \in Nat
           /\ close[p] \in Nat /\ p < close[p] /\ close[p] <= Len(ev)
           /\ \A e \in Listed(ev) \ Nodes(ev) : e # p /\ e # close[p]
           /\ \A q \in Nodes(ev) : q # close[p]
      /\ \A p \in Nodes(ev) : low[p] \in Nodes(ev) /\ IsLive(ev[p])
      /\ \A p, q \in Nodes(ev) : close[p] = close[q] => p = q
      /\ \A p, q \in Nodes(ev) : p < q /\ q < close[p] => p < low[q] /\ close[q] < close[p]
      /\ \A p, q \in Nodes(ev) : close[p] < close[q] => close[p] < low[q] \/ low[q] <= low[p]
  <2>1. /\ \A p, q \in Nodes(ev) : close[p] = close[q] => p = q
        /\ \A p, q \in Nodes(ev) : p < q /\ q < close[p] => p < low[q] /\ close[q] < close[p]
        /\ \A p, q \in Nodes(ev) : close[p] < close[q] => close[p] < low[q] \/ low[q] <= low[p]
    BY <1>1 DEF Extents
  <2>2. \A p \in Nodes(ev) : IsLive(ev[p])
    BY DEF Nodes
  <2>3. QED BY <1>1, <2>1, <2>2, ExtentsSay, LowestIs
<1>3. /\ y + 1 \in Listed(ev) \ Nodes(ev) /\ c \in Nat
      /\ c \notin Nodes(ev) => c \in 1..Len(ev) /\ Eats(ev, c) /\ c \in Listed(ev) \ Nodes(ev)
  <2>1. y + 1 \notin Nodes(ev)
    BY DEF Nodes, IsLive, Eats
  <2>2. QED BY <1>2, <2>1 DEF Listed
<1>4. /\ c \in Nodes(ev) => \A z : In(z) <=> low[z] <= low[c] /\ close[c] < close[z]
      /\ c \notin Nodes(ev) => \A z : In(z) <=> low[z] <= c /\ c < close[z]
  BY DEF Inside, Start, Stop
<1>5. ASSUME NEW z \in Nodes(ev), z # y, low[z] <= y, y < close[z] PROVE close[y] < close[z]
  BY <1>1, <1>5, EndsBehind
<1> HIDE DEF In
<1>6. ASSUME c = y + 1
      PROVE  In(y) /\ \A z \in Nodes(ev) : In(z) => z = y \/ close[y] < close[z]
  <2>1. c \notin Nodes(ev) /\ low[y] <= c /\ c < close[y]
    BY <1>2, <1>3, <1>6
  <2>2. ASSUME NEW z \in Nodes(ev), In(z), z # y PROVE close[y] < close[z]
    <3>1. low[z] <= y + 1 /\ y + 1 < close[z] /\ low[z] # y + 1
      BY <1>2, <1>3, <1>4, <1>6, <2>1, <2>2
    <3>2. low[z] <= y /\ y < close[z]
      BY <1>2, <3>1
    <3>3. QED BY <1>5, <2>2, <3>2
  <2>3. QED BY <1>4, <2>1, <2>2
<1>7. ASSUME c = x
      PROVE  In(y) /\ \A z \in Nodes(ev) : In(z) => z = y \/ close[y] < close[z]
  <2>1. In(y)
    BY <1>1, <1>2, <1>4, <1>7
  <2>2. ASSUME NEW z \in Nodes(ev), In(z), z # y PROVE close[y] < close[z]
    <3>1. close[y] - 1 < close[z] /\ close[y] # close[z]
      BY <1>1, <1>2, <1>4, <1>7, <2>2
    <3>2. QED BY <1>2, <3>1
  <2>3. QED BY <2>1, <2>2
<1>8. ASSUME NEW q \in Nodes(ev), c = q, close[q] = y - 1, low[q] = low[y]
      PROVE  In(y) /\ \A z \in Nodes(ev) : In(z) => z = y \/ close[y] < close[z]
  <2>1. In(y)
    BY <1>2, <1>4, <1>8
  <2>2. ASSUME NEW z \in Nodes(ev), In(z), z # y PROVE close[y] < close[z]
    <3>1. low[z] <= low[y] /\ y - 1 < close[z] /\ y # close[z]
      BY <1>2, <1>4, <1>8, <2>2
    <3>2. low[z] <= y /\ y < close[z]
      BY <1>2, <3>1
    <3>3. QED BY <1>5, <2>2, <3>2
  <2>3. QED BY <2>1, <2>2
<1>9. ASSUME In(y), \A z \in Nodes(ev) : In(z) => z = y \/ close[y] < close[z], c # y + 1, c # x,
             left = {} => low[y] = y,
             \A q \in left : q \in Nodes(ev) /\ close[q] = y - 1 /\ low[q] = low[y] /\ c # q
      PROVE  FALSE
  <2>1. ~In(x) /\ \A q \in left : ~In(q)
    <3>1. x # y /\ ~(close[y] < close[x])
      BY <1>1, <1>2
    <3>2. \A q \in left : q # y /\ ~(close[y] < close[q])
      BY <1>2, <1>9
    <3>3. QED BY <1>1, <1>9, <3>1, <3>2
  <2>2. CASE c \notin Nodes(ev)
    <3>1. low[y] <= c /\ c < close[y] /\ c # y
      BY <1>2, <1>3, <1>4, <1>9, <2>2
    <3>2. CASE c < y
      <4>1. PICK q \in left : TRUE
        <5>1. low[y] # y
          BY <1>2, <1>3, <3>1, <3>2
        <5>2. QED BY <1>9, <5>1
      <4>2. q \in Nodes(ev) /\ close[q] = y - 1 /\ low[q] = low[y] /\ c # close[q]
        BY <1>2, <1>3, <1>9, <2>2, <4>1
      <4>3. c < close[q]
        BY <1>2, <1>3, <3>2, <4>2
      <4>4. QED BY <1>4, <2>1, <2>2, <3>1, <4>2, <4>3
    <3>3. CASE y < c
      <4>1. y + 2 <= c
        BY <1>2, <1>3, <1>9, <3>3
      <4>2. ~(c <= low[x] - 1)
        BY <1>1, <1>3, <2>2, <4>1
      <4>3. c # close[x] /\ c <= close[x]
        BY <1>1, <1>2, <1>3, <2>2, <3>1
      <4>4. low[x] <= c /\ c < close[x]
        BY <1>1, <1>2, <1>3, <4>2, <4>3
      <4>5. QED BY <1>4, <2>1, <2>2, <4>4
    <3>4. QED BY <1>2, <1>3, <3>1, <3>2, <3>3
  <2>3. CASE c \in Nodes(ev)
    <3>1. low[y] <= low[c] /\ close[c] < close[y] /\ c # y
      BY <1>2, <1>4, <1>9, <2>3
    <3>2. CASE close[c] < y
      <4>1. PICK q \in left : TRUE
        BY <1>2, <1>9, <2>3, <3>1, <3>2
      <4>2. q \in Nodes(ev) /\ close[q] = y - 1 /\ low[q] = low[y] /\ c # q
        BY <1>9, <4>1
      <4>3. close[c] # close[q]
        BY <1>2, <2>3, <4>2
      <4>4. close[c] < close[q]
        BY <1>2, <2>3, <3>2, <4>2, <4>3
      <4>5. QED BY <1>4, <2>1, <2>3, <3>1, <4>2, <4>4
    <3>3. CASE y < close[c]
      <4>1. y < c
        <5>1. c < y /\ y < close[c] => c < low[y] /\ close[y] < close[c]
          BY <1>2, <2>3
        <5>2. close[y] \in Nat /\ close[c] \in Nat /\ y \in Nat /\ c \in Nat
          BY <1>2, <2>3
        <5>3. QED BY <3>1, <3>3, <5>1, <5>2
      <4>2. y < low[c]
        BY <1>2, <2>3, <3>1, <4>1
      <4>3. low[c] \in Nodes(ev) /\ low[c] # y + 1 /\ low[c] \in 1..Len(ev)
        BY <1>2, <1>3, <2>3
      <4>4. y + 2 <= low[c]
        BY <1>2, <4>2, <4>3
      <4>5. ~(low[c] <= low[x] - 1)
        BY <1>1, <1>2, <4>3, <4>4
      <4>6. low[x] <= low[c]
        BY <1>1, <1>2, <2>3, <4>5
      <4>7. close[c] <= close[x] /\ close[c] # close[x]
        BY <1>1, <1>2, <1>9, <2>3, <3>1
      <4>8. close[c] < close[x]
        BY <1>1, <1>2, <2>3, <4>7
      <4>9. QED BY <1>4, <2>1, <2>3, <4>6, <4>8
    <3>4. close[c] # y
      BY <1>2, <2>3
    <3>5. QED BY <1>2, <2>3, <3>2, <3>3, <3>4
  <2>4. QED BY <2>2, <2>3
<1>10. left = {} => low[y] = y
  OBVIOUS
<1>11. \A q \in left : q \in Nodes(ev) /\ close[q] = y - 1 /\ low[q] = low[y]
  OBVIOUS
<1>12. Under(ev, low, close, y, c) <=>
         In(y) /\ \A z \in Nodes(ev) : In(z) => z = y \/ close[y] < close[z]
  BY DEF Under, In
<1>13. QED BY <1>6, <1>7, <1>8, <1>9, <1>10, <1>11, <1>12

\* No two nodes are innermost around the same.
LEMMA UnderOne ==
  ASSUME NEW ev \in Seq(EventRecord), NEW low \in Places, NEW close \in Places,
         NEW e, NEW y, NEW z, Under(ev, low, close, y, e), Under(ev, low, close, z, e)
  PROVE  y = z
<1>1. y \in Nat /\ z \in Nat
  BY NodesThere DEF Under
<1>2. close[y] \in Nat /\ close[z] \in Nat
  BY <1>1 DEF Places
<1>3. QED BY <1>2 DEF Under

-----------------------------------------------------------------------------
(* The entries of the tree, and the events they come from. *)

\* Entry k is a node, or a token that is no comment.
Coded(es, file, k) ==
  k \in 1..Len(es) /\ (es[k].token # 0 => file[es[k].token] \notin Comments)

\* The entry is the one of event e.
Fits(ev, entry, e) ==
  IF entry.token = 0 THEN e \in Nodes(ev) /\ entry.kind = ev[e].kind
  ELSE e \in Listed(ev) \ Nodes(ev) /\ ev[e].index = entry.token

\* Entry k hangs below the innermost node around it.
Hung(ev, low, close, es, from, k) ==
  LET p == es[k].parent
  IN IF p = 0 THEN \A z \in Nodes(ev) : ~Inside(ev, low, close, z, from[k])
     ELSE p \in 1..(k - 1) /\ es[p].token = 0 /\ Under(ev, low, close, from[p], from[k])

\* The entries but for the comments are those of the events in R, each once, and none begins
\* after a later one.
Grafted(ev, low, close, file, es, from, R) ==
  /\ \A k \in 1..Len(es) : Coded(es, file, k) =>
       from[k] \in R /\ Fits(ev, es[k], from[k]) /\ Hung(ev, low, close, es, from, k)
  /\ \A j, k \in 1..Len(es) : j < k /\ Coded(es, file, j) /\ Coded(es, file, k) =>
       from[j] # from[k] /\ Start(ev, low, from[j]) <= Start(ev, low, from[k])
  /\ \A e \in R : \E k \in 1..Len(es) : Coded(es, file, k) /\ from[k] = e

\* More entries, of which only the last may be no comment.
Commenting(es, new, file, l) ==
  /\ Len(es) <= Len(new)
  /\ \A k \in 1..Len(es) : new[k] = es[k]
  /\ \A k \in 1..Len(new) : k > Len(es) /\ k # l => ~Coded(new, file, k)

\* Comments hang anywhere.
LEMMA CommentsGraft ==
  ASSUME NEW ev, NEW low, NEW close, NEW file, NEW es \in Seq(EntryRecord),
         NEW new \in Seq(EntryRecord), NEW from, NEW R,
         Grafted(ev, low, close, file, es, from, R), Commenting(es, new, file, 0)
  PROVE  Grafted(ev, low, close, file, new, from, R)
<1>1. /\ Len(es) \in Nat /\ Len(new) \in Nat /\ Len(es) <= Len(new)
      /\ \A k \in 1..Len(es) : k \in 1..Len(new) /\ new[k] = es[k]
  BY DEF Commenting
<1>2. \A k \in 1..Len(es) : Coded(new, file, k) <=> Coded(es, file, k)
  BY <1>1 DEF Coded
<1>3. ASSUME NEW k \in 1..Len(new), Coded(new, file, k)
      PROVE  k \in 1..Len(es) /\ Coded(es, file, k)
  <2>1. k # 0 /\ ~(k > Len(es))
    BY <1>3 DEF Commenting
  <2>2. QED BY <1>1, <1>2, <1>3, <2>1
<1>4. ASSUME NEW k \in 1..Len(new), Coded(new, file, k)
      PROVE  /\ from[k] \in R /\ Fits(ev, new[k], from[k])
             /\ Hung(ev, low, close, new, from, k)
  <2>1. k \in 1..Len(es) /\ Coded(es, file, k) /\ new[k] = es[k]
    BY <1>1, <1>3, <1>4
  <2>2. from[k] \in R /\ Fits(ev, es[k], from[k]) /\ Hung(ev, low, close, es, from, k)
    BY <2>1 DEF Grafted
  <2>3. \A p \in 1..(k - 1) : p \in 1..Len(es)
    BY <1>1, <2>1
  <2>4. Hung(ev, low, close, new, from, k)
    BY <1>1, <2>1, <2>2, <2>3 DEF Hung
  <2>5. QED BY <2>1, <2>2, <2>4
<1>5. \A j, k \in 1..Len(new) : j < k /\ Coded(new, file, j) /\ Coded(new, file, k) =>
        from[j] # from[k] /\ Start(ev, low, from[j]) <= Start(ev, low, from[k])
  BY <1>3 DEF Grafted
<1>6. \A e \in R : \E k \in 1..Len(new) : Coded(new, file, k) /\ from[k] = e
  BY <1>1, <1>2 DEF Grafted
<1>7. QED BY <1>4, <1>5, <1>6 DEF Grafted

\* Event e gets the entry l, the last one.
Gets(ev, low, close, file, es, from, R, new, now, e) ==
  /\ Len(new) > Len(es) /\ Coded(new, file, Len(new)) /\ Fits(ev, new[Len(new)], e)
  /\ e \notin R /\ \A d \in R : Start(ev, low, d) <= Start(ev, low, e)
  /\ now[Len(new)] = e /\ \A k \in 1..Len(es) : now[k] = from[k]
  /\ LET p == new[Len(new)].parent
     IN IF p = 0 THEN \A z \in Nodes(ev) : ~Inside(ev, low, close, z, e)
        ELSE p \in 1..Len(es) /\ es[p].token = 0 /\ Under(ev, low, close, from[p], e)

LEMMA EntryGrafts ==
  ASSUME NEW ev, NEW low, NEW close, NEW file, NEW es \in Seq(EntryRecord),
         NEW new \in Seq(EntryRecord), NEW from, NEW R, NEW now, NEW e,
         Grafted(ev, low, close, file, es, from, R), Commenting(es, new, file, Len(new)),
         Gets(ev, low, close, file, es, from, R, new, now, e)
  PROVE  Grafted(ev, low, close, file, new, now, R \union {e})
<1> DEFINE l == Len(new)
<1>1. /\ Len(es) \in Nat /\ l \in Nat /\ Len(es) < l /\ l \in 1..l
      /\ \A k \in 1..Len(es) : k \in 1..l /\ new[k] = es[k] /\ now[k] = from[k] /\ k < l
  BY DEF Commenting, Gets
<1>2. \A k \in 1..Len(es) : Coded(new, file, k) <=> Coded(es, file, k)
  BY <1>1 DEF Coded
<1>3. ASSUME NEW k \in 1..l, Coded(new, file, k)
      PROVE  k = l \/ (k \in 1..Len(es) /\ Coded(es, file, k))
  BY <1>1, <1>2, <1>3 DEF Commenting
<1> HIDE DEF l
<1>4. now[l] = e /\ Coded(new, file, l)
  BY DEF Gets, l
<1>5. ASSUME NEW k \in 1..l, Coded(new, file, k)
      PROVE  /\ now[k] \in R \union {e} /\ Fits(ev, new[k], now[k])
             /\ Hung(ev, low, close, new, now, k)
  <2>1. CASE k \in 1..Len(es)
    <3>1. k < l
      BY <1>1, <2>1
    <3>2. Coded(es, file, k) /\ new[k] = es[k] /\ now[k] = from[k]
      BY <1>1, <1>2, <1>5, <2>1
    <3>3. from[k] \in R /\ Fits(ev, es[k], from[k]) /\ Hung(ev, low, close, es, from, k)
      BY <2>1, <3>2 DEF Grafted
    <3>4. \A p \in 1..(k - 1) : p \in 1..Len(es)
      BY <1>1, <2>1
    <3>5. Hung(ev, low, close, new, now, k)
      BY <1>1, <3>2, <3>3, <3>4 DEF Hung
    <3>6. QED BY <3>2, <3>3, <3>5
  <2>2. CASE k = l
    <3>1. Fits(ev, new[k], e)
      BY <2>2 DEF Gets, l
    <3>2. \A p \in 1..Len(es) : p \in 1..(l - 1)
      BY <1>1
    <3>3. Hung(ev, low, close, new, now, l)
      BY <1>1, <1>4, <3>2 DEF Hung, Gets, l
    <3>4. QED BY <1>4, <2>2, <3>1, <3>3
  <2>3. QED BY <1>3, <1>5, <2>1, <2>2
<1>6. ASSUME NEW j \in 1..l, NEW k \in 1..l, j < k, Coded(new, file, j), Coded(new, file, k)
      PROVE  now[j] # now[k] /\ Start(ev, low, now[j]) <= Start(ev, low, now[k])
  <2>1. j # l
    BY <1>1, <1>6
  <2>2. j \in 1..Len(es) /\ Coded(es, file, j) /\ now[j] = from[j] /\ from[j] \in R
    <3>1. j \in 1..Len(es) /\ Coded(es, file, j)
      BY <1>3, <1>6, <2>1
    <3>2. QED BY <1>1, <3>1 DEF Grafted
  <2>3. CASE k = l
    BY <1>4, <2>2, <2>3 DEF Gets
  <2>4. CASE k # l
    <3>1. k \in 1..Len(es) /\ Coded(es, file, k) /\ now[k] = from[k]
      BY <1>1, <1>3, <1>6, <2>4
    <3>2. QED BY <1>6, <2>2, <3>1 DEF Grafted
  <2>5. QED BY <2>3, <2>4
<1>7. ASSUME NEW d \in R \union {e}
      PROVE  \E k \in 1..l : Coded(new, file, k) /\ now[k] = d
  <2>1. CASE d = e
    BY <1>1, <1>4, <2>1
  <2>2. CASE d \in R
    <3>1. PICK k \in 1..Len(es) : Coded(es, file, k) /\ from[k] = d
      BY <2>2 DEF Grafted
    <3>2. QED BY <1>1, <1>2, <3>1
  <2>3. QED BY <2>1, <2>2
<1>8. QED BY <1>5, <1>6, <1>7 DEF Grafted, l

-----------------------------------------------------------------------------
(* The open nodes. *)

\* The events that have an entry when event n is next, where the nodes in `wait` have not.
Reached(ev, low, n, wait) ==
  {y \in Nodes(ev) : low[y] < n /\ y \notin wait}
    \union {e \in Listed(ev) \ Nodes(ev) : e < n}

\* On the stack ns, above the File, are the nodes in R that have not ended when event n is next,
\* the innermost last.
Stacked(ev, close, es, from, ns, n, R) ==
  /\ \A j \in 2..Len(ns) : /\ ns[j] \in 1..Len(es) /\ es[ns[j]].token = 0
                           /\ from[ns[j]] \in R \intersect Nodes(ev) /\ n <= close[from[ns[j]]]
  /\ \A y \in R \intersect Nodes(ev) :
       n <= close[y] => \E j \in 2..Len(ns) : from[ns[j]] = y
  /\ \A i, j \in 2..Len(ns) : i < j => close[from[ns[j]]] < close[from[ns[i]]]

\* What is around e is what is open.
Surrounds(ev, low, close, n, R, e) ==
  \A z \in Nodes(ev) : Inside(ev, low, close, z, e) <=> z \in R /\ n <= close[z]

\* The parent that an entry gets is the innermost node around it.
LEMMA TopIsUnder ==
  ASSUME NEW ev \in Seq(EventRecord), NEW low \in Places, NEW close \in Places,
         NEW es \in Seq(EntryRecord), NEW from \in Places,
         NEW ns \in Seq(Nat), ns # <<>>, ns[1] = 0, NEW n, NEW R,
         Stacked(ev, close, es, from, ns, n, R), NEW e, Surrounds(ev, low, close, n, R, e)
  PROVE  IF Top(ns) = 0 THEN \A z \in Nodes(ev) : ~Inside(ev, low, close, z, e)
         ELSE /\ Top(ns) \in 1..Len(es) /\ es[Top(ns)].token = 0
              /\ Under(ev, low, close, from[Top(ns)], e)
<1>1. Len(ns) \in Nat /\ Len(ns) >= 1 /\ Top(ns) = ns[Len(ns)] /\ Len(es) \in Nat
  BY PopTyped DEF Top
<1>2. CASE Len(ns) = 1
  <2>1. \A j \in 2..Len(ns) : FALSE
    BY <1>2
  <2>2. Top(ns) = 0
    BY <1>1, <1>2
  <2>3. QED BY <2>1, <2>2 DEF Stacked, Surrounds
<1>3. CASE Len(ns) > 1
  <2> DEFINE t == Len(ns)
             y == from[ns[t]]
  <2>1. t \in 2..t
    BY <1>1, <1>3
  <2>2. /\ ns[t] \in 1..Len(es) /\ es[ns[t]].token = 0 /\ y \in R /\ y \in Nodes(ev)
        /\ n <= close[y]
    BY <2>1 DEF Stacked
  <2>3. ns[t] # 0
    BY <1>1, <2>2
  <2>4. Inside(ev, low, close, y, e)
    BY <2>2 DEF Surrounds
  <2>5. ASSUME NEW z \in Nodes(ev), Inside(ev, low, close, z, e), z # y
        PROVE  close[y] < close[z]
    <3>1. z \in R \intersect Nodes(ev) /\ n <= close[z]
      BY <2>5 DEF Surrounds
    <3>2. PICK j \in 2..t : from[ns[j]] = z
      BY <3>1 DEF Stacked
    <3>3. j # t
      BY <2>5, <3>2
    <3>4. j < t
      BY <1>1, <3>2, <3>3
    <3>5. QED BY <2>1, <3>2, <3>4 DEF Stacked
  <2>6. Under(ev, low, close, y, e)
    BY <2>2, <2>4, <2>5 DEF Under
  <2>7. QED BY <1>1, <2>2, <2>3, <2>6
<1> DEFINE t == Len(ns)
<1>4. t \in Nat /\ t >= 1
  BY <1>1
<1> HIDE DEF t
<1>5. t = 1 \/ t > 1
  BY <1>4
<1>6. QED BY <1>2, <1>3, <1>5, Zenon DEF t

\* A node is opened, as the innermost one.
LEMMA StackedMore ==
  ASSUME NEW ev \in Seq(EventRecord), NEW low \in Places, NEW close \in Places,
         NEW es \in Seq(EntryRecord), NEW new \in Seq(EntryRecord),
         NEW from \in Places, NEW now \in Places,
         NEW ns \in Seq(Nat), ns # <<>>, NEW n \in Nat, NEW R,
         Stacked(ev, close, es, from, ns, n, R), NEW y \in Nodes(ev),
         Surrounds(ev, low, close, n, R, y), n <= close[y],
         Len(new) > Len(es), new[Len(new)].token = 0, now[Len(new)] = y,
         \A k \in 1..Len(es) : new[k] = es[k] /\ now[k] = from[k]
  PROVE  Stacked(ev, close, new, now, Append(ns, Len(new)), n, R \union {y})
<1> DEFINE l == Len(new)
           t == Len(ns)
           more == Append(ns, l)
           T == R \union {y}
<1>1. /\ t \in Nat /\ t >= 1 /\ Len(es) \in Nat /\ l \in Nat /\ l \in 1..l
      /\ Len(more) = t + 1 /\ more[t + 1] = l /\ \A j \in 1..t : more[j] = ns[j]
      /\ new[l].token = 0 /\ now[l] = y
  <2>1. t # 0
    OBVIOUS
  <2>2. QED BY <2>1
<1>2. \A k \in 1..Len(es) : k \in 1..l /\ new[k] = es[k] /\ now[k] = from[k]
  BY <1>1
<1>3. ASSUME NEW j \in 2..t
      PROVE  /\ more[j] = ns[j] /\ ns[j] \in 1..Len(es) /\ es[ns[j]].token = 0
             /\ from[ns[j]] \in R /\ from[ns[j]] \in Nodes(ev) /\ n <= close[from[ns[j]]]
             /\ now[more[j]] = from[ns[j]]
  <2>1. more[j] = ns[j]
    BY <1>1
  <2>2. /\ ns[j] \in 1..Len(es) /\ es[ns[j]].token = 0
        /\ from[ns[j]] \in R /\ from[ns[j]] \in Nodes(ev) /\ n <= close[from[ns[j]]]
    BY DEF Stacked
  <2>3. QED BY <1>2, <2>1, <2>2
<1>4. Stop(ev, close, y) = close[y]
  BY DEF Stop
<1> HIDE DEF l, more, t
<1>5. \A j \in 2..(t + 1) : j \in 2..t \/ j = t + 1
  BY <1>1
<1>6. ASSUME NEW j \in 2..(t + 1)
      PROVE  /\ more[j] \in 1..l /\ new[more[j]].token = 0
             /\ now[more[j]] \in T \intersect Nodes(ev) /\ n <= close[now[more[j]]]
  <2>1. CASE j \in 2..t
    <3>1. /\ more[j] = ns[j] /\ ns[j] \in 1..Len(es) /\ es[ns[j]].token = 0
          /\ from[ns[j]] \in R /\ from[ns[j]] \in Nodes(ev) /\ n <= close[from[ns[j]]]
          /\ now[more[j]] = from[ns[j]]
      BY <1>3, <2>1
    <3>2. ns[j] \in 1..l /\ new[ns[j]] = es[ns[j]]
      BY <1>2, <3>1
    <3>3. QED BY <3>1, <3>2
  <2>2. CASE j = t + 1
    BY <1>1, <2>2
  <2>3. QED BY <1>5, <2>1, <2>2
<1>7. ASSUME NEW z \in T \intersect Nodes(ev), n <= close[z]
      PROVE  \E j \in 2..(t + 1) : now[more[j]] = z
  <2>1. CASE z = y
    <3>1. t + 1 \in 2..(t + 1)
      BY <1>1
    <3>2. QED BY <1>1, <2>1, <3>1
  <2>2. CASE z \in R
    <3>1. PICK j \in 2..t : from[ns[j]] = z
      BY <1>7, <2>2 DEF Stacked, t
    <3>2. j \in 2..(t + 1)
      BY <1>1
    <3>3. QED BY <1>3, <3>1, <3>2
  <2>3. QED BY <2>1, <2>2
<1>8. ASSUME NEW i \in 2..(t + 1), NEW j \in 2..(t + 1), i < j
      PROVE  close[now[more[j]]] < close[now[more[i]]]
  <2>1. i \in 2..t
    BY <1>1, <1>8
  <2>2. CASE j \in 2..t
    <3>1. close[from[ns[j]]] < close[from[ns[i]]]
      BY <1>8, <2>1, <2>2 DEF Stacked, t
    <3>2. QED BY <1>3, <2>1, <2>2, <3>1
  <2>3. CASE j = t + 1
    <3>1. Inside(ev, low, close, from[ns[i]], y)
      BY <1>3, <2>1 DEF Surrounds
    <3>2. close[y] < close[from[ns[i]]]
      BY <1>4, <3>1 DEF Inside
    <3>3. QED BY <1>1, <1>3, <2>1, <2>3, <3>2
  <2>4. QED BY <1>5, <2>2, <2>3
<1>9. Stacked(ev, close, new, now, more, n, T)
  BY <1>1, <1>6, <1>7, <1>8 DEF Stacked, l
<1>10. QED BY <1>9 DEF more, l

\* Nothing is opened, and nothing ends.
LEMMA StackedStay ==
  ASSUME NEW ev \in Seq(EventRecord), NEW low \in Places, NEW close \in Places,
         NEW es \in Seq(EntryRecord), NEW new \in Seq(EntryRecord),
         NEW from \in Places, NEW now \in Places,
         NEW ns, NEW n \in Nat, NEW R, NEW T,
         Stacked(ev, close, es, from, ns, n, R), T \intersect Nodes(ev) = R \intersect Nodes(ev),
         \A y \in Nodes(ev) : close[y] # n, Len(es) <= Len(new),
         \A k \in 1..Len(es) : new[k] = es[k] /\ now[k] = from[k]
  PROVE  Stacked(ev, close, new, now, ns, n + 1, T)
<1>1. /\ Len(es) \in Nat /\ Len(new) \in Nat
      /\ \A k \in 1..Len(es) : k \in 1..Len(new) /\ new[k] = es[k] /\ now[k] = from[k]
  OBVIOUS
<1>2. \A y \in Nodes(ev) : close[y] \in Nat /\ (n <= close[y] <=> n + 1 <= close[y])
  <2>1. \A y \in Nodes(ev) : close[y] \in Nat
    BY NodesThere DEF Places
  <2>2. QED BY <2>1
<1>3. ASSUME NEW j \in 2..Len(ns)
      PROVE  /\ ns[j] \in 1..Len(es) /\ es[ns[j]].token = 0 /\ now[ns[j]] = from[ns[j]]
             /\ from[ns[j]] \in T \intersect Nodes(ev) /\ n + 1 <= close[from[ns[j]]]
  BY <1>1, <1>2 DEF Stacked
<1>4. \A j \in 2..Len(ns) : /\ ns[j] \in 1..Len(new) /\ new[ns[j]].token = 0
                            /\ now[ns[j]] \in T \intersect Nodes(ev) /\ n + 1 <= close[now[ns[j]]]
  BY <1>1, <1>3
<1>5. ASSUME NEW y \in T \intersect Nodes(ev), n + 1 <= close[y]
      PROVE  \E j \in 2..Len(ns) : now[ns[j]] = y
  <2>1. PICK j \in 2..Len(ns) : from[ns[j]] = y
    BY <1>2, <1>5 DEF Stacked
  <2>2. QED BY <1>3, <2>1
<1>6. \A i, j \in 2..Len(ns) : i < j => close[now[ns[j]]] < close[now[ns[i]]]
  BY <1>3 DEF Stacked
<1>7. QED BY <1>4, <1>5, <1>6 DEF Stacked

\* The innermost node ends.
LEMMA StackedLess ==
  ASSUME NEW ev \in Seq(EventRecord), NEW low \in Places, NEW close \in Places,
         Extents(ev, low, close), NEW es \in Seq(EntryRecord), NEW new \in Seq(EntryRecord),
         NEW from \in Places, NEW ns \in Seq(Nat), ns # <<>>, NEW n \in Nat, NEW R,
         Stacked(ev, close, es, from, ns, n, R),
         NEW y \in R \intersect Nodes(ev), close[y] = n, Len(es) <= Len(new),
         \A k \in 1..Len(es) : new[k] = es[k]
  PROVE  Stacked(ev, close, new, from, Pop(ns), n + 1, R)
<1> DEFINE t == Len(ns)
           p == Pop(ns)
<1>1. /\ t \in Nat /\ t >= 1 /\ Len(p) = t - 1 /\ \A j \in 1..(t - 1) : p[j] = ns[j]
      /\ Len(es) \in Nat /\ Len(new) \in Nat
      /\ \A k \in 1..Len(es) : k \in 1..Len(new) /\ new[k] = es[k]
  <2>1. t \in Nat /\ Len(p) = t - 1 /\ \A j \in 1..(t - 1) : p[j] = ns[j]
    <3>1. /\ Len(Pop(ns)) = Len(ns) - 1
          /\ \A j \in 1..(Len(ns) - 1) : Pop(ns)[j] = ns[j]
      BY PopTyped
    <3>2. Len(ns) \in Nat
      OBVIOUS
    <3>3. QED BY <3>1, <3>2, Zenon
  <2>2. t # 0
    OBVIOUS
  <2>3. QED BY <2>1, <2>2
<1>2. \A x \in Nodes(ev) : close[x] \in Nat
  BY NodesThere DEF Places
<1>3. PICK i \in 2..t : from[ns[i]] = y
  BY DEF Stacked
<1>4. ASSUME NEW j \in 2..t PROVE from[ns[j]] \in Nodes(ev) /\ n <= close[from[ns[j]]]
  BY DEF Stacked
<1>5. i = t
  <2>1. t \in 2..t
    BY <1>1, <1>3
  <2>2. i < t => close[from[ns[t]]] < close[from[ns[i]]]
    BY <1>3, <2>1 DEF Stacked
  <2>3. n <= close[from[ns[t]]] /\ close[from[ns[t]]] \in Nat
    BY <1>2, <1>4, <2>1
  <2>4. QED BY <1>1, <1>3, <2>2, <2>3
<1> HIDE DEF t, p
<1>6. ASSUME NEW j \in 2..(t - 1)
      PROVE  /\ p[j] = ns[j] /\ j \in 2..t
             /\ ns[j] \in 1..Len(es) /\ es[ns[j]].token = 0
             /\ from[ns[j]] \in R \intersect Nodes(ev) /\ n + 1 <= close[from[ns[j]]]
  <2>1. p[j] = ns[j] /\ j \in 2..t /\ j < t /\ t \in 2..t
    BY <1>1
  <2>2. /\ ns[j] \in 1..Len(es) /\ es[ns[j]].token = 0
        /\ from[ns[j]] \in R \intersect Nodes(ev)
    BY <2>1 DEF Stacked, t
  <2>3. close[from[ns[t]]] < close[from[ns[j]]]
    BY <2>1 DEF Stacked, t
  <2>4. close[from[ns[j]]] \in Nat /\ close[from[ns[t]]] = n
    BY <1>2, <1>3, <1>5, <2>2
  <2>5. n + 1 <= close[from[ns[j]]]
    <3>1. \A c \in Nat : n < c => n + 1 <= c
      OBVIOUS
    <3>2. n < close[from[ns[j]]]
      BY <2>3, <2>4, Zenon
    <3>3. QED BY <2>4, <3>1, <3>2, Zenon
  <2>6. QED BY <2>1, <2>2, <2>5
<1>7. \A j \in 2..(t - 1) : /\ p[j] \in 1..Len(new) /\ new[p[j]].token = 0
                            /\ from[p[j]] \in R \intersect Nodes(ev) /\ n + 1 <= close[from[p[j]]]
  BY <1>1, <1>6
<1>8. ASSUME NEW z \in R \intersect Nodes(ev), n + 1 <= close[z]
      PROVE  \E j \in 2..(t - 1) : from[p[j]] = z
  <2>1. PICK j \in 2..t : from[ns[j]] = z
    <3>1. n <= close[z] /\ z \in R \intersect Nodes(ev)
      BY <1>2, <1>8
    <3>2. QED BY <3>1 DEF Stacked, t
  <2>2. j # t
    BY <1>2, <1>3, <1>5, <1>8, <2>1
  <2>3. j \in 2..(t - 1)
    BY <1>1, <2>2
  <2>4. QED BY <1>6, <2>1, <2>3
<1>9. \A k, j \in 2..(t - 1) : k < j => close[from[p[j]]] < close[from[p[k]]]
  BY <1>6 DEF Stacked, t
<1>10. Stacked(ev, close, new, from, p, n + 1, R)
  BY <1>1, <1>7, <1>8, <1>9 DEF Stacked
<1>11. QED BY <1>10 DEF p

-----------------------------------------------------------------------------
(* The events as the parser left them, and how far the tree has come. *)

Sown(ev, low, close) ==
  /\ ev \in Seq(EventRecord) /\ low \in Places /\ close \in Places
  /\ Linked(ev) /\ Woven(ev, <<>>, low, close)

\* The nodes that are about to start, pend, have the kinds ps, and the next parent is at pp; of
\* the nodes that begin with event n - 1 those in wait have no entry yet, and are the inner ones.
Collected(ev, low, close, pend, wait, n, ps, pp) ==
  /\ Len(pend) = Len(ps)
  /\ \A j \in 1..Len(ps) : pend[j] \in wait /\ ps[j] = ev[pend[j]].kind
  /\ \A w \in wait : w \in Nodes(ev) /\ low[w] = n - 1
  /\ \A j \in 1..(Len(ps) - 1) : ev[pend[j]].parent = pend[j + 1]
  /\ \A j, k \in 1..Len(ps) : j < k => close[pend[j]] < close[pend[k]]
  /\ ps # <<>> => pend[1] = n - 1
  /\ IF pp = 0 THEN \A w \in wait : \E j \in 1..Len(ps) : pend[j] = w
     ELSE /\ ps # <<>> /\ pp = ev[pend[Len(ps)]].parent
          /\ wait = {y \in Nodes(ev) : low[y] = n - 1}
  /\ \A z \in Nodes(ev), w \in wait : low[z] = n - 1 /\ z \notin wait => close[w] < close[z]

\* Node q was found as a parent.
Found(ev, low, pend, wait, n, q) ==
  /\ q \in Nodes(ev) /\ low[q] # q /\ low[q] < n
  /\ q \in wait => \E j \in 1..Len(pend) : pend[j] = q

\* The events are those of ev, but for the kinds of the nodes that were found.
Renamed(ev, new, low, pend, wait, n) ==
  /\ Len(new) = Len(ev)
  /\ \A q \in 1..Len(ev) :
       /\ new[q].type = ev[q].type /\ new[q].index = ev[q].index /\ new[q].parent = ev[q].parent
       /\ new[q].kind = IF Found(ev, low, pend, wait, n, q) THEN "None" ELSE ev[q].kind

LEMMA SownSays ==
  ASSUME NEW ev, NEW low, NEW close, Sown(ev, low, close)
  PROVE  /\ Extents(ev, low, close) /\ Len(ev) \in Nat
         /\ \A p \in Nodes(ev) :
              /\ p \in 1..Len(ev) /\ p \in Nat /\ low[p] \in 1..p /\ low[p] \in Nat
              /\ close[p] \in Nat /\ p < close[p] /\ close[p] <= Len(ev)
              /\ IsEnd(ev[close[p]]) /\ ev[p].type = "NodeStart" /\ ev[p].kind # "None"
              /\ low[p] \in Nodes(ev) /\ low[low[p]] = low[p]
         /\ \A e \in Listed(ev) \ Nodes(ev) : e \in 1..Len(ev) /\ Eats(ev, e)
         /\ \A e \in 1..Len(ev) : Eats(ev, e) => e \in Listed(ev) \ Nodes(ev)
<1>1. /\ ev \in Seq(EventRecord) /\ low \in Places /\ close \in Places /\ Linked(ev)
      /\ Woven(ev, <<>>, low, close) /\ Extents(ev, low, close)
  BY DEF Sown, Woven
<1>2. \A p \in Nodes(ev) : low[p] \in Nodes(ev) /\ low[low[p]] = low[p]
  BY <1>1, LowestIs
<1>3. \A p \in Nodes(ev) : ev[p].type = "NodeStart" /\ ev[p].kind # "None" /\ IsEnd(ev[close[p]])
  BY <1>1 DEF Nodes, IsLive, Extents
<1>4. \A e \in Listed(ev) \ Nodes(ev) : e \in 1..Len(ev) /\ Eats(ev, e)
  BY DEF Listed
<1>5. \A e \in 1..Len(ev) : Eats(ev, e) => e \in Listed(ev) \ Nodes(ev)
  BY <1>3 DEF Listed, Eats
<1>6. /\ Len(ev) \in Nat
      /\ \A p \in Nodes(ev) :
           /\ p \in 1..Len(ev) /\ p \in Nat /\ low[p] \in 1..p /\ low[p] \in Nat
           /\ close[p] \in Nat /\ p < close[p] /\ close[p] <= Len(ev)
  BY <1>1, ExtentsSay
<1>7. QED BY <1>1, <1>2, <1>3, <1>4, <1>5, <1>6

\* No node begins with an event that starts none, or one that was started before.
LEMMA ReachedPassed ==
  ASSUME NEW ev, NEW low, NEW close, Sown(ev, low, close),
         NEW n \in 1..Len(ev), n \in Nodes(ev) => low[n] # n
  PROVE  /\ \A y \in Nodes(ev) : low[y] # n
         /\ ~Eats(ev, n) => Reached(ev, low, n + 1, {}) = Reached(ev, low, n, {})
         /\ Eats(ev, n) => Reached(ev, low, n + 1, {}) = Reached(ev, low, n, {}) \union {n}
<1>1. \A y \in Nodes(ev) : low[y] # n /\ low[y] \in Nat
  BY SownSays
<1>2. /\ n \in Nat /\ \A y \in Nodes(ev) : low[y] < n + 1 <=> low[y] < n
      /\ \A e \in Listed(ev) \ Nodes(ev) : e \in Nat /\ (e < n + 1 <=> e < n \/ e = n)
  <2>1. Len(ev) \in Nat /\ \A e \in Listed(ev) \ Nodes(ev) : e \in 1..Len(ev)
    BY SownSays
  <2>2. QED BY <1>1, <2>1
<1>3. n \in Listed(ev) \ Nodes(ev) <=> Eats(ev, n)
  BY SownSays
<1>4. QED BY <1>1, <1>2, <1>3 DEF Reached

\* The nodes that begin with event n wait.
LEMMA ReachedStarts ==
  ASSUME NEW ev, NEW low, NEW close, Sown(ev, low, close), NEW n \in Nodes(ev)
  PROVE  Reached(ev, low, n + 1, {y \in Nodes(ev) : low[y] = n}) = Reached(ev, low, n, {})
<1>1. /\ n \in Nat /\ \A y \in Nodes(ev) : low[y] \in Nat
      /\ \A e \in Listed(ev) \ Nodes(ev) : e \in Nat /\ e # n
  <2>1. Len(ev) \in Nat /\ \A e \in Listed(ev) \ Nodes(ev) : e \in 1..Len(ev)
    BY SownSays
  <2>2. QED BY <2>1, SownSays
<1>2. /\ \A y \in Nodes(ev) : (low[y] < n + 1 /\ low[y] # n) <=> low[y] < n
      /\ \A e \in Listed(ev) \ Nodes(ev) : e < n + 1 <=> e < n
  BY <1>1
<1>3. QED BY <1>2 DEF Reached

\* One of them has its entry.
LEMMA ReachedMore ==
  ASSUME NEW ev, NEW low, NEW close, Sown(ev, low, close), NEW n \in Nat, NEW wait,
         NEW y \in wait, y \in Nodes(ev), low[y] = n - 1
  PROVE  Reached(ev, low, n, wait \ {y}) = Reached(ev, low, n, wait) \union {y}
<1>1. low[y] < n
  OBVIOUS
<1>2. QED BY <1>1 DEF Reached

\* When all events have gone by, everything has.
LEMMA ReachedAll ==
  ASSUME NEW ev, NEW low, NEW close, Sown(ev, low, close), NEW n \in Nat, n > Len(ev)
  PROVE  Reached(ev, low, n, {}) = Listed(ev)
<1>1. /\ Len(ev) \in Nat /\ \A y \in Nodes(ev) : low[y] \in 1..y /\ y \in 1..Len(ev)
      /\ \A e \in Listed(ev) \ Nodes(ev) : e \in 1..Len(ev)
  BY SownSays
<1>2. /\ \A y \in Nodes(ev) : low[y] < n
      /\ \A e \in Listed(ev) \ Nodes(ev) : e < n
  BY <1>1
<1>3. Nodes(ev) \subseteq Listed(ev)
  BY DEF Listed
<1>4. QED BY <1>2, <1>3 DEF Reached

\* No entry so far begins behind what comes next.
LEMMA ReachedBefore ==
  ASSUME NEW ev, NEW low, NEW close, Sown(ev, low, close), NEW n \in Nat, NEW wait,
         NEW d \in Reached(ev, low, n, wait)
  PROVE  Start(ev, low, d) <= n - 1
<1>1. CASE d \in Nodes(ev)
  <2>1. low[d] \in Nat /\ low[d] < n
    BY <1>1, SownSays DEF Reached
  <2>2. QED BY <1>1, <2>1 DEF Start
<1>2. CASE d \notin Nodes(ev)
  <2>1. d \in 1..Len(ev) /\ d < n /\ Len(ev) \in Nat
    BY <1>2, SownSays DEF Reached
  <2>2. QED BY <1>2, <2>1 DEF Start
<1>3. QED BY <1>1, <1>2

\* The open nodes are around the token that is read next.
LEMMA TokenSurrounded ==
  ASSUME NEW ev, NEW low, NEW close, Sown(ev, low, close), NEW n \in 1..Len(ev), Eats(ev, n)
  PROVE  Surrounds(ev, low, close, n, Reached(ev, low, n, {}), n)
<1>1. n \in Nat /\ n \notin Nodes(ev)
  BY SownSays DEF Eats
<1>2. \A z \in Nodes(ev) : low[z] \in Nat /\ close[z] \in Nat /\ low[z] # n /\ close[z] # n
  <2>1. \A z \in Nodes(ev) : low[z] # n
    BY <1>1, ReachedPassed
  <2>2. \A z \in Nodes(ev) : low[z] \in Nat /\ close[z] \in Nat /\ IsEnd(ev[close[z]])
    BY SownSays
  <2>3. ~IsEnd(ev[n])
    BY DEF IsEnd, Eats
  <2>4. QED BY <2>1, <2>2, <2>3
<1>3. \A z \in Nodes(ev) : Inside(ev, low, close, z, n) <=> low[z] <= n /\ n < close[z]
  BY <1>1 DEF Inside, Start, Stop
<1>4. \A z \in Nodes(ev) : z \in Reached(ev, low, n, {}) <=> low[z] < n
  BY DEF Reached
<1>5. QED BY <1>1, <1>2, <1>3, <1>4 DEF Surrounds

\* They are around the outermost node that waits.
LEMMA NodeSurrounded ==
  ASSUME NEW ev, NEW low, NEW close, Sown(ev, low, close), NEW pend, NEW wait, NEW n \in Nat,
         NEW ps \in Seq(NodeKinds), ps # <<>>, Collected(ev, low, close, pend, wait, n, ps, 0),
         NEW y, y = pend[Len(ps)]
  PROVE  /\ y \in wait /\ y \in Nodes(ev) /\ low[y] = n - 1 /\ n <= close[y]
         /\ \A w \in wait : w # y => close[w] < close[y]
         /\ Surrounds(ev, low, close, n, Reached(ev, low, n, wait), y)
<1>1. Len(ps) \in Nat /\ Len(ps) \in 1..Len(ps)
  BY PopTyped
<1>2. y \in wait /\ y \in Nodes(ev) /\ low[y] = n - 1
  BY <1>1 DEF Collected
<1>3. \A z \in Nodes(ev) : low[z] \in Nat /\ close[z] \in Nat /\ low[z] \in 1..z /\ z < close[z]
                           /\ z \in Nat
  BY SownSays
<1>4. n <= close[y] /\ Start(ev, low, y) = n - 1 /\ Stop(ev, close, y) = close[y]
  BY <1>2, <1>3 DEF Start, Stop
<1>5. \A w \in wait : w # y => close[w] < close[y]
  <2>1. SUFFICES ASSUME NEW w \in wait, w # y PROVE close[w] < close[y]
    OBVIOUS
  <2>2. PICK j \in 1..Len(ps) : pend[j] = w
    BY DEF Collected
  <2>3. j < Len(ps)
    BY <1>1, <2>1, <2>2
  <2>4. QED BY <1>1, <2>2, <2>3 DEF Collected
<1>6. ASSUME NEW z \in Nodes(ev), Inside(ev, low, close, z, y)
      PROVE  z \in Reached(ev, low, n, wait) /\ n <= close[z]
  <2>1. low[z] <= n - 1 /\ close[y] < close[z]
    BY <1>4, <1>6 DEF Inside
  <2>2. z \notin wait
    BY <1>2, <1>3, <1>5, <2>1
  <2>3. low[z] < n /\ n <= close[z]
    BY <1>2, <1>3, <1>4, <2>1
  <2>4. QED BY <2>2, <2>3 DEF Reached
<1>7. ASSUME NEW z \in Nodes(ev), z \in Reached(ev, low, n, wait), n <= close[z]
      PROVE  Inside(ev, low, close, z, y)
  <2>1. low[z] < n /\ z \notin wait
    BY <1>7 DEF Reached
  <2>2. CASE low[z] = n - 1
    <3>1. close[y] < close[z]
      BY <1>2, <2>1, <2>2 DEF Collected
    <3>2. QED BY <1>4, <2>2, <3>1 DEF Inside
  <2>3. CASE low[z] < n - 1
    <3>1. /\ close[y] = close[z] => y = z
          /\ close[z] < close[y] => close[z] < low[y] \/ low[y] <= low[z]
      BY <1>2, SownSays DEF Extents
    <3>2. close[y] < close[z]
      BY <1>2, <1>3, <1>7, <2>3, <3>1
    <3>3. low[z] <= n - 1
      BY <1>3, <2>3
    <3>4. QED BY <1>4, <3>2, <3>3 DEF Inside
  <2>4. QED BY <1>3, <2>1, <2>2, <2>3
<1>8. QED BY <1>2, <1>4, <1>5, <1>6, <1>7 DEF Surrounds

\* A node ends with its own event.
LEMMA ReachedEnds ==
  ASSUME NEW ev, NEW low, NEW close, Sown(ev, low, close), NEW n \in 1..Len(ev), IsEnd(ev[n])
  PROVE  \E p \in Reached(ev, low, n, {}) \intersect Nodes(ev) : close[p] = n
<1>1. PICK p \in Nodes(ev) : close[p] = n
  BY DEF Sown, Woven, Extents
<1>2. low[p] \in 1..p /\ p \in Nat /\ low[p] \in Nat /\ p < close[p]
  BY SownSays
<1>3. low[p] < n
  BY <1>1, <1>2
<1>4. QED BY <1>1, <1>3 DEF Reached

\* What event n is, when no node is about to start.
LEMMA RenamedSays ==
  ASSUME NEW ev, NEW low, NEW close, Sown(ev, low, close), NEW n \in 1..Len(ev),
         NEW new, Renamed(ev, new, low, <<>>, {}, n)
  PROVE  /\ new[n].type = ev[n].type /\ new[n].index = ev[n].index /\ new[n].parent = ev[n].parent
         /\ IsLive(new[n]) => n \in Nodes(ev) /\ low[n] = n /\ new[n].kind = ev[n].kind
         /\ ~IsLive(new[n]) => (n \in Nodes(ev) => low[n] # n)
<1>1. /\ new[n].type = ev[n].type /\ new[n].index = ev[n].index /\ new[n].parent = ev[n].parent
      /\ new[n].kind = IF Found(ev, low, <<>>, {}, n, n) THEN "None" ELSE ev[n].kind
  BY DEF Renamed
<1>2. Found(ev, low, <<>>, {}, n, n) <=> n \in Nodes(ev) /\ low[n] # n /\ low[n] < n
  BY DEF Found
<1>3. n \in Nodes(ev) => low[n] \in 1..n /\ n \in Nat
  BY SownSays
<1>4. ASSUME IsLive(new[n]) PROVE n \in Nodes(ev) /\ low[n] = n /\ new[n].kind = ev[n].kind
  <2>1. new[n].kind = ev[n].kind /\ ~Found(ev, low, <<>>, {}, n, n)
    BY <1>1, <1>4 DEF IsLive
  <2>2. n \in Nodes(ev)
    BY <1>1, <1>4, <2>1 DEF IsLive, Nodes
  <2>3. QED BY <1>2, <1>3, <2>1, <2>2
<1>5. ASSUME ~IsLive(new[n]), n \in Nodes(ev), low[n] = n PROVE FALSE
  <2>1. new[n].kind = ev[n].kind
    BY <1>1, <1>2, <1>5
  <2>2. IsLive(ev[n])
    BY <1>5 DEF Nodes
  <2>3. QED BY <1>1, <1>5, <2>1, <2>2 DEF IsLive
<1>6. QED BY <1>1, <1>4, <1>5

\* No node starts.
LEMMA RenamedPassed ==
  ASSUME NEW ev, NEW low, NEW close, Sown(ev, low, close),
         NEW n \in 1..Len(ev), n \in Nodes(ev) => low[n] # n,
         NEW new, Renamed(ev, new, low, <<>>, {}, n)
  PROVE  /\ Renamed(ev, new, low, <<>>, {}, n + 1)
         /\ Collected(ev, low, close, <<>>, {}, n + 1, <<>>, 0)
<1>1. \A q \in Nodes(ev) : low[q] # n /\ low[q] \in Nat
  BY ReachedPassed, SownSays
<1>2. n \in Nat
  BY SownSays
<1>3. \A q \in Nodes(ev) : low[q] < n + 1 <=> low[q] < n
  BY <1>1, <1>2
<1>4. \A q : Found(ev, low, <<>>, {}, n + 1, q) <=> Found(ev, low, <<>>, {}, n, q)
  BY <1>3 DEF Found
<1>5. Renamed(ev, new, low, <<>>, {}, n + 1)
  BY <1>4 DEF Renamed
<1>6. Len(<<>>) = 0 /\ (\A j \in 1..0 : FALSE) /\ (\A j \in 1..(0 - 1) : FALSE)
  OBVIOUS
<1>7. Collected(ev, low, close, <<>>, {}, n + 1, <<>>, 0)
  BY <1>6 DEF Collected
<1>8. QED BY <1>5, <1>7

\* When none is about to start, none waits.
LEMMA NoneWaits ==
  ASSUME NEW ev, NEW low, NEW close, NEW pend \in Seq(Nat), NEW wait, NEW n,
         Collected(ev, low, close, pend, wait, n, <<>>, 0)
  PROVE  pend = <<>> /\ wait = {}
<1>1. Len(<<>>) = 0
  OBVIOUS
<1>2. pend = <<>>
  BY <1>1 DEF Collected
<1>3. \A j \in 1..Len(<<>>) : FALSE
  BY <1>1
<1>4. QED BY <1>2, <1>3 DEF Collected

\* A node starts, and those that begin with it wait.
LEMMA CollectedStarts ==
  ASSUME NEW ev, NEW low, NEW close, Sown(ev, low, close), NEW n \in Nodes(ev), low[n] = n,
         NEW new, Renamed(ev, new, low, <<>>, {}, n),
         NEW W, W = {y \in Nodes(ev) : low[y] = n}
  PROVE  /\ Collected(ev, low, close, << n >>, W, n + 1, << ev[n].kind >>, ev[n].parent)
         /\ Renamed(ev, new, low, << n >>, W, n + 1)
<1> DEFINE pend == << n >>
           ps == << ev[n].kind >>
<1>1. /\ n \in Nat /\ \A q \in Nodes(ev) : low[q] \in Nat
      /\ Len(pend) = 1 /\ Len(ps) = 1 /\ pend[1] = n /\ ps[1] = ev[n].kind
      /\ pend \in Seq(Nat) /\ pend # <<>> /\ ps # <<>> /\ Len(<<>>) = 0 /\ n = (n + 1) - 1
  <2>1. n \in Nat /\ \A q \in Nodes(ev) : low[q] \in Nat
    BY SownSays
  <2>2. Len(pend) = 1 /\ Len(ps) = 1 /\ pend[1] = n /\ ps[1] = ev[n].kind /\ Len(<<>>) = 0
    OBVIOUS
  <2>3. pend \in Seq(Nat) /\ n = (n + 1) - 1
    BY <2>1
  <2>4. pend # <<>> /\ ps # <<>>
    BY <2>2
  <2> HIDE DEF pend, ps
  <2>5. QED BY <2>1, <2>2, <2>3, <2>4, Zenon
<1> HIDE DEF pend, ps
<1>2. /\ \A j \in 1..1 : j = 1
      /\ \A j \in 1..(1 - 1) : FALSE
      /\ \A j, k \in 1..1 : ~(j < k)
  OBVIOUS
<1>3. ASSUME ev[n].parent = 0, NEW w \in W PROVE \E j \in 1..1 : pend[j] = w
  <2>1. w \in Nodes(ev) /\ low[w] = n
    BY <1>3
  <2>2. Top(pend) = n
    BY <1>1 DEF Top
  <2>3. /\ ev \in Seq(EventRecord) /\ low \in Places /\ close \in Places
        /\ Linked(ev) /\ Woven(ev, <<>>, low, close)
    BY DEF Sown
  <2>4. \A j \in 1..(Len(pend) - 1) : ev[pend[j]].parent = pend[j + 1]
    BY <1>1, <1>2
  <2>5. ev[Top(pend)].parent = 0
    BY <1>3, <2>2
  <2>6. \E j \in 1..Len(pend) : pend[j] = w
    BY <1>1, <2>1, <2>3, <2>4, <2>5, ChainEnds
  <2>7. QED BY <1>1, <2>6
<1>4. n \in W /\ \A w \in W : w \in Nodes(ev) /\ low[w] = n
  OBVIOUS
<1>5. Collected(ev, low, close, pend, W, n + 1, ps, ev[n].parent)
  <2>1. \A j \in 1..Len(ps) : pend[j] \in W /\ ps[j] = ev[pend[j]].kind
    BY <1>1, <1>2, <1>4
  <2>2. \A w \in W : w \in Nodes(ev) /\ low[w] = (n + 1) - 1
    BY <1>1, <1>4
  <2>3. /\ \A j \in 1..(Len(ps) - 1) : ev[pend[j]].parent = pend[j + 1]
        /\ \A j, k \in 1..Len(ps) : j < k => close[pend[j]] < close[pend[k]]
    BY <1>1, <1>2
  <2>4. pend[1] = (n + 1) - 1
    BY <1>1
  <2>5. IF ev[n].parent = 0 THEN \A w \in W : \E j \in 1..Len(ps) : pend[j] = w
        ELSE /\ ps # <<>> /\ ev[n].parent = ev[pend[Len(ps)]].parent
             /\ W = {y \in Nodes(ev) : low[y] = (n + 1) - 1}
    BY <1>1, <1>3
  <2>6. \A z \in Nodes(ev), w \in W :
          low[z] = (n + 1) - 1 /\ z \notin W => close[w] < close[z]
    BY <1>1
  <2>7. Len(pend) = Len(ps)
    BY <1>1
  <2>8. QED BY <2>1, <2>2, <2>3, <2>4, <2>5, <2>6, <2>7 DEF Collected
<1>6. ASSUME NEW q \in 1..Len(ev)
      PROVE  Found(ev, low, pend, W, n + 1, q) <=> Found(ev, low, <<>>, {}, n, q)
  <2>1. CASE q \in Nodes(ev) /\ low[q] = n
    <3>1. q \in W /\ low[q] \in Nat
      BY <1>1, <2>1
    <3>2. (\E j \in 1..Len(pend) : pend[j] = q) => q = n
      BY <1>1, <1>2
    <3>3. QED BY <1>1, <2>1, <3>1, <3>2 DEF Found
  <2>2. CASE q \in Nodes(ev) /\ low[q] # n
    <3>1. q \notin W /\ (low[q] < n + 1 <=> low[q] < n)
      BY <1>1, <2>2
    <3>2. QED BY <2>2, <3>1 DEF Found
  <2>3. CASE q \notin Nodes(ev)
    BY <2>3 DEF Found
  <2>4. QED BY <2>1, <2>2, <2>3
<1>7. Renamed(ev, new, low, pend, W, n + 1)
  BY <1>6 DEF Renamed
<1>8. QED BY <1>5, <1>7 DEF pend, ps

\* What the tree finds where it looks for a parent.
LEMMA CollectedFinds ==
  ASSUME NEW ev, NEW low, NEW close, Sown(ev, low, close), NEW n \in Nat,
         NEW pend \in Seq(Nat), NEW wait, NEW ps \in Seq(NodeKinds), NEW pp \in 1..Len(ev),
         Collected(ev, low, close, pend, wait, n, ps, pp),
         NEW new, Renamed(ev, new, low, pend, wait, n), IsLive(new[pp])
  PROVE  /\ pp \in wait /\ pp \in Nodes(ev) /\ low[pp] # pp /\ low[pp] < n
         /\ new[pp].kind = ev[pp].kind /\ new[pp].parent = ev[pp].parent
         /\ ps # <<>> /\ ev[pend[Len(ps)]].parent = pp /\ close[pend[Len(ps)]] < close[pp]
<1> DEFINE t == pend[Len(ps)]
<1>1. /\ ps # <<>> /\ pp = ev[t].parent /\ wait = {y \in Nodes(ev) : low[y] = n - 1}
      /\ pp # 0 /\ Len(ev) \in Nat /\ pp \in Nat
  BY SownSays DEF Collected
<1>2. Len(ps) \in 1..Len(ps)
  BY <1>1, PopTyped
<1>3. t \in wait
  BY <1>2 DEF Collected
<1>4. t \in Nodes(ev) /\ low[t] = n - 1 /\ t \in 1..Len(ev)
  BY <1>1, <1>3, SownSays
<1> HIDE DEF t
<1>5. low[t] = low[pp] /\ close[t] = pp - 1 /\ pp > t
  <2>1. Linked(ev) /\ Chained(ev, <<>>, low, close)
    BY DEF Sown, Woven
  <2>2. low[t] = low[pp] /\ close[t] = pp - 1
    BY <1>1, <1>4, <2>1 DEF Chained
  <2>3. pp \in (t + 1)..Len(ev)
    BY <1>1, <1>4, <2>1 DEF Linked
  <2>4. QED BY <1>1, <1>4, <2>2, <2>3
<1>6. /\ new[pp].type = ev[pp].type /\ new[pp].parent = ev[pp].parent
      /\ new[pp].kind = IF Found(ev, low, pend, wait, n, pp) THEN "None" ELSE ev[pp].kind
  BY DEF Renamed
<1>7. new[pp].kind = ev[pp].kind
  BY <1>6 DEF IsLive
<1>8. pp \in Nodes(ev)
  BY <1>6, <1>7 DEF IsLive, Nodes
<1>9. pp < close[pp] /\ low[t] \in 1..t /\ t \in Nat /\ close[pp] \in Nat /\ low[t] \in Nat
  BY <1>4, <1>8, SownSays
<1>10. pp \in wait /\ low[pp] # pp /\ low[pp] < n /\ close[t] < close[pp]
  BY <1>1, <1>4, <1>5, <1>8, <1>9
<1>11. QED BY <1>1, <1>6, <1>7, <1>8, <1>10 DEF t

\* Sequence t is s with e added.
Longer(s, e, t) == t = Append(s, e)

LEMMA LessThrough ==
  ASSUME NEW a \in Nat, NEW b \in Nat, NEW c \in Nat, a < b, b < c
  PROVE  a < c
OBVIOUS

\* A parent is found, and the next one is to be looked for.
LEMMA CollectedMore ==
  ASSUME NEW ev, NEW low, NEW close, Sown(ev, low, close), NEW n \in Nat,
         NEW pend \in Seq(Nat), NEW wait, NEW ps \in Seq(NodeKinds), NEW pp \in 1..Len(ev),
         Collected(ev, low, close, pend, wait, n, ps, pp),
         pp \in wait, ps # <<>>, ev[pend[Len(ps)]].parent = pp,
         close[pend[Len(ps)]] < close[pp],
         NEW more, Longer(pend, pp, more), NEW qs, Longer(ps, ev[pp].kind, qs)
  PROVE  Collected(ev, low, close, more, wait, n, qs, ev[pp].parent)
<1> DEFINE l == Len(ps)
<1>1. /\ l \in Nat /\ l >= 1 /\ Len(pend) = l /\ pend[1] = n - 1
      /\ \A j \in 1..l : pend[j] \in wait /\ ps[j] = ev[pend[j]].kind
      /\ \A w \in wait : w \in Nodes(ev) /\ low[w] = n - 1
      /\ \A j \in 1..(l - 1) : ev[pend[j]].parent = pend[j + 1]
      /\ \A j, k \in 1..l : j < k => close[pend[j]] < close[pend[k]]
      /\ wait = {y \in Nodes(ev) : low[y] = n - 1}
  <2>1. l \in Nat /\ l # 0 /\ pp # 0
    BY SownSays
  <2>2. QED BY <2>1 DEF Collected
<1>2. /\ Len(more) = l + 1 /\ Len(qs) = l + 1 /\ more[l + 1] = pp /\ qs[l + 1] = ev[pp].kind
      /\ \A j \in 1..l : more[j] = pend[j] /\ qs[j] = ps[j]
      /\ more \in Seq(Nat) /\ more # <<>> /\ qs # <<>>
  <2>1. /\ Len(more) = Len(pend) + 1 /\ Len(qs) = l + 1 /\ more[Len(pend) + 1] = pp
        /\ qs[l + 1] = ev[pp].kind
        /\ \A j \in 1..Len(pend) : more[j] = pend[j]
        /\ \A j \in 1..l : qs[j] = ps[j]
    BY DEF Longer
  <2>2. more \in Seq(Nat) /\ more # <<>>
    <3>1. pp \in Nat
      BY SownSays
    <3>2. QED BY <3>1 DEF Longer
  <2>3. Len(<<>>) = 0 /\ l + 1 # 0
    BY <1>1
  <2> HIDE DEF l
  <2>4. qs # <<>>
    BY <2>1, <2>3
  <2>5. QED BY <1>1, <2>1, <2>2, <2>4
<1>3. ev[pend[l]].parent = pp /\ close[pend[l]] < close[pp]
  OBVIOUS
<1> HIDE DEF l
<1>4. \A j \in 1..(l + 1) : j \in 1..l \/ j = l + 1
  BY <1>1
<1>5. \A j \in 1..(l + 1) : more[j] \in wait /\ qs[j] = ev[more[j]].kind
  BY <1>1, <1>2, <1>4
<1>6. \A j \in 1..l : ev[more[j]].parent = more[j + 1]
  <2>1. SUFFICES ASSUME NEW j \in 1..l PROVE ev[more[j]].parent = more[j + 1]
    OBVIOUS
  <2>2. CASE j = l
    BY <1>1, <1>2, <1>3, <2>2
  <2>3. CASE j # l
    <3>1. j \in 1..(l - 1) /\ j + 1 \in 1..l
      BY <1>1, <2>1, <2>3
    <3>2. QED BY <1>1, <1>2, <3>1
  <2>4. QED BY <2>2, <2>3
<1>7. ASSUME NEW j \in 1..(l + 1), NEW k \in 1..(l + 1), j < k
      PROVE  close[more[j]] < close[more[k]]
  <2>1. j \in 1..l /\ more[j] = pend[j]
    BY <1>1, <1>2, <1>7
  <2>2. CASE k \in 1..l
    BY <1>1, <1>2, <1>7, <2>1, <2>2
  <2>3. CASE k = l + 1
    <3>1. CASE j = l
      BY <1>2, <1>3, <2>1, <2>3, <3>1
    <3>2. CASE j # l
      <4>1. l \in 1..l /\ j < l
        BY <1>1, <2>1, <3>2
      <4>2. close[pend[j]] < close[pend[l]]
        BY <1>1, <2>1, <4>1
      <4>3. /\ close[pend[j]] \in Nat /\ close[pend[l]] \in Nat /\ close[pp] \in Nat
        BY <1>1, <2>1, <4>1, SownSays
      <4>4. close[pend[j]] < close[pp]
        BY <1>3, <4>2, <4>3, LessThrough, Zenon
      <4>5. QED BY <1>2, <2>1, <2>3, <4>4
    <3>3. QED BY <3>1, <3>2
  <2>4. QED BY <1>4, <2>2, <2>3
<1>8. more[1] = n - 1
  <2>1. 1 \in 1..l
    BY <1>1
  <2>2. QED BY <1>1, <1>2, <2>1
<1>9. ASSUME ev[pp].parent = 0, NEW w \in wait PROVE \E j \in 1..(l + 1) : more[j] = w
  <2>1. w \in Nodes(ev) /\ low[w] = n - 1
    BY <1>1, <1>9
  <2>2. Top(more) = pp
    BY <1>2 DEF Top
  <2>3. /\ ev \in Seq(EventRecord) /\ low \in Places /\ close \in Places
        /\ Linked(ev) /\ Woven(ev, <<>>, low, close)
    BY DEF Sown
  <2>4. more[1] \in Nodes(ev) /\ low[w] = more[1]
    <3>1. 1 \in 1..l
      BY <1>1
    <3>2. QED BY <1>1, <1>2, <1>8, <2>1, <3>1
  <2>5. \A j \in 1..(Len(more) - 1) : ev[more[j]].parent = more[j + 1]
    <3>1. Len(more) - 1 = l
      BY <1>1, <1>2
    <3>2. QED BY <1>6, <3>1
  <2>6. ev[Top(more)].parent = 0
    BY <1>9, <2>2
  <2>7. PICK m \in Nodes(ev) : m = more[1]
    BY <2>4
  <2>8. \E j \in 1..Len(more) : more[j] = w
    <3>1. low[w] = m /\ more[1] = m /\ more \in Seq(Nat) /\ more # <<>>
      BY <1>2, <2>4, <2>7
    <3>2. QED BY <2>1, <2>3, <2>5, <2>6, <3>1, ChainEnds
  <2>9. QED BY <1>2, <2>8
<1>10. Collected(ev, low, close, more, wait, n, qs, ev[pp].parent)
  <2>1. \A j \in 1..Len(qs) : more[j] \in wait /\ qs[j] = ev[more[j]].kind
    BY <1>2, <1>5
  <2>2. \A j \in 1..(Len(qs) - 1) : ev[more[j]].parent = more[j + 1]
    <3>1. Len(qs) - 1 = l
      BY <1>1, <1>2
    <3>2. QED BY <1>6, <3>1
  <2>3. \A j, k \in 1..Len(qs) : j < k => close[more[j]] < close[more[k]]
    BY <1>2, <1>7
  <2>4. IF ev[pp].parent = 0 THEN \A w \in wait : \E j \in 1..Len(qs) : more[j] = w
        ELSE /\ qs # <<>> /\ ev[pp].parent = ev[more[Len(qs)]].parent
             /\ wait = {y \in Nodes(ev) : low[y] = n - 1}
    BY <1>1, <1>2, <1>9
  <2>5. \A z \in Nodes(ev), w \in wait : low[z] = n - 1 /\ z \notin wait => close[w] < close[z]
    BY <1>1
  <2>6. Len(more) = Len(qs) /\ \A w \in wait : w \in Nodes(ev) /\ low[w] = n - 1
    BY <1>1, <1>2
  <2>7. QED BY <1>8, <2>1, <2>2, <2>3, <2>4, <2>5, <2>6 DEF Collected
<1>11. QED BY <1>10

\* It loses its kind.
LEMMA RenamedMore ==
  ASSUME NEW ev, NEW low, NEW n \in Nat, NEW pend \in Seq(Nat), NEW wait,
         NEW pp \in Nat, pp \in wait, pp \in Nodes(ev), low[pp] # pp, low[pp] < n,
         NEW old, Renamed(ev, old, low, pend, wait, n),
         NEW new, Len(new) = Len(old),
         \A q \in 1..Len(old) : /\ new[q].type = old[q].type /\ new[q].parent = old[q].parent
                                /\ new[q].index = old[q].index
                                /\ new[q].kind = IF q = pp THEN "None" ELSE old[q].kind,
         NEW more, more = Append(pend, pp)
  PROVE  Renamed(ev, new, low, more, wait, n)
<1>1. /\ Len(pend) \in Nat /\ Len(more) = Len(pend) + 1 /\ more[Len(pend) + 1] = pp
      /\ \A j \in 1..Len(pend) : more[j] = pend[j]
  OBVIOUS
<1> DEFINE l == Len(pend)
<1>2. /\ l \in Nat /\ l + 1 \in 1..(l + 1) /\ (\A j \in 1..(l + 1) : j \in 1..l \/ j = l + 1)
      /\ \A j \in 1..l : j \in 1..(l + 1)
  BY <1>1
<1>3. Found(ev, low, more, wait, n, pp)
  BY <1>1, <1>2 DEF Found
<1> HIDE DEF l
<1>4. ASSUME NEW q, q # pp
      PROVE  Found(ev, low, more, wait, n, q) <=> Found(ev, low, pend, wait, n, q)
  <2>1. (\E j \in 1..(l + 1) : more[j] = q) <=> \E j \in 1..l : pend[j] = q
    BY <1>1, <1>2, <1>4 DEF l
  <2>2. QED BY <1>1, <2>1 DEF Found, l
<1>5. Len(new) = Len(ev)
  BY DEF Renamed
<1>6. ASSUME NEW q \in 1..Len(ev)
      PROVE  /\ new[q].type = ev[q].type /\ new[q].index = ev[q].index
             /\ new[q].parent = ev[q].parent
             /\ new[q].kind = IF Found(ev, low, more, wait, n, q) THEN "None" ELSE ev[q].kind
  BY <1>3, <1>4 DEF Renamed
<1>7. QED BY <1>5, <1>6 DEF Renamed

\* The outermost of the nodes that are about to start has started.
LEMMA CollectedLess ==
  ASSUME NEW ev, NEW low, NEW close, Sown(ev, low, close), NEW n \in Nat,
         NEW pend \in Seq(Nat), NEW wait, NEW ps \in Seq(NodeKinds), ps # <<>>,
         Collected(ev, low, close, pend, wait, n, ps, 0), NEW y, y = pend[Len(ps)],
         NEW new, Renamed(ev, new, low, pend, wait, n)
  PROVE  /\ Collected(ev, low, close, Pop(pend), wait \ {y}, n, Pop(ps), 0)
         /\ Renamed(ev, new, low, Pop(pend), wait \ {y}, n)
<1> DEFINE l == Len(ps)
           less == Pop(pend)
           qs == Pop(ps)
           left == wait \ {y}
<1>1. /\ l \in Nat /\ l >= 1 /\ Len(pend) = l /\ pend[1] = n - 1
      /\ \A j \in 1..l : pend[j] \in wait /\ ps[j] = ev[pend[j]].kind
      /\ \A w \in wait : w \in Nodes(ev) /\ low[w] = n - 1 /\ \E j \in 1..l : pend[j] = w
      /\ \A j \in 1..(l - 1) : ev[pend[j]].parent = pend[j + 1]
      /\ \A j, k \in 1..l : j < k => close[pend[j]] < close[pend[k]]
      /\ \A z \in Nodes(ev), w \in wait : low[z] = n - 1 /\ z \notin wait => close[w] < close[z]
      /\ y \in wait
  <2>1. l \in Nat /\ l # 0 /\ l \in 1..l
    BY PopTyped
  <2>2. QED BY <2>1 DEF Collected
<1>2. pend # <<>>
  <2>1. Len(<<>>) = 0
    OBVIOUS
  <2> HIDE DEF l
  <2>2. QED BY <1>1, <2>1
<1>3. /\ Len(less) = l - 1 /\ Len(qs) = l - 1
      /\ \A j \in 1..(l - 1) : less[j] = pend[j] /\ qs[j] = ps[j]
  <2>1. /\ Len(Pop(pend)) = Len(pend) - 1
        /\ \A j \in 1..(Len(pend) - 1) : Pop(pend)[j] = pend[j]
    BY <1>2, PopTyped
  <2>2. /\ Len(Pop(ps)) = Len(ps) - 1
        /\ \A j \in 1..(Len(ps) - 1) : Pop(ps)[j] = ps[j]
    BY PopTyped
  <2>3. QED BY <1>1, <2>1, <2>2, Zenon
<1>4. y = pend[l]
  OBVIOUS
<1>6. \A w \in left : w \in wait /\ w # y
  OBVIOUS
<1>7. \A w \in wait : w # y => w \in left
  OBVIOUS
<1> HIDE DEF l, less, qs, left
<1>8. /\ \A j \in 1..(l - 1) : j \in 1..l /\ j < l /\ l \in 1..l
      /\ \A j \in 1..l : j = l \/ j \in 1..(l - 1)
  BY <1>1
<1>5. ASSUME NEW w \in wait, w # y PROVE close[w] < close[y]
  <2>1. PICK j \in 1..l : pend[j] = w
    BY <1>1
  <2>2. j \in 1..(l - 1)
    BY <1>4, <1>5, <1>8, <2>1
  <2>3. QED BY <1>1, <1>4, <1>8, <2>1, <2>2
<1>9. ASSUME NEW j \in 1..(l - 1) PROVE less[j] \in left /\ qs[j] = ev[less[j]].kind
  <2>1. pend[j] \in wait /\ ps[j] = ev[pend[j]].kind /\ close[pend[j]] < close[pend[l]]
    BY <1>1, <1>8, <1>9
  <2>2. close[y] \in Nat /\ close[pend[j]] \in Nat
    BY <1>1, <2>1, SownSays
  <2>3. pend[j] # y
    BY <1>4, <2>1, <2>2
  <2>4. QED BY <1>3, <1>7, <1>9, <2>1, <2>3
<1>10. ASSUME NEW w \in left PROVE \E j \in 1..(l - 1) : less[j] = w
  <2>1. PICK j \in 1..l : pend[j] = w
    BY <1>1, <1>6, <1>10
  <2>2. j \in 1..(l - 1)
    BY <1>4, <1>6, <1>8, <1>10, <2>1
  <2>3. QED BY <1>3, <2>1, <2>2
<1>11. \A j \in 1..((l - 1) - 1) : ev[less[j]].parent = less[j + 1]
  <2>1. \A j \in 1..((l - 1) - 1) : j \in 1..(l - 1) /\ j + 1 \in 1..(l - 1)
    BY <1>1
  <2>2. QED BY <1>1, <1>3, <2>1
<1>12. \A j, k \in 1..(l - 1) : j < k => close[less[j]] < close[less[k]]
  BY <1>1, <1>3, <1>8
<1>13. ASSUME NEW z \in Nodes(ev), NEW w \in left, low[z] = n - 1, z \notin left
       PROVE  close[w] < close[z]
  <2>1. CASE z \in wait
    BY <1>5, <1>6, <1>7, <1>13, <2>1
  <2>2. CASE z \notin wait
    BY <1>1, <1>6, <1>13, <2>2
  <2>3. QED BY <2>1, <2>2
<1>14. ASSUME qs # <<>> PROVE less[1] = n - 1
  <2>1. l # 1
    <3>1. CASE l = 1
      <4>1. Len(qs) = 0
        BY <1>3, <3>1
      <4>2. qs \in Seq(NodeKinds)
        BY PopTyped DEF qs
      <4>3. QED BY <1>14, <4>1, <4>2
    <3>2. QED BY <3>1
  <2>2. 1 \in 1..(l - 1)
    BY <1>1, <2>1
  <2>3. QED BY <1>1, <1>3, <2>2
<1>15. Collected(ev, low, close, less, left, n, qs, 0)
  <2>1. \A w \in left : w \in Nodes(ev) /\ low[w] = n - 1
    BY <1>1, <1>6
  <2>2. QED BY <1>3, <1>9, <1>10, <1>11, <1>12, <1>13, <1>14, <2>1 DEF Collected
<1>16. ASSUME NEW q
       PROVE  Found(ev, low, less, left, n, q) <=> Found(ev, low, pend, wait, n, q)
  <2>1. q \in wait => \E j \in 1..l : pend[j] = q
    BY <1>1
  <2>2. q \in left => \E j \in 1..(l - 1) : less[j] = q
    BY <1>10
  <2>3. QED BY <1>1, <1>3, <2>1, <2>2 DEF Found
<1>17. Renamed(ev, new, low, less, left, n)
  BY <1>16 DEF Renamed
<1>18. QED BY <1>15, <1>17 DEF less, qs, left

-----------------------------------------------------------------------------
(* The tree while it is built from the events. *)

\* What the parser left was ev, and the entries so far come from those of its events that were
\* reached.
Rising(ev, low, close, pend, wait, from) ==
  /\ Sown(ev, low, close) /\ Operated(ev, tokens, low, close)
  /\ Renamed(ev, events, low, pend, wait, next)
  /\ Collected(ev, low, close, pend, wait, next, parents, parentPos)
  /\ Grafted(ev, low, close, tokens, entries, from, Reached(ev, low, next, wait))
  /\ Stacked(ev, close, entries, from, nodeStack, next, Reached(ev, low, next, wait))

Rises(ev, low, close) ==
  \E pend \in Seq(Nat), wait \in SUBSET Nat, from \in Places :
    Rising(ev, low, close, pend, wait, from)

\* The tree holds all the nodes and tokens of the events.
Risen(ev, low, close, from) ==
  /\ Sown(ev, low, close) /\ Operated(ev, tokens, low, close) /\ from \in Places
  /\ Grafted(ev, low, close, tokens, entries, from, Listed(ev))

WellBuilt ==
  phase # "parse" /\ Clean =>
    \E ev \in Seq(EventRecord), low \in Places, close \in Places :
      IF phase = "build" THEN Rises(ev, low, close)
      ELSE \E from \in Places : Risen(ev, low, close, from)

\* The File is the outermost of the open nodes.
LEMMA FileIsOpen ==
  ASSUME IInv, Grows
  PROVE  /\ nodeStack \in Seq(Nat) /\ nodeStack # <<>> /\ nodeStack[1] = 0
         /\ Top(nodeStack) \in Nat /\ Top(nodeStack) = OpenNode
<1>1. nodeStack \in Seq(0..Len(entries))
  BY WhileBuilding
<1>2. nodeStack = << 0 >> \/ (Len(nodeStack) >= 2 /\ nodeStack[1] = 0)
  BY DEF Grows, Growing, Staged, Empty, BlockStarts, BlockOpen, BlockEnded
<1>3. nodeStack # <<>> /\ nodeStack[1] = 0
  <2>1. << 0 >> # <<>> /\ << 0 >>[1] = 0 /\ Len(<<>>) = 0
    <3>1. Len(<< 0 >>) = 1 /\ Len(<<>>) = 0 /\ << 0 >>[1] = 0
      OBVIOUS
    <3>2. QED BY <3>1
  <2>2. CASE nodeStack = << 0 >>
    BY <2>1, <2>2
  <2>3. CASE Len(nodeStack) >= 2 /\ nodeStack[1] = 0
    BY <2>1, <2>3
  <2>4. QED BY <1>2, <2>2, <2>3
<1>4. nodeStack \in Seq(Nat)
  <2>1. \A k \in 1..Len(nodeStack) : nodeStack[k] \in Nat
    BY <1>1
  <2>2. QED BY <1>1, <2>1
<1>5. Top(nodeStack) \in Nat
  BY <1>3, <1>4, PopTyped
<1>6. QED BY <1>3, <1>4, <1>5 DEF OpenNode

\* What the tree takes beside the token of an event are comments.
LEMMA TakenAreComments ==
  ASSUME IInv, TokensInOrder
  PROVE  /\ \A k \in (eaten + 1)..Commented : tokens[k] \in Comments
         /\ \A n \in 0..Len(tokens) : \A k \in (n + 1)..Inlined(n) : tokens[k] \in Comments
<1>1. /\ tokens \in Seq(TokenKinds) /\ Len(tokens) \in Nat /\ eaten \in Nat /\ eaten + 1 \in Nat
      /\ Commented \in Nat /\ Commented + 1 = SkipComment(tokens, eaten + 1)
  BY WhileBuilding, CommentedSkips
<1> DEFINE A == {j \in (eaten + 1)..Len(tokens) : tokens[j] \notin Comments}
           z == Syntax!Least(A)
<1>2. ASSUME A = {} PROVE \A k \in (eaten + 1)..Commented : tokens[k] \in Comments
  <2>1. Commented \in eaten..Len(tokens)
    BY TakesUpTo
  <2>2. \A j \in (eaten + 1)..Len(tokens) : tokens[j] \in Comments
    BY <1>2
  <2>3. \A j \in (eaten + 1)..Commented : j \in (eaten + 1)..Len(tokens)
    BY <1>1, <2>1
  <2>4. QED BY <2>2, <2>3
<1>3. ASSUME A # {} PROVE \A k \in (eaten + 1)..Commented : tokens[k] \in Comments
  <2>1. A \in SUBSET (0..Len(tokens))
    BY <1>1
  <2> HIDE DEF A
  <2>2. z \in A /\ \A y \in A : z <= y
    BY <1>1, <1>3, <2>1, HasLeast
  <2> HIDE DEF z
  <2>3. z \in (eaten + 1)..Len(tokens) /\ tokens[z] \notin Comments
    BY <2>2 DEF A
  <2>4. ASSUME NEW k \in (eaten + 1)..(z - 1) PROVE tokens[k] \in Comments
    <3>1. k \notin A /\ k \in (eaten + 1)..Len(tokens)
      BY <1>1, <2>2, <2>3, <2>4
    <3>2. QED BY <3>1 DEF A
  <2>5. Skips(tokens, eaten + 1, z)
    BY <1>1, <2>3, <2>4 DEF Skips
  <2>6. SkipComment(tokens, eaten + 1) = z
    BY <1>1, <2>5, SkipCommentFinds
  <2>7. Commented = z - 1
    BY <1>1, <2>3, <2>6
  <2>8. QED BY <2>4, <2>7
<1>4. \A k \in (eaten + 1)..Commented : tokens[k] \in Comments
  BY <1>2, <1>3
<1>5. ASSUME NEW n \in 0..Len(tokens), NEW k \in (n + 1)..Inlined(n)
      PROVE  tokens[k] \in Comments
  <2>1. Inlined(n) # n
    BY <1>1, <1>5
  <2>2. tokens[n + 1] = "inline" /\ Inlined(n) = n + 1
    BY <2>1 DEF Inlined
  <2>3. k = n + 1
    BY <1>1, <1>5, <2>2
  <2>4. QED BY <2>2, <2>3 DEF Comments
<1>6. QED BY <1>4, <1>5

\* The entries of what is taken.
LEMMA TakenAre ==
  ASSUME IInv, NEW n \in eaten..Len(tokens), NEW more, more = entries \o Taken(n)
  PROVE  /\ more \in Seq(EntryRecord) /\ Len(more) = Len(entries) + (n - eaten)
         /\ \A k \in 1..Len(entries) : more[k] = entries[k]
         /\ \A k \in 1..(n - eaten) : more[Len(entries) + k] = TokenEntry(eaten + k)
<1>1. /\ n \in Int /\ eaten \in Nat /\ n - eaten \in Nat
      /\ entries \in Seq(EntryRecord) /\ Len(entries) \in Nat
  BY WhileBuilding
<1>2. Taken(n) \in Seq(EntryRecord) /\ Len(Taken(n)) = n - eaten
  BY <1>1, TakenTyped
<1>3. \A k \in 1..(n - eaten) : Taken(n)[k] = TokenEntry(eaten + k)
  BY <1>1 DEF Taken
<1>4. PICK s \in Seq(EntryRecord), t \in Seq(EntryRecord) : s = entries /\ t = Taken(n)
  BY <1>1, <1>2
<1>5. more = s \o t
  BY <1>4
<1>6. /\ more \in Seq(EntryRecord) /\ Len(more) = Len(s) + Len(t)
      /\ \A k \in 1..Len(s) : more[k] = s[k]
      /\ \A k \in 1..Len(t) : more[Len(s) + k] = t[k]
  BY <1>5, ConcatElements
<1>7. QED BY <1>2, <1>3, <1>4, <1>6

\* Comments are taken.
LEMMA CommentsTaken ==
  ASSUME IInv, NEW n \in eaten..Len(tokens), \A k \in (eaten + 1)..n : tokens[k] \in Comments,
         NEW more, more = entries \o Taken(n)
  PROVE  /\ more \in Seq(EntryRecord) /\ Len(more) = Len(entries) + (n - eaten)
         /\ Commenting(entries, more, tokens, 0)
<1>1. /\ n \in Nat /\ eaten \in Nat /\ n - eaten \in Nat /\ Len(entries) \in Nat
  BY WhileBuilding
<1>2. /\ more \in Seq(EntryRecord) /\ Len(more) = Len(entries) + (n - eaten)
      /\ \A k \in 1..Len(entries) : more[k] = entries[k]
      /\ \A k \in 1..Len(more) : k > Len(entries) => more[k].token = eaten + (k - Len(entries))
  BY TakenAdds
<1>3. ASSUME NEW k \in 1..Len(more), k > Len(entries) PROVE ~Coded(more, tokens, k)
  <2>1. more[k].token = eaten + (k - Len(entries))
    BY <1>2, <1>3
  <2>2. more[k].token \in (eaten + 1)..n
    BY <1>1, <1>2, <1>3, <2>1
  <2>3. more[k].token # 0 /\ tokens[more[k].token] \in Comments
    BY <1>1, <2>2
  <2>4. QED BY <2>3 DEF Coded
<1>4. Len(entries) <= Len(more)
  BY <1>1, <1>2
<1>5. QED BY <1>2, <1>3, <1>4 DEF Commenting

\* What FinishNode adds are comments.
LEMMA FinishComments ==
  ASSUME IInv, TokensInOrder, nodeStack # <<>>, FinishNode
  PROVE  /\ entries' \in Seq(EntryRecord) /\ Commenting(entries, entries', tokens, 0)
         /\ nodeStack' = Pop(nodeStack)
<1>1. PICK upTo \in {Commented, Inlined(eaten)} : entries' = entries \o Taken(upTo)
  BY DEF FinishNode
<1>2. nodeStack' = Pop(nodeStack)
  BY DEF FinishNode
<1>3. eaten \in 0..Len(tokens)
  BY WhileBuilding DEF TokensInOrder
<1>4. upTo \in eaten..Len(tokens)
  BY <1>1, <1>3, TakesUpTo
<1>5. \A k \in (eaten + 1)..upTo : tokens[k] \in Comments
  BY <1>1, <1>3, TakenAreComments
<1>6. PICK n \in eaten..Len(tokens) : n = upTo
  BY <1>4
<1>7. entries' = entries \o Taken(n) /\ \A k \in (eaten + 1)..n : tokens[k] \in Comments
  BY <1>1, <1>5, <1>6
<1>8. QED BY <1>2, <1>7, CommentsTaken

-----------------------------------------------------------------------------
(* Each step of BuildTree. *)

\* An event is next, and no node is about to start.
LEMMA RisingAt ==
  ASSUME IInv, NEW ev \in Seq(EventRecord), NEW low \in Places, NEW close \in Places,
         Rises(ev, low, close), parents = <<>>
  PROVE  /\ parentPos = 0 /\ Sown(ev, low, close) /\ Operated(ev, tokens, low, close)
         /\ Len(events) = Len(ev) /\ next \in Nat
         /\ \E from \in Places :
              /\ Renamed(ev, events, low, <<>>, {}, next)
              /\ Grafted(ev, low, close, tokens, entries, from, Reached(ev, low, next, {}))
              /\ Stacked(ev, close, entries, from, nodeStack, next, Reached(ev, low, next, {}))
<1>1. PICK pend \in Seq(Nat), wait \in SUBSET Nat, from \in Places :
        Rising(ev, low, close, pend, wait, from)
  BY DEF Rises
<1>2. parentPos = 0 /\ next \in Nat
  BY WhileBuilding
<1>3. Collected(ev, low, close, pend, wait, next, <<>>, 0)
  BY <1>1, <1>2 DEF Rising
<1>4. pend = <<>> /\ wait = {}
  BY <1>3, NoneWaits
<1>5. /\ Sown(ev, low, close) /\ Operated(ev, tokens, low, close)
      /\ Renamed(ev, events, low, <<>>, {}, next)
      /\ Grafted(ev, low, close, tokens, entries, from, Reached(ev, low, next, {}))
      /\ Stacked(ev, close, entries, from, nodeStack, next, Reached(ev, low, next, {}))
  BY <1>1, <1>4 DEF Rising
<1>6. Len(events) = Len(ev)
  BY <1>5 DEF Renamed
<1>7. QED BY <1>2, <1>5, <1>6

\* What is left to show when an event has gone by with which no node started.
LEMMA RisenPast ==
  ASSUME NEW ev \in Seq(EventRecord), NEW low \in Places, NEW close \in Places,
         Sown(ev, low, close), Operated(ev, tokens, low, close), tokens' = tokens,
         NEW n \in 1..Len(ev), n \in Nodes(ev) => low[n] # n,
         Renamed(ev, events, low, <<>>, {}, n), events' = events, next' = n + 1,
         parents' = <<>>, parentPos' = 0, NEW now \in Places,
         Grafted(ev, low, close, tokens, entries', now, Reached(ev, low, n + 1, {})),
         Stacked(ev, close, entries', now, nodeStack', n + 1, Reached(ev, low, n + 1, {}))
  PROVE  Rises(ev, low, close)'
<1>1. /\ Renamed(ev, events, low, <<>>, {}, n + 1)
      /\ Collected(ev, low, close, <<>>, {}, n + 1, <<>>, 0)
  BY RenamedPassed
<1>2. Rising(ev, low, close, <<>>, {}, now)'
  BY <1>1 DEF Rising
<1>3. <<>> \in Seq(Nat) /\ {} \in SUBSET Nat
  OBVIOUS
<1>4. QED BY <1>2, <1>3 DEF Rises

\* An event goes by that changes nothing.
LEMMA PassingRises ==
  ASSUME IInv, IInv', NEW ev \in Seq(EventRecord), NEW low \in Places, NEW close \in Places,
         Rises(ev, low, close), parents = <<>>, next <= Len(events),
         ~IsLive(events[next]), ~IsEnd(events[next]), ~Eats(events, next), next' = next + 1,
         UNCHANGED <<events, tokens, parents, parentPos, entries, nodeStack>>
  PROVE  Rises(ev, low, close)'
<1>1. /\ parentPos = 0 /\ Sown(ev, low, close) /\ Operated(ev, tokens, low, close)
      /\ Len(events) = Len(ev) /\ next \in Nat
  BY RisingAt
<1>2. next \in 1..Len(ev)
  BY <1>1, WhileBuilding
<1>3. PICK n \in 1..Len(ev) : n = next
  BY <1>2
<1>4. PICK from \in Places :
        /\ Renamed(ev, events, low, <<>>, {}, n)
        /\ Grafted(ev, low, close, tokens, entries, from, Reached(ev, low, n, {}))
        /\ Stacked(ev, close, entries, from, nodeStack, n, Reached(ev, low, n, {}))
  BY <1>3, RisingAt
<1>5. /\ n \in Nodes(ev) => low[n] # n
      /\ ~IsEnd(ev[n]) /\ ~Eats(ev, n)
  <2>1. /\ events[n].type = ev[n].type
        /\ ~IsLive(events[n]) => (n \in Nodes(ev) => low[n] # n)
    BY <1>1, <1>4, RenamedSays
  <2>2. QED BY <1>3, <2>1 DEF IsEnd, Eats
<1>6. Reached(ev, low, n + 1, {}) = Reached(ev, low, n, {})
  BY <1>1, <1>5, ReachedPassed
<1>7. \A y \in Nodes(ev) : close[y] # n
  BY <1>1, <1>5, SownSays
<1>8. Stacked(ev, close, entries, from, nodeStack, n + 1, Reached(ev, low, n, {}))
  <2>1. entries \in Seq(EntryRecord) /\ Len(entries) \in Nat
    BY WhileBuilding
  <2>2. n \in Nat
    BY <1>1, <1>3
  <2>3. PICK es \in Seq(EntryRecord) : es = entries
    BY <2>1
  <2>4. Len(es) <= Len(es)
    BY <2>1, <2>3
  <2>5. Stacked(ev, close, es, from, nodeStack, n, Reached(ev, low, n, {}))
    BY <1>4, <2>3
  <2>6. PICK R : R = Reached(ev, low, n, {})
    OBVIOUS
  <2>7. Stacked(ev, close, es, from, nodeStack, n + 1, R)
    BY <1>7, <2>2, <2>4, <2>5, <2>6, StackedStay
  <2>8. QED BY <2>3, <2>6, <2>7
<1>9. QED BY <1>1, <1>3, <1>4, <1>5, <1>6, <1>8, RisenPast

\* A node starts, or one that was started before goes by.
LEMMA StartRises ==
  ASSUME IInv, IInv', NEW ev \in Seq(EventRecord), NEW low \in Places, NEW close \in Places,
         Rises(ev, low, close), ReplayStart
  PROVE  Rises(ev, low, close)'
<1>1. /\ parents = <<>> /\ next <= Len(events) /\ events[next].type = "NodeStart"
      /\ next' = next + 1 /\ events' = events /\ tokens' = tokens /\ entries' = entries
      /\ nodeStack' = nodeStack
      /\ \/ events[next].kind = "None" /\ parents' = parents /\ parentPos' = parentPos
         \/ /\ events[next].kind # "None"
            /\ parents' = << events[next].kind >> /\ parentPos' = events[next].parent
  BY DEF ReplayStart, Replaying, parser
<1>2. CASE events[next].kind = "None"
  <2>1. ~IsLive(events[next]) /\ ~IsEnd(events[next]) /\ ~Eats(events, next)
    BY <1>1, <1>2 DEF IsLive, IsEnd, Eats
  <2>2. UNCHANGED <<events, tokens, parents, parentPos, entries, nodeStack>>
    BY <1>1, <1>2
  <2>3. QED BY <1>1, <2>1, <2>2, PassingRises
<1>3. CASE events[next].kind # "None"
  <2>1. /\ parentPos = 0 /\ Sown(ev, low, close) /\ Operated(ev, tokens, low, close)
        /\ Len(events) = Len(ev) /\ next \in Nat
    BY <1>1, RisingAt
  <2>2. next \in 1..Len(ev)
    BY <1>1, <2>1, WhileBuilding
  <2>3. PICK n \in 1..Len(ev) : n = next
    BY <2>2
  <2>4. PICK from \in Places :
          /\ Renamed(ev, events, low, <<>>, {}, n)
          /\ Grafted(ev, low, close, tokens, entries, from, Reached(ev, low, n, {}))
          /\ Stacked(ev, close, entries, from, nodeStack, n, Reached(ev, low, n, {}))
    BY <1>1, <2>3, RisingAt
  <2>5. IsLive(events[n])
    BY <1>1, <1>3, <2>3 DEF IsLive
  <2>6. /\ n \in Nodes(ev) /\ low[n] = n /\ events[n].kind = ev[n].kind
        /\ events[n].parent = ev[n].parent /\ events[n].type = ev[n].type
    BY <2>1, <2>4, <2>5, RenamedSays
  <2>7. PICK W \in SUBSET Nat : W = {y \in Nodes(ev) : low[y] = n}
    <3>1. Nodes(ev) \subseteq Nat
      BY <2>1, SownSays
    <3>2. QED BY <3>1
  <2>8. /\ Collected(ev, low, close, << n >>, W, n + 1, << ev[n].kind >>, ev[n].parent)
        /\ Renamed(ev, events, low, << n >>, W, n + 1)
    BY <2>1, <2>4, <2>6, <2>7, CollectedStarts
  <2>9. Reached(ev, low, n + 1, W) = Reached(ev, low, n, {})
    BY <2>1, <2>6, <2>7, ReachedStarts
  <2>10. \A y \in Nodes(ev) : close[y] # n
    <3>1. ~IsEnd(ev[n])
      BY <1>1, <2>3, <2>6 DEF IsEnd
    <3>2. QED BY <2>1, <3>1, SownSays
  <2>11. Stacked(ev, close, entries, from, nodeStack, n + 1, Reached(ev, low, n, {}))
    <3>1. entries \in Seq(EntryRecord) /\ Len(entries) \in Nat /\ n \in Nat
      BY <2>1, <2>3, WhileBuilding
    <3>2. PICK es \in Seq(EntryRecord) : es = entries
      BY <3>1
    <3> DEFINE R == Reached(ev, low, n, {})
    <3>3. Len(es) <= Len(es) /\ Stacked(ev, close, es, from, nodeStack, n, R)
      BY <2>4, <3>1, <3>2
    <3> HIDE DEF R
    <3>4. Stacked(ev, close, es, from, nodeStack, n + 1, R)
      BY <2>10, <3>1, <3>3, StackedStay
    <3>5. QED BY <3>2, <3>4 DEF R
  <2>12. Rising(ev, low, close, << n >>, W, from)'
    BY <1>1, <1>3, <2>1, <2>3, <2>4, <2>6, <2>8, <2>9, <2>11 DEF Rising
  <2>13. << n >> \in Seq(Nat)
    <3>1. n \in Nat
      BY <2>1, <2>3
    <3>2. QED BY <3>1
  <2>14. QED BY <2>7, <2>12, <2>13 DEF Rises
<1>4. QED BY <1>2, <1>3

\* An error goes by.
LEMMA ErrorRises ==
  ASSUME IInv, IInv', NEW ev \in Seq(EventRecord), NEW low \in Places, NEW close \in Places,
         Rises(ev, low, close), ReplayError
  PROVE  Rises(ev, low, close)'
<1>1. /\ parents = <<>> /\ next <= Len(events) /\ events[next].type = "Error"
      /\ next' = next + 1
      /\ UNCHANGED <<events, tokens, parents, parentPos, entries, nodeStack>>
  BY DEF ReplayError, Replaying, parser
<1>2. ~IsLive(events[next]) /\ ~IsEnd(events[next]) /\ ~Eats(events, next)
  BY <1>1 DEF IsLive, IsEnd, Eats
<1>3. QED BY <1>1, <1>2, PassingRises

\* A parent is found.
LEMMA ClimbRises ==
  ASSUME IInv, IInv', Grows, NEW ev \in Seq(EventRecord), NEW low \in Places, NEW close \in Places,
         Rises(ev, low, close), Climb
  PROVE  Rises(ev, low, close)'
<1>1. PICK pend \in Seq(Nat), wait \in SUBSET Nat, from \in Places :
        Rising(ev, low, close, pend, wait, from)
  BY DEF Rises
<1>2. /\ parentPos \in 1..Len(events) /\ IsLive(events[parentPos])
      /\ parents' = Append(parents, events[parentPos].kind)
      /\ parentPos' = events[parentPos].parent
      /\ Len(events') = Len(events) /\ Keeps(events, events')
      /\ \A q \in 1..Len(events) :
           /\ events'[q].type = events[q].type /\ events'[q].parent = events[q].parent
           /\ events'[q].kind = IF q = parentPos THEN "None" ELSE events[q].kind
  BY Climbs DEF Grows, Growing
<1>3. tokens' = tokens /\ next' = next /\ entries' = entries /\ nodeStack' = nodeStack
  BY DEF Climb
<1>4. /\ Sown(ev, low, close) /\ Operated(ev, tokens, low, close)
      /\ Renamed(ev, events, low, pend, wait, next)
      /\ Collected(ev, low, close, pend, wait, next, parents, parentPos)
      /\ Len(events) = Len(ev)
  BY <1>1 DEF Rising, Renamed
<1>5. PICK n \in Nat, pp \in 1..Len(ev), ps \in Seq(NodeKinds) :
        n = next /\ pp = parentPos /\ ps = parents
  BY <1>2, <1>4, WhileBuilding
<1>6. PICK old : old = events
  OBVIOUS
<1>7. /\ Collected(ev, low, close, pend, wait, n, ps, pp) /\ Renamed(ev, old, low, pend, wait, n)
      /\ IsLive(old[pp])
  BY <1>2, <1>4, <1>5, <1>6
<1>8. /\ pp \in wait /\ pp \in Nodes(ev) /\ low[pp] # pp /\ low[pp] < n
      /\ old[pp].kind = ev[pp].kind /\ old[pp].parent = ev[pp].parent
      /\ ps # <<>> /\ ev[pend[Len(ps)]].parent = pp /\ close[pend[Len(ps)]] < close[pp]
  BY <1>4, <1>7, CollectedFinds
<1>9. PICK more, qs : Longer(pend, pp, more) /\ Longer(ps, ev[pp].kind, qs)
  BY DEF Longer
<1>10. Collected(ev, low, close, more, wait, n, qs, ev[pp].parent)
  BY <1>4, <1>7, <1>8, <1>9, CollectedMore
<1>11. Renamed(ev, events', low, more, wait, n)
  <2>1. more = Append(pend, pp) /\ pp \in Nat
    BY <1>9, SownSays, <1>4 DEF Longer
  <2>2. PICK new : new = events'
    OBVIOUS
  <2>3. /\ Len(new) = Len(old)
        /\ \A q \in 1..Len(old) : /\ new[q].type = old[q].type /\ new[q].parent = old[q].parent
                                  /\ new[q].index = old[q].index
                                  /\ new[q].kind = IF q = pp THEN "None" ELSE old[q].kind
    BY <1>2, <1>5, <1>6, <2>2 DEF Keeps
  <2>4. Renamed(ev, new, low, more, wait, n)
    BY <1>7, <1>8, <2>1, <2>3, RenamedMore
  <2>5. QED BY <2>2, <2>4
<1>12. parents' = qs /\ parentPos' = ev[pp].parent
  BY <1>2, <1>5, <1>6, <1>8, <1>9 DEF Longer
<1>13. Rising(ev, low, close, more, wait, from)'
  BY <1>1, <1>3, <1>4, <1>5, <1>10, <1>11, <1>12 DEF Rising
<1>14. more \in Seq(Nat)
  <2>1. pp \in Nat
    BY <1>4, SownSays
  <2>2. QED BY <1>9, <2>1 DEF Longer
<1>15. QED BY <1>13, <1>14 DEF Rises

\* What StartNode adds: comments, and the node.
LEMMA NodeAdded ==
  ASSUME IInv, TokensInOrder, StartNode
  PROVE  \E mid \in Seq(EntryRecord) :
           /\ Commenting(entries, mid, tokens, 0)
           /\ entries' = Append(mid, NodeEntry(Top(parents)))
           /\ nodeStack' = Append(nodeStack, Len(mid) + 1)
<1> DEFINE kind == Top(parents)
<1>1. /\ entries' = entries
           \o (IF IsEatAllComment(kind) THEN <<>> ELSE Taken(Commented)) \o <<NodeEntry(kind)>>
      /\ nodeStack' = Append(nodeStack, Len(entries)
           + Len(IF IsEatAllComment(kind) THEN <<>> ELSE Taken(Commented)) + 1)
      /\ parents # <<>>
  BY DEF StartNode, StartAfter
<1>2. /\ entries \in Seq(EntryRecord) /\ Len(entries) \in Nat /\ eaten \in Nat
      /\ Commented \in Nat /\ Commented \in eaten..Len(tokens) /\ Commented - eaten \in Nat
  <2>1. /\ entries \in Seq(EntryRecord) /\ Len(entries) \in Nat /\ eaten \in Nat
        /\ Commented \in Nat /\ Len(tokens) \in Nat
    BY WhileBuilding, CommentedSkips
  <2>2. Commented \in eaten..Len(tokens)
    BY TakesUpTo
  <2>3. Commented - eaten \in Nat
    BY <2>1, <2>2
  <2>4. QED BY <2>1, <2>2, <2>3
<1>3. NodeEntry(kind) \in EntryRecord
  <2>1. kind \in NodeKinds
    BY <1>1, WhileBuilding, PopTyped
  <2>2. OpenNode \in Nat \union {Unlinked}
    BY <1>2, TakenTyped
  <2>3. QED BY <2>1, <2>2 DEF NodeEntry, EntryRecord
<1>4. CASE IsEatAllComment(kind)
  <2>1. Commenting(entries, entries, tokens, 0)
    BY <1>2 DEF Commenting
  <2>2. entries' = entries \o <<>> \o <<NodeEntry(kind)>>
    BY <1>1, <1>4
  <2>3. Len(<<>>) = 0 /\ nodeStack' = Append(nodeStack, Len(entries) + Len(<<>>) + 1)
    BY <1>1, <1>4
  <2>4. nodeStack' = Append(nodeStack, Len(entries) + 1)
    BY <1>2, <2>3
  <2> HIDE DEF kind
  <2>5. entries' = Append(entries, NodeEntry(kind))
    BY <1>2, <1>3, <2>2
  <2>6. QED BY <1>2, <2>1, <2>4, <2>5 DEF kind
<1>5. CASE ~IsEatAllComment(kind)
  <2> DEFINE t == Taken(Commented)
             mid == entries \o t
  <2>1. /\ mid \in Seq(EntryRecord) /\ Len(mid) = Len(entries) + (Commented - eaten)
        /\ Commenting(entries, mid, tokens, 0)
    BY <1>2, TakenAreComments, CommentsTaken
  <2>2. t \in Seq(EntryRecord) /\ Len(t) = Commented - eaten
    BY <1>2, TakenTyped
  <2>3. entries' = mid \o <<NodeEntry(kind)>>
    BY <1>1, <1>5
  <2>4. nodeStack' = Append(nodeStack, Len(entries) + Len(t) + 1)
    BY <1>1, <1>5
  <2> HIDE DEF t, mid, kind
  <2>5. nodeStack' = Append(nodeStack, Len(mid) + 1)
    BY <2>1, <2>2, <2>4
  <2>6. entries' = Append(mid, NodeEntry(kind))
    BY <1>3, <2>1, <2>3
  <2>7. QED BY <2>1, <2>5, <2>6 DEF kind
<1>6. QED BY <1>4, <1>5

\* Comments are added to the entries, and one entry more.
Adding(es, mid, new, file, kind, parent) ==
  /\ Commenting(es, mid, file, 0) /\ Len(new) = Len(mid) + 1
  /\ \A k \in 1..Len(mid) : new[k] = mid[k]
  /\ new[Len(new)].token = 0 /\ new[Len(new)].kind = kind /\ new[Len(new)].parent = parent

\* Place i is n.
SetAt(from, i, n, now) == now[i] = n /\ \A q \in Nat : q # i => now[q] = from[q]

LEMMA PlacesSet ==
  \A from \in Places, i \in Nat, n \in Nat : \E now \in Places : SetAt(from, i, n, now)
BY PlaceSet DEF SetAt

\* The entry of node y is added, and the node is open.
LEMMA NodeRises ==
  ASSUME NEW ev, NEW low, NEW close, Sown(ev, low, close), NEW file,
         NEW n \in Nat, NEW pend \in Seq(Nat), NEW wait, NEW ps \in Seq(NodeKinds), ps # <<>>,
         Collected(ev, low, close, pend, wait, n, ps, 0), NEW y, y = pend[Len(ps)],
         NEW es \in Seq(EntryRecord), NEW mid \in Seq(EntryRecord), NEW new \in Seq(EntryRecord),
         NEW ns \in Seq(Nat), ns # <<>>, ns[1] = 0,
         Adding(es, mid, new, file, Top(ps), Top(ns)),
         NEW from \in Places, NEW now \in Places, SetAt(from, Len(new), y, now),
         Grafted(ev, low, close, file, es, from, Reached(ev, low, n, wait)),
         Stacked(ev, close, es, from, ns, n, Reached(ev, low, n, wait))
  PROVE  /\ Grafted(ev, low, close, file, new, now, Reached(ev, low, n, wait \ {y}))
         /\ Stacked(ev, close, new, now, Append(ns, Len(new)), n, Reached(ev, low, n, wait \ {y}))
<1> DEFINE R == Reached(ev, low, n, wait)
           l == Len(new)
<1>1. /\ y \in wait /\ y \in Nodes(ev) /\ low[y] = n - 1 /\ n <= close[y]
      /\ Surrounds(ev, low, close, n, R, y)
  BY NodeSurrounded
<1>2. Reached(ev, low, n, wait \ {y}) = R \union {y}
  <2>1. low[y] < n
    BY <1>1
  <2>2. QED BY <1>1, <2>1, Zenon DEF Reached
<1>3. Grafted(ev, low, close, file, es, from, R) /\ Stacked(ev, close, es, from, ns, n, R)
  OBVIOUS
<1>4. y \notin R /\ \A d \in R : Start(ev, low, d) <= Start(ev, low, y)
  <2>1. y \notin R
    BY <1>1 DEF Reached
  <2>2. Start(ev, low, y) = n - 1
    BY <1>1 DEF Start
  <2>3. \A d \in R : Start(ev, low, d) <= n - 1
    BY ReachedBefore
  <2>4. QED BY <2>1, <2>2, <2>3
<1> HIDE DEF R
<1>5. /\ Len(es) \in Nat /\ Len(mid) \in Nat /\ Len(es) <= Len(mid) /\ l \in Nat
      /\ l = Len(mid) + 1 /\ l > Len(es) /\ l \in 1..l
      /\ \A k \in 1..Len(es) : k \in 1..Len(mid) /\ mid[k] = es[k] /\ k \in Nat /\ k # l
  <2>1. /\ Len(es) \in Nat /\ Len(mid) \in Nat /\ Len(es) <= Len(mid) /\ l = Len(mid) + 1
        /\ \A k \in 1..Len(es) : mid[k] = es[k]
    <3>1. Len(es) \in Nat /\ Len(mid) \in Nat
      OBVIOUS
    <3>2. QED BY <3>1 DEF Adding, Commenting
  <2> HIDE DEF l
  <2>2. QED BY <2>1
<1>6. \A k \in 1..Len(es) : new[k] = es[k] /\ now[k] = from[k]
  BY <1>5 DEF Adding, SetAt
<1>7. Commenting(es, new, file, l)
  <2>1. ASSUME NEW k \in 1..l, k > Len(es), k # l PROVE ~Coded(new, file, k)
    <3>1. k \in 1..Len(mid) /\ k # 0 /\ new[k] = mid[k]
      BY <1>5, <2>1 DEF Adding
    <3>2. ~Coded(mid, file, k)
      BY <2>1, <3>1 DEF Adding, Commenting
    <3>3. QED BY <3>1, <3>2 DEF Coded
  <2>2. QED BY <1>5, <1>6, <2>1 DEF Commenting
<1>8. IF Top(ns) = 0 THEN \A z \in Nodes(ev) : ~Inside(ev, low, close, z, y)
      ELSE /\ Top(ns) \in 1..Len(es) /\ es[Top(ns)].token = 0
           /\ Under(ev, low, close, from[Top(ns)], y)
  <2>1. ev \in Seq(EventRecord) /\ low \in Places /\ close \in Places
    BY DEF Sown
  <2>2. QED BY <1>1, <1>3, <2>1, TopIsUnder
<1>9. Fits(ev, new[l], y) /\ Coded(new, file, l)
  <2>1. Len(ps) \in 1..Len(ps)
    BY PopTyped
  <2>2. Top(ps) = ev[y].kind
    BY <2>1 DEF Collected, Top
  <2>3. QED BY <1>1, <1>5, <2>2 DEF Adding, Fits, Coded
<1>10. Gets(ev, low, close, file, es, from, R, new, now, y)
  BY <1>4, <1>5, <1>6, <1>8, <1>9 DEF Gets, Adding, SetAt
<1>11. Grafted(ev, low, close, file, new, now, R \union {y})
  BY <1>3, <1>7, <1>10, EntryGrafts
<1>12. Stacked(ev, close, new, now, Append(ns, l), n, R \union {y})
  <2>1. ev \in Seq(EventRecord) /\ low \in Places /\ close \in Places
    BY DEF Sown
  <2>2. new[l].token = 0 /\ now[l] = y
    BY DEF Adding, SetAt
  <2>3. Len(new) > Len(es) /\ new[Len(new)].token = 0 /\ now[Len(new)] = y
    BY <1>5, <2>2
  <2>4. Stacked(ev, close, new, now, Append(ns, Len(new)), n, R \union {y})
    BY <1>1, <1>3, <1>6, <2>1, <2>3, StackedMore
  <2>5. QED BY <2>4
<1>13. QED BY <1>2, <1>11, <1>12

\* A node starts.
LEMMA NodeStartRises ==
  ASSUME IInv, IInv', TokensInOrder, Grows,
         NEW ev \in Seq(EventRecord), NEW low \in Places, NEW close \in Places,
         Rises(ev, low, close), StartNode
  PROVE  Rises(ev, low, close)'
<1>1. PICK pend \in Seq(Nat), wait \in SUBSET Nat, from \in Places :
        Rising(ev, low, close, pend, wait, from)
  BY DEF Rises
<1>2. PICK mid \in Seq(EntryRecord) :
        /\ Commenting(entries, mid, tokens, 0)
        /\ entries' = Append(mid, NodeEntry(Top(parents)))
        /\ nodeStack' = Append(nodeStack, Len(mid) + 1)
  BY NodeAdded
<1>3. /\ parentPos = 0 /\ parents # <<>> /\ parents' = Pop(parents) /\ tokens' = tokens
      /\ events' = events /\ next' = next /\ parentPos' = parentPos
  BY DEF StartNode, StartAfter, parser
<1>4. PICK n \in Nat, ps \in Seq(NodeKinds), es \in Seq(EntryRecord), new \in Seq(EntryRecord),
           ns \in Seq(Nat) :
        n = next /\ ps = parents /\ es = entries /\ new = entries' /\ ns = nodeStack
  <2>1. entries' \in Seq(EntryRecord)
    BY DEF IInv, TypeOK
  <2>2. QED BY <2>1, WhileBuilding, FileIsOpen
<1>5. /\ Sown(ev, low, close) /\ Collected(ev, low, close, pend, wait, n, ps, 0)
      /\ Renamed(ev, events, low, pend, wait, n)
      /\ Grafted(ev, low, close, tokens, es, from, Reached(ev, low, n, wait))
      /\ Stacked(ev, close, es, from, ns, n, Reached(ev, low, n, wait))
  BY <1>1, <1>3, <1>4 DEF Rising
<1>6. /\ Len(new) = Len(mid) + 1 /\ Len(mid) \in Nat /\ Len(new) \in Nat
      /\ \A k \in 1..Len(mid) : new[k] = mid[k]
      /\ new[Len(new)] = NodeEntry(Top(ps))
  <2>1. new = Append(mid, NodeEntry(Top(ps)))
    BY <1>2, <1>4
  <2>2. QED BY <2>1
<1>7. ns # <<>> /\ ns[1] = 0 /\ Top(ns) = OpenNode
  BY <1>4, FileIsOpen
<1>8. /\ new[Len(new)].token = 0 /\ new[Len(new)].kind = Top(ps)
      /\ new[Len(new)].parent = Top(ns)
  BY <1>6, <1>7 DEF NodeEntry
<1>9. PICK y \in Nat : y = pend[Len(ps)]
  <2>1. Len(ps) \in 1..Len(ps)
    BY <1>3, <1>4, PopTyped
  <2>2. Len(pend) = Len(ps)
    BY <1>5 DEF Collected
  <2>3. QED BY <2>1, <2>2
<1>10. PICK now \in Places : SetAt(from, Len(new), y, now)
  <2>1. PICK i \in Nat : i = Len(new)
    BY <1>6
  <2>2. PICK set \in Places : SetAt(from, i, y, set)
    BY PlacesSet, Zenon
  <2>3. QED BY <2>1, <2>2, Zenon
<1>11. ps # <<>> /\ Commenting(es, mid, tokens, 0)
  BY <1>2, <1>3, <1>4
<1>12. /\ Grafted(ev, low, close, tokens, new, now, Reached(ev, low, n, wait \ {y}))
       /\ Stacked(ev, close, new, now, Append(ns, Len(new)), n, Reached(ev, low, n, wait \ {y}))
  <2>1. PICK file : file = tokens
    OBVIOUS
  <2>2. /\ Commenting(es, mid, file, 0)
        /\ Grafted(ev, low, close, file, es, from, Reached(ev, low, n, wait))
        /\ Stacked(ev, close, es, from, ns, n, Reached(ev, low, n, wait))
        /\ Sown(ev, low, close) /\ Collected(ev, low, close, pend, wait, n, ps, 0)
    BY <1>5, <1>11, <2>1
  <2>2p. Adding(es, mid, new, file, Top(ps), Top(ns)) /\ SetAt(from, Len(new), y, now)
    BY <1>6, <1>8, <1>10, <2>2 DEF Adding, SetAt
  <2>3. /\ Grafted(ev, low, close, file, new, now, Reached(ev, low, n, wait \ {y}))
        /\ Stacked(ev, close, new, now, Append(ns, Len(new)), n, Reached(ev, low, n, wait \ {y}))
    BY <1>7, <1>9, <1>11, <2>2, <2>2p, NodeRises
  <2>4. QED BY <2>1, <2>3
<1>13. /\ Collected(ev, low, close, Pop(pend), wait \ {y}, n, Pop(ps), 0)
       /\ Renamed(ev, events, low, Pop(pend), wait \ {y}, n)
  <2>1. PICK old : old = events
    OBVIOUS
  <2>2. Renamed(ev, old, low, pend, wait, n)
    BY <1>5, <2>1
  <2>3. /\ Collected(ev, low, close, Pop(pend), wait \ {y}, n, Pop(ps), 0)
        /\ Renamed(ev, old, low, Pop(pend), wait \ {y}, n)
    BY <1>5, <1>9, <1>11, <2>2, CollectedLess
  <2>4. QED BY <2>1, <2>3
<1>14. nodeStack' = Append(ns, Len(new))
  BY <1>2, <1>4, <1>6
<1>15. Rising(ev, low, close, Pop(pend), wait \ {y}, now)'
  BY <1>1, <1>3, <1>4, <1>12, <1>13, <1>14 DEF Rising
<1>16. Pop(pend) \in Seq(Nat)
  <2>1. pend # <<>>
    <3>1. Len(pend) = Len(ps) /\ Len(ps) \in 1..Len(ps) /\ Len(<<>>) = 0
      BY <1>5, <1>11, PopTyped DEF Collected
    <3>2. QED BY <3>1
  <2>2. QED BY <2>1, PopTyped
<1>17. wait \ {y} \in SUBSET Nat
  OBVIOUS
<1>18. QED BY <1>15, <1>16, <1>17 DEF Rises

\* The innermost node ends.
LEMMA EndRises ==
  ASSUME IInv, IInv', TokensInOrder, Grows,
         NEW ev \in Seq(EventRecord), NEW low \in Places, NEW close \in Places,
         Rises(ev, low, close), ReplayEnd
  PROVE  Rises(ev, low, close)'
<1>1. /\ parents = <<>> /\ next <= Len(events) /\ events[next].type = "NodeEnd" /\ FinishNode
      /\ next' = next + 1 /\ events' = events /\ tokens' = tokens /\ parents' = parents
      /\ parentPos' = parentPos
  BY DEF ReplayEnd, Replaying, parser
<1>2. /\ parentPos = 0 /\ Sown(ev, low, close) /\ Operated(ev, tokens, low, close)
      /\ Len(events) = Len(ev) /\ next \in Nat
  BY <1>1, RisingAt
<1>3. next \in 1..Len(ev)
  BY <1>1, <1>2, WhileBuilding
<1>4. PICK n \in 1..Len(ev) : n = next
  BY <1>3
<1>5. PICK from \in Places :
        /\ Renamed(ev, events, low, <<>>, {}, n)
        /\ Grafted(ev, low, close, tokens, entries, from, Reached(ev, low, n, {}))
        /\ Stacked(ev, close, entries, from, nodeStack, n, Reached(ev, low, n, {}))
  BY <1>1, <1>4, RisingAt
<1>6. /\ n \in Nodes(ev) => low[n] # n
      /\ IsEnd(ev[n]) /\ ~Eats(ev, n)
  <2>1. /\ events[n].type = ev[n].type
        /\ ~IsLive(events[n]) => (n \in Nodes(ev) => low[n] # n)
    BY <1>2, <1>5, RenamedSays
  <2>2. QED BY <1>1, <1>4, <2>1 DEF IsEnd, Eats, IsLive
<1>7. Reached(ev, low, n + 1, {}) = Reached(ev, low, n, {})
  BY <1>2, <1>6, ReachedPassed
<1>8. PICK es \in Seq(EntryRecord), new \in Seq(EntryRecord), ns \in Seq(Nat) :
        es = entries /\ new = entries' /\ ns = nodeStack /\ ns # <<>>
  <2>1. entries' \in Seq(EntryRecord)
    BY DEF IInv, TypeOK
  <2>2. QED BY <2>1, WhileBuilding, FileIsOpen
<1>9. Commenting(es, new, tokens, 0) /\ nodeStack' = Pop(ns)
  BY <1>1, <1>8, FinishComments
<1>10. PICK R : R = Reached(ev, low, n, {})
  OBVIOUS
<1>11. Grafted(ev, low, close, tokens, new, from, R)
  <2>1. PICK file : file = tokens
    OBVIOUS
  <2>2. Grafted(ev, low, close, file, es, from, R) /\ Commenting(es, new, file, 0)
    BY <1>5, <1>8, <1>9, <1>10, <2>1
  <2>3. Grafted(ev, low, close, file, new, from, R)
    BY <2>2, CommentsGraft
  <2>4. QED BY <2>1, <2>3
<1>12. Stacked(ev, close, new, from, Pop(ns), n + 1, R)
  <2>1. Extents(ev, low, close) /\ n \in Nat
    BY <1>2, <1>4 DEF Sown, Woven
  <2>2. PICK y \in R \intersect Nodes(ev) : close[y] = n
    <3>1. \E p \in Reached(ev, low, n, {}) \intersect Nodes(ev) : close[p] = n
      BY <1>2, <1>6, ReachedEnds
    <3>2. QED BY <1>10, <3>1, Zenon
  <2>3. Len(es) <= Len(new) /\ \A k \in 1..Len(es) : new[k] = es[k]
    BY <1>9 DEF Commenting
  <2>4. Stacked(ev, close, es, from, ns, n, R)
    BY <1>5, <1>8, <1>10
  <2>5. QED BY <1>8, <2>1, <2>2, <2>3, <2>4, StackedLess
<1>13. /\ Grafted(ev, low, close, tokens, entries', from, Reached(ev, low, n + 1, {}))
       /\ Stacked(ev, close, entries', from, nodeStack', n + 1, Reached(ev, low, n + 1, {}))
  BY <1>7, <1>8, <1>9, <1>11, <1>12, <1>10
<1>14. next' = n + 1 /\ parents' = <<>> /\ parentPos' = 0
  BY <1>1, <1>2, <1>4
<1>15. QED BY <1>1, <1>2, <1>5, <1>6, <1>13, <1>14, RisenPast

\* The File ends.
LEMMA BuiltRises ==
  ASSUME IInv, IInv', TokensInOrder, Grows,
         NEW ev \in Seq(EventRecord), NEW low \in Places, NEW close \in Places,
         Rises(ev, low, close), Built
  PROVE  \E from \in Places : Risen(ev, low, close, from)'
<1>1. parents = <<>> /\ next > Len(events) /\ FinishNode /\ tokens' = tokens
  BY DEF Built, parser
<1>2. /\ Sown(ev, low, close) /\ Operated(ev, tokens, low, close)
      /\ Len(events) = Len(ev) /\ next \in Nat
  BY <1>1, RisingAt
<1>3. PICK n \in Nat : n = next
  BY <1>2
<1>4. PICK from \in Places :
        Grafted(ev, low, close, tokens, entries, from, Reached(ev, low, n, {}))
  BY <1>1, <1>3, RisingAt
<1>5. Reached(ev, low, n, {}) = Listed(ev)
  BY <1>1, <1>2, <1>3, ReachedAll
<1>6. PICK es \in Seq(EntryRecord), new \in Seq(EntryRecord) : es = entries /\ new = entries'
  <2>1. entries' \in Seq(EntryRecord)
    BY DEF IInv, TypeOK
  <2>2. QED BY <2>1, WhileBuilding
<1>7. PICK file, R : file = tokens /\ R = Listed(ev)
  OBVIOUS
<1>8. Commenting(es, new, file, 0)
  BY <1>1, <1>6, <1>7, FileIsOpen, FinishComments
<1>9. Grafted(ev, low, close, file, es, from, R)
  BY <1>4, <1>5, <1>6, <1>7
<1>10. Grafted(ev, low, close, file, new, from, R)
  BY <1>8, <1>9, CommentsGraft
<1>11. Grafted(ev, low, close, tokens, entries', from, Listed(ev))
  BY <1>6, <1>7, <1>10
<1>12. Risen(ev, low, close, from)'
  BY <1>1, <1>2, <1>11 DEF Risen
<1>13. QED BY <1>12

\* Comments, then the token c that is none, which hangs below `parent`, then comments.
Taking(es, mid, new, file, c, parent) ==
  /\ Len(es) < Len(mid) /\ Commenting(es, mid, file, Len(mid)) /\ Commenting(mid, new, file, 0)
  /\ c \in 1..Len(file) /\ file[c] \notin Comments
  /\ mid[Len(mid)].token = c /\ mid[Len(mid)].parent = parent

\* What ReplayEat adds.
LEMMA TokenAdded ==
  ASSUME IInv, ReadsThere, TokensInOrder, ReplayEat
  PROVE  /\ next \in 1..Len(events) /\ Eats(events, next)
         /\ \E mid \in Seq(EntryRecord) :
              Taking(entries, mid, entries', tokens, events[next].index, OpenNode)
<1>1. /\ next \in 1..Len(events) /\ Eats(events, next)
      /\ events[next].index = Commented + 1 /\ Commented + 1 \in 0..Len(tokens)
  BY EventSpeaksOf DEF ReplayEat
<1>2. /\ entries \in Seq(EntryRecord) /\ Len(entries) \in Nat /\ eaten \in Nat
      /\ Commented \in Nat /\ Commented \in eaten..Len(tokens) /\ Len(tokens) \in Nat
      /\ (Commented < Len(tokens) => tokens[Commented + 1] \notin Comments)
      /\ \A n \in 0..Len(tokens) : Inlined(n) \in n..Len(tokens)
  BY WhileBuilding, CommentedSkips, TakesUpTo
<1>3. PICK c \in Nat : c = Commented + 1
  BY <1>2
<1>4. PICK i \in Nat : i = Inlined(c)
  BY <1>1, <1>2, <1>3
<1>5. /\ c \in 1..Len(tokens) /\ tokens[c] \notin Comments /\ eaten < c /\ i \in c..Len(tokens)
      /\ c - eaten \in Nat \ {0} /\ i - eaten \in Nat /\ c <= i
      /\ c \in eaten..Len(tokens) /\ i \in eaten..Len(tokens)
  <2>1. c \in 1..Len(tokens) /\ eaten < c
    BY <1>1, <1>2, <1>3
  <2>2. Commented < Len(tokens)
    BY <1>2, <1>3, <2>1
  <2>3. tokens[c] \notin Comments
    BY <1>2, <1>3, <2>2
  <2>4. c \in 0..Len(tokens)
    BY <1>2, <2>1
  <2>5. i \in c..Len(tokens)
    BY <1>2, <1>4, <2>4
  <2>6. eaten \in Nat /\ Len(tokens) \in Nat
    BY <1>2
  <2>7. QED BY <2>1, <2>3, <2>5, <2>6
<1>6. \A k \in (eaten + 1)..i : k # c => tokens[k] \in Comments
  <2>1. /\ \A k \in (eaten + 1)..Commented : tokens[k] \in Comments
        /\ \A k \in (c + 1)..i : tokens[k] \in Comments
    BY <1>1, <1>3, <1>4, TakenAreComments
  <2>2. \A k \in (eaten + 1)..i : k # c => k \in (eaten + 1)..Commented \/ k \in (c + 1)..i
    BY <1>2, <1>3
  <2>3. QED BY <2>1, <2>2
<1>7. PICK mid : mid = entries \o Taken(c)
  OBVIOUS
<1>8. /\ mid \in Seq(EntryRecord) /\ Len(mid) = Len(entries) + (c - eaten)
      /\ \A k \in 1..Len(entries) : mid[k] = entries[k]
      /\ \A k \in 1..(c - eaten) : mid[Len(entries) + k] = TokenEntry(eaten + k)
  BY <1>5, <1>7, TakenAre
<1>9. PICK new : new = entries \o Taken(i)
  OBVIOUS
<1>10. /\ new \in Seq(EntryRecord) /\ Len(new) = Len(entries) + (i - eaten)
       /\ \A k \in 1..Len(entries) : new[k] = entries[k]
       /\ \A k \in 1..(i - eaten) : new[Len(entries) + k] = TokenEntry(eaten + k)
  BY <1>5, <1>9, TakenAre
<1>11. PICK l \in Nat : l = Len(entries)
  BY <1>2
<1>12. /\ Len(mid) = l + (c - eaten) /\ Len(new) = l + (i - eaten) /\ l < Len(mid)
       /\ Len(mid) <= Len(new) /\ Len(mid) \in Nat /\ Len(new) \in Nat
  <2>1. Len(mid) = l + (c - eaten) /\ Len(new) = l + (i - eaten)
    BY <1>8, <1>10, <1>11
  <2>2. Len(mid) \in Nat /\ Len(new) \in Nat /\ eaten \in Nat
    BY <1>2, <1>8, <1>10
  <2>3. c - eaten \in Nat \ {0} /\ i - eaten \in Nat /\ c <= i
    BY <1>5
  <2>4. QED BY <2>1, <2>2, <2>3
<1>13. /\ \A k \in (l + 1)..Len(mid) : mid[k] = TokenEntry(eaten + (k - l))
       /\ \A k \in (l + 1)..Len(new) : new[k] = TokenEntry(eaten + (k - l))
  <2>1. /\ \A k \in (l + 1)..Len(mid) : k - l \in 1..(c - eaten) /\ l + (k - l) = k
        /\ \A k \in (l + 1)..Len(new) : k - l \in 1..(i - eaten) /\ l + (k - l) = k
    <3>1. /\ Len(mid) = l + (c - eaten) /\ Len(new) = l + (i - eaten)
          /\ c - eaten \in Nat /\ i - eaten \in Nat
      BY <1>5, <1>12
    <3>2. QED BY <3>1
  <2>2. QED BY <1>8, <1>10, <1>11, <2>1
<1>14. \A k \in 1..Len(mid) : new[k] = mid[k]
  <2>1. \A k \in 1..Len(mid) : k \in 1..l \/ (k \in (l + 1)..Len(mid) /\ k \in (l + 1)..Len(new))
    BY <1>12
  <2>2. QED BY <1>8, <1>10, <1>11, <1>13, <2>1
<1>15. Commenting(entries, mid, tokens, Len(mid))
  <2>1. ASSUME NEW k \in 1..Len(mid), k > l, k # Len(mid) PROVE ~Coded(mid, tokens, k)
    <3>1. k \in Nat /\ k \in (l + 1)..Len(mid)
      BY <1>12, <2>1
    <3>2. mid[k].token = eaten + (k - l)
      <4>1. mid[k] = TokenEntry(eaten + (k - l))
        BY <1>13, <3>1
      <4>2. QED BY <4>1 DEF TokenEntry
    <3>3. /\ Len(mid) = l + (c - eaten) /\ Len(new) = l + (i - eaten) /\ c <= i
          /\ eaten \in Nat
      BY <1>2, <1>5, <1>12
    <3>4. eaten + (k - l) \in (eaten + 1)..i /\ eaten + (k - l) # c /\ eaten + (k - l) # 0
      BY <2>1, <3>1, <3>3
    <3>5. mid[k].token \in (eaten + 1)..i /\ mid[k].token # c /\ mid[k].token # 0
      BY <3>2, <3>4
    <3>6. QED BY <1>6, <3>5 DEF Coded
  <2>2. QED BY <1>8, <1>11, <1>12, <2>1 DEF Commenting
<1>16. Commenting(mid, new, tokens, 0)
  <2>1. ASSUME NEW k \in 1..Len(new), k > Len(mid) PROVE ~Coded(new, tokens, k)
    <3>1. k \in Nat /\ k \in (l + 1)..Len(new)
      BY <1>12, <2>1
    <3>2. new[k].token = eaten + (k - l)
      <4>1. new[k] = TokenEntry(eaten + (k - l))
        BY <1>13, <3>1
      <4>2. QED BY <4>1 DEF TokenEntry
    <3>3. /\ Len(mid) = l + (c - eaten) /\ Len(new) = l + (i - eaten) /\ c <= i
          /\ eaten \in Nat
      BY <1>2, <1>5, <1>12
    <3>4. eaten + (k - l) \in (eaten + 1)..i /\ eaten + (k - l) # c /\ eaten + (k - l) # 0
      BY <2>1, <3>1, <3>3
    <3>5. new[k].token \in (eaten + 1)..i /\ new[k].token # c /\ new[k].token # 0
      BY <3>2, <3>4
    <3>6. QED BY <1>6, <3>5 DEF Coded
  <2>2. QED BY <1>12, <1>14, <2>1 DEF Commenting
<1>17. mid[Len(mid)].token = c /\ mid[Len(mid)].parent = OpenNode
  <2>1. Len(mid) \in (l + 1)..Len(mid) /\ eaten + (Len(mid) - l) = c
    BY <1>2, <1>12
  <2>2. mid[Len(mid)] = TokenEntry(c)
    BY <1>13, <2>1
  <2>3. QED BY <2>2 DEF TokenEntry
<1>18. Taking(entries, mid, new, tokens, c, OpenNode)
  BY <1>5, <1>11, <1>12, <1>15, <1>16, <1>17 DEF Taking
<1>19. entries' = new /\ events[next].index = c
  BY <1>1, <1>3, <1>4, <1>9 DEF ReplayEat
<1>20. QED BY <1>1, <1>8, <1>18, <1>19

\* The entry of a token is added.
LEMMA TokenRises ==
  ASSUME NEW ev, NEW low, NEW close, Sown(ev, low, close), NEW file,
         NEW n \in 1..Len(ev), Eats(ev, n),
         NEW es \in Seq(EntryRecord), NEW mid \in Seq(EntryRecord), NEW new \in Seq(EntryRecord),
         NEW ns \in Seq(Nat), ns # <<>>, ns[1] = 0,
         Taking(es, mid, new, file, ev[n].index, Top(ns)),
         NEW from \in Places, NEW now \in Places, SetAt(from, Len(mid), n, now),
         Grafted(ev, low, close, file, es, from, Reached(ev, low, n, {})),
         Stacked(ev, close, es, from, ns, n, Reached(ev, low, n, {}))
  PROVE  /\ Grafted(ev, low, close, file, new, now, Reached(ev, low, n + 1, {}))
         /\ Stacked(ev, close, new, now, ns, n + 1, Reached(ev, low, n + 1, {}))
<1> DEFINE R == Reached(ev, low, n, {})
           l == Len(mid)
<1>1. /\ n \in Nat /\ n \notin Nodes(ev) /\ Surrounds(ev, low, close, n, R, n)
      /\ n \in Listed(ev) \ Nodes(ev)
  BY TokenSurrounded, SownSays
<1>2. Reached(ev, low, n + 1, {}) = R \union {n}
  BY <1>1, ReachedPassed
<1>3. Grafted(ev, low, close, file, es, from, R) /\ Stacked(ev, close, es, from, ns, n, R)
  OBVIOUS
<1>4. n \notin R /\ \A d \in R : Start(ev, low, d) <= Start(ev, low, n)
  <2>1. n \notin R
    BY <1>1 DEF Reached
  <2>2. Start(ev, low, n) = n
    BY <1>1 DEF Start
  <2>3. \A d \in R : Start(ev, low, d) <= n - 1
    BY <1>1, ReachedBefore
  <2>4. ASSUME NEW d \in R PROVE Start(ev, low, d) <= n
    <3>1. Start(ev, low, d) \in Int
      <4>1. d \in Nodes(ev) => low[d] \in Nat
        BY SownSays
      <4>2. d \notin Nodes(ev) => d \in 1..Len(ev)
        BY SownSays DEF Reached
      <4>3. QED BY <4>1, <4>2 DEF Start
    <3>2. QED BY <1>1, <2>3, <2>4, <3>1
  <2>5. QED BY <2>1, <2>2, <2>4
<1> HIDE DEF R
<1>5. /\ Len(es) \in Nat /\ l \in Nat /\ Len(new) \in Nat /\ l > Len(es) /\ l \in 1..l
      /\ l <= Len(new) /\ Len(es) <= Len(new)
      /\ \A k \in 1..Len(es) : k \in 1..l /\ k \in Nat /\ k # l
                               /\ mid[k] = es[k] /\ new[k] = mid[k]
  <2>1. /\ Len(es) \in Nat /\ Len(mid) \in Nat /\ Len(new) \in Nat /\ Len(mid) > Len(es)
        /\ Len(mid) <= Len(new)
        /\ \A k \in 1..Len(es) : mid[k] = es[k]
        /\ \A k \in 1..Len(mid) : new[k] = mid[k]
    <3>1. Len(es) \in Nat /\ Len(mid) \in Nat /\ Len(new) \in Nat
      OBVIOUS
    <3>2. Len(es) < Len(mid) /\ Commenting(es, mid, file, l) /\ Commenting(mid, new, file, 0)
      BY DEF Taking
    <3>3. QED BY <3>1, <3>2 DEF Commenting
  <2> HIDE DEF l
  <2>2. /\ Len(es) \in Nat /\ l \in Nat /\ Len(new) \in Nat /\ l > Len(es) /\ l <= Len(new)
        /\ \A k \in 1..Len(es) : mid[k] = es[k]
        /\ \A k \in 1..l : new[k] = mid[k]
    BY <2>1 DEF l
  <2>3. QED BY <2>2
<1>6. \A k \in 1..Len(es) : new[k] = es[k] /\ now[k] = from[k]
  BY <1>5 DEF SetAt
<1>7. IF Top(ns) = 0 THEN \A z \in Nodes(ev) : ~Inside(ev, low, close, z, n)
      ELSE /\ Top(ns) \in 1..Len(es) /\ es[Top(ns)].token = 0
           /\ Under(ev, low, close, from[Top(ns)], n)
  <2>1. ev \in Seq(EventRecord) /\ low \in Places /\ close \in Places
    BY DEF Sown
  <2>2. QED BY <1>1, <1>3, <2>1, TopIsUnder
<1>8. /\ Fits(ev, mid[l], n) /\ Coded(mid, file, l) /\ Commenting(es, mid, file, l)
      /\ mid[l].parent = Top(ns) /\ Commenting(mid, new, file, 0)
  <2>1. /\ mid[l].token = ev[n].index /\ ev[n].index \in 1..Len(file)
        /\ file[ev[n].index] \notin Comments /\ Commenting(es, mid, file, l)
        /\ mid[l].parent = Top(ns) /\ Commenting(mid, new, file, 0)
    BY DEF Taking
  <2>2. ev[n].index # 0
    BY <2>1
  <2>3. QED BY <1>1, <1>5, <2>1, <2>2 DEF Fits, Coded
<1>9. Gets(ev, low, close, file, es, from, R, mid, now, n)
  BY <1>4, <1>5, <1>6, <1>7, <1>8 DEF Gets, SetAt
<1>10. Grafted(ev, low, close, file, mid, now, R \union {n})
  BY <1>3, <1>8, <1>9, EntryGrafts
<1>11. Grafted(ev, low, close, file, new, now, R \union {n})
  BY <1>8, <1>10, CommentsGraft
<1>12. Stacked(ev, close, new, now, ns, n + 1, R \union {n})
  <2>1. ev \in Seq(EventRecord) /\ low \in Places /\ close \in Places
    BY DEF Sown
  <2>2. (R \union {n}) \intersect Nodes(ev) = R \intersect Nodes(ev)
    BY <1>1
  <2>3. \A y \in Nodes(ev) : close[y] # n
    <3>1. ~IsEnd(ev[n])
      BY DEF IsEnd, Eats
    <3>2. QED BY <3>1, SownSays
  <2>4. QED BY <1>1, <1>3, <1>5, <1>6, <2>1, <2>2, <2>3, StackedStay
<1>13. QED BY <1>2, <1>11, <1>12

\* A token is read.
LEMMA EatRises ==
  ASSUME IInv, IInv', ReadsThere, TokensInOrder, Grows,
         NEW ev \in Seq(EventRecord), NEW low \in Places, NEW close \in Places,
         Rises(ev, low, close), ReplayEat
  PROVE  Rises(ev, low, close)'
<1>1. /\ parents = <<>> /\ next <= Len(events) /\ events[next].type = "EatToken"
      /\ next' = next + 1 /\ events' = events /\ tokens' = tokens /\ parents' = parents
      /\ parentPos' = parentPos /\ nodeStack' = nodeStack
  BY DEF ReplayEat, Replaying, parser
<1>2. /\ parentPos = 0 /\ Sown(ev, low, close) /\ Operated(ev, tokens, low, close)
      /\ Len(events) = Len(ev) /\ next \in Nat
  BY <1>1, RisingAt
<1>3. next \in 1..Len(ev)
  BY <1>1, <1>2, WhileBuilding
<1>4. PICK n \in 1..Len(ev) : n = next
  BY <1>3
<1>5. PICK from \in Places :
        /\ Renamed(ev, events, low, <<>>, {}, n)
        /\ Grafted(ev, low, close, tokens, entries, from, Reached(ev, low, n, {}))
        /\ Stacked(ev, close, entries, from, nodeStack, n, Reached(ev, low, n, {}))
  BY <1>1, <1>4, RisingAt
<1>6. /\ n \in Nodes(ev) => low[n] # n
      /\ Eats(ev, n) /\ events[n].index = ev[n].index
  <2>1. /\ events[n].type = ev[n].type /\ events[n].index = ev[n].index
        /\ ~IsLive(events[n]) => (n \in Nodes(ev) => low[n] # n)
    BY <1>2, <1>5, RenamedSays
  <2>2. QED BY <1>1, <1>4, <2>1 DEF Eats, IsLive
<1>7. PICK mid \in Seq(EntryRecord) :
        Taking(entries, mid, entries', tokens, events[next].index, OpenNode)
  BY TokenAdded
<1>8. PICK es \in Seq(EntryRecord), new \in Seq(EntryRecord), ns \in Seq(Nat) :
        /\ es = entries /\ new = entries' /\ ns = nodeStack /\ ns # <<>> /\ ns[1] = 0
        /\ Top(ns) = OpenNode
  <2>1. entries' \in Seq(EntryRecord)
    BY DEF IInv, TypeOK
  <2>2. QED BY <2>1, WhileBuilding, FileIsOpen
<1>9. PICK file : file = tokens
  OBVIOUS
<1>10. Taking(es, mid, new, file, ev[n].index, Top(ns))
  BY <1>4, <1>6, <1>7, <1>8, <1>9
<1>11. PICK now \in Places : SetAt(from, Len(mid), n, now)
  <2>1. PICK i \in Nat, j \in Nat : i = Len(mid) /\ j = n
    BY <1>2, <1>4
  <2>2. PICK set \in Places : SetAt(from, i, j, set)
    BY PlacesSet, Zenon
  <2>3. QED BY <2>1, <2>2, Zenon
<1>12. /\ Grafted(ev, low, close, file, es, from, Reached(ev, low, n, {}))
       /\ Stacked(ev, close, es, from, ns, n, Reached(ev, low, n, {}))
  BY <1>5, <1>8, <1>9
<1>13. /\ Grafted(ev, low, close, file, new, now, Reached(ev, low, n + 1, {}))
       /\ Stacked(ev, close, new, now, ns, n + 1, Reached(ev, low, n + 1, {}))
  BY <1>2, <1>6, <1>8, <1>10, <1>11, <1>12, TokenRises
<1>14. /\ Grafted(ev, low, close, tokens, entries', now, Reached(ev, low, n + 1, {}))
       /\ Stacked(ev, close, entries', now, nodeStack', n + 1, Reached(ev, low, n + 1, {}))
  BY <1>1, <1>8, <1>9, <1>13
<1>15. next' = n + 1 /\ parents' = <<>> /\ parentPos' = 0
  BY <1>1, <1>2, <1>4
<1>16. QED BY <1>1, <1>2, <1>5, <1>6, <1>14, <1>15, RisenPast

\* The events of a file without errors are there, and none of them in the tree.
LEMMA ParsedRises ==
  ASSUME IInv, WellParsed, WellFramed, Parsed, UNCHANGED tree, entries = <<>>,
         nodeStack = << 0 >>, Clean'
  PROVE  \E ev \in Seq(EventRecord), low \in Places, close \in Places : Rises(ev, low, close)'
<1>1. /\ events' = events /\ tokens' = tokens /\ phase = "parse" /\ todo = <<>>
      /\ next' = next /\ parents' = parents /\ parentPos' = parentPos /\ entries' = entries
      /\ nodeStack' = nodeStack
  BY DEF Parsed, tree
<1>2. Clean
  <2>1. errors = 0
    BY DEF Parsed, Clean, IInv, TypeOK
  <2>2. QED BY <1>1, <2>1 DEF Clean, GlobalFunctionFree, TokenAt
<1>3. PICK low \in Places, close \in Places :
        Woven(events, <<>>, low, close) /\ Operated(events, tokens, low, close)
  BY <1>1, <1>2, HasFrames, ParsedFrames
<1>4. next = 1 /\ parents = <<>> /\ parentPos = 0
  BY <1>1 DEF IInv, Waiting
<1>5. PICK ev \in Seq(EventRecord) : ev = events
  BY WhileBuilding
<1>6. Sown(ev, low, close)
  BY <1>3, <1>5, WhileBuilding DEF Sown
<1>7. Reached(ev, low, 1, {}) = {}
  <2>1. \A y \in Nodes(ev) : ~(low[y] < 1)
    BY <1>6, SownSays
  <2>2. \A e \in Listed(ev) \ Nodes(ev) : ~(e < 1)
    BY <1>6, SownSays
  <2>3. QED BY <2>1, <2>2 DEF Reached
<1>8. Renamed(ev, ev, low, <<>>, {}, 1)
  <2>1. \A q : ~Found(ev, low, <<>>, {}, 1, q)
    BY <1>6, SownSays DEF Found
  <2>2. QED BY <2>1 DEF Renamed
<1>9. Collected(ev, low, close, <<>>, {}, 1, <<>>, 0)
  <2>1. Len(<<>>) = 0 /\ (\A j \in 1..0 : FALSE) /\ (\A j \in 1..(0 - 1) : FALSE)
    OBVIOUS
  <2>2. QED BY <2>1 DEF Collected
<1>10. PICK from \in Places : TRUE
  BY <1>3
<1>11. Grafted(ev, low, close, tokens, <<>>, from, {})
  <2>1. \A k \in 1..Len(<<>>) : FALSE
    OBVIOUS
  <2>2. QED BY <2>1 DEF Grafted
<1>12. Stacked(ev, close, <<>>, from, << 0 >>, 1, {})
  <2>1. \A j \in 2..Len(<< 0 >>) : FALSE
    OBVIOUS
  <2>2. QED BY <2>1 DEF Stacked
<1>13. Rising(ev, low, close, <<>>, {}, from)'
  BY <1>1, <1>3, <1>4, <1>5, <1>6, <1>7, <1>8, <1>9, <1>11, <1>12 DEF Rising
<1>14. <<>> \in Seq(Nat) /\ {} \in SUBSET Nat
  OBVIOUS
<1>15. QED BY <1>13, <1>14 DEF Rises

\* Steps of the parser leave the tree alone.
LEMMA ParsesOn ==
  ASSUME Parse
  PROVE  phase = "parse" /\ UNCHANGED tree /\ (phase' = "parse" \/ Parsed)
<1>1. ASSUME NEW ops, Runs(ops) PROVE phase = "parse"
  BY <1>1 DEF Runs
<1>2. Lex \/ Throw => phase = "parse" /\ phase' = "parse"
  BY DEF Lex, Throw, Input
<1>3. OpenMarker \/ CompleteMarker \/ UndoMarker \/ UndoCompleted
        => phase = "parse" /\ phase' = "parse"
  BY <1>1 DEF OpenMarker, CompleteMarker, UndoMarker, UndoCompleted, Input
<1>4. PrecedeNode \/ EatCurrent \/ CheckAndNext \/ TestAndNext
        => phase = "parse" /\ phase' = "parse"
  BY <1>1 DEF PrecedeNode, PrecedeAs, EatCurrent, CheckAndNext, TestAndNext, Input
<1>5. ExpectError \/ Call => phase = "parse" /\ phase' = "parse"
  BY <1>1 DEF ExpectError, Call, Input
<1>6. Parsed => phase = "parse"
  BY DEF Parsed
<1>7. QED BY <1>2, <1>3, <1>4, <1>5, <1>6 DEF Parse, ParserNext

LEMMA WellBuiltInit == Init => WellBuilt /\ WellFramed
BY DEF Init, ParserInit, WellBuilt, WellFramed

\* Every step.
LEMMA WellBuiltNext ==
  ASSUME IInv, IInv', ReadsThere, TreeInOrder, WellParsed, WellGrown, WellFramed, WellBuilt,
         [Next]_vars
  PROVE  WellBuilt'
<1>1. CASE Parse
  <2>1. phase = "parse" /\ UNCHANGED tree /\ (phase' = "parse" \/ Parsed)
    BY <1>1, ParsesOn
  <2>2. CASE phase' = "parse"
    BY <2>2 DEF WellBuilt
  <2>3. CASE Parsed
    <3>1. phase' = "build"
      BY <2>3 DEF Parsed
    <3>2. entries = <<>> /\ nodeStack = << 0 >>
      BY <2>1 DEF WellGrown
    <3>3. QED BY <2>1, <2>3, <3>1, <3>2, ParsedRises DEF WellBuilt
  <2>4. QED BY <2>1, <2>2, <2>3
<1>2. CASE UNCHANGED vars
  <2>1. UNCHANGED <<tokens, events, errors, phase, next, parents, parentPos, entries, nodeStack>>
    BY <1>2 DEF vars, parser, tree
  <2>2. QED BY <2>1 DEF WellBuilt, Rises, Rising, Risen, Clean, GlobalFunctionFree, TokenAt
<1>3. ASSUME phase = "build", tokens' = tokens, errors' = errors
      PROVE  Clean' => Clean /\ Grows
  BY <1>3 DEF Clean, GlobalFunctionFree, TokenAt, WellGrown, Grows
<1>4. ASSUME phase = "build", Clean
      PROVE  \E ev \in Seq(EventRecord), low \in Places, close \in Places : Rises(ev, low, close)
  BY <1>4 DEF WellBuilt
<1>5. TokensInOrder
  BY DEF TreeInOrder
<1>6. ASSUME phase = "build", phase' = "build", tokens' = tokens, errors' = errors,
             \A ev \in Seq(EventRecord), low \in Places, close \in Places :
               Grows /\ Rises(ev, low, close) => Rises(ev, low, close)'
      PROVE  WellBuilt'
  BY <1>3, <1>4, <1>6 DEF WellBuilt
<1>7. CASE ReplayStart
  <2>1. phase = "build" /\ phase' = "build" /\ tokens' = tokens /\ errors' = errors
    BY <1>7 DEF ReplayStart, Replaying, parser
  <2>2. QED BY <1>6, <1>7, <2>1, StartRises
<1>8. CASE Climb
  <2>1. phase = "build" /\ phase' = "build" /\ tokens' = tokens /\ errors' = errors
    BY <1>8 DEF Climb
  <2>2. QED BY <1>6, <1>8, <2>1, ClimbRises
<1>9. CASE StartNode
  <2>1. phase = "build" /\ phase' = "build" /\ tokens' = tokens /\ errors' = errors
    BY <1>9 DEF StartNode, StartAfter, parser
  <2>2. QED BY <1>5, <1>6, <1>9, <2>1, NodeStartRises
<1>10. CASE ReplayEat
  <2>1. phase = "build" /\ phase' = "build" /\ tokens' = tokens /\ errors' = errors
    BY <1>10 DEF ReplayEat, Replaying, parser
  <2>2. QED BY <1>5, <1>6, <1>10, <2>1, EatRises
<1>11. CASE ReplayEnd
  <2>1. phase = "build" /\ phase' = "build" /\ tokens' = tokens /\ errors' = errors
    BY <1>11 DEF ReplayEnd, Replaying, parser
  <2>2. QED BY <1>5, <1>6, <1>11, <2>1, EndRises
<1>12. CASE ReplayError
  <2>1. phase = "build" /\ phase' = "build" /\ tokens' = tokens /\ errors' = errors
    BY <1>12 DEF ReplayError, Replaying, parser
  <2>2. QED BY <1>6, <1>12, <2>1, ErrorRises
<1>13. CASE Built
  <2>1. phase = "build" /\ phase' = "done" /\ tokens' = tokens /\ errors' = errors
    BY <1>13 DEF Built, parser
  <2>2. ASSUME Clean'
        PROVE  \E ev \in Seq(EventRecord), low \in Places, close \in Places :
                 \E from \in Places : Risen(ev, low, close, from)'
    BY <1>3, <1>4, <1>5, <1>13, <2>1, <2>2, BuiltRises
  <2>3. QED BY <2>1, <2>2 DEF WellBuilt
<1>14. QED
  BY <1>1, <1>2, <1>7, <1>8, <1>9, <1>10, <1>11, <1>12, <1>13 DEF Next, Terminating

-----------------------------------------------------------------------------
(* Levels and priorities. *)

\* The operators of level l have these priorities.
Towards(l) ==
  Priority(IF l <= 7 THEN l ELSE IF l = 12 THEN 14 ELSE l + 1,
           IF l <= 8 THEN l ELSE l + 1)

\* A level is where an operator stands in Levels, which has each only once.
LEMMA LevelOf ==
  ASSUME NEW l \in 1..12, NEW op \in Levels[l], \A m \in 1..12 : op \in Levels[m] => m = l
  PROVE  Level(op) = l
<1>1. DOMAIN Levels = 1..12
  BY DEF Levels
<1>2. \A m \in DOMAIN Levels : op \in Levels[m] <=> m = l
  BY <1>1
<1>3. QED BY <1>1, <1>2, Zenon DEF Level

LEMMA LevelsAre ==
  /\ Levels[1] = {"or"} /\ Levels[2] = {"and"} /\ Levels[3] = {"<", ">", "<=", ">=", "~=", "=="}
  /\ Levels[4] = {"|"} /\ Levels[5] = {"~"} /\ Levels[6] = {"&"} /\ Levels[7] = {"<<", ">>"}
  /\ Levels[8] = {".."} /\ Levels[9] = {"+", "-"} /\ Levels[10] = {"*", "/", "//", "%"}
  /\ Levels[11] = {} /\ Levels[12] = {"^"}
  /\ Len(Levels) = 12
BY DEF Levels

\* Every binary operator has a level, and the priorities of its level.
LEMMA LevelPriority ==
  ASSUME NEW op \in Binary
  PROVE  Level(op) \in (1..12) \ {11} /\ priority[op] = Towards(Level(op))
<1>1. ASSUME NEW l \in 1..12, NEW o \in Levels[l], \A m \in 1..12 : o \in Levels[m] => m = l
      PROVE  Level(o) = l
  BY <1>1, LevelOf
<1>2. ASSUME NEW l \in 1..12, op \in Levels[l] PROVE \A m \in 1..12 : op \in Levels[m] => m = l
  <2>1. \A m \in 1..12 : m \in {1, 2, 3, 4, 5, 6, 7, 8, 9, 10, 11, 12}
    OBVIOUS
  <2>2. QED BY <1>2, <2>1, LevelsAre
<1>3. \E l \in (1..12) \ {11} : op \in Levels[l] /\ priority[op] = Towards(l)
  <2>1. CASE op = "or"
    BY <2>1, LevelsAre DEF Towards, Priority, priority, Priorities
  <2>2. CASE op = "and"
    BY <2>2, LevelsAre DEF Towards, Priority, priority, Priorities
  <2>3. CASE op \in {"==", "<", "<=", "~=", ">", ">="}
    BY <2>3, LevelsAre DEF Towards, Priority, priority, Priorities
  <2>4. CASE op = "|"
    BY <2>4, LevelsAre DEF Towards, Priority, priority, Priorities
  <2>5. CASE op = "~"
    BY <2>5, LevelsAre DEF Towards, Priority, priority, Priorities
  <2>6. CASE op = "&"
    BY <2>6, LevelsAre DEF Towards, Priority, priority, Priorities
  <2>7. CASE op \in {"<<", ">>"}
    BY <2>7, LevelsAre DEF Towards, Priority, priority, Priorities
  <2>8. CASE op = ".."
    BY <2>8, LevelsAre DEF Towards, Priority, priority, Priorities
  <2>9. CASE op \in {"+", "-"}
    BY <2>9, LevelsAre DEF Towards, Priority, priority, Priorities
  <2>10. CASE op \in {"*", "%", "/", "//"}
    BY <2>10, LevelsAre DEF Towards, Priority, priority, Priorities
  <2>11. CASE op = "^"
    BY <2>11, LevelsAre DEF Towards, Priority, priority, Priorities
  <2>12. QED
    BY <2>1, <2>2, <2>3, <2>4, <2>5, <2>6, <2>7, <2>8, <2>9, <2>10, <2>11 DEF Binary
<1>4. PICK l \in (1..12) \ {11} : op \in Levels[l] /\ priority[op] = Towards(l)
  BY <1>3
<1>5. Level(op) = l
  BY <1>1, <1>2, <1>4
<1>6. QED BY <1>4, <1>5

\* What the priorities of two operators say about their levels.
LEMMA PrioritiesNest ==
  ASSUME NEW a \in Binary, NEW b \in Binary
  PROVE  /\ priority[a].left <= priority[b].right =>
              Level(b) > Level(a) \/ (Level(b) = Level(a) /\ Level(a) \notin {8, 12})
         /\ priority[b].left > priority[a].right =>
              Level(b) > Level(a) \/ (Level(b) = Level(a) /\ Level(a) \in {8, 12})
         /\ priority[a].left <= UNARY_PRIORITY => UnaryLevel > Level(a)
         /\ priority[a].left > UNARY_PRIORITY => Level(a) >= UnaryLevel
         /\ Level(a) \in 1..12
<1>1. PICK l \in 1..12, m \in 1..12 :
        /\ l = Level(a) /\ priority[a] = Towards(l)
        /\ m = Level(b) /\ priority[b] = Towards(m) /\ l # 11 /\ m # 11
  BY LevelPriority
<1>2. /\ Towards(l).left = IF l <= 7 THEN l ELSE IF l = 12 THEN 14 ELSE l + 1
      /\ Towards(l).right = IF l <= 8 THEN l ELSE l + 1
      /\ Towards(m).left = IF m <= 7 THEN m ELSE IF m = 12 THEN 14 ELSE m + 1
      /\ Towards(m).right = IF m <= 8 THEN m ELSE m + 1
  BY DEF Towards, Priority
<1>3. /\ Towards(l).left <= Towards(m).right => m > l \/ (m = l /\ l \notin {8, 12})
      /\ Towards(m).left > Towards(l).right => m > l \/ (m = l /\ l \in {8, 12})
      /\ Towards(l).left <= 12 => 11 > l
      /\ Towards(l).left > 12 => l >= 11
  BY <1>1, <1>2
<1>4. QED BY <1>1, <1>3 DEF UNARY_PRIORITY, UnaryLevel

\* A list of two or three numbers.
Two(S, a, b) == S = {a, b} /\ S \in SUBSET Nat /\ a < b

LEMMA ListsTwo ==
  ASSUME NEW S, NEW a, NEW b, Two(S, a, b), NEW s, Lists(s, S)
  PROVE  Len(s) = 2 /\ s[1] = a /\ s[2] = b
<1>0. a \in S /\ b \in S /\ S = {a, b} /\ S \in SUBSET Nat /\ a < b
  BY DEF Two
<1>1. Cardinality(S) = 2
  <2>1. IsFiniteSet({a}) /\ Cardinality({a}) = 1
    BY FS_Singleton
  <2>2. Cardinality({a} \cup {b}) = 2
    BY <1>0, <2>1, FS_AddElement
  <2>3. {a} \cup {b} = S
    BY <1>0
  <2>4. QED BY <2>2, <2>3
<1>2. /\ Len(s) = 2 /\ s[1] \in S /\ s[2] \in S /\ s[1] < s[2]
  <2>1. Len(s) = 2
    BY <1>1 DEF Lists
  <2>2. /\ \A k \in 1..Len(s) : s[k] \in S
        /\ \A j, k \in 1..Len(s) : j < k => s[j] < s[k]
    BY Zenon DEF Lists
  <2>3. QED BY <2>1, <2>2
<1>3. QED BY <1>0, <1>2

Three(S, a, b, c) == S = {a, b, c} /\ S \in SUBSET Nat /\ a < b /\ b < c

LEMMA ListsThree ==
  ASSUME NEW S, NEW a, NEW b, NEW c, Three(S, a, b, c), NEW s, Lists(s, S)
  PROVE  Len(s) = 3 /\ s[1] = a /\ s[2] = b /\ s[3] = c
<1>0. S = {a, b, c} /\ a \in Nat /\ b \in Nat /\ c \in Nat /\ a < b /\ b < c
  BY DEF Three
<1>1. Cardinality(S) = 3
  <2>1. IsFiniteSet({a}) /\ Cardinality({a}) = 1
    BY FS_Singleton
  <2>2. IsFiniteSet({a} \cup {b}) /\ Cardinality({a} \cup {b}) = 2
    BY <1>0, <2>1, FS_AddElement
  <2>3. Cardinality(({a} \cup {b}) \cup {c}) = 3
    BY <1>0, <2>2, FS_AddElement
  <2>4. ({a} \cup {b}) \cup {c} = S
    BY <1>0
  <2>5. QED BY <2>3, <2>4
<1>2. /\ Len(s) = 3 /\ s[1] \in S /\ s[2] \in S /\ s[3] \in S /\ s[1] < s[2] /\ s[2] < s[3]
  <2>1. Len(s) = 3
    BY <1>1 DEF Lists
  <2>2. /\ \A k \in 1..Len(s) : s[k] \in S
        /\ \A j, k \in 1..Len(s) : j < k => s[j] < s[k]
    BY Zenon DEF Lists
  <2>3. QED BY <2>1, <2>2
<1>3. QED BY <1>0, <1>2

-----------------------------------------------------------------------------
(* What is below an operator in the tree. *)

\* The entries of the tree are those of the events.
Told(ev, low, close, file, es, from) ==
  /\ Sown(ev, low, close) /\ es \in Seq(EntryRecord) /\ from \in Places
  /\ Grafted(ev, low, close, file, es, from, Listed(ev))

BelowOf(es, file, n) ==
  {k \in 1..Len(es) :
     es[k].parent = n /\ (es[k].token # 0 => file[es[k].token] \notin Comments)}

\* An entry that is no comment is the entry of its event.
LEMMA EntryTells ==
  ASSUME NEW ev, NEW low, NEW close, NEW file, NEW es, NEW from,
         Told(ev, low, close, file, es, from), NEW k, Coded(es, file, k)
  PROVE  /\ k \in 1..Len(es) /\ k \in Nat /\ from[k] \in Listed(ev)
         /\ from[k] \in Nodes(ev) => es[k].token = 0 /\ es[k].kind = ev[from[k]].kind
         /\ from[k] \notin Nodes(ev) => es[k].token # 0 /\ es[k].token = ev[from[k]].index
         /\ Start(ev, low, from[k]) \in Int
<1>1. k \in 1..Len(es) /\ k \in Nat
  BY DEF Coded
<1>2. from[k] \in Listed(ev) /\ Fits(ev, es[k], from[k])
  BY <1>1 DEF Told, Grafted
<1>3. Sown(ev, low, close)
  BY DEF Told
<1>4. /\ from[k] \in Nodes(ev) => low[from[k]] \in Nat
      /\ from[k] \notin Nodes(ev) => from[k] \in 1..Len(ev)
  BY <1>2, <1>3, SownSays
<1>5. Start(ev, low, from[k]) \in Int
  BY <1>4 DEF Start
<1>6. QED BY <1>1, <1>2, <1>5 DEF Fits

\* What begins earlier comes earlier.
LEMMA EntriesAscend ==
  ASSUME NEW ev, NEW low, NEW close, NEW file, NEW es, NEW from,
         Told(ev, low, close, file, es, from), NEW j, NEW k, Coded(es, file, j), Coded(es, file, k),
         Start(ev, low, from[j]) < Start(ev, low, from[k])
  PROVE  j < k
<1>1. /\ j \in 1..Len(es) /\ j \in Nat /\ k \in 1..Len(es) /\ k \in Nat
      /\ Start(ev, low, from[j]) \in Int /\ Start(ev, low, from[k]) \in Int
  BY EntryTells
<1>2. k < j => Start(ev, low, from[k]) <= Start(ev, low, from[j])
  BY <1>1 DEF Told, Grafted
<1>3. j # k
  BY <1>1
<1>4. QED BY <1>1, <1>2, <1>3

\* Each event has one entry.
LEMMA EntryIsOne ==
  ASSUME NEW ev, NEW low, NEW close, NEW file, NEW es, NEW from,
         Told(ev, low, close, file, es, from)
  PROVE  /\ \A j, k : Coded(es, file, j) /\ Coded(es, file, k) /\ from[j] = from[k] => j = k
         /\ \A e \in Listed(ev) : \E k : Coded(es, file, k) /\ from[k] = e
<1>1. ASSUME NEW j, NEW k, Coded(es, file, j), Coded(es, file, k), from[j] = from[k], j # k
      PROVE  FALSE
  <2>1. j \in 1..Len(es) /\ j \in Nat /\ k \in 1..Len(es) /\ k \in Nat
    BY <1>1, EntryTells
  <2>2. j < k \/ k < j
    BY <1>1, <2>1
  <2>3. QED BY <1>1, <2>1, <2>2 DEF Told, Grafted
<1>2. \A e \in Listed(ev) : \E k : Coded(es, file, k) /\ from[k] = e
  BY DEF Told, Grafted
<1>3. QED BY <1>1, <1>2

\* What hangs below the entry of a node is what the node is innermost around.
LEMMA BelowIsUnder ==
  ASSUME NEW ev, NEW low, NEW close, NEW file, NEW es, NEW from,
         Told(ev, low, close, file, es, from), NEW n \in 1..Len(es), es[n].token = 0,
         NEW k, Coded(es, file, k)
  PROVE  es[k].parent = n <=> Under(ev, low, close, from[n], from[k])
<1>1. /\ k \in 1..Len(es) /\ k \in Nat /\ n \in Nat /\ n # 0 /\ es \in Seq(EntryRecord)
      /\ ev \in Seq(EventRecord) /\ low \in Places /\ close \in Places
  BY EntryTells DEF Told, Sown
<1>2. Hung(ev, low, close, es, from, k)
  BY <1>1 DEF Told, Grafted
<1>3. Coded(es, file, n)
  BY DEF Coded
<1>4. ASSUME es[k].parent = n PROVE Under(ev, low, close, from[n], from[k])
  BY <1>1, <1>2, <1>4 DEF Hung
<1>5. ASSUME Under(ev, low, close, from[n], from[k]) PROVE es[k].parent = n
  <2>1. from[n] \in Nodes(ev) /\ Inside(ev, low, close, from[n], from[k])
    BY <1>5 DEF Under
  <2>2. PICK p : p = es[k].parent
    OBVIOUS
  <2>3. /\ p # 0 /\ p \in 1..(k - 1) /\ es[p].token = 0
        /\ Under(ev, low, close, from[p], from[k])
    BY <1>2, <2>1, <2>2 DEF Hung
  <2>4. from[p] = from[n]
    BY <1>1, <1>5, <2>3, UnderOne
  <2>5. p \in 1..Len(es)
    BY <1>1, <2>3
  <2>6. Coded(es, file, p)
    BY <2>3, <2>5 DEF Coded
  <2>7. p = n
    BY <1>3, <2>4, <2>6, EntryIsOne
  <2>8. QED BY <2>2, <2>7
<1>6. QED BY <1>4, <1>5

\* Entry k is that of node q.
NodeAt(es, from, k, q) == k \in 1..Len(es) /\ es[k].token = 0 /\ from[k] = q

\* Below a node that has read its operator are what it has on its left, the token, and the node
\* that follows.
LEMMA OperatorBelow ==
  ASSUME NEW ev, NEW low, NEW close, NEW file, NEW es, NEW from,
         Told(ev, low, close, file, es, from), NEW n, NEW y, NodeAt(es, from, n, y),
         NEW left, NEW x, Grasps(ev, low, close, y, left, x)
  PROVE  \E t, v \in BelowOf(es, file, n) :
           /\ Coded(es, file, t) /\ from[t] = y + 1 /\ Coded(es, file, v) /\ from[v] = x /\ t < v
           /\ \A q \in left : \E u \in BelowOf(es, file, n) :
                Coded(es, file, u) /\ from[u] = q /\ u < t
           /\ \A k \in BelowOf(es, file, n) : k = t \/ k = v \/ from[k] \in left
<1>1. /\ ev \in Seq(EventRecord) /\ low \in Places /\ close \in Places /\ Sown(ev, low, close)
      /\ Linked(ev) /\ Woven(ev, <<>>, low, close)
  BY DEF Told, Sown
<1>2. /\ y \in Nodes(ev) /\ y + 1 \in 1..Len(ev) /\ Eats(ev, y + 1)
      /\ One(ev, low, close, y + 2, x, close[y] - 1)
      /\ \/ left = {} /\ low[y] = y
         \/ \E q \in Nodes(ev) : left = {q} /\ close[q] = y - 1 /\ low[q] = low[y]
  BY DEF Grasps
<1>3. \A c \in Listed(ev) : Under(ev, low, close, y, c) <=> c \in left \union {y + 1, x}
  BY <1>1, OperandsUnder
<1>4. \A k : k \in BelowOf(es, file, n) <=> Coded(es, file, k) /\ es[k].parent = n
  BY DEF BelowOf, Coded
<1>5. ASSUME NEW k, Coded(es, file, k)
      PROVE  k \in BelowOf(es, file, n) <=> from[k] \in left \union {y + 1, x}
  <2>1. es[k].parent = n <=> Under(ev, low, close, y, from[k])
    BY <1>5, BelowIsUnder DEF NodeAt
  <2>2. from[k] \in Listed(ev)
    BY <1>5, EntryTells
  <2>3. QED BY <1>3, <1>4, <1>5, <2>1, <2>2
<1>6. /\ x \in Nodes(ev) /\ y + 2 <= low[x] /\ y \in Nat /\ low[x] \in Nat
      /\ low[y] \in Nat /\ low[y] <= y
  <2>1. x \in Nodes(ev) /\ y + 2 <= low[x]
    BY <1>2 DEF One
  <2>2. low[x] \in Nat /\ low[y] \in 1..y /\ y \in Nat
    BY <1>1, <1>2, <2>1, SownSays
  <2>3. QED BY <2>1, <2>2
<1>7. y + 1 \in Listed(ev) /\ y + 1 \notin Nodes(ev) /\ x \in Listed(ev)
  BY <1>1, <1>2, <1>6, SownSays DEF Listed
<1>8. \A q \in left : q \in Nodes(ev) /\ q \in Listed(ev) /\ low[q] = low[y]
  BY <1>2 DEF Listed
<1>9. PICK t : Coded(es, file, t) /\ from[t] = y + 1
  BY <1>7, EntryIsOne
<1>10. PICK v : Coded(es, file, v) /\ from[v] = x
  BY <1>7, EntryIsOne
<1>11. t \in BelowOf(es, file, n) /\ v \in BelowOf(es, file, n)
  BY <1>5, <1>9, <1>10
<1>12. t < v
  <2>1. Start(ev, low, from[t]) = y + 1 /\ Start(ev, low, from[v]) = low[x]
    BY <1>6, <1>7, <1>9, <1>10 DEF Start
  <2>2. Start(ev, low, from[t]) < Start(ev, low, from[v])
    BY <1>6, <2>1
  <2>3. QED BY <1>9, <1>10, <2>2, EntriesAscend
<1>13. ASSUME NEW q \in left
       PROVE  \E u \in BelowOf(es, file, n) : Coded(es, file, u) /\ from[u] = q /\ u < t
  <2>1. PICK u : Coded(es, file, u) /\ from[u] = q
    BY <1>8, EntryIsOne
  <2>2. u \in BelowOf(es, file, n)
    BY <1>5, <2>1
  <2>3. Start(ev, low, from[u]) = low[y] /\ Start(ev, low, from[t]) = y + 1
    BY <1>7, <1>8, <1>9, <2>1 DEF Start
  <2>4. Start(ev, low, from[u]) < Start(ev, low, from[t])
    BY <1>6, <2>3
  <2>5. u < t
    BY <1>9, <2>1, <2>4, EntriesAscend
  <2>6. QED BY <2>1, <2>2, <2>5
<1>14. ASSUME NEW k \in BelowOf(es, file, n) PROVE k = t \/ k = v \/ from[k] \in left
  <2>1. Coded(es, file, k) /\ from[k] \in left \union {y + 1, x}
    BY <1>4, <1>5
  <2>2. \A i, j : Coded(es, file, i) /\ Coded(es, file, j) /\ from[i] = from[j] => i = j
    BY EntryIsOne
  <2>3. QED BY <1>9, <1>10, <2>1, <2>2
<1>15. QED BY <1>9, <1>10, <1>11, <1>12, <1>13, <1>14

\* Below a binary operator: its operands, and the token between them.
LEMMA BinaryBelow ==
  ASSUME NEW ev, NEW low, NEW close, NEW file, NEW es, NEW from,
         Told(ev, low, close, file, es, from), Operated(ev, file, low, close),
         NEW n, NEW y, NodeAt(es, from, n, y), ev[y].kind = "BinaryExpression",
         NEW s, s = Ascending(BelowOf(es, file, n))
  PROVE  \E q, x \in Nodes(ev), op \in Binary :
           /\ Len(s) = 3 /\ NodeAt(es, from, s[1], q) /\ NodeAt(es, from, s[3], x)
           /\ es[s[2]].token = ev[y + 1].index
           /\ Reads(ev, file, y, op) /\ LeftOf(ev, file, q, op)
           /\ RightOf(ev, file, x, priority[op].right)
<1>1. y \in Nodes(ev) /\ n \in 1..Len(es) /\ es[n].token = 0 /\ from[n] = y
  <2>1. Coded(es, file, n)
    BY DEF Coded, NodeAt
  <2>2. QED BY <2>1, EntryTells DEF NodeAt
<1>2. PICK r \in Nat, x \in Nodes(ev) : Applies(ev, file, low, close, y, r, x)
  BY <1>1 DEF Operated, Operations
<1>3. /\ r # UNARY_PRIORITY /\ Operates(ev, file, low, close, y, r)
      /\ One(ev, low, close, y + 2, x, close[y] - 1) /\ RightOf(ev, file, x, r)
  BY <1>2 DEF Applies
<1>4. PICK op \in Binary, q \in Nodes(ev) :
        /\ Reads(ev, file, y, op) /\ priority[op].right = r
        /\ Around(ev, file, low, close, y, q, op)
  BY <1>3 DEF Operates
<1>5. /\ close[q] = y - 1 /\ low[q] = low[y] /\ LeftOf(ev, file, q, op)
      /\ y + 1 \in 1..Len(ev) /\ Eats(ev, y + 1)
  BY <1>3, <1>4 DEF Around, Operates
<1>6. PICK left : left = {q}
  OBVIOUS
<1>7. Grasps(ev, low, close, y, left, x)
  BY <1>1, <1>3, <1>5, <1>6 DEF Grasps
<1> DEFINE S == BelowOf(es, file, n)
<1>8. PICK t \in S, v \in S :
        /\ Coded(es, file, t) /\ from[t] = y + 1 /\ Coded(es, file, v) /\ from[v] = x /\ t < v
        /\ \A p \in left : \E u \in S : Coded(es, file, u) /\ from[u] = p /\ u < t
        /\ \A k \in S : k = t \/ k = v \/ from[k] \in left
  BY <1>7, OperatorBelow
<1>9. PICK u \in S : Coded(es, file, u) /\ from[u] = q /\ u < t
  BY <1>6, <1>8
<1>10. S = {u, t, v}
  <2>1. \A k \in S : Coded(es, file, k)
    BY DEF BelowOf, Coded
  <2>2. \A i, j : Coded(es, file, i) /\ Coded(es, file, j) /\ from[i] = from[j] => i = j
    BY EntryIsOne
  <2>3. \A k \in S : from[k] \in left => k = u
    BY <1>6, <1>9, <2>1, <2>2
  <2>4. QED BY <1>8, <1>9, <2>3
<1>11. S \in SUBSET (1..Len(es)) /\ Len(es) \in Nat /\ S \in SUBSET Nat
  BY DEF BelowOf, Told
<1> HIDE DEF S
<1>12. Lists(s, S)
  BY <1>11, AscendingLists DEF S
<1>13. Len(s) = 3 /\ s[1] = u /\ s[2] = t /\ s[3] = v
  <2>1. Three(S, u, t, v)
    BY <1>8, <1>9, <1>10, <1>11 DEF Three
  <2>2. QED BY <1>12, <2>1, ListsThree
<1>14. y + 1 \notin Nodes(ev)
  BY <1>5 DEF Nodes, IsLive, Eats
<1>15. /\ es[t].token = ev[y + 1].index /\ NodeAt(es, from, u, q) /\ NodeAt(es, from, v, x)
  BY <1>8, <1>9, <1>14, EntryTells DEF NodeAt
<1>16. QED BY <1>3, <1>4, <1>5, <1>13, <1>15

\* Below a unary operator: its token, and its operand.
LEMMA UnaryBelow ==
  ASSUME NEW ev, NEW low, NEW close, NEW file, NEW es, NEW from,
         Told(ev, low, close, file, es, from), Operated(ev, file, low, close),
         NEW n, NEW y, NodeAt(es, from, n, y), ev[y].kind = "UnaryExpression",
         NEW s, s = Ascending(BelowOf(es, file, n))
  PROVE  \E x \in Nodes(ev) :
           /\ Len(s) = 2 /\ NodeAt(es, from, s[2], x)
           /\ RightOf(ev, file, x, UNARY_PRIORITY)
<1>1. y \in Nodes(ev) /\ n \in 1..Len(es) /\ es[n].token = 0 /\ from[n] = y
  <2>1. Coded(es, file, n)
    BY DEF Coded, NodeAt
  <2>2. QED BY <2>1, EntryTells DEF NodeAt
<1>2. PICK r \in Nat, x \in Nodes(ev) : Applies(ev, file, low, close, y, r, x)
  BY <1>1 DEF Operated, Operations
<1>3. /\ r = UNARY_PRIORITY /\ Operates(ev, file, low, close, y, r)
      /\ One(ev, low, close, y + 2, x, close[y] - 1) /\ RightOf(ev, file, x, r)
  BY <1>2 DEF Applies
<1>4. low[y] = y /\ y + 1 \in 1..Len(ev) /\ Eats(ev, y + 1)
  BY <1>3 DEF Operates
<1>5. PICK left : left = {}
  OBVIOUS
<1>6. Grasps(ev, low, close, y, left, x)
  BY <1>1, <1>3, <1>4, <1>5 DEF Grasps
<1> DEFINE S == BelowOf(es, file, n)
<1>7. PICK t \in S, v \in S :
        /\ Coded(es, file, v) /\ from[v] = x /\ t < v
        /\ \A k \in S : k = t \/ k = v \/ from[k] \in left
  BY <1>6, OperatorBelow
<1>8. S = {t, v}
  BY <1>5, <1>7
<1>9. S \in SUBSET (1..Len(es)) /\ Len(es) \in Nat /\ S \in SUBSET Nat
  BY DEF BelowOf, Told
<1> HIDE DEF S
<1>10. Lists(s, S)
  BY <1>9, AscendingLists DEF S
<1>11. Len(s) = 2 /\ s[1] = t /\ s[2] = v
  <2>1. Two(S, t, v)
    BY <1>7, <1>8, <1>9 DEF Two
  <2>2. QED BY <1>10, <2>1, ListsTwo
<1>12. NodeAt(es, from, v, x)
  BY <1>7, EntryTells DEF NodeAt
<1>13. QED BY <1>3, <1>11, <1>12

-----------------------------------------------------------------------------
(* Every operator takes its operands. *)

\* How tight the expression of node y is.
LEMMA TightnessIs ==
  ASSUME NEW ev, NEW low, NEW close, NEW from,
         Told(ev, low, close, tokens, entries, from), Operated(ev, tokens, low, close),
         NEW n, NEW y, NodeAt(entries, from, n, y)
  PROVE  /\ entries[n].kind = ev[y].kind
         /\ ev[y].kind = "BinaryExpression" =>
              \A op \in Binary : Reads(ev, tokens, y, op) => Tightness(n) = Level(op)
         /\ ev[y].kind = "UnaryExpression" => Tightness(n) = UnaryLevel
         /\ ev[y].kind \notin Operations => Tightness(n) = 13
<1>1. entries[n].kind = ev[y].kind
  <2>1. Coded(entries, tokens, n) /\ entries[n].token = 0 /\ from[n] = y
    BY DEF Coded, NodeAt
  <2>2. QED BY <2>1, EntryTells
<1>2. CodeBelow(n) = Ascending(BelowOf(entries, tokens, n))
  BY DEF CodeBelow, BelowOf
<1>3. ASSUME ev[y].kind = "BinaryExpression", NEW op \in Binary, Reads(ev, tokens, y, op)
      PROVE  Tightness(n) = Level(op)
  <2>1. entries[CodeBelow(n)[2]].token = ev[y + 1].index
    BY <1>2, <1>3, BinaryBelow
  <2>2. tokens[ev[y + 1].index] = op
    BY <1>3 DEF Reads
  <2>3. QED BY <1>1, <1>3, <2>1, <2>2 DEF Tightness
<1>4. ASSUME ev[y].kind = "UnaryExpression" PROVE Tightness(n) = UnaryLevel
  BY <1>1, <1>4 DEF Tightness
<1>5. ASSUME ev[y].kind \notin Operations PROVE Tightness(n) = 13
  <2>1. Len(Levels) + 1 = 13
    BY LevelsAre
  <2>2. QED BY <1>1, <1>5, <2>1 DEF Tightness, Operations
<1>6. QED BY <1>1, <1>3, <1>4, <1>5

\* A binary operator.
LEMMA BinaryNests ==
  ASSUME NEW ev, NEW low, NEW close, NEW from,
         Told(ev, low, close, tokens, entries, from), Operated(ev, tokens, low, close),
         NEW n, NEW y, NodeAt(entries, from, n, y), ev[y].kind = "BinaryExpression"
  PROVE  LET below == CodeBelow(n)
             level == Tightness(n)
         IN /\ Len(below) = 3
            /\ \/ Tightness(below[1]) > level
               \/ Tightness(below[1]) = level /\ level \notin {8, 12}
            /\ \/ entries[below[3]].kind = "UnaryExpression"
               \/ Tightness(below[3]) > level
               \/ Tightness(below[3]) = level /\ level \in {8, 12}
<1>1. PICK s : s = CodeBelow(n)
  OBVIOUS
<1>2. s = Ascending(BelowOf(entries, tokens, n))
  BY <1>1 DEF CodeBelow, BelowOf
<1>3. PICK q \in Nodes(ev), x \in Nodes(ev), op \in Binary :
        /\ Len(s) = 3 /\ NodeAt(entries, from, s[1], q) /\ NodeAt(entries, from, s[3], x)
        /\ Reads(ev, tokens, y, op) /\ LeftOf(ev, tokens, q, op)
        /\ RightOf(ev, tokens, x, priority[op].right)
  BY <1>2, BinaryBelow
<1>4. Tightness(n) = Level(op) /\ Level(op) \in 1..12
  BY <1>3, TightnessIs, PrioritiesNest
<1>5. \/ Tightness(s[1]) > Level(op)
      \/ Tightness(s[1]) = Level(op) /\ Level(op) \notin {8, 12}
  <2>1. CASE ev[q].kind = "BinaryExpression"
    <3>1. PICK o \in Binary : Reads(ev, tokens, q, o) /\ priority[op].left <= priority[o].right
      BY <1>3, <2>1 DEF LeftOf
    <3>2. Tightness(s[1]) = Level(o)
      BY <1>3, <2>1, <3>1, TightnessIs
    <3>3. QED BY <3>1, <3>2, PrioritiesNest
  <2>2. CASE ev[q].kind = "UnaryExpression"
    <3>1. priority[op].left <= UNARY_PRIORITY
      BY <1>3, <2>2 DEF LeftOf
    <3>2. Tightness(s[1]) = UnaryLevel
      BY <1>3, <2>2, TightnessIs
    <3>3. QED BY <3>1, <3>2, PrioritiesNest
  <2>3. CASE ev[q].kind \notin Operations
    <3>1. Tightness(s[1]) = 13
      BY <1>3, <2>3, TightnessIs
    <3>2. QED BY <1>4, <3>1
  <2>4. QED BY <2>1, <2>2, <2>3 DEF Operations
<1>6. \/ entries[s[3]].kind = "UnaryExpression"
      \/ Tightness(s[3]) > Level(op)
      \/ Tightness(s[3]) = Level(op) /\ Level(op) \in {8, 12}
  <2>1. CASE ev[x].kind = "BinaryExpression"
    <3>1. PICK o \in Binary : Reads(ev, tokens, x, o) /\ priority[o].left > priority[op].right
      BY <1>3, <2>1 DEF RightOf
    <3>2. Tightness(s[3]) = Level(o)
      BY <1>3, <2>1, <3>1, TightnessIs
    <3>3. QED BY <3>1, <3>2, PrioritiesNest
  <2>2. CASE ev[x].kind = "UnaryExpression"
    BY <1>3, <2>2, TightnessIs
  <2>3. CASE ev[x].kind \notin Operations
    <3>1. Tightness(s[3]) = 13
      BY <1>3, <2>3, TightnessIs
    <3>2. QED BY <1>4, <3>1
  <2>4. QED BY <2>1, <2>2, <2>3 DEF Operations
<1>7. QED BY <1>1, <1>3, <1>4, <1>5, <1>6

\* A unary operator.
LEMMA UnaryNests ==
  ASSUME NEW ev, NEW low, NEW close, NEW from,
         Told(ev, low, close, tokens, entries, from), Operated(ev, tokens, low, close),
         NEW n, NEW y, NodeAt(entries, from, n, y), ev[y].kind = "UnaryExpression"
  PROVE  Len(CodeBelow(n)) = 2 /\ Tightness(CodeBelow(n)[2]) >= Tightness(n)
<1>1. PICK s : s = CodeBelow(n)
  OBVIOUS
<1>2. s = Ascending(BelowOf(entries, tokens, n))
  BY <1>1 DEF CodeBelow, BelowOf
<1>3. PICK x \in Nodes(ev) :
        /\ Len(s) = 2 /\ NodeAt(entries, from, s[2], x) /\ RightOf(ev, tokens, x, UNARY_PRIORITY)
  BY <1>2, UnaryBelow
<1>4. Tightness(n) = UnaryLevel /\ UnaryLevel = 11
  BY TightnessIs DEF UnaryLevel
<1>5. Tightness(s[2]) >= 11
  <2>1. CASE ev[x].kind = "BinaryExpression"
    <3>1. PICK o \in Binary : Reads(ev, tokens, x, o) /\ priority[o].left > UNARY_PRIORITY
      BY <1>3, <2>1 DEF RightOf
    <3>2. Tightness(s[2]) = Level(o)
      BY <1>3, <2>1, <3>1, TightnessIs
    <3>3. QED BY <1>4, <3>1, <3>2, PrioritiesNest
  <2>2. CASE ev[x].kind = "UnaryExpression"
    <3>1. Tightness(s[2]) = 11
      BY <1>3, <1>4, <2>2, TightnessIs
    <3>2. QED BY <3>1
  <2>3. CASE ev[x].kind \notin Operations
    <3>1. Tightness(s[2]) = 13
      BY <1>3, <2>3, TightnessIs
    <3>2. QED BY <3>1
  <2>4. QED BY <2>1, <2>2, <2>3 DEF Operations
<1>6. QED BY <1>1, <1>3, <1>4, <1>5

\* An entry with a token is named so.
Named(es) == \A k \in 1..Len(es) : es[k].token # 0 => es[k].kind = "Token"

LEMMA NamedJoin ==
  ASSUME NEW s \in Seq(EntryRecord), NEW t \in Seq(EntryRecord), Named(s), Named(t),
         NEW both, both = s \o t
  PROVE  Named(both)
<1>1. /\ both \in Seq(EntryRecord) /\ Len(both) = Len(s) + Len(t)
      /\ \A k \in 1..Len(s) : both[k] = s[k]
      /\ \A k \in 1..Len(t) : both[Len(s) + k] = t[k]
  BY ConcatElements
<1>2. SUFFICES ASSUME NEW k \in 1..Len(both), both[k].token # 0 PROVE both[k].kind = "Token"
  BY DEF Named
<1>3. Len(s) \in Nat /\ Len(t) \in Nat /\ k \in Nat
  BY <1>1
<1>4. CASE k \in 1..Len(s)
  BY <1>1, <1>2, <1>4 DEF Named
<1>5. CASE k \notin 1..Len(s)
  <2>1. k - Len(s) \in 1..Len(t) /\ Len(s) + (k - Len(s)) = k
    BY <1>1, <1>3, <1>5
  <2>2. both[k] = t[k - Len(s)]
    BY <1>1, <2>1
  <2>3. QED BY <1>2, <2>1, <2>2 DEF Named
<1>6. QED BY <1>4, <1>5

\* Tokens are taken.
LEMMA TakenNamed ==
  ASSUME IInv, Named(entries), NEW n \in Int, NEW more, more = entries \o Taken(n)
  PROVE  Named(more) /\ more \in Seq(EntryRecord)
<1>1. Named(Taken(n)) /\ Taken(n) \in Seq(EntryRecord)
  <2>1. eaten \in Nat /\ Taken(n) \in Seq(EntryRecord)
    BY WhileBuilding, TakenTyped
  <2>2. ASSUME NEW k \in 1..Len(Taken(n)) PROVE Taken(n)[k].kind = "Token"
    <3>1. Len(Taken(n)) = IF n >= eaten THEN n - eaten ELSE 0
      BY TakenTyped
    <3>2. k \in 1..(n - eaten)
      BY <2>1, <3>1
    <3>3. Taken(n)[k] = TokenEntry(eaten + k)
      BY <3>2 DEF Taken
    <3>4. QED BY <3>3 DEF TokenEntry
  <2>3. QED BY <2>1, <2>2 DEF Named
<1>2. PICK s \in Seq(EntryRecord), t \in Seq(EntryRecord) : s = entries /\ t = Taken(n)
  BY <1>1, WhileBuilding
<1>3. Named(s) /\ Named(t) /\ more = s \o t
  BY <1>1, <1>2
<1>4. Named(more)
  BY <1>3, NamedJoin
<1>5. more \in Seq(EntryRecord)
  BY <1>3, ConcatElements
<1>6. QED BY <1>4, <1>5

\* Every step.
LEMMA NamedNext ==
  ASSUME IInv, TreeInOrder, Named(entries), [Next]_vars
  PROVE  Named(entries)'
<1>1. ASSUME entries' = entries PROVE Named(entries)'
  BY <1>1
<1>2. CASE StartNode
  <2>1. PICK mid \in Seq(EntryRecord) :
          /\ Named(mid) /\ entries' = Append(mid, NodeEntry(Top(parents)))
    <3>1. TokensInOrder
      BY DEF TreeInOrder
    <3> DEFINE kind == Top(parents)
    <3>2. entries' = entries
             \o (IF IsEatAllComment(kind) THEN <<>> ELSE Taken(Commented)) \o <<NodeEntry(kind)>>
      BY <1>2 DEF StartNode, StartAfter
    <3>3. Commented \in Int /\ entries \in Seq(EntryRecord)
      BY CommentedSkips, WhileBuilding
    <3>4. PICK mid : mid = entries
             \o (IF IsEatAllComment(kind) THEN <<>> ELSE Taken(Commented))
      OBVIOUS
    <3>5. Named(mid) /\ mid \in Seq(EntryRecord)
      <4>1. CASE IsEatAllComment(kind)
        <5>1. mid = entries \o <<>>
          BY <3>4, <4>1
        <5>2. mid = entries
          BY <3>3, <5>1
        <5>3. QED BY <3>3, <5>2
      <4>2. CASE ~IsEatAllComment(kind)
        BY <3>3, <3>4, <4>2, TakenNamed
      <4>3. QED BY <4>1, <4>2
    <3>6. NodeEntry(kind) \in EntryRecord
      <4>1. kind \in NodeKinds
        BY <1>2, WhileBuilding, PopTyped DEF StartNode, StartAfter
      <4>2. OpenNode \in Nat \union {Unlinked}
        BY <3>3, TakenTyped
      <4>3. QED BY <4>1, <4>2 DEF NodeEntry, EntryRecord
    <3>7. entries' = mid \o <<NodeEntry(kind)>>
      BY <3>2, <3>4
    <3> HIDE DEF kind
    <3>8. entries' = Append(mid, NodeEntry(kind))
      BY <3>5, <3>6, <3>7
    <3>9. QED BY <3>5, <3>8 DEF kind
  <2>2. NodeEntry(Top(parents)).token = 0
    BY DEF NodeEntry
  <2>3. PICK last : last = NodeEntry(Top(parents))
    OBVIOUS
  <2>4. PICK new : new = Append(mid, last)
    OBVIOUS
  <2>5. Named(new)
    <3>1. Len(new) = Len(mid) + 1 /\ Len(mid) \in Nat /\ new[Len(mid) + 1] = last
          /\ \A k \in 1..Len(mid) : new[k] = mid[k]
      BY <2>4
    <3>2. \A k \in 1..Len(new) : k \in 1..Len(mid) \/ k = Len(mid) + 1
      BY <3>1
    <3>3. QED BY <2>1, <2>2, <2>3, <3>1, <3>2 DEF Named
  <2>6. QED BY <2>1, <2>3, <2>4, <2>5
<1>3. ASSUME NEW n \in Int, entries' = entries \o Taken(n) PROVE Named(entries)'
  <2>1. PICK more : more = entries \o Taken(n)
    OBVIOUS
  <2>2. Named(more)
    BY <2>1, TakenNamed
  <2>3. QED BY <1>3, <2>1, <2>2
<1>4. /\ Commented \in Int /\ Inlined(Commented + 1) \in Int /\ Inlined(eaten) \in Int
  <2>1. Commented \in Nat /\ eaten \in Nat
    BY CommentedSkips, WhileBuilding
  <2>2. QED BY <2>1 DEF Inlined
<1>5. CASE ReplayEat
  BY <1>3, <1>4, <1>5 DEF ReplayEat
<1>6. CASE FinishNode
  BY <1>1, <1>3, <1>4, <1>6 DEF FinishNode
<1>7. QED
  BY <1>1, <1>2, <1>5, <1>6
  DEF Next, Parse, ReplayStart, Climb, ReplayEnd, ReplayError, Built, Terminating, tree, vars

\* What has risen is the tree, and in it every operator takes its operands.
LEMMA RisenNests ==
  ASSUME IInv, WellBuilt, Named(entries), GlobalFunctionFree
  PROVE  OperatorsNest
<1>1. SUFFICES ASSUME Accepted, NEW n \in 1..Len(entries)
      PROVE  LET below == CodeBelow(n)
                 level == Tightness(n)
             IN /\ entries[n].kind = "BinaryExpression" =>
                     /\ Len(below) = 3
                     /\ \/ Tightness(below[1]) > level
                        \/ Tightness(below[1]) = level /\ level \notin {8, 12}
                     /\ \/ entries[below[3]].kind = "UnaryExpression"
                        \/ Tightness(below[3]) > level
                        \/ Tightness(below[3]) = level /\ level \in {8, 12}
                /\ entries[n].kind = "UnaryExpression" =>
                     Len(below) = 2 /\ Tightness(below[2]) >= level
  BY Zenon DEF OperatorsNest
<1>2. phase = "done" /\ Clean
  BY <1>1 DEF Accepted, Clean
<1>3. PICK ev \in Seq(EventRecord), low \in Places, close \in Places :
        \E from \in Places : Risen(ev, low, close, from)
  BY <1>2 DEF WellBuilt
<1>4. PICK from \in Places : Risen(ev, low, close, from)
  BY <1>3
<1>5. Told(ev, low, close, tokens, entries, from) /\ Operated(ev, tokens, low, close)
  BY <1>4, WhileBuilding DEF Risen, Told
<1>6. CASE entries[n].kind \notin Operations
  BY <1>6 DEF Operations
<1>7. CASE entries[n].kind \in Operations
  <2>1. entries[n].token = 0
    BY <1>7 DEF Named, Operations
  <2>2. PICK y : y = from[n]
    OBVIOUS
  <2>3. NodeAt(entries, from, n, y)
    BY <2>1, <2>2 DEF NodeAt
  <2>4. entries[n].kind = ev[y].kind
    BY <1>5, <2>3, TightnessIs
  <2>5. CASE entries[n].kind = "BinaryExpression"
    BY <1>5, <2>3, <2>4, <2>5, BinaryNests
  <2>6. CASE entries[n].kind = "UnaryExpression"
    BY <1>5, <2>3, <2>4, <2>6, UnaryNests
  <2>7. QED BY <1>7, <2>5, <2>6 DEF Operations
<1>8. QED BY <1>6, <1>7

\* What the theorem rests on.
NestInv ==
  /\ IInv /\ ReadsThere /\ TreeInOrder /\ WellParsed /\ WellGrown
  /\ WellFramed /\ WellBuilt /\ Named(entries)

LEMMA NestInit == Init => NestInv
<1>1. Init => Named(entries)
  BY DEF Init, Named
<1>2. QED
  BY <1>1, InitInv, ReadsThereInit, TreeInOrderInit, WellParsedInit, WellGrownInit, WellBuiltInit
  DEF NestInv

LEMMA NestNext ==
  ASSUME NestInv, [Next]_vars
  PROVE  NestInv'
<1>1. /\ IInv /\ ReadsThere /\ TreeInOrder /\ WellParsed /\ WellGrown
      /\ WellFramed /\ WellBuilt /\ Named(entries)
  BY DEF NestInv
<1>2. IInv'
  BY <1>1, NextInv
<1>3. ReadsThere' /\ TreeInOrder'
  BY <1>1, <1>2, ReadsThereNext, TreeInOrderNext
<1>4. WellParsed' /\ WellGrown'
  BY <1>1, <1>2, WellParsedNext, WellGrownNext
<1>5. WellFramed' /\ WellBuilt'
  BY <1>1, <1>2, WellFramedNext, WellBuiltNext
<1>6. Named(entries)'
  BY <1>1, NamedNext
<1>7. QED BY <1>2, <1>3, <1>4, <1>5, <1>6 DEF NestInv

\* In the tree of a file that is parsed without errors and has no global function, every operator
\* has the operands that Lua gives it, for which Subexpression compares priorities with its limit:
\* on its left and its right what binds tighter, or as tight on the side to which it associates.
THEOREM OperatorsTakeOperands == Spec => [](GlobalFunctionFree => OperatorsNest)
<1>1. Init => NestInv
  BY NestInit
<1>2. NestInv /\ [Next]_vars => NestInv'
  BY NestNext
<1>3. NestInv => (GlobalFunctionFree => OperatorsNest)
  BY RisenNests DEF NestInv
<1>4. QED BY <1>1, <1>2, <1>3, PTL DEF Spec
=============================================================================
