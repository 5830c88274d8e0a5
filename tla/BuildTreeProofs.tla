-------------------------- MODULE BuildTreeProofs ---------------------------
(***************************************************************************)
(* Proofs about the parser and the tree, for every set of files and every  *)
(* number of errors: the types, the links between events, that parser and  *)
(* tree read the same tokens, that every token read is there, that the     *)
(* tree keeps the tokens in order and begins no statement with a comment,  *)
(* and that the tree of a file without errors has every token once, under  *)
(* nodes that lie inside each other.                                       *)
(*                                                                         *)
(* The first part is about the functions of the grammar, whatever tokens   *)
(* they meet: where one reads a token, where it records an error, and what *)
(* it does to the Markers that are open.                                   *)
(***************************************************************************)
EXTENDS BuildTree, FiniteSetTheorems, TLAPS

-----------------------------------------------------------------------------
(* Programs, by the instructions that they begin with. *)

Program == Seq(Instructions)

Rules == ExpressionRules \union StatementRules

\* Programs that read no token without a test, and record no error without one.
QuietInstructions == {in \in Instructions : in.op \notin {"Eat", "Error"}}

Quiet == Seq(QuietInstructions)

\* Programs that begin with one of the operations ops and go on with one of the programs rest.
After(ops, rest) ==
  {p \in Program : p # <<>> /\ Head(p).op \in ops /\ Tail(p) \in rest}

OneEat == After({"Eat"}, Quiet)

TwoEats == After({"Eat"}, OneEat)

Opening == {"Mark", "Precede"}

OneError == After({"Error"}, Quiet)

TwoErrors == After({"Error"}, OneError)

\* A check, and then an error.
CheckedError == After({"Check"}, OneError)

\* What may be left to do when a token is read next, when two are, and when errors are recorded.
Reading == OneEat \union After(Opening, OneEat) \union After({"Eat"}, CheckedError)

ReadingTwo == TwoEats \union After(Opening, TwoEats)

Failing == OneError \union After({"Error"}, CheckedError)

\* Where a function reads tokens without a test, it has seen that they are there; apart from
\* these and the errors at its beginning it is quiet.
Foreseen(p, token, ahead) ==
  \/ p \in Quiet
  \/ p \in Reading /\ token # Eof
  \/ p \in ReadingTwo /\ token # Eof /\ ahead # Eof
  \/ p \in Failing \union TwoErrors

\* One program after another is a program, and so is the empty one.
LEMMA ProgramsCompose ==
  /\ <<>> \in Program
  /\ \A p, q \in Program : p \o q \in Program
BY DEF Program

\* A program goes on quietly.
LEMMA AfterGrows ==
  ASSUME NEW ops, NEW rest \in SUBSET Program,
         \A r \in rest, q \in Quiet : r \o q \in rest,
         NEW p \in After(ops, rest), NEW q \in Quiet
  PROVE  p \o q \in After(ops, rest)
<1>1. p \in Program /\ p # <<>> /\ Head(p).op \in ops /\ Tail(p) \in rest
  BY DEF After
<1>2. q \in Program
  BY DEF Quiet, QuietInstructions, Program
<1>3. p \o q \in Program /\ p \o q # <<>> /\ Head(p \o q) = Head(p)
      /\ Tail(p \o q) = Tail(p) \o q
  BY <1>1, <1>2 DEF Program
<1>4. QED BY <1>1, <1>3 DEF After

\* A program that is preceded by an instruction.
LEMMA AfterOne ==
  ASSUME NEW ops, NEW rest \in SUBSET Program, NEW in \in Instructions, in.op \in ops,
         NEW p \in rest
  PROVE  <<in>> \o p \in After(ops, rest)
<1>1. p \in Program
  OBVIOUS
<1>2. <<in>> \o p \in Program /\ <<in>> \o p # <<>> /\ Head(<<in>> \o p) = in
      /\ Tail(<<in>> \o p) = p
  BY <1>1 DEF Program
<1>3. QED BY <1>2 DEF After

\* The instructions that are quiet, as programs.
LEMMA InstructionsQuiet ==
  /\ Mark \in Quiet /\ Undo \in Quiet /\ UndoLast \in Quiet /\ Precede \in Quiet
  /\ \A k \in NodeKinds : Complete(k) \in Quiet
  /\ \A k \in TokenKinds : Check(k) \in Quiet /\ Test(k) \in Quiet
  /\ \A r \in Rules, n \in Nat : DoWith(r, n) \in Quiet
<1>1. \A i \in QuietInstructions : <<i>> \in Quiet
  BY DEF Quiet
<1>2. \A o \in {"Mark", "Undo", "UndoLast", "Precede"} :
        [op |-> o, what |-> "none", arg |-> 0] \in QuietInstructions
  BY DEF Instructions, QuietInstructions
<1>3. \A k \in NodeKinds : [op |-> "Complete", what |-> k, arg |-> 0] \in QuietInstructions
  BY DEF Instructions, QuietInstructions
<1>4. \A k \in TokenKinds : /\ [op |-> "Check", what |-> k, arg |-> 0] \in QuietInstructions
                            /\ [op |-> "Test", what |-> k, arg |-> 0] \in QuietInstructions
  BY DEF Instructions, QuietInstructions
<1>5. \A r \in Rules, n \in Nat : [op |-> "Do", what |-> r, arg |-> n] \in QuietInstructions
  BY DEF Instructions, QuietInstructions, Rules
<1>6. \A o \in {"Mark", "Undo", "UndoLast", "Precede"} : Instruction(o, "none", 0) \in Quiet
  BY <1>1, <1>2, Zenon DEF Instruction
<1>7. \A k \in NodeKinds : Complete(k) \in Quiet
  BY <1>1, <1>3, Zenon DEF Instruction, Complete
<1>8. \A k \in TokenKinds : Check(k) \in Quiet /\ Test(k) \in Quiet
  BY <1>1, <1>4, Zenon DEF Instruction, Check, Test
<1>9. \A r \in Rules, n \in Nat : DoWith(r, n) \in Quiet
  BY <1>1, <1>5, Zenon DEF Instruction, DoWith
<1>10. QED
  BY <1>6, <1>7, <1>8, <1>9, Zenon DEF Mark, Undo, UndoLast, Precede

\* One quiet program after another is quiet, and so is the empty one.
LEMMA QuietComposes ==
  /\ <<>> \in Quiet
  /\ \A p, q \in Quiet : p \o q \in Quiet
BY DEF Quiet

\* The checks and tests for the tokens that the grammar names.
LEMMA ChecksQuiet ==
  /\ Check("(") \in Quiet /\ Check(")") \in Quiet /\ Check(",") \in Quiet
  /\ Check("::") \in Quiet /\ Check("=") \in Quiet /\ Check(">") \in Quiet
  /\ Check("[") \in Quiet /\ Check("]") \in Quiet /\ Check("break") \in Quiet
  /\ Check("do") \in Quiet /\ Check("end") \in Quiet /\ Check("for") \in Quiet
  /\ Check("function") \in Quiet /\ Check("goto") \in Quiet
  /\ Check("in") \in Quiet /\ Check("local") \in Quiet /\ Check("name") \in Quiet
  /\ Check("repeat") \in Quiet /\ Check("return") \in Quiet
  /\ Check("then") \in Quiet /\ Check("until") \in Quiet
  /\ Check("while") \in Quiet /\ Check("{") \in Quiet /\ Check("}") \in Quiet
  /\ Test(";") \in Quiet
<1>1. {"(", ")", ",", "::", "=", ">", "[", "]", "break", "do", "end", "for",
       "function", "goto", "in", "local", "name", "repeat", "return", "then",
       "until", "while", "{", "}", ";"}
        \subseteq TokenKinds
  BY DEF TokenKinds
<1>2. QED BY <1>1, InstructionsQuiet, ZenonT(30)

\* The nodes that the grammar completes.
LEMMA CompletesQuiet ==
  /\ Complete("AssignStatement") \in Quiet /\ Complete("Attribute") \in Quiet
  /\ Complete("BinaryExpression") \in Quiet /\ Complete("Block") \in Quiet
  /\ Complete("BreakStatement") \in Quiet /\ Complete("CallExpression") \in Quiet
  /\ Complete("ClosureExpression") \in Quiet /\ Complete("DoStatement") \in Quiet
  /\ Complete("EmptyStatement") \in Quiet /\ Complete("ExpressionList") \in Quiet
  /\ Complete("ExpressionStatement") \in Quiet /\ Complete("ForBody") \in Quiet
  /\ Complete("ForList") \in Quiet /\ Complete("ForNumber") \in Quiet
  /\ Complete("ForStatement") \in Quiet /\ Complete("FunctionBody") \in Quiet
  /\ Complete("FunctionNameExpression") \in Quiet
  /\ Complete("FunctionStatement") \in Quiet /\ Complete("GlobalStatement") \in Quiet
  /\ Complete("GotoStatement") \in Quiet /\ Complete("IfStatement") \in Quiet
  /\ Complete("IndexExpression") \in Quiet /\ Complete("LabelStatement") \in Quiet
  /\ Complete("LiteralExpression") \in Quiet
  /\ Complete("LocalFunctionStatement") \in Quiet
  /\ Complete("LocalStatement") \in Quiet /\ Complete("NameDefList") \in Quiet
  /\ Complete("NameExpression") \in Quiet /\ Complete("None") \in Quiet
  /\ Complete("ParExpression") \in Quiet /\ Complete("ParamList") \in Quiet
  /\ Complete("RepeatStatement") \in Quiet /\ Complete("ReturnStatement") \in Quiet
  /\ Complete("StringLiteralExpression") \in Quiet
  /\ Complete("SuffixedExpression") \in Quiet
  /\ Complete("TableExpression") \in Quiet /\ Complete("TableField") \in Quiet
  /\ Complete("TableFieldList") \in Quiet /\ Complete("TableFieldSep") \in Quiet
  /\ Complete("UnaryExpression") \in Quiet /\ Complete("VarList") \in Quiet
  /\ Complete("WhileStatement") \in Quiet
BY InstructionsQuiet, ZenonT(40) DEF NodeKinds

\* The rules that the grammar calls.
LEMMA CallsQuiet ==
  /\ Do("Alternatives") \in Quiet /\ Do("Arguments") \in Quiet
  /\ Do("Assignment") \in Quiet /\ Do("Attribute") \in Quiet
  /\ Do("AttributeName") \in Quiet /\ Do("AttributedGlobals") \in Quiet
  /\ Do("CallArgs") \in Quiet /\ Do("FieldSep") \in Quiet
  /\ Do("ForHead") \in Quiet /\ Do("ForStep") \in Quiet
  /\ Do("FunctionName") \in Quiet /\ Do("Initializer") \in Quiet
  /\ Do("MoreGlobals") \in Quiet /\ Do("MoreLocals") \in Quiet
  /\ Do("MoreNames") \in Quiet /\ Do("MoreParams") \in Quiet
  /\ Do("MoreTargets") \in Quiet /\ Do("ParamList") \in Quiet
  /\ Do("PrimaryExpression") \in Quiet /\ Do("Returned") \in Quiet
  /\ Do("StatementList") \in Quiet /\ Do("TestThenBlock") \in Quiet
  /\ Do("VarargName") \in Quiet
  /\ \A n \in Nat :
       /\ DoWith("BinaryOperators", n) \in Quiet /\ DoWith("FieldList", n) \in Quiet
       /\ DoWith("MoreExpressions", n) \in Quiet
       /\ DoWith("NextExpression", n) \in Quiet
       /\ DoWith("Subexpression", n) \in Quiet /\ DoWith("Suffixes", n) \in Quiet
<1>1. \A r \in Rules : Do(r) \in Quiet
  BY InstructionsQuiet, Zenon DEF Do, DoWith
<1>2. QED BY <1>1, InstructionsQuiet, Zenon DEF Rules, ExpressionRules, StatementRules

\* The functions that only call others.
LEMMA ExpressionsQuiet ==
  /\ \A n \in Nat : Subexpression(n) \in Quiet
  /\ Expression \in Quiet
  /\ \A n \in Nat : ExpressionListUntil(n) \in Quiet
  /\ ExpressionList \in Quiet /\ CheckName \in Quiet /\ LocalAttribute \in Quiet
  /\ Block \in Quiet /\ SuffixedExpression \in Quiet
  /\ TableConstructor \in Quiet /\ FunctionBody \in Quiet
  /\ YIndex \in Quiet /\ FunctionCallArgs \in Quiet
<1>1. \A n \in Nat : Subexpression(n) \in Quiet
  BY CallsQuiet DEF Subexpression
<1>2. Expression \in Quiet
  BY <1>1 DEF Expression
<1>3. \A n \in Nat : ExpressionListUntil(n) \in Quiet
  BY <1>2, InstructionsQuiet, QuietComposes, ChecksQuiet, CompletesQuiet, CallsQuiet
  DEF ExpressionListUntil
<1>4. ExpressionList \in Quiet
  BY <1>3, InstructionsQuiet, QuietComposes, ChecksQuiet, CompletesQuiet, CallsQuiet
  DEF ExpressionList
<1>5. CheckName \in Quiet
  BY InstructionsQuiet, QuietComposes, ChecksQuiet, CompletesQuiet, CallsQuiet
  DEF CheckName
<1>6. LocalAttribute \in Quiet
  BY InstructionsQuiet, QuietComposes, ChecksQuiet, CompletesQuiet, CallsQuiet
  DEF LocalAttribute
<1>7. Block \in Quiet
  BY InstructionsQuiet, QuietComposes, ChecksQuiet, CompletesQuiet, CallsQuiet
  DEF Block
<1>8. SuffixedExpression \in Quiet
  BY InstructionsQuiet, QuietComposes, ChecksQuiet, CompletesQuiet, CallsQuiet
  DEF SuffixedExpression
<1>9. TableConstructor \in Quiet
  BY InstructionsQuiet, QuietComposes, ChecksQuiet, CompletesQuiet, CallsQuiet
  DEF TableConstructor
<1>10. FunctionBody \in Quiet
  BY <1>7, InstructionsQuiet, QuietComposes, ChecksQuiet, CompletesQuiet, CallsQuiet
  DEF FunctionBody
<1>11. YIndex \in Quiet
  BY <1>2, InstructionsQuiet, QuietComposes, ChecksQuiet, CompletesQuiet, CallsQuiet
  DEF YIndex
<1>12. FunctionCallArgs \in Quiet
  BY InstructionsQuiet, QuietComposes, ChecksQuiet, CompletesQuiet, CallsQuiet
  DEF FunctionCallArgs
<1>13. QED
  BY <1>1, <1>2, <1>3, <1>4, <1>5, <1>6, <1>7, <1>8, <1>9, <1>10, <1>11, <1>12

\* The statements that look at no token before their first call.
LEMMA StatementsQuiet ==
  /\ IfStatement \in Quiet /\ WhileStatement \in Quiet /\ DoStatement \in Quiet
  /\ ForBody \in Quiet /\ ForStatement \in Quiet /\ ForNumber \in Quiet
  /\ ForList \in Quiet /\ RepeatStatement \in Quiet /\ FunctionStatement \in Quiet
  /\ LocalFunctionStatement \in Quiet /\ LocalStatement \in Quiet
  /\ LabelStatement \in Quiet /\ ReturnStatement \in Quiet
  /\ BreakStatement \in Quiet /\ GotoStatement \in Quiet
  /\ AssignmentOrCall \in Quiet /\ GlobalNameList \in Quiet
<1>1. IfStatement \in Quiet
  BY InstructionsQuiet, QuietComposes, ChecksQuiet, CompletesQuiet, CallsQuiet,
     ExpressionsQuiet
  DEF IfStatement
<1>2. WhileStatement \in Quiet
  BY InstructionsQuiet, QuietComposes, ChecksQuiet, CompletesQuiet, CallsQuiet,
     ExpressionsQuiet
  DEF WhileStatement
<1>3. DoStatement \in Quiet
  BY InstructionsQuiet, QuietComposes, ChecksQuiet, CompletesQuiet, CallsQuiet,
     ExpressionsQuiet
  DEF DoStatement
<1>4. ForBody \in Quiet
  BY InstructionsQuiet, QuietComposes, ChecksQuiet, CompletesQuiet, CallsQuiet,
     ExpressionsQuiet
  DEF ForBody
<1>5. ForStatement \in Quiet
  BY InstructionsQuiet, QuietComposes, ChecksQuiet, CompletesQuiet, CallsQuiet,
     ExpressionsQuiet
  DEF ForStatement
<1>6. ForNumber \in Quiet
  BY <1>4, InstructionsQuiet, QuietComposes, ChecksQuiet, CompletesQuiet, CallsQuiet,
     ExpressionsQuiet
  DEF ForNumber
<1>7. ForList \in Quiet
  BY <1>4, InstructionsQuiet, QuietComposes, ChecksQuiet, CompletesQuiet, CallsQuiet,
     ExpressionsQuiet
  DEF ForList
<1>8. RepeatStatement \in Quiet
  BY InstructionsQuiet, QuietComposes, ChecksQuiet, CompletesQuiet, CallsQuiet,
     ExpressionsQuiet
  DEF RepeatStatement
<1>9. FunctionStatement \in Quiet
  BY InstructionsQuiet, QuietComposes, ChecksQuiet, CompletesQuiet, CallsQuiet,
     ExpressionsQuiet
  DEF FunctionStatement
<1>10. LocalFunctionStatement \in Quiet
  BY InstructionsQuiet, QuietComposes, ChecksQuiet, CompletesQuiet, CallsQuiet,
     ExpressionsQuiet
  DEF LocalFunctionStatement
<1>11. LocalStatement \in Quiet
  BY InstructionsQuiet, QuietComposes, ChecksQuiet, CompletesQuiet, CallsQuiet,
     ExpressionsQuiet
  DEF LocalStatement
<1>12. LabelStatement \in Quiet
  BY InstructionsQuiet, QuietComposes, ChecksQuiet, CompletesQuiet, CallsQuiet,
     ExpressionsQuiet
  DEF LabelStatement
<1>13. ReturnStatement \in Quiet
  BY InstructionsQuiet, QuietComposes, ChecksQuiet, CompletesQuiet, CallsQuiet,
     ExpressionsQuiet
  DEF ReturnStatement
<1>14. BreakStatement \in Quiet
  BY InstructionsQuiet, QuietComposes, ChecksQuiet, CompletesQuiet, CallsQuiet,
     ExpressionsQuiet
  DEF BreakStatement
<1>15. GotoStatement \in Quiet
  BY InstructionsQuiet, QuietComposes, ChecksQuiet, CompletesQuiet, CallsQuiet,
     ExpressionsQuiet
  DEF GotoStatement
<1>16. AssignmentOrCall \in Quiet
  BY InstructionsQuiet, QuietComposes, ChecksQuiet, CompletesQuiet, CallsQuiet,
     ExpressionsQuiet
  DEF AssignmentOrCall
<1>17. GlobalNameList \in Quiet
  BY InstructionsQuiet, QuietComposes, ChecksQuiet, CompletesQuiet, CallsQuiet,
     ExpressionsQuiet
  DEF GlobalNameList
<1>18. QED
  BY <1>1, <1>2, <1>3, <1>4, <1>5, <1>6, <1>7, <1>8, <1>9, <1>10, <1>11, <1>12, <1>13, <1>14, <1>15, <1>16, <1>17

-----------------------------------------------------------------------------
(* Programs that begin with a token or an error. *)

\* They are programs, and go on quietly.
LEMMA StartsGrow ==
  /\ Quiet \subseteq Program /\ OneEat \subseteq Program /\ TwoEats \subseteq Program
  /\ OneError \subseteq Program /\ CheckedError \subseteq Program
  /\ \A q \in Quiet :
       /\ \A p \in OneEat : p \o q \in OneEat
       /\ \A p \in TwoEats : p \o q \in TwoEats
       /\ \A p \in Reading : p \o q \in Reading
       /\ \A p \in ReadingTwo : p \o q \in ReadingTwo
       /\ \A p \in OneError : p \o q \in OneError
       /\ \A p \in TwoErrors : p \o q \in TwoErrors
       /\ \A p \in Failing : p \o q \in Failing
<1>1. \A ops, rest : After(ops, rest) \subseteq Program
  BY DEF After
<1>2. Quiet \subseteq Program
  BY DEF Quiet, QuietInstructions, Program
<1>3. /\ OneEat \subseteq Program /\ TwoEats \subseteq Program /\ OneError \subseteq Program
      /\ CheckedError \subseteq Program
  BY <1>1, Zenon DEF OneEat, TwoEats, OneError, CheckedError
<1>4. ASSUME NEW q \in Quiet
      PROVE  /\ \A p \in OneEat : p \o q \in OneEat
             /\ \A p \in OneError : p \o q \in OneError
  BY <1>2, QuietComposes, AfterGrows DEF OneEat, OneError
<1>5. ASSUME NEW q \in Quiet
      PROVE  /\ \A p \in TwoEats : p \o q \in TwoEats
             /\ \A p \in TwoErrors : p \o q \in TwoErrors
             /\ \A p \in CheckedError : p \o q \in CheckedError
             /\ \A p \in After(Opening, OneEat) : p \o q \in After(Opening, OneEat)
  BY <1>3, <1>4, AfterGrows DEF TwoEats, TwoErrors, CheckedError
<1>6. ASSUME NEW q \in Quiet
      PROVE  /\ \A p \in After({"Eat"}, CheckedError) : p \o q \in After({"Eat"}, CheckedError)
             /\ \A p \in After({"Error"}, CheckedError) :
                  p \o q \in After({"Error"}, CheckedError)
             /\ \A p \in After(Opening, TwoEats) : p \o q \in After(Opening, TwoEats)
  BY <1>3, <1>5, AfterGrows
<1>7. QED
  BY <1>2, <1>3, <1>4, <1>5, <1>6 DEF Reading, ReadingTwo, Failing

\* How they begin.
LEMMA StartsBegin ==
  /\ Eat \in OneEat /\ Eat \o Eat \in TwoEats
  /\ \A p \in OneEat : Mark \o p \in Reading /\ Precede \o p \in Reading
  /\ \A p \in TwoEats : Mark \o p \in ReadingTwo
  /\ Error \in OneError /\ Error \o Error \in TwoErrors
  /\ Eat \o Check(">") \o Error \in Reading
  /\ Error \o Check(">") \o Error \in Failing
<1> DEFINE eat     == [op |-> "Eat", what |-> "none", arg |-> 0]
           error   == [op |-> "Error", what |-> "none", arg |-> 0]
           check   == [op |-> "Check", what |-> ">", arg |-> 0]
           mark    == [op |-> "Mark", what |-> "none", arg |-> 0]
           precede == [op |-> "Precede", what |-> "none", arg |-> 0]
<1>1. /\ eat \in Instructions /\ error \in Instructions /\ check \in Instructions
      /\ mark \in Instructions /\ precede \in Instructions
  <2>1. ">" \in TokenKinds
    BY DEF TokenKinds
  <2>2. QED BY <2>1 DEF Instructions
<1>2. eat.op = "Eat" /\ error.op = "Error" /\ check.op = "Check"
      /\ mark.op \in Opening /\ precede.op \in Opening
  BY DEF Opening
<1>3. Eat = <<eat>> /\ Error = <<error>> /\ Check(">") = <<check>> /\ Mark = <<mark>>
      /\ Precede = <<precede>>
  BY DEF Eat, Error, Check, Mark, Precede, Instruction
<1> HIDE DEF eat, error, check, mark, precede
<1>4. \A in \in Instructions : <<in>> \o <<>> = <<in>>
  OBVIOUS
<1>5. /\ Quiet \in SUBSET Program /\ OneEat \in SUBSET Program /\ TwoEats \in SUBSET Program
      /\ OneError \in SUBSET Program /\ CheckedError \in SUBSET Program
  BY StartsGrow
<1>6. <<eat>> \in OneEat /\ <<error>> \in OneError
  BY <1>1, <1>2, <1>4, <1>5, QuietComposes, AfterOne DEF OneEat, OneError
<1>7. <<eat>> \o <<eat>> \in TwoEats /\ <<error>> \o <<error>> \in TwoErrors
      /\ <<check>> \o <<error>> \in CheckedError
  BY <1>1, <1>2, <1>5, <1>6, AfterOne DEF TwoEats, TwoErrors, CheckedError
<1>8. /\ <<eat>> \o (<<check>> \o <<error>>) \in After({"Eat"}, CheckedError)
      /\ <<error>> \o (<<check>> \o <<error>>) \in After({"Error"}, CheckedError)
  BY <1>1, <1>2, <1>5, <1>7, AfterOne
<1>9. /\ <<eat>> \o (<<check>> \o <<error>>) = <<eat>> \o <<check>> \o <<error>>
      /\ <<error>> \o (<<check>> \o <<error>>) = <<error>> \o <<check>> \o <<error>>
  OBVIOUS
<1>10. \A p \in OneEat : <<mark>> \o p \in After(Opening, OneEat)
                         /\ <<precede>> \o p \in After(Opening, OneEat)
  BY <1>1, <1>2, <1>5, AfterOne
<1>11. \A p \in TwoEats : <<mark>> \o p \in After(Opening, TwoEats)
  BY <1>1, <1>2, <1>5, AfterOne
<1>12. QED
  BY <1>3, <1>6, <1>7, <1>8, <1>9, <1>10, <1>11 DEF Reading, ReadingTwo, Failing

\* What was foreseen still is when the program goes on quietly.
LEMMA ForeseenGrows ==
  ASSUME NEW token, NEW ahead, NEW p, Foreseen(p, token, ahead), NEW q \in Quiet
  PROVE  Foreseen(p \o q, token, ahead)
BY QuietComposes, StartsGrow DEF Foreseen

-----------------------------------------------------------------------------
(* The functions that look at a token. *)

\* They read a token without a test only where they have seen it.
LEMMA ByTokenForeseen ==
  ASSUME NEW token, NEW ahead
  PROVE  /\ Foreseen(SimpleExpression(token), token, ahead)
         /\ Foreseen(Field(token, ahead), token, ahead)
         /\ token = "global" => Foreseen(TryGlobalStatement(ahead), token, ahead)
         /\ Foreseen(Statement(token, ahead), token, ahead)
<1>1. Foreseen(SimpleExpression(token), token, ahead)
  <2>1. CASE token \in Literals
    <3>1. Mark \o Eat \o Complete("LiteralExpression") \in Reading
      BY CompletesQuiet, StartsBegin, StartsGrow
    <3>2. token # Eof
      BY <2>1 DEF Literals, Eof
    <3>3. SimpleExpression(token) = Mark \o Eat \o Complete("LiteralExpression")
      BY <2>1 DEF SimpleExpression, Literals, Strings
    <3>4. QED BY <3>1, <3>2, <3>3, Zenon DEF Foreseen
  <2>2. CASE token \in Strings /\ token \notin Literals
    BY <2>2, CompletesQuiet, StartsBegin, StartsGrow
    DEF SimpleExpression, StringLiteral, Strings, Foreseen, Eof
  <2>3. CASE token = "function"
    BY <2>3, CompletesQuiet, ExpressionsQuiet, StartsBegin, StartsGrow
    DEF SimpleExpression, Literals, Strings, Foreseen, Eof
  <2>4. CASE token \notin Literals \union Strings \union {"function"}
    BY <2>4, ExpressionsQuiet DEF SimpleExpression, Foreseen
  <2>5. QED BY <2>1, <2>2, <2>3, <2>4
<1>2. Foreseen(Field(token, ahead), token, ahead)
  <2>1. Check("=") \o Expression \in Quiet
    BY ChecksQuiet, ExpressionsQuiet, QuietComposes
  <2>2. CASE token \in Names /\ ahead = "="
    <3>1. Eat \o (Check("=") \o Expression) \in OneEat
      BY <2>1, StartsBegin, StartsGrow
    <3>2. Mark \o (Eat \o (Check("=") \o Expression)) \o Do("FieldSep")
            \o Complete("TableField") \in Reading
      BY <3>1, CallsQuiet, CompletesQuiet, StartsBegin, StartsGrow
    <3>3. token # Eof
      BY <2>2 DEF Names, Eof
    <3>4. QED BY <2>2, <3>2, <3>3 DEF Field, Foreseen
  <2>3. CASE ~(token \in Names /\ ahead = "=")
    BY <2>1, <2>3, InstructionsQuiet, CallsQuiet, CompletesQuiet, ExpressionsQuiet,
       QuietComposes
    DEF Field, Foreseen
  <2>4. QED BY <2>2, <2>3
<1>3. ASSUME token = "global" PROVE Foreseen(TryGlobalStatement(ahead), token, ahead)
  <2>1. CASE ahead = "*"
    <3>1. Eat \o Eat \o Test(";") \o Complete("GlobalStatement") \in TwoEats
      BY ChecksQuiet, CompletesQuiet, StartsBegin, StartsGrow
    <3>2. TryGlobalStatement(ahead) \in ReadingTwo
      BY <2>1, <3>1, StartsBegin DEF TryGlobalStatement, Names
    <3>3. QED BY <1>3, <2>1, <3>2 DEF Foreseen, Eof
  <2>2. CASE ahead = "<"
    <3>1. Eat \o LocalAttribute \o Do("AttributedGlobals") \o Test(";")
            \o Complete("GlobalStatement") \in OneEat
      BY ChecksQuiet, CompletesQuiet, CallsQuiet, ExpressionsQuiet, StartsBegin, StartsGrow
    <3>2. TryGlobalStatement(ahead) \in Reading
      BY <2>2, <3>1, StartsBegin DEF TryGlobalStatement, Names
    <3>3. QED BY <1>3, <3>2 DEF Foreseen, Eof
  <2>3. CASE ahead = "function"
    <3>1. Eat \o Eat \o CheckName \o FunctionBody \o Test(";")
            \o Complete("FunctionStatement") \o UndoLast \o AssignmentOrCall \in TwoEats
      BY InstructionsQuiet, ChecksQuiet, CompletesQuiet, ExpressionsQuiet, StatementsQuiet,
         StartsBegin, StartsGrow
    <3>2. TryGlobalStatement(ahead) \in ReadingTwo
      BY <2>3, <3>1, StartsBegin DEF TryGlobalStatement, Names
    <3>3. QED BY <1>3, <2>3, <3>2 DEF Foreseen, Eof
  <2>4. CASE ahead \in Names
    <3>1. Eat \o GlobalNameList \o Test(";") \o Complete("GlobalStatement") \in OneEat
      BY ChecksQuiet, CompletesQuiet, StatementsQuiet, StartsBegin, StartsGrow
    <3>2. QED BY <1>3, <2>4, <3>1, StartsBegin DEF TryGlobalStatement, Foreseen, Eof, Names
  <2>5. CASE ahead \notin Names \union {"*", "<", "function"}
    BY <2>5, InstructionsQuiet, StatementsQuiet, QuietComposes DEF TryGlobalStatement, Foreseen
  <2>6. QED BY <2>1, <2>2, <2>3, <2>4, <2>5
<1>4. Foreseen(Statement(token, ahead), token, ahead)
  <2>1. CASE token = ";"
    BY <2>1, CompletesQuiet, StartsBegin, StartsGrow DEF Statement, Foreseen, Eof
  <2>2. CASE token = "global"
    BY <1>3, <2>2 DEF Statement, ExpressionStatement
  <2>3. CASE token # ";" /\ token # "global"
    BY <2>3, StatementsQuiet DEF Statement, ExpressionStatement, Foreseen
  <2>4. QED BY <2>1, <2>2, <2>3
<1>5. QED BY <1>1, <1>2, <1>3, <1>4

\* The priorities that limit a subexpression are numbers.
LEMMA PrioritiesTyped == priority \in [Binary -> [left : Nat, right : Nat]]
<1>1. \A l, r \in Nat : Priority(l, r) \in [left : Nat, right : Nat]
  BY DEF Priority
<1>2. ASSUME NEW op \in Binary
      PROVE  Priorities(Priority(9, 8))[op] \in [left : Nat, right : Nat]
  BY <1>1 DEF Priorities
<1>3. QED BY <1>2 DEF priority, Priorities

\* The rules of the expressions.
LEMMA ExpressionBodyForeseen ==
  ASSUME NEW rule \in ExpressionRules, NEW arg \in Nat, NEW token, NEW ahead
  PROVE  Foreseen(ExpressionBody(rule, arg, token, ahead), token, ahead)
<1> DEFINE body == ExpressionBody(rule, arg, token, ahead)
<1>1. CASE rule = "Subexpression"
  <2>1. DoWith("BinaryOperators", arg) \in Quiet
    BY CallsQuiet
  <2>2. CASE token \in Unary
    <3>1. Mark \o Eat \o Subexpression(UNARY_PRIORITY) \o Complete("UnaryExpression")
            \o DoWith("BinaryOperators", arg) \in Reading
      BY <2>1, CompletesQuiet, ExpressionsQuiet, StartsBegin, StartsGrow DEF UNARY_PRIORITY
    <3>2. token # Eof
      BY <2>2 DEF Unary, Eof
    <3>3. QED BY <1>1, <2>2, <3>1, <3>2 DEF ExpressionBody, Foreseen
  <2>3. CASE token \notin Unary
    <3>1. body = SimpleExpression(token) \o DoWith("BinaryOperators", arg)
      BY <1>1, <2>3 DEF ExpressionBody
    <3>2. QED BY <2>1, <3>1, ByTokenForeseen, ForeseenGrows
  <2>4. QED BY <2>2, <2>3
<1>2. CASE rule = "BinaryOperators"
  <2>1. CASE token \in Binary /\ priority[token].left > arg
    <3>1. priority[token].right \in Nat
      BY <2>1, PrioritiesTyped
    <3>2. Precede \o Eat \o Subexpression(priority[token].right)
            \o Complete("BinaryExpression") \o DoWith("BinaryOperators", arg) \in Reading
      BY <3>1, CallsQuiet, CompletesQuiet, ExpressionsQuiet, StartsBegin, StartsGrow
    <3>3. token # Eof
      BY <2>1 DEF Binary, Eof
    <3>4. QED BY <1>2, <2>1, <3>2, <3>3 DEF ExpressionBody, Foreseen
  <2>2. CASE ~(token \in Binary /\ priority[token].left > arg)
    BY <1>2, <2>2, QuietComposes DEF ExpressionBody, Foreseen
  <2>3. QED BY <2>1, <2>2
<1>3. CASE rule = "MoreExpressions"
  BY <1>3, InstructionsQuiet, QuietComposes, ChecksQuiet, CompletesQuiet, CallsQuiet,
     ExpressionsQuiet, StartsBegin, StartsGrow
  DEF ExpressionBody, Foreseen, Names, Failing, Reading, Eof
<1>4. CASE rule = "NextExpression"
  BY <1>4, InstructionsQuiet, QuietComposes, ChecksQuiet, CompletesQuiet, CallsQuiet,
     ExpressionsQuiet
  DEF ExpressionBody, Foreseen
<1>5. CASE rule = "PrimaryExpression"
  BY <1>5, InstructionsQuiet, QuietComposes, ChecksQuiet, CompletesQuiet, CallsQuiet,
     ExpressionsQuiet, StartsBegin, StartsGrow
  DEF ExpressionBody, Foreseen, Names, Failing, Reading, Eof
<1>6. CASE rule = "Suffixes"
  BY <1>6, InstructionsQuiet, QuietComposes, ChecksQuiet, CompletesQuiet, CallsQuiet,
     ExpressionsQuiet, StartsBegin, StartsGrow
  DEF ExpressionBody, Foreseen, Names, Failing, Reading, Eof, Strings, StringLiteral, FieldSel
<1>7. CASE rule = "CallArgs"
  BY <1>7, InstructionsQuiet, QuietComposes, ChecksQuiet, CompletesQuiet, CallsQuiet,
     ExpressionsQuiet, StartsBegin, StartsGrow
  DEF ExpressionBody, Foreseen, Names, Failing, Reading, Eof, Strings, StringLiteral, FieldSel
<1>8. CASE rule = "Arguments"
  BY <1>8, InstructionsQuiet, QuietComposes, ChecksQuiet, CompletesQuiet, CallsQuiet,
     ExpressionsQuiet
  DEF ExpressionBody, Foreseen
<1>9. CASE rule = "FieldList"
  <2>1. DoWith("FieldList", 1) \in Quiet
    BY CallsQuiet
  <2>2. body \in {<<>>, Field(token, ahead) \o DoWith("FieldList", 1)}
    BY <1>9 DEF ExpressionBody
  <2>3. Foreseen(<<>>, token, ahead)
    BY QuietComposes DEF Foreseen
  <2>4. Foreseen(Field(token, ahead) \o DoWith("FieldList", 1), token, ahead)
    BY <2>1, ByTokenForeseen, ForeseenGrows
  <2>5. QED BY <2>2, <2>3, <2>4
<1>10. CASE rule = "FieldSep"
  BY <1>10, InstructionsQuiet, QuietComposes, ChecksQuiet, CompletesQuiet, CallsQuiet,
     ExpressionsQuiet, StartsBegin, StartsGrow
  DEF ExpressionBody, Foreseen, Names, Failing, Reading, Eof
<1>11. CASE rule = "ParamList"
  BY <1>11, InstructionsQuiet, QuietComposes, ChecksQuiet, CompletesQuiet, CallsQuiet,
     ExpressionsQuiet, StartsBegin, StartsGrow
  DEF ExpressionBody, Foreseen, Names, Failing, Reading, Eof
<1>12. CASE rule = "MoreParams"
  BY <1>12, InstructionsQuiet, QuietComposes, ChecksQuiet, CompletesQuiet, CallsQuiet,
     ExpressionsQuiet, StartsBegin, StartsGrow
  DEF ExpressionBody, Foreseen, Names, Failing, Reading, Eof
<1>13. CASE rule = "VarargName"
  BY <1>13, InstructionsQuiet, QuietComposes, ChecksQuiet, CompletesQuiet, CallsQuiet,
     ExpressionsQuiet, StartsBegin, StartsGrow
  DEF ExpressionBody, Foreseen, Names, Failing, Reading, Eof
<1>14. QED
  BY <1>1, <1>2, <1>3, <1>4, <1>5, <1>6, <1>7, <1>8, <1>9, <1>10, <1>11, <1>12, <1>13
  DEF ExpressionRules

\* The rules of the statements.
LEMMA StatementBodyForeseen ==
  ASSUME NEW rule \in StatementRules, NEW token, NEW ahead
  PROVE  Foreseen(StatementBody(rule, token, ahead), token, ahead)
<1>1. CASE rule = "StatementList"
  BY <1>1, InstructionsQuiet, QuietComposes, ChecksQuiet, CompletesQuiet, CallsQuiet,
     ExpressionsQuiet, StatementsQuiet, ByTokenForeseen, ForeseenGrows
  DEF StatementBody, Foreseen, Names, Failing, Reading, Eof, BlockFollow
<1>2. CASE rule = "TestThenBlock"
  BY <1>2, InstructionsQuiet, QuietComposes, ChecksQuiet, CompletesQuiet, CallsQuiet,
     ExpressionsQuiet, StatementsQuiet, StartsBegin, StartsGrow
  DEF StatementBody, Foreseen, Names, Failing, Reading, Eof
<1>3. CASE rule = "Alternatives"
  BY <1>3, InstructionsQuiet, QuietComposes, ChecksQuiet, CompletesQuiet, CallsQuiet,
     ExpressionsQuiet, StatementsQuiet, StartsBegin, StartsGrow
  DEF StatementBody, Foreseen, Names, Failing, Reading, Eof
<1>4. CASE rule = "ForHead"
  <2>1. PICK p \in {<<>>, Error}, q \in {ForNumber, ForList, Error} :
          StatementBody(rule, token, ahead) = p \o q
    BY <1>4 DEF StatementBody
  <2>2. ForNumber \in Quiet /\ ForList \in Quiet /\ <<>> \in Quiet
    BY StatementsQuiet, QuietComposes
  <2>3. CASE p = <<>>
    <3>1. p \o q = q
      BY <2>1, <2>2, <2>3, StartsBegin, StartsGrow DEF Program
    <3>2. QED BY <2>1, <2>2, <3>1, StartsBegin DEF Foreseen, Failing
  <2>4. CASE p = Error
    BY <2>1, <2>2, <2>4, StartsBegin, StartsGrow DEF Foreseen, Failing
  <2>5. QED BY <2>1, <2>3, <2>4
<1>5. CASE rule = "ForStep"
  BY <1>5, InstructionsQuiet, QuietComposes, ChecksQuiet, CompletesQuiet, CallsQuiet,
     ExpressionsQuiet, StatementsQuiet, StartsBegin, StartsGrow
  DEF StatementBody, Foreseen, Names, Failing, Reading, Eof
<1>6. CASE rule = "MoreNames"
  BY <1>6, InstructionsQuiet, QuietComposes, ChecksQuiet, CompletesQuiet, CallsQuiet,
     ExpressionsQuiet, StatementsQuiet, StartsBegin, StartsGrow
  DEF StatementBody, Foreseen, Names, Failing, Reading, Eof
<1>7. CASE rule = "FunctionName"
  BY <1>7, InstructionsQuiet, QuietComposes, ChecksQuiet, CompletesQuiet, CallsQuiet,
     ExpressionsQuiet, StatementsQuiet, StartsBegin, StartsGrow
  DEF StatementBody, Foreseen, Names, Failing, Reading, Eof, FieldSel
<1>8. CASE rule = "MoreLocals"
  BY <1>8, InstructionsQuiet, QuietComposes, ChecksQuiet, CompletesQuiet, CallsQuiet,
     ExpressionsQuiet, StatementsQuiet, StartsBegin, StartsGrow
  DEF StatementBody, Foreseen, Names, Failing, Reading, Eof
<1>9. CASE rule = "Initializer"
  BY <1>9, InstructionsQuiet, QuietComposes, ChecksQuiet, CompletesQuiet, CallsQuiet,
     ExpressionsQuiet, StatementsQuiet, StartsBegin, StartsGrow
  DEF StatementBody, Foreseen, Names, Failing, Reading, Eof
<1>10. CASE rule = "MoreGlobals"
  BY <1>10, InstructionsQuiet, QuietComposes, ChecksQuiet, CompletesQuiet, CallsQuiet,
     ExpressionsQuiet, StatementsQuiet, StartsBegin, StartsGrow
  DEF StatementBody, Foreseen, Names, Failing, Reading, Eof
<1>11. CASE rule = "AttributedGlobals"
  BY <1>11, InstructionsQuiet, QuietComposes, ChecksQuiet, CompletesQuiet, CallsQuiet,
     ExpressionsQuiet, StatementsQuiet, StartsBegin, StartsGrow
  DEF StatementBody, Foreseen, Names, Failing, Reading, Eof
<1>12. CASE rule = "Returned"
  BY <1>12, InstructionsQuiet, QuietComposes, ChecksQuiet, CompletesQuiet, CallsQuiet,
     ExpressionsQuiet, StatementsQuiet, StartsBegin, StartsGrow
  DEF StatementBody, Foreseen, Names, Failing, Reading, Eof, BlockFollow
<1>13. CASE rule = "Assignment"
  BY <1>13, InstructionsQuiet, QuietComposes, ChecksQuiet, CompletesQuiet, CallsQuiet,
     ExpressionsQuiet, StatementsQuiet, StartsBegin, StartsGrow
  DEF StatementBody, Foreseen, Names, Failing, Reading, Eof
<1>14. CASE rule = "MoreTargets"
  BY <1>14, InstructionsQuiet, QuietComposes, ChecksQuiet, CompletesQuiet, CallsQuiet,
     ExpressionsQuiet, StatementsQuiet, StartsBegin, StartsGrow
  DEF StatementBody, Foreseen, Names, Failing, Reading, Eof
<1>15. CASE rule = "Attribute"
  BY <1>15, InstructionsQuiet, QuietComposes, ChecksQuiet, CompletesQuiet, CallsQuiet,
     ExpressionsQuiet, StatementsQuiet, StartsBegin, StartsGrow
  DEF StatementBody, Foreseen, Names, Failing, Reading, Eof
<1>16. CASE rule = "AttributeName"
  BY <1>16, InstructionsQuiet, QuietComposes, ChecksQuiet, CompletesQuiet, CallsQuiet,
     ExpressionsQuiet, StatementsQuiet, StartsBegin, StartsGrow
  DEF StatementBody, Foreseen, Names, Failing, Reading, Eof
<1>17. QED
  BY <1>1, <1>2, <1>3, <1>4, <1>5, <1>6, <1>7, <1>8, <1>9, <1>10, <1>11, <1>12, <1>13, <1>14,
     <1>15, <1>16
  DEF StatementRules

\* Whatever the tokens, a rule goes on with a program that reads only tokens it has seen.
THEOREM BodyForeseen ==
  ASSUME NEW rule \in Rules, NEW arg \in Nat, NEW token, NEW ahead
  PROVE  Foreseen(Body(rule, arg, token, ahead), token, ahead)
BY ExpressionBodyForeseen, StatementBodyForeseen DEF Body, Rules

\* So it goes on with a program.
LEMMA BodyTyped ==
  ASSUME NEW rule \in Rules, NEW arg \in Nat, NEW token, NEW ahead
  PROVE  Body(rule, arg, token, ahead) \in Program
<1>1. Reading \union ReadingTwo \union Failing \union TwoErrors \subseteq Program
  BY DEF Reading, ReadingTwo, Failing, TwoErrors, OneEat, TwoEats, OneError, After
<1>2. QED BY <1>1, BodyForeseen, StartsGrow DEF Foreseen

-----------------------------------------------------------------------------
(* What programs lead to. *)

\* An instruction leads from one state to another, by a relation R.
Moves(R, in, s, t) == <<in, s, t>> \in R

\* The states path[0] to path[n] lie along the first n instructions of a program.
Goes(R, S, p, n, path) ==
  /\ path \in [0..n -> S]
  /\ \A k \in 1..n : Moves(R, p[k], path[k - 1], path[k])

\* A program leads from a state to another, or it comes to an error while a Marker is open.
Leading(R, S, p, s, t) ==
  \E n \in 0..Len(p) : \E path \in [0..n -> S] :
    /\ Goes(R, S, p, n, path) /\ path[0] = s
    /\ IF n = Len(p) THEN path[n] = t ELSE p[n + 1].op = "Error" /\ path[n] # <<>>

\* A program leads on from where another leads to.
LEMMA LeadingOn ==
  ASSUME NEW R, NEW S, NEW p \in Program, NEW q \in Program, NEW ms \in S, NEW mid \in S,
         NEW after \in S, Leading(R, S, p, ms, mid), Leading(R, S, q, mid, after)
  PROVE  Leading(R, S, p \o q, ms, after)
<1>1. /\ Len(p) \in Nat /\ Len(q) \in Nat /\ Len(p \o q) = Len(p) + Len(q)
      /\ \A k \in 1..Len(p) : (p \o q)[k] = p[k]
      /\ \A k \in 1..Len(q) : (p \o q)[Len(p) + k] = q[k]
  BY DEF Program
<1>2. PICK n \in 0..Len(p) : \E path \in [0..n -> S] :
        /\ Goes(R, S, p, n, path) /\ path[0] = ms
        /\ IF n = Len(p) THEN path[n] = mid ELSE p[n + 1].op = "Error" /\ path[n] # <<>>
  BY DEF Leading
<1>3. PICK path \in [0..n -> S] :
        /\ Goes(R, S, p, n, path) /\ path[0] = ms
        /\ IF n = Len(p) THEN path[n] = mid ELSE p[n + 1].op = "Error" /\ path[n] # <<>>
  BY <1>2
<1>4. CASE n < Len(p)
  <2>1. n \in 0..Len(p \o q) /\ n # Len(p \o q) /\ n + 1 \in 1..Len(p)
    BY <1>1, <1>4
  <2>2. (p \o q)[n + 1].op = "Error" /\ path[n] # <<>>
    BY <1>1, <1>3, <1>4, <2>1
  <2>3. Goes(R, S, p \o q, n, path)
    <3>1. \A k \in 1..n : k \in 1..Len(p)
      BY <1>1, <1>4
    <3>2. QED BY <1>1, <1>3, <3>1 DEF Goes
  <2>4. QED BY <1>3, <2>1, <2>2, <2>3 DEF Leading
<1>5. CASE n = Len(p)
  <2>1. PICK m \in 0..Len(q) : \E way \in [0..m -> S] :
          /\ Goes(R, S, q, m, way) /\ way[0] = mid
          /\ IF m = Len(q) THEN way[m] = after ELSE q[m + 1].op = "Error" /\ way[m] # <<>>
    BY DEF Leading
  <2>2. PICK way \in [0..m -> S] :
          /\ Goes(R, S, q, m, way) /\ way[0] = mid
          /\ IF m = Len(q) THEN way[m] = after ELSE q[m + 1].op = "Error" /\ way[m] # <<>>
    BY <2>1
  <2> DEFINE both == [k \in 0..(n + m) |-> IF k <= n THEN path[k] ELSE way[k - n]]
  <2>3. n + m \in 0..Len(p \o q)
    BY <1>1, <1>5
  <2>4. both \in [0..(n + m) -> S]
    <3>1. \A k \in 0..(n + m) : /\ k <= n => k \in 0..n
                                /\ ~(k <= n) => k - n \in 0..m
      BY <1>1
    <3>2. QED BY <3>1
  <2>5. /\ \A k \in 0..n : both[k] = path[k]
        /\ \A k \in 0..m : both[n + k] = way[k]
    <3>1. \A k \in 0..n : k \in 0..(n + m) /\ k <= n
      BY <1>1
    <3>2. \A k \in 0..n : both[k] = path[k]
      BY <3>1
    <3>3. ASSUME NEW k \in 0..m PROVE both[n + k] = way[k]
      <4>1. n + k \in 0..(n + m) /\ (n + k <= n => k = 0 /\ n + k = n) /\ (n + k) - n = k
        BY <1>1
      <4>2. path[n] = way[0]
        BY <1>3, <1>5, <2>2
      <4>3. QED BY <4>1, <4>2
    <3>4. QED BY <3>2, <3>3
  <2> HIDE DEF both
  <2>6. Goes(R, S, p \o q, n + m, both)
    <3>1. ASSUME NEW k \in 1..(n + m) PROVE Moves(R, (p \o q)[k], both[k - 1], both[k])
      <4>1. CASE k <= n
        <5>1. k \in 1..n /\ k - 1 \in 0..n /\ k \in 0..n /\ k \in 1..Len(p)
          BY <1>1, <1>5, <4>1
        <5>2. Moves(R, p[k], path[k - 1], path[k])
          BY <1>3, <5>1 DEF Goes
        <5>3. QED BY <1>1, <2>5, <5>1, <5>2
      <4>2. CASE k > n
        <5> DEFINE j == k - n
        <5>1. j \in 1..m /\ j - 1 \in 0..m /\ j \in 0..m /\ j \in 1..Len(q)
              /\ k = n + j /\ k - 1 = n + (j - 1)
          BY <1>1, <4>2
        <5> HIDE DEF j
        <5>2. Moves(R, q[j], way[j - 1], way[j])
          BY <2>2, <5>1 DEF Goes
        <5>3. both[k - 1] = way[j - 1] /\ both[k] = way[j] /\ (p \o q)[k] = q[j]
          BY <1>1, <1>5, <2>5, <5>1
        <5>4. QED BY <5>2, <5>3
      <4>3. QED BY <1>1, <4>1, <4>2
    <3>2. QED BY <2>4, <3>1 DEF Goes
  <2>7. both[0] = ms
    <3>1. 0 \in 0..n
      OBVIOUS
    <3>2. QED BY <1>3, <2>5, <3>1
  <2>8. IF n + m = Len(p \o q) THEN both[n + m] = after
        ELSE (p \o q)[n + m + 1].op = "Error" /\ both[n + m] # <<>>
    <3>1. m \in 0..m /\ (n + m = Len(p \o q) <=> m = Len(q))
      BY <1>1, <1>5
    <3>2. CASE m = Len(q)
      BY <2>2, <2>5, <3>1, <3>2
    <3>3. CASE m # Len(q)
      <4>1. m + 1 \in 1..Len(q) /\ n + m + 1 = Len(p) + (m + 1)
        BY <1>1, <1>5, <3>3
      <4>2. both[n + m] = way[m]
        BY <2>5, <3>1
      <4>3. QED BY <1>1, <2>2, <3>1, <3>3, <4>1, <4>2
    <3>4. QED BY <3>2, <3>3
  <2>9. QED BY <2>3, <2>4, <2>6, <2>7, <2>8 DEF Leading
<1>6. QED BY <1>1, <1>4, <1>5

\* An instruction, as a program.
LEMMA LeadingOne ==
  ASSUME NEW R, NEW S, NEW in \in Instructions, NEW ms \in S, NEW after \in S,
         Moves(R, in, ms, after)
  PROVE  Leading(R, S, <<in>>, ms, after)
<1> DEFINE path == [k \in 0..1 |-> IF k = 0 THEN ms ELSE after]
<1>1. Len(<<in>>) = 1 /\ <<in>>[1] = in
  OBVIOUS
<1>2. path \in [0..1 -> S] /\ path[0] = ms /\ path[1] = after
  OBVIOUS
<1> HIDE DEF path
<1>3. \A k \in 1..1 : k = 1 /\ k - 1 = 0
  OBVIOUS
<1>4. Goes(R, S, <<in>>, 1, path)
  BY <1>1, <1>2, <1>3 DEF Goes
<1>5. 1 \in 0..Len(<<in>>) /\ 1 = Len(<<in>>)
  BY <1>1
<1>6. QED BY <1>2, <1>4, <1>5, Zenon DEF Leading

\* A program that begins with an error.
LEMMA LeadingNowhere ==
  ASSUME NEW R, NEW S, NEW p \in Program, p # <<>>, p[1].op = "Error", NEW ms \in S, ms # <<>>,
         NEW after \in S
  PROVE  Leading(R, S, p, ms, after)
<1> DEFINE path == [k \in 0..0 |-> ms]
<1>1. path \in [0..0 -> S] /\ path[0] = ms
  OBVIOUS
<1> HIDE DEF path
<1>2. Goes(R, S, p, 0, path)
  BY <1>1 DEF Goes
<1>3. 0 \in 0..Len(p) /\ Len(p) # 0 /\ 0 + 1 = 1
  BY DEF Program
<1>4. QED BY <1>1, <1>2, <1>3 DEF Leading

\* The empty program.
LEMMA LeadingNone ==
  ASSUME NEW R, NEW S, NEW ms \in S, NEW after \in S
  PROVE  Leading(R, S, <<>>, ms, after) <=> ms = after
<1>1. Len(<<>>) = 0 /\ 0 \in 0..Len(<<>>)
  OBVIOUS
<1>2. ASSUME ms = after PROVE Leading(R, S, <<>>, ms, after)
  <2> DEFINE path == [k \in 0..0 |-> ms]
  <2>1. path \in [0..0 -> S] /\ path[0] = ms
    OBVIOUS
  <2> HIDE DEF path
  <2>2. Goes(R, S, <<>>, 0, path)
    BY <2>1 DEF Goes
  <2>3. QED BY <1>1, <1>2, <2>1, <2>2 DEF Leading
<1>3. ASSUME Leading(R, S, <<>>, ms, after) PROVE ms = after
  <2>1. PICK n \in 0..Len(<<>>) : \E path \in [0..n -> S] :
          /\ Goes(R, S, <<>>, n, path) /\ path[0] = ms
          /\ IF n = Len(<<>>) THEN path[n] = after
             ELSE <<>>[n + 1].op = "Error" /\ path[n] # <<>>
    BY <1>3 DEF Leading
  <2>2. n = 0
    BY <1>1, <2>1
  <2>3. QED BY <1>1, <2>1, <2>2
<1>4. QED BY <1>2, <1>3

\* What the first instruction does, and where the others lead.
LEMMA LeadingFirst ==
  ASSUME NEW R, NEW S, NEW p \in Program, p # <<>>, NEW ms \in S, NEW after \in S,
         Leading(R, S, p, ms, after)
  PROVE  \/ Head(p).op = "Error" /\ ms # <<>>
         \/ \E mid \in S : Moves(R, Head(p), ms, mid) /\ Leading(R, S, Tail(p), mid, after)
<1>1. /\ Len(p) \in Nat /\ Len(p) > 0 /\ Len(Tail(p)) = Len(p) - 1 /\ Head(p) = p[1]
      /\ \A k \in 1..(Len(p) - 1) : Tail(p)[k] = p[k + 1]
  BY DEF Program
<1>2. PICK n \in 0..Len(p) : \E path \in [0..n -> S] :
        /\ Goes(R, S, p, n, path) /\ path[0] = ms
        /\ IF n = Len(p) THEN path[n] = after ELSE p[n + 1].op = "Error" /\ path[n] # <<>>
  BY DEF Leading
<1>3. PICK path \in [0..n -> S] :
        /\ Goes(R, S, p, n, path) /\ path[0] = ms
        /\ IF n = Len(p) THEN path[n] = after ELSE p[n + 1].op = "Error" /\ path[n] # <<>>
  BY <1>2
<1>4. CASE n = 0
  BY <1>1, <1>3, <1>4
<1>5. CASE n > 0
  <2> DEFINE way == [k \in 0..(n - 1) |-> path[k + 1]]
  <2>1. \A k \in 0..(n - 1) : k + 1 \in 0..n
    BY <1>1, <1>5
  <2>2. way \in [0..(n - 1) -> S] /\ \A k \in 0..(n - 1) : way[k] = path[k + 1]
    BY <2>1
  <2> HIDE DEF way
  <2>3. path[1] \in S /\ Moves(R, p[1], ms, path[1])
    <3>1. 1 \in 1..n /\ 1 \in 0..n /\ 1 - 1 = 0
      BY <1>1, <1>5
    <3>2. QED BY <1>3, <3>1 DEF Goes
  <2>4. Goes(R, S, Tail(p), n - 1, way)
    <3>1. ASSUME NEW k \in 1..(n - 1) PROVE Moves(R, Tail(p)[k], way[k - 1], way[k])
      <4>1. /\ k + 1 \in 1..n /\ k \in 1..(Len(p) - 1) /\ k - 1 \in 0..(n - 1)
            /\ k \in 0..(n - 1) /\ (k - 1) + 1 = k /\ (k + 1) - 1 = k
        BY <1>1
      <4>2. Moves(R, p[k + 1], path[(k + 1) - 1], path[k + 1])
        BY <1>3, <4>1 DEF Goes
      <4>3. QED BY <1>1, <2>2, <4>1, <4>2
    <3>2. QED BY <2>2, <3>1 DEF Goes
  <2>5. way[0] = path[1]
    <3>1. 0 \in 0..(n - 1) /\ 0 + 1 = 1
      BY <1>1, <1>5
    <3>2. QED BY <2>2, <3>1
  <2>6. n - 1 \in 0..Len(Tail(p))
        /\ IF n - 1 = Len(Tail(p)) THEN way[n - 1] = after ELSE Tail(p)[(n - 1) + 1].op = "Error" /\ way[n - 1] # <<>>
    <3>1. /\ n - 1 \in 0..(Len(p) - 1) /\ (n - 1 = Len(p) - 1 <=> n = Len(p))
          /\ n - 1 \in 0..(n - 1) /\ (n - 1) + 1 = n
      BY <1>1, <1>5
    <3>2. CASE n = Len(p)
      BY <1>1, <1>3, <2>2, <3>1, <3>2
    <3>3. CASE n # Len(p)
      <4>1. n \in 1..(Len(p) - 1)
        <5>1. \A l \in Nat : \A k \in 0..l : k > 0 /\ k # l => k \in 1..(l - 1)
          OBVIOUS
        <5>2. QED BY <1>1, <1>5, <3>3, <5>1, Zenon
      <4>2. way[n - 1] = path[n]
        BY <2>2, <3>1
      <4>3. QED BY <1>1, <1>3, <3>1, <3>3, <4>1, <4>2
    <3>4. QED BY <3>2, <3>3
  <2>7. Leading(R, S, Tail(p), path[1], after)
    BY <2>2, <2>4, <2>5, <2>6 DEF Leading
  <2>8. QED BY <1>1, <2>3, <2>7
<1>6. QED BY <1>4, <1>5

-----------------------------------------------------------------------------
(* What programs do to the open Markers. *)

\* The open Markers, the innermost last: whether a Marker was opened by Precede, and is the
\* parent of a node, or not.
Markers == Seq({"plain", "around"})

\* The rules that close the innermost of the open Markers, those that close it only when it is
\* no parent, and those that do so when they have read no suffix.
Closing == {"PrimaryExpression", "AttributeName", "Suffixes"}

Undoing == {"Assignment", "Attribute", "Suffixes"}

\* An instruction leads from open Markers ms to open Markers after.
Step(in, ms, after) ==
  /\ ms \in Markers /\ after \in Markers /\ ms # <<>>
  /\ \/ in.op = "Mark" /\ after = Append(ms, "plain")
     \/ in.op = "Precede" /\ after = Append(ms, "around")
     \/ in.op = "Complete" /\ in.what # "None" /\ \E f \in {"plain", "around"} : ms = Append(after, f)
     \/ in.op = "Undo" /\ ms = Append(after, "plain")
     \/ in.op \in {"Eat", "Check", "Test"} /\ after = ms
     \/ in.op = "Do" /\ in.what \notin Closing \union Undoing /\ after = ms
     \/ /\ in.op = "Do" /\ in.what \in Closing /\ (in.what = "Suffixes" => in.arg = 1)
        /\ after # <<>> /\ \E f \in {"plain", "around"} : ms = Append(after, f)
     \/ /\ in.op = "Do" /\ in.what \in Undoing /\ (in.what = "Suffixes" => in.arg = 0)
        /\ after # <<>> /\ ms = Append(after, "plain")

\* The Markers to which a program leads.
Steps == {x \in Instructions \X Markers \X Markers : Step(x[1], x[2], x[3])}

Leads(p, ms, after) == Leading(Steps, Markers, p, ms, after)

LEMMA StepsMove ==
  ASSUME NEW in \in Instructions, NEW ms \in Markers, NEW after \in Markers
  PROVE  Moves(Steps, in, ms, after) <=> Step(in, ms, after)
BY DEF Moves, Steps

LEMMA LeadsOn ==
  ASSUME NEW p \in Program, NEW q \in Program, NEW ms \in Markers, NEW mid \in Markers,
         NEW after \in Markers, Leads(p, ms, mid), Leads(q, mid, after)
  PROVE  Leads(p \o q, ms, after)
BY LeadingOn DEF Leads

LEMMA LeadsOne ==
  ASSUME NEW in \in Instructions, NEW ms \in Markers, NEW after \in Markers,
         Step(in, ms, after)
  PROVE  Leads(<<in>>, ms, after)
BY LeadingOne, StepsMove DEF Leads

LEMMA LeadsNowhere ==
  ASSUME NEW p \in Program, p # <<>>, p[1].op = "Error", NEW ms \in Markers, ms # <<>>,
         NEW after \in Markers
  PROVE  Leads(p, ms, after)
BY LeadingNowhere DEF Leads

LEMMA LeadsNone ==
  ASSUME NEW ms \in Markers, NEW after \in Markers
  PROVE  Leads(<<>>, ms, after) <=> ms = after
BY LeadingNone DEF Leads

LEMMA LeadsFirst ==
  ASSUME NEW p \in Program, p # <<>>, NEW ms \in Markers, NEW after \in Markers,
         Leads(p, ms, after)
  PROVE  \/ Head(p).op = "Error" /\ ms # <<>>
         \/ \E mid \in Markers : Step(Head(p), ms, mid) /\ Leads(Tail(p), mid, after)
<1>1. Head(p) \in Instructions
  BY DEF Program
<1>2. QED BY <1>1, LeadingFirst, StepsMove DEF Leads

\* Nothing is left to do when no Marker is open.
LEMMA LeadsNoFurther ==
  ASSUME NEW p \in Program, NEW after \in Markers, Leads(p, <<>>, after)
  PROVE  p = <<>>
<1>1. <<>> \in Markers
  BY DEF Markers
<1>2. QED BY <1>1, LeadsFirst DEF Step

-----------------------------------------------------------------------------
(* What programs do to the operators that wait for an operand. *)

\* What is known of the node that an open Marker begins: nothing ("free"), that a node was
\* completed last, just now ("made"), that it has nothing yet ("bare"), nothing but a node that
\* is no operation ("single"), no operator yet ("operator"), an operator but no operand behind
\* it ("lacking"), that operand and nothing else ("filled"), and that no operator may follow in
\* the operand ("closed").  What may follow in it is bounded by the priority `lim`; `ahead` is
\* the right priority of an operator that comes next, 0 when that is not known.
Frame ==
  [at : {"free", "made", "bare", "single", "operator", "lacking", "filled", "closed"},
   lim : Nat, ahead : Nat]

Frames == Seq(Frame)

As(state, lim) == [at |-> state, lim |-> lim, ahead |-> 0]

Facing(f, right) == [f EXCEPT !.ahead = right]

Free == As("free", 0)

Made == As("made", 0)

Blank == As("bare", 0)

Single == As("single", 0)

\* The nodes in which another may be opened.
Holding == {Free, Blank} \union {As("lacking", n) : n \in Nat}

\* What a node becomes in which another one has been completed.
Takes(f, g) ==
  \/ f = Free /\ g \in {Free, Made}
  \/ f = Blank /\ g = Single
  \/ \E n \in Nat : f = As("lacking", n) /\ g = As("filled", n)

Operations == {"BinaryExpression", "UnaryExpression"}

\* Operators with the right priority `right` bind tighter to their left than the limit.
Looser(limit, right) ==
  \A op \in Binary : priority[op].right = right => priority[op].left > limit

\* An instruction that opens the node t in a node f, which becomes g; the limit of a unary
\* operator is that of no other operator.
Entering(in, f, g, t) ==
  \/ in.op = "Mark" /\ f \in Holding /\ g = f
     /\ t \in {Free, Blank, As("operator", UNARY_PRIORITY)}
  \/ in.op = "Precede" /\ f = Made /\ g = Free /\ t = Free
  \/ /\ in.op = "Precede"
     /\ \E r \in Nat \ {0, UNARY_PRIORITY} :
          /\ t = As("operator", r)
          /\ \/ f = Facing(Made, r) /\ g = Free
             \/ \E n \in Nat : f = Facing(As("filled", n), r) /\ g = As("filled", n)

\* One that stays in the node f.
Staying(in, f, g) ==
  \/ in.op \in {"Eat", "Check", "Test"} /\ f = Free /\ g = Free
  \/ in.op = "Eat" /\ \E n \in Nat : f = As("operator", n) /\ g = As("lacking", n)
  \/ /\ in.op = "Do" /\ in.what \notin Closing \union Undoing \union {"BinaryOperators"}
     /\ f = Free /\ g = Free
  \/ /\ in.op = "Do" /\ in.what = "Subexpression"
     /\ \/ f = Free /\ g = Made
        \/ f = As("lacking", in.arg) /\ g = As("closed", in.arg)
  \/ /\ in.op = "Do" /\ in.what = "BinaryOperators"
     /\ \/ f = Made /\ g \in {Free, Made}
        \/ f = As("filled", in.arg) /\ g = As("closed", in.arg)

\* One that closes the node t in the node f.
Ending(in, f, t, g) ==
  \/ in.op = "Complete" /\ in.what \notin Operations \union {"None"} /\ t = Free /\ Takes(f, g)
  \/ /\ in.op = "Complete" /\ in.what = "UnaryExpression" /\ t = As("closed", UNARY_PRIORITY)
     /\ Takes(f, g) /\ f # Blank
  \/ /\ in.op = "Complete" /\ in.what = "BinaryExpression"
     /\ \E r \in Nat \ {UNARY_PRIORITY} :
          /\ t = As("closed", r)
          /\ \/ f = Free /\ g \in {Free, Made}
             \/ \E n \in Nat : f = As("filled", n) /\ g = f /\ Looser(n, r)
  \/ in.op = "Undo" /\ t = Single /\ Takes(f, g)
  \/ in.op = "Undo" /\ t = Free /\ f = Free /\ g = Free
  \/ /\ in.op = "Do" /\ in.what \in Closing /\ (in.what = "Suffixes" => in.arg = 1)
     /\ t = Free /\ Takes(f, g)
  \/ /\ in.op = "Do" /\ in.what \in Undoing /\ (in.what = "Suffixes" => in.arg = 0)
     /\ t = Free /\ f = Free /\ g = Free
  \/ in.op = "Do" /\ in.what = "Suffixes" /\ in.arg = 0 /\ t = Single /\ Takes(f, g)

\* An instruction leads from the nodes fs that are open to others.
Turn(in, fs, after) ==
  \/ \E b \in Frames, f \in Frame, g \in Frame :
       fs = Append(b, f) /\ after = Append(b, g) /\ Staying(in, f, g)
  \/ \E b \in Frames, f \in Frame, g \in Frame, t \in Frame :
       fs = Append(b, f) /\ after = Append(Append(b, g), t) /\ Entering(in, f, g, t)
  \/ \E b \in Frames, f \in Frame, g \in Frame, t \in Frame :
       fs = Append(Append(b, f), t) /\ after = Append(b, g) /\ Ending(in, f, t, g)
  \/ /\ in.op = "Complete" /\ in.what \notin Operations \union {"None"}
     /\ fs = <<Free>> /\ after = <<>>

Turns == {x \in Instructions \X Frames \X Frames : Turn(x[1], x[2], x[3])}

Passes(p, fs, after) == Leading(Turns, Frames, p, fs, after)

LEMMA TurnsMove ==
  ASSUME NEW in \in Instructions, NEW fs \in Frames, NEW after \in Frames
  PROVE  Moves(Turns, in, fs, after) <=> Turn(in, fs, after)
BY DEF Moves, Turns

LEMMA PassesOn ==
  ASSUME NEW p \in Program, NEW q \in Program, NEW fs \in Frames, NEW mid \in Frames,
         NEW after \in Frames, Passes(p, fs, mid), Passes(q, mid, after)
  PROVE  Passes(p \o q, fs, after)
BY LeadingOn DEF Passes

LEMMA PassesOne ==
  ASSUME NEW in \in Instructions, NEW fs \in Frames, NEW after \in Frames,
         Turn(in, fs, after)
  PROVE  Passes(<<in>>, fs, after)
BY LeadingOne, TurnsMove DEF Passes

LEMMA PassesNowhere ==
  ASSUME NEW p \in Program, p # <<>>, p[1].op = "Error", NEW fs \in Frames, fs # <<>>,
         NEW after \in Frames
  PROVE  Passes(p, fs, after)
BY LeadingNowhere DEF Passes

LEMMA PassesNone ==
  ASSUME NEW fs \in Frames, NEW after \in Frames
  PROVE  Passes(<<>>, fs, after) <=> fs = after
BY LeadingNone DEF Passes

LEMMA PassesFirst ==
  ASSUME NEW p \in Program, p # <<>>, NEW fs \in Frames, NEW after \in Frames,
         Passes(p, fs, after)
  PROVE  \/ Head(p).op = "Error" /\ fs # <<>>
         \/ \E mid \in Frames : Turn(Head(p), fs, mid) /\ Passes(Tail(p), mid, after)
<1>1. Head(p) \in Instructions
  BY DEF Program
<1>2. QED BY <1>1, LeadingFirst, TurnsMove DEF Passes

\* The kinds of frames.
LEMMA FramesTyped ==
  /\ Holding \subseteq Frame /\ Free \in Holding /\ Blank \in Holding
  /\ Free \in Frame /\ Made \in Frame /\ Blank \in Frame /\ Single \in Frame
  /\ \A n \in Nat : /\ As("lacking", n) \in Holding /\ As("operator", n) \in Frame
                    /\ As("filled", n) \in Frame /\ As("closed", n) \in Frame
                    /\ Facing(Made, n) \in Frame /\ Facing(As("filled", n), n) \in Frame
  /\ \A f \in Frame, n \in Nat : Facing(f, n) \in Frame
  /\ \A f, g : Takes(f, g) => f \in Holding /\ g \in Frame
  /\ \A b \in Frames, f \in Frame : Append(b, f) \in Frames /\ Append(b, f) # <<>>
<1> USE DEF Frame, Holding, As, Facing, Free, Made, Blank, Single
<1>1. /\ Holding \subseteq Frame /\ Free \in Holding /\ Blank \in Holding
      /\ Free \in Frame /\ Made \in Frame /\ Blank \in Frame /\ Single \in Frame
  OBVIOUS
<1>2. \A n \in Nat : /\ As("lacking", n) \in Holding /\ As("operator", n) \in Frame
                     /\ As("filled", n) \in Frame /\ As("closed", n) \in Frame
  OBVIOUS
<1>3. \A f \in Frame, n \in Nat : Facing(f, n) \in Frame
  OBVIOUS
<1>4. \A f, g : Takes(f, g) => f \in Holding /\ g \in Frame
  BY DEF Takes
<1>5. \A b \in Frames, f \in Frame : Append(b, f) \in Frames /\ Append(b, f) # <<>>
  BY DEF Frames
<1> HIDE DEF Frame, Holding, As, Facing, Free, Made, Blank, Single
<1>6. QED BY <1>1, <1>2, <1>3, <1>4, <1>5

\* The frames say what they are.
LEMMA StatesSay ==
  /\ Free.at = "free" /\ Made.at = "made" /\ Blank.at = "bare" /\ Single.at = "single"
  /\ Free.ahead = 0 /\ Made.ahead = 0 /\ Blank.ahead = 0 /\ Single.ahead = 0
  /\ \A a, n : As(a, n).at = a /\ As(a, n).lim = n /\ As(a, n).ahead = 0
  /\ \A f \in Frame, n \in Nat : /\ Facing(f, n).at = f.at /\ Facing(f, n).lim = f.lim
                                 /\ Facing(f, n).ahead = n
BY DEF Frame, As, Facing, Free, Made, Blank, Single

-----------------------------------------------------------------------------
(* Which node a Marker is put around. *)

\* Instructions that put a Marker around the node completed last.
Wraps(in) == in.op = "Precede" \/ (in.op = "Do" /\ in.what = "BinaryOperators")

\* Those that complete one.
Makes(in) ==
  in.op = "Complete" \/ (in.op = "Do" /\ in.what \in {"Subexpression", "PrimaryExpression"})

\* Programs that complete a node before they put a Marker around one, and those that do
\* complete a node.
Prepared ==
  {p \in Program : \A k \in 1..Len(p) : Wraps(p[k]) => \E j \in 1..(k - 1) : Makes(p[j])}

Making == {p \in Prepared : \E j \in 1..Len(p) : Makes(p[j])}

LEMMA PreparedComposes ==
  /\ Making \subseteq Prepared /\ Prepared \subseteq Program
  /\ \A p, q \in Prepared : p \o q \in Prepared
  /\ \A p \in Making, q \in Program : p \o q \in Making
  /\ \A p \in Prepared, q \in Making : p \o q \in Making
<1>1. ASSUME NEW p \in Program, NEW q \in Program
      PROVE  /\ p \o q \in Program
             /\ Len(p) \in Nat /\ Len(q) \in Nat /\ Len(p \o q) = Len(p) + Len(q)
             /\ \A k \in 1..Len(p) : (p \o q)[k] = p[k]
             /\ \A k \in 1..Len(q) : (p \o q)[Len(p) + k] = q[k]
  BY DEF Program
<1>2. ASSUME NEW p \in Prepared, NEW q \in Program,
             q \in Prepared \/ \E j \in 1..Len(p) : Makes(p[j])
      PROVE  p \o q \in Prepared
  <2>1. p \in Program
    BY DEF Prepared
  <2>2. ASSUME NEW k \in 1..Len(p \o q), Wraps((p \o q)[k])
        PROVE  \E j \in 1..(k - 1) : Makes((p \o q)[j])
    <3>1. CASE k \in 1..Len(p)
      <4>1. PICK j \in 1..(k - 1) : Makes(p[j])
        BY <1>1, <2>1, <2>2, <3>1 DEF Prepared
      <4>2. j \in 1..Len(p)
        BY <1>1, <2>1, <3>1
      <4>3. QED BY <1>1, <2>1, <4>1, <4>2
    <3>2. CASE k \notin 1..Len(p)
      <4>1. k - Len(p) \in 1..Len(q) /\ k = Len(p) + (k - Len(p)) /\ k \in Nat
        BY <1>1, <2>1, <3>2
      <4>2. CASE \E j \in 1..Len(p) : Makes(p[j])
        <5>1. PICK j \in 1..Len(p) : Makes(p[j])
          BY <4>2
        <5>2. j \in 1..(k - 1)
          BY <1>1, <2>1, <3>2, <4>1
        <5>3. QED BY <1>1, <2>1, <5>1, <5>2
      <4>3. CASE q \in Prepared
        <5> DEFINE i == k - Len(p)
        <5>0. i \in 1..Len(q) /\ k = Len(p) + i
          BY <4>1
        <5> HIDE DEF i
        <5>1. i \in 1..Len(q) /\ Wraps(q[i])
          BY <1>1, <2>1, <2>2, <5>0
        <5>2. PICK j \in 1..(i - 1) : Makes(q[j])
          BY <4>3, <5>1 DEF Prepared
        <5>3. j \in 1..Len(q) /\ Len(p) + j \in 1..(k - 1)
          <6>1. \A l, m \in Nat : \A a \in 1..m : \A b \in 1..(a - 1) :
                  b \in 1..m /\ l + b \in 1..(l + a - 1)
            OBVIOUS
          <6>2. Len(p) \in Nat /\ Len(q) \in Nat
            BY <1>1, <2>1
          <6>3. QED BY <5>0, <6>1, <6>2
        <5>4. QED BY <1>1, <2>1, <5>2, <5>3
      <4>4. QED BY <1>2, <4>2, <4>3
    <3>3. QED BY <3>1, <3>2
  <2>3. QED BY <1>1, <2>1, <2>2 DEF Prepared
<1>3. ASSUME NEW p \in Program, NEW q \in Program,
             (\E j \in 1..Len(p) : Makes(p[j])) \/ \E j \in 1..Len(q) : Makes(q[j])
      PROVE  \E j \in 1..Len(p \o q) : Makes((p \o q)[j])
  <2>1. ASSUME NEW j \in 1..Len(p), Makes(p[j])
        PROVE  \E i \in 1..Len(p \o q) : Makes((p \o q)[i])
    <3>1. j \in 1..Len(p \o q)
      BY <1>1
    <3>2. QED BY <1>1, <2>1, <3>1
  <2>2. ASSUME NEW j \in 1..Len(q), Makes(q[j])
        PROVE  \E i \in 1..Len(p \o q) : Makes((p \o q)[i])
    <3>1. Len(p) + j \in 1..Len(p \o q)
      BY <1>1
    <3>2. QED BY <1>1, <2>2, <3>1
  <2>3. QED BY <1>3, <2>1, <2>2
<1>4. Making \subseteq Prepared /\ Prepared \subseteq Program
  BY DEF Making, Prepared
<1>5. \A p, q \in Prepared : p \o q \in Prepared
  BY <1>2, <1>4
<1>6. \A p \in Making, q \in Program : p \o q \in Making
  <2>1. ASSUME NEW p \in Making, NEW q \in Program PROVE p \o q \in Making
    <3>1. p \in Prepared /\ p \in Program /\ \E j \in 1..Len(p) : Makes(p[j])
      BY <1>4 DEF Making
    <3>2. QED BY <1>2, <1>3, <3>1 DEF Making
  <2>2. QED BY <2>1
<1>7. \A p \in Prepared, q \in Making : p \o q \in Making
  <2>1. ASSUME NEW p \in Prepared, NEW q \in Making PROVE p \o q \in Making
    <3>1. q \in Prepared /\ q \in Program /\ p \in Program /\ \E j \in 1..Len(q) : Makes(q[j])
      BY <1>4 DEF Making
    <3>2. QED BY <1>2, <1>3, <3>1 DEF Making
  <2>2. QED BY <2>1
<1>8. QED BY <1>4, <1>5, <1>6, <1>7

\* The instructions.
LEMMA InstructionsPrepared ==
  /\ <<>> \in Prepared /\ Mark \in Prepared /\ Undo \in Prepared /\ UndoLast \in Prepared
  /\ Eat \in Prepared /\ Error \in Prepared /\ Precede \in Program
  /\ \A k \in NodeKinds : Complete(k) \in Making
  /\ \A k \in TokenKinds : Check(k) \in Prepared /\ Test(k) \in Prepared
  /\ \A n \in Nat : DoWith("BinaryOperators", n) \in Program
  /\ \A r \in Rules \ {"BinaryOperators"}, n \in Nat : DoWith(r, n) \in Prepared
  /\ \A n \in Nat : DoWith("Subexpression", n) \in Making
  /\ Do("PrimaryExpression") \in Making
<1>1. ASSUME NEW in \in Instructions PROVE <<in>> \in Program /\ Len(<<in>>) = 1 /\ <<in>>[1] = in
  BY DEF Program
<1>2. ASSUME NEW in \in Instructions, ~Wraps(in) PROVE <<in>> \in Prepared
  BY <1>1, <1>2 DEF Prepared
<1>3. ASSUME NEW in \in Instructions, ~Wraps(in), Makes(in) PROVE <<in>> \in Making
  BY <1>1, <1>2, <1>3 DEF Making
<1>4. <<>> \in Prepared
  BY DEF Prepared, Program
<1>5. \A o \in {"Mark", "Undo", "UndoLast", "Precede", "Eat", "Error"} :
        [op |-> o, what |-> "none", arg |-> 0] \in Instructions
  BY DEF Instructions
<1>6. \A o \in {"Mark", "Undo", "UndoLast", "Eat", "Error"} : Instruction(o, "none", 0) \in Prepared
  <2>1. ASSUME NEW o \in {"Mark", "Undo", "UndoLast", "Eat", "Error"}
        PROVE  Instruction(o, "none", 0) \in Prepared
    <3>1. [op |-> o, what |-> "none", arg |-> 0] \in Instructions
      BY <1>5
    <3>2. ~Wraps([op |-> o, what |-> "none", arg |-> 0])
      BY DEF Wraps
    <3>3. QED BY <1>2, <3>1, <3>2 DEF Instruction
  <2>2. QED BY <2>1
<1>7. \A k \in NodeKinds : Complete(k) \in Making
  <2>1. ASSUME NEW k \in NodeKinds PROVE Complete(k) \in Making
    <3> DEFINE in == [op |-> "Complete", what |-> k, arg |-> 0]
    <3>1. in \in Instructions /\ ~Wraps(in) /\ Makes(in)
      BY DEF Instructions, Wraps, Makes
    <3>2. QED BY <1>3, <3>1 DEF Complete, Instruction
  <2>2. QED BY <2>1
<1>8. \A k \in TokenKinds : Check(k) \in Prepared /\ Test(k) \in Prepared
  <2>1. ASSUME NEW k \in TokenKinds, NEW o \in {"Check", "Test"}
        PROVE  Instruction(o, k, 0) \in Prepared
    <3>1. [op |-> o, what |-> k, arg |-> 0] \in Instructions /\ ~Wraps([op |-> o, what |-> k, arg |-> 0])
      BY DEF Instructions, Wraps
    <3>2. QED BY <1>2, <3>1 DEF Instruction
  <2>2. QED BY <2>1 DEF Check, Test
<1>9. ASSUME NEW r \in Rules, NEW n \in Nat
      PROVE  /\ DoWith(r, n) \in Program
             /\ r # "BinaryOperators" => DoWith(r, n) \in Prepared
             /\ r \in {"Subexpression", "PrimaryExpression"} => DoWith(r, n) \in Making
  <2> DEFINE in == [op |-> "Do", what |-> r, arg |-> n]
  <2>1. in \in Instructions
    BY DEF Instructions, Rules
  <2>2. in.op = "Do" /\ in.what = r
    OBVIOUS
  <2>3. DoWith(r, n) = <<in>>
    BY DEF DoWith, Instruction
  <2> HIDE DEF in
  <2>4. r # "BinaryOperators" => ~Wraps(in)
    BY <2>2 DEF Wraps
  <2>5. r \in {"Subexpression", "PrimaryExpression"} => Makes(in) /\ r # "BinaryOperators"
    BY <2>2 DEF Makes
  <2>6. QED BY <1>1, <1>2, <1>3, <2>1, <2>3, <2>4, <2>5
<1>10. {"Subexpression", "PrimaryExpression", "BinaryOperators"} \subseteq Rules
  BY DEF Rules, ExpressionRules
<1>11. Instruction("Precede", "none", 0) \in Program
  BY <1>1, <1>5 DEF Instruction
<1>12. Do("PrimaryExpression") = DoWith("PrimaryExpression", 0)
  BY DEF Do, DoWith
<1>13. QED
  BY <1>4, <1>6, <1>7, <1>8, <1>9, <1>10, <1>11, <1>12, Zenon
  DEF Mark, Undo, UndoLast, Eat, Error, Precede

-----------------------------------------------------------------------------
(* Programs, by what they do to the nodes that are open. *)

\* Nothing, to a node of which nothing is known.
Calm == {p \in Program : \A b \in Frames : Passes(p, Append(b, Free), Append(b, Free))}

\* They complete one in it.
Supplies ==
  {p \in Program : \A b \in Frames, f, g \in Frame :
                     Takes(f, g) => Passes(p, Append(b, f), Append(b, g))}

\* They open one or two.
Enters ==
  {p \in Program : \A b \in Frames, f \in Holding :
                     Passes(p, Append(b, f), Append(Append(b, f), Free))}

EntersTwo ==
  {p \in Program : \A b \in Frames, f \in Holding :
                     Passes(p, Append(b, f), Append(Append(Append(b, f), Free), Free))}

\* They complete the innermost, or they may undo it.
Leaves ==
  {p \in Program : \A b \in Frames, f, g \in Frame :
                     Takes(f, g) => Passes(p, Append(Append(b, f), Free), Append(b, g))}

Lets ==
  {p \in Program : \A b \in Frames : Passes(p, Append(Append(b, Free), Free), Append(b, Free))}

\* They open one around the one that was completed last, or around the innermost.
Wrapping ==
  {p \in Program : \A b \in Frames : Passes(p, Append(b, Made), Append(Append(b, Free), Free))}

Replaces ==
  {p \in Program : \A b \in Frames : Passes(p, Append(Append(b, Free), Free),
                                               Append(Append(b, Free), Free))}

\* How they go together.
LEMMA FramesCompose ==
  /\ \A q \in Calm : /\ \A p \in Calm : p \o q \in Calm
                     /\ \A p \in Enters : p \o q \in Enters
                     /\ \A p \in EntersTwo : p \o q \in EntersTwo
                     /\ \A p \in Lets : p \o q \in Lets
                     /\ \A p \in Replaces : p \o q \in Replaces
  /\ \A p \in Calm : /\ \A q \in Leaves : p \o q \in Leaves
                     /\ \A q \in Lets : p \o q \in Lets
  /\ \A p \in Enters : /\ \A q \in Enters : p \o q \in EntersTwo
                       /\ \A q \in Lets : p \o q \in Calm
                       /\ \A q \in Leaves : p \o q \in Supplies
  /\ \A p \in EntersTwo : \A q \in Lets : p \o q \in Enters
  /\ \A p \in Leaves : \A q \in Wrapping : p \o q \in Replaces
  /\ \A p \in Replaces : \A q \in Leaves : p \o q \in Lets
  /\ Leaves \subseteq Lets
<1>1. /\ \A f \in Holding : f \in Frame
      /\ Free \in Holding /\ Free \in Frame /\ Made \in Frame
      /\ Takes(Free, Free) /\ Takes(Free, Made)
      /\ \A f, g : Takes(f, g) => f \in Holding
      /\ \A b \in Frames, f \in Frame : Append(b, f) \in Frames
  BY FramesTyped DEF Takes
<1> USE <1>1, ProgramsCompose, PassesOn
<1>2. ASSUME NEW q \in Calm
      PROVE  /\ \A p \in Calm : p \o q \in Calm
             /\ \A p \in Enters : p \o q \in Enters
             /\ \A p \in EntersTwo : p \o q \in EntersTwo
             /\ \A p \in Lets : p \o q \in Lets
             /\ \A p \in Replaces : p \o q \in Replaces
  <2>1. \A p \in Calm : p \o q \in Calm
    BY DEF Calm
  <2>2. \A p \in Enters : p \o q \in Enters
    BY DEF Calm, Enters
  <2>3. \A p \in EntersTwo : p \o q \in EntersTwo
    BY DEF Calm, EntersTwo
  <2>4. \A p \in Lets : p \o q \in Lets
    BY DEF Calm, Lets
  <2>5. \A p \in Replaces : p \o q \in Replaces
    BY DEF Calm, Replaces
  <2>6. QED BY <2>1, <2>2, <2>3, <2>4, <2>5
<1>3. ASSUME NEW p \in Calm
      PROVE  /\ \A q \in Leaves : p \o q \in Leaves
             /\ \A q \in Lets : p \o q \in Lets
  BY DEF Calm, Leaves, Lets
<1>4. ASSUME NEW p \in Enters
      PROVE  /\ \A q \in Enters : p \o q \in EntersTwo
             /\ \A q \in Lets : p \o q \in Calm
             /\ \A q \in Leaves : p \o q \in Supplies
  <2>1. \A q \in Enters : p \o q \in EntersTwo
    BY DEF Enters, EntersTwo
  <2>2. \A q \in Lets : p \o q \in Calm
    BY DEF Enters, Lets, Calm
  <2>3. \A q \in Leaves : p \o q \in Supplies
    BY DEF Enters, Leaves, Supplies
  <2>4. QED BY <2>1, <2>2, <2>3
<1>5. ASSUME NEW p \in EntersTwo PROVE \A q \in Lets : p \o q \in Enters
  BY DEF Enters, EntersTwo, Lets
<1>6. ASSUME NEW p \in Leaves PROVE \A q \in Wrapping : p \o q \in Replaces
  BY DEF Leaves, Wrapping, Replaces
<1>7. ASSUME NEW p \in Replaces PROVE \A q \in Leaves : p \o q \in Lets
  BY DEF Leaves, Replaces, Lets
<1>8. Leaves \subseteq Lets
  BY DEF Leaves, Lets
<1>9. QED BY <1>2, <1>3, <1>4, <1>5, <1>6, <1>7, <1>8

-----------------------------------------------------------------------------
(* Programs, by what they do to the open Markers as well; there always are some. *)

SomeMarkers == Markers \ {<<>>}

Flat == {p \in Program : \A ms \in SomeMarkers : Leads(p, ms, ms)}

Neutral == Flat \cap Prepared \cap Calm

Opens == {p \in Prepared \cap Enters : \A ms \in SomeMarkers : Leads(p, ms, Append(ms, "plain"))}

OpensTwo ==
  {p \in Prepared \cap EntersTwo :
     \A ms \in SomeMarkers : Leads(p, ms, Append(Append(ms, "plain"), "plain"))}

Encloses == {p \in Program : \A ms \in SomeMarkers : Leads(p, ms, Append(ms, "around"))}

\* The innermost Marker is closed, whatever it is, or when it is no parent.
Shuts ==
  {p \in Prepared : \A ms \in SomeMarkers, f \in {"plain", "around"} : Leads(p, Append(ms, f), ms)}

Closes == Shuts \cap Leaves

Drops == {p \in Prepared \cap Lets : \A ms \in SomeMarkers : Leads(p, Append(ms, "plain"), ms)}

\* It is closed, and one that is a parent is opened in its place.
Swaps ==
  {p \in Prepared \cap Replaces :
     \A ms \in SomeMarkers, f \in {"plain", "around"} :
       Leads(p, Append(ms, f), Append(ms, "around"))}

LEMMA MarkersGrow ==
  ASSUME NEW ms \in Markers, NEW f \in {"plain", "around"}
  PROVE  Append(ms, f) \in SomeMarkers
<1>1. Append(ms, f) \in Markers /\ Len(Append(ms, f)) # 0
  BY DEF Markers
<1>2. Len(<<>>) = 0
  OBVIOUS
<1>3. Append(ms, f) # <<>>
  BY <1>1, <1>2
<1>4. QED BY <1>1, <1>3 DEF SomeMarkers

LEMMA SomeAreMarkers == SomeMarkers \subseteq Markers
BY DEF SomeMarkers

LEMMA SomeMarkersThereAre == SomeMarkers # {}
<1>1. <<>> \in Markers /\ "plain" \in {"plain", "around"}
  BY DEF Markers
<1>2. QED BY <1>1, MarkersGrow

\* How they go together.
LEMMA LevelComposes ==
  ASSUME NEW q \in Neutral
  PROVE  /\ \A p \in Neutral : p \o q \in Neutral
         /\ \A p \in Opens : p \o q \in Opens
         /\ \A p \in OpensTwo : p \o q \in OpensTwo
         /\ \A p \in Encloses : p \o q \in Encloses
         /\ \A p \in Drops : p \o q \in Drops
         /\ \A p \in Swaps : p \o q \in Swaps
<1>1. q \in Program /\ q \in Prepared /\ q \in Calm /\ \A ms \in SomeMarkers : Leads(q, ms, ms)
  BY DEF Neutral, Flat
<1> USE <1>1, ProgramsCompose, PreparedComposes, FramesCompose, LeadsOn, MarkersGrow,
        SomeAreMarkers
<1>2. \A p \in Neutral : p \o q \in Neutral
  BY DEF Neutral, Flat
<1>3. \A p \in Opens : p \o q \in Opens
  BY DEF Opens
<1>4. \A p \in OpensTwo : p \o q \in OpensTwo
  BY DEF OpensTwo
<1>5. \A p \in Encloses : p \o q \in Encloses
  BY DEF Encloses
<1>6. \A p \in Drops : p \o q \in Drops
  BY DEF Drops
<1>7. \A p \in Swaps : p \o q \in Swaps
  BY DEF Swaps
<1>8. QED BY <1>2, <1>3, <1>4, <1>5, <1>6, <1>7

LEMMA MarkersCompose ==
  /\ \A p \in Neutral : /\ \A q \in Closes : p \o q \in Closes
                        /\ \A q \in Drops : p \o q \in Drops
  /\ \A p \in Opens : /\ \A q \in Opens : p \o q \in OpensTwo
                      /\ \A q \in Drops : p \o q \in Neutral
  /\ \A p \in OpensTwo : \A q \in Drops : p \o q \in Opens
  /\ \A p \in Flat \cap Making : \A q \in Flat : p \o q \in Flat \cap Making
  /\ \A p \in Flat : \A q \in Flat : p \o q \in Flat
  /\ \A p \in Encloses : \A q \in Flat : p \o q \in Encloses
  /\ \A p \in Encloses : \A q \in Shuts : p \o q \in Flat
  /\ \A p \in Closes \cap Making : \A q \in Encloses \cap Wrapping : p \o q \in Swaps
  /\ \A p \in Swaps : \A q \in Closes : p \o q \in Drops
  /\ Closes \subseteq Drops /\ Neutral \subseteq Flat
<1> USE ProgramsCompose, PreparedComposes, FramesCompose, LeadsOn, MarkersGrow, SomeAreMarkers
<1>1. ASSUME NEW p \in Neutral
      PROVE  /\ \A q \in Closes : p \o q \in Closes
             /\ \A q \in Drops : p \o q \in Drops
  <2>1. \A q \in Closes : p \o q \in Closes
    BY DEF Neutral, Flat, Closes, Shuts
  <2>2. \A q \in Drops : p \o q \in Drops
    BY DEF Neutral, Flat, Drops
  <2>3. QED BY <2>1, <2>2
<1>2. ASSUME NEW p \in Opens
      PROVE  /\ \A q \in Opens : p \o q \in OpensTwo
             /\ \A q \in Drops : p \o q \in Neutral
  <2>1. \A q \in Opens : p \o q \in OpensTwo
    BY DEF Opens, OpensTwo
  <2>2. \A q \in Drops : p \o q \in Neutral
    BY DEF Opens, Drops, Neutral, Flat
  <2>3. QED BY <2>1, <2>2
<1>3. \A p \in OpensTwo : \A q \in Drops : p \o q \in Opens
  BY DEF OpensTwo, Opens, Drops
<1>4. /\ \A p \in Encloses : \A q \in Shuts : p \o q \in Flat
      /\ \A p \in Encloses : \A q \in Flat : p \o q \in Encloses
      /\ \A p \in Flat : \A q \in Flat : p \o q \in Flat
      /\ \A p \in Flat \cap Making : \A q \in Flat : p \o q \in Flat \cap Making
      /\ Neutral \subseteq Flat
  <2>1. \A p \in Encloses : \A q \in Shuts : p \o q \in Flat
    BY DEF Encloses, Shuts, Flat
  <2>2. \A p \in Flat : \A q \in Flat : p \o q \in Flat
    BY DEF Flat
  <2>3. \A p \in Making : \A q \in Flat : p \o q \in Making
    BY DEF Flat
  <2>4. \A p \in Encloses : \A q \in Flat : p \o q \in Encloses
    BY DEF Encloses, Flat
  <2>5. QED BY <2>1, <2>2, <2>3, <2>4 DEF Neutral
<1>5. \A p \in Closes \cap Making : \A q \in Encloses \cap Wrapping : p \o q \in Swaps
  <2>1. \A p \in Closes \cap Making : \A q \in Encloses \cap Wrapping :
          p \o q \in Prepared /\ p \o q \in Replaces
    BY DEF Closes, Encloses
  <2>2. QED BY <2>1 DEF Encloses, Closes, Shuts, Swaps
<1>6. \A p \in Swaps : \A q \in Closes : p \o q \in Drops
  <2>1. \A p \in Swaps : \A q \in Closes : p \o q \in Prepared \cap Lets
    BY DEF Swaps, Closes, Shuts
  <2>2. "plain" \in {"plain", "around"} /\ "around" \in {"plain", "around"}
    OBVIOUS
  <2>3. QED BY <2>1, <2>2 DEF Closes, Shuts, Swaps, Drops
<1>7. Closes \subseteq Drops
  BY DEF Closes, Shuts, Drops
<1>8. QED BY <1>1, <1>2, <1>3, <1>4, <1>5, <1>6, <1>7

\* A program that begins with an error does anything.
LEMMA ErrorsLead ==
  /\ Error \in Neutral
  /\ \A p \in Prepared : Error \o p \in Neutral \cap Closes
<1> DEFINE error == [op |-> "Error", what |-> "none", arg |-> 0]
<1>1. Error = <<error>> /\ error.op = "Error" /\ error \in Instructions
  BY DEF Error, Instruction, Instructions
<1> HIDE DEF error
<1>2. Error \in Program /\ Error # <<>> /\ Error[1].op = "Error"
  BY <1>1 DEF Program
<1>3. ASSUME NEW p \in Program
      PROVE  Error \o p \in Program /\ Error \o p # <<>> /\ (Error \o p)[1].op = "Error"
  BY <1>1 DEF Program
<1>4. ASSUME NEW p \in Program, p # <<>>, p[1].op = "Error" PROVE p \in Calm \cap Leaves
  BY <1>4, PassesNowhere, FramesTyped DEF Calm, Leaves
<1>5. ASSUME NEW p \in Prepared, p # <<>>, p[1].op = "Error" PROVE p \in Neutral \cap Closes
  <2>1. p \in Program
    BY DEF Prepared
  <2>2. p \in Flat
    BY <1>5, <2>1, LeadsNowhere, SomeAreMarkers DEF Flat, SomeMarkers
  <2>3. p \in Shuts
    BY <1>5, <2>1, LeadsNowhere, MarkersGrow, SomeAreMarkers DEF Shuts, SomeMarkers
  <2>4. QED BY <1>4, <1>5, <2>1, <2>2, <2>3 DEF Neutral, Closes
<1>6. QED BY <1>2, <1>3, <1>5, InstructionsPrepared, PreparedComposes DEF Prepared

\* The instructions, and the nodes that are open.
LEMMA InstructionsTurn ==
  /\ <<>> \in Calm
  /\ Mark \in Enters /\ Precede \in Wrapping /\ Undo \in Lets /\ Eat \in Calm
  /\ \A k \in NodeKinds \ (Operations \union {"None"}) : Complete(k) \in Leaves
  /\ \A k \in TokenKinds : Check(k) \in Calm /\ Test(k) \in Calm
  /\ \A r \in Rules \ (Closing \union Undoing \union {"BinaryOperators"}), n \in Nat :
       DoWith(r, n) \in Calm
  /\ \A r \in Closing, n \in Nat : (r = "Suffixes" => n = 1) => DoWith(r, n) \in Leaves
  /\ \A r \in Undoing, n \in Nat : (r = "Suffixes" => n = 0) => DoWith(r, n) \in Lets
<1> DEFINE One(o, w, n) == [op |-> o, what |-> w, arg |-> n]
<1>1. /\ \A o \in {"Mark", "Undo", "Precede", "Eat"} : One(o, "none", 0) \in Instructions
      /\ \A k \in NodeKinds : One("Complete", k, 0) \in Instructions
      /\ \A k \in TokenKinds : /\ One("Check", k, 0) \in Instructions
                               /\ One("Test", k, 0) \in Instructions
      /\ \A r \in Rules, n \in Nat : One("Do", r, n) \in Instructions
  BY DEF Instructions, Rules
<1>2. \A i \in Instructions : <<i>> \in Program
  BY DEF Program
<1>3. Closing \subseteq Rules /\ Undoing \subseteq Rules
  BY DEF Closing, Undoing, Rules, ExpressionRules, StatementRules
<1>4. ASSUME NEW in \in Instructions
      PROVE  /\ Staying(in, Free, Free) => <<in>> \in Calm
             /\ (\A f \in Holding : Entering(in, f, f, Free)) => <<in>> \in Enters
             /\ Entering(in, Made, Free, Free) => <<in>> \in Wrapping
             /\ Ending(in, Free, Free, Free) => <<in>> \in Lets
             /\ (\A f, g : Takes(f, g) => Ending(in, f, Free, g)) => <<in>> \in Leaves
  <2> USE <1>2, FramesTyped, PassesOne DEF Turn
  <2>1. Staying(in, Free, Free) => <<in>> \in Calm
    BY DEF Calm
  <2>2. (\A f \in Holding : Entering(in, f, f, Free)) => <<in>> \in Enters
    BY DEF Enters
  <2>3. Entering(in, Made, Free, Free) => <<in>> \in Wrapping
    BY DEF Wrapping
  <2>4. Ending(in, Free, Free, Free) => <<in>> \in Lets
    BY DEF Lets
  <2>5. (\A f, g : Takes(f, g) => Ending(in, f, Free, g)) => <<in>> \in Leaves
    BY DEF Leaves
  <2>6. QED BY <2>1, <2>2, <2>3, <2>4, <2>5
<1>5. <<>> \in Calm
  BY PassesNone, ProgramsCompose, FramesTyped DEF Calm
<1>6. Mark \in Enters
  BY <1>1, <1>4 DEF Mark, Instruction, Entering
<1>7. Precede \in Wrapping
  BY <1>1, <1>4 DEF Precede, Instruction, Entering
<1>8. Undo \in Lets
  BY <1>1, <1>4 DEF Undo, Instruction, Ending
<1>9. Eat \in Calm
  BY <1>1, <1>4 DEF Eat, Instruction, Staying
<1>10. ASSUME NEW k \in NodeKinds \ (Operations \union {"None"}) PROVE Complete(k) \in Leaves
  BY <1>1, <1>4 DEF Complete, Instruction, Ending
<1>11. ASSUME NEW k \in TokenKinds PROVE Check(k) \in Calm /\ Test(k) \in Calm
  BY <1>1, <1>4 DEF Check, Test, Instruction, Staying
<1>12. ASSUME NEW r \in Rules \ (Closing \union Undoing \union {"BinaryOperators"}), NEW n \in Nat
       PROVE  DoWith(r, n) \in Calm
  BY <1>1, <1>4 DEF DoWith, Instruction, Staying
<1>13. ASSUME NEW r \in Closing, NEW n \in Nat, r = "Suffixes" => n = 1
       PROVE  DoWith(r, n) \in Leaves
  BY <1>1, <1>3, <1>4, <1>13 DEF DoWith, Instruction, Ending
<1>14. ASSUME NEW r \in Undoing, NEW n \in Nat, r = "Suffixes" => n = 0
       PROVE  DoWith(r, n) \in Lets
  BY <1>1, <1>3, <1>4, <1>14 DEF DoWith, Instruction, Ending
<1>15. QED
  BY <1>5, <1>6, <1>7, <1>8, <1>9, <1>10, <1>11, <1>12, <1>13, <1>14, Zenon

\* The instructions.
LEMMA InstructionsLead ==
  /\ <<>> \in Neutral
  /\ Mark \in Opens /\ Precede \in Encloses \cap Wrapping /\ Undo \in Drops /\ Eat \in Neutral
  /\ \A k \in NodeKinds \ {"None"} : Complete(k) \in Shuts
  /\ \A k \in NodeKinds \ (Operations \union {"None"}) : Complete(k) \in Closes
  /\ \A k \in TokenKinds : Check(k) \in Neutral /\ Test(k) \in Neutral
  /\ \A n \in Nat : DoWith("BinaryOperators", n) \in Flat
  /\ \A r \in Rules \ (Closing \union Undoing \union {"BinaryOperators"}), n \in Nat :
       DoWith(r, n) \in Neutral
  /\ \A r \in Closing, n \in Nat : (r = "Suffixes" => n = 1) => DoWith(r, n) \in Closes
  /\ \A r \in Undoing, n \in Nat : (r = "Suffixes" => n = 0) => DoWith(r, n) \in Drops
<1> DEFINE One(o, w, n) == [op |-> o, what |-> w, arg |-> n]
<1>1. /\ \A o \in {"Mark", "Undo", "Precede", "Eat"} : One(o, "none", 0) \in Instructions
      /\ \A k \in NodeKinds : One("Complete", k, 0) \in Instructions
      /\ \A k \in TokenKinds : /\ One("Check", k, 0) \in Instructions
                               /\ One("Test", k, 0) \in Instructions
      /\ \A r \in Rules, n \in Nat : One("Do", r, n) \in Instructions
  BY DEF Instructions, Rules
<1>2. \A i \in Instructions : <<i>> \in Program
  BY DEF Program
<1>3. Closing \subseteq Rules /\ Undoing \subseteq Rules
  BY DEF Closing, Undoing, Rules, ExpressionRules, StatementRules
<1> USE InstructionsPrepared, MarkersGrow, SomeAreMarkers, <1>1, <1>2, <1>3, LeadsOne
<1>4. <<>> \in Neutral
  BY LeadsNone, ProgramsCompose, InstructionsTurn DEF Neutral, Flat
<1>5. Mark \in Opens
  <2>1. \A ms \in SomeMarkers : Leads(Mark, ms, Append(ms, "plain"))
    BY DEF Mark, Instruction, Step, SomeMarkers
  <2>2. QED BY <2>1, InstructionsTurn DEF Opens
<1>6. Precede \in Encloses \cap Wrapping
  <2>1. Precede \in Encloses
    BY DEF Precede, Instruction, Encloses, Step, SomeMarkers
  <2>2. QED BY <2>1, InstructionsTurn
<1>7. Undo \in Drops
  <2>1. \A ms \in SomeMarkers : Leads(Undo, Append(ms, "plain"), ms)
    BY DEF Undo, Instruction, Step, SomeMarkers
  <2>2. QED BY <2>1, InstructionsTurn DEF Drops
<1>8. Eat \in Neutral
  <2>1. Eat \in Flat
    BY DEF Eat, Instruction, Flat, Step, SomeMarkers
  <2>2. QED BY <2>1, InstructionsTurn DEF Neutral
<1>9. ASSUME NEW k \in NodeKinds \ {"None"}
      PROVE  Complete(k) \in Shuts /\ (k \notin Operations => Complete(k) \in Closes)
  <2>1. Complete(k) \in Shuts
    BY PreparedComposes DEF Complete, Instruction, Shuts, Step, SomeMarkers
  <2>2. k \notin Operations => Complete(k) \in Leaves
    BY InstructionsTurn
  <2>3. QED BY <2>1, <2>2 DEF Closes
<1>10. ASSUME NEW k \in TokenKinds PROVE Check(k) \in Neutral /\ Test(k) \in Neutral
  <2>1. Check(k) \in Flat /\ Test(k) \in Flat
    BY DEF Check, Test, Instruction, Flat, Step, SomeMarkers
  <2>2. QED BY <2>1, InstructionsTurn DEF Neutral
<1>11. ASSUME NEW r \in Rules \ (Closing \union Undoing), NEW n \in Nat
       PROVE  DoWith(r, n) \in Flat /\ (r # "BinaryOperators" => DoWith(r, n) \in Neutral)
  <2>1. DoWith(r, n) \in Flat
    BY DEF DoWith, Instruction, Flat, Step, SomeMarkers
  <2>2. r # "BinaryOperators" => DoWith(r, n) \in Calm
    BY InstructionsTurn
  <2>3. QED BY <2>1, <2>2 DEF Neutral
<1>12. ASSUME NEW r \in Closing, NEW n \in Nat, r = "Suffixes" => n = 1
       PROVE  DoWith(r, n) \in Closes
  <2>1. DoWith(r, n) \in Prepared
    BY DEF Closing
  <2>2. \A ms \in SomeMarkers, f \in {"plain", "around"} : Leads(DoWith(r, n), Append(ms, f), ms)
    BY <1>12 DEF DoWith, Instruction, Step, SomeMarkers
  <2>3. DoWith(r, n) \in Leaves
    BY <1>12, InstructionsTurn
  <2>4. QED BY <2>1, <2>2, <2>3 DEF Closes, Shuts
<1>13. ASSUME NEW r \in Undoing, NEW n \in Nat, r = "Suffixes" => n = 0
       PROVE  DoWith(r, n) \in Drops
  <2>1. DoWith(r, n) \in Prepared
    BY DEF Undoing
  <2>2. \A ms \in SomeMarkers : Leads(DoWith(r, n), Append(ms, "plain"), ms)
    BY <1>13 DEF DoWith, Instruction, Step, SomeMarkers
  <2>3. DoWith(r, n) \in Lets
    BY <1>13, InstructionsTurn
  <2>4. QED BY <2>1, <2>2, <2>3 DEF Drops
<1>14. "BinaryOperators" \in Rules \ (Closing \union Undoing)
  BY DEF Rules, ExpressionRules, Closing, Undoing
<1>15. QED
  BY <1>14, <1>4, <1>5, <1>6, <1>7, <1>8, <1>9, <1>10, <1>11, <1>12, <1>13, Zenon

-----------------------------------------------------------------------------
(* What the functions of the grammar do to the open Markers. *)

\* Checks and tests.
LEMMA ChecksLead ==
  /\ Check("(") \in Neutral /\ Check(")") \in Neutral /\ Check(",") \in Neutral
  /\ Check("::") \in Neutral /\ Check("=") \in Neutral /\ Check(">") \in Neutral
  /\ Check("[") \in Neutral /\ Check("]") \in Neutral /\ Check("break") \in Neutral
  /\ Check("do") \in Neutral /\ Check("end") \in Neutral /\ Check("for") \in Neutral
  /\ Check("function") \in Neutral /\ Check("goto") \in Neutral
  /\ Check("in") \in Neutral /\ Check("local") \in Neutral /\ Check("name") \in Neutral
  /\ Check("repeat") \in Neutral /\ Check("return") \in Neutral
  /\ Check("then") \in Neutral /\ Check("until") \in Neutral
  /\ Check("while") \in Neutral /\ Check("{") \in Neutral /\ Check("}") \in Neutral
  /\ Test(";") \in Neutral
<1>1. {"(", ")", ",", "::", "=", ">", "[", "]", "break", "do", "end", "for",
       "function", "goto", "in", "local", "name", "repeat", "return", "then",
       "until", "while", "{", "}", ";"}
        \subseteq TokenKinds
  BY DEF TokenKinds
<1>2. QED BY <1>1, InstructionsLead, ZenonT(30)

\* Completed nodes.
LEMMA CompletesLead ==
  /\ Complete("AssignStatement") \in Closes /\ Complete("Attribute") \in Closes
  /\ Complete("BinaryExpression") \in Shuts /\ Complete("Block") \in Closes
  /\ Complete("BreakStatement") \in Closes /\ Complete("CallExpression") \in Closes
  /\ Complete("ClosureExpression") \in Closes /\ Complete("DoStatement") \in Closes
  /\ Complete("EmptyStatement") \in Closes /\ Complete("ExpressionList") \in Closes
  /\ Complete("ExpressionStatement") \in Closes /\ Complete("ForBody") \in Closes
  /\ Complete("ForList") \in Closes /\ Complete("ForNumber") \in Closes
  /\ Complete("ForStatement") \in Closes /\ Complete("FunctionBody") \in Closes
  /\ Complete("FunctionNameExpression") \in Closes
  /\ Complete("FunctionStatement") \in Closes /\ Complete("GlobalStatement") \in Closes
  /\ Complete("GotoStatement") \in Closes /\ Complete("IfStatement") \in Closes
  /\ Complete("IndexExpression") \in Closes /\ Complete("LabelStatement") \in Closes
  /\ Complete("LiteralExpression") \in Closes
  /\ Complete("LocalFunctionStatement") \in Closes
  /\ Complete("LocalStatement") \in Closes /\ Complete("NameDefList") \in Closes
  /\ Complete("NameExpression") \in Closes
  /\ Complete("ParExpression") \in Closes /\ Complete("ParamList") \in Closes
  /\ Complete("RepeatStatement") \in Closes /\ Complete("ReturnStatement") \in Closes
  /\ Complete("StringLiteralExpression") \in Closes
  /\ Complete("SuffixedExpression") \in Closes
  /\ Complete("TableExpression") \in Closes /\ Complete("TableField") \in Closes
  /\ Complete("TableFieldList") \in Closes /\ Complete("TableFieldSep") \in Closes
  /\ Complete("UnaryExpression") \in Shuts /\ Complete("VarList") \in Closes
  /\ Complete("WhileStatement") \in Closes
<1>1. {"AssignStatement", "Attribute", "Block",
   "BreakStatement", "CallExpression", "ClosureExpression", "DoStatement",
   "EmptyStatement", "ExpressionList", "ExpressionStatement", "ForBody", "ForList",
   "ForNumber", "ForStatement", "FunctionBody", "FunctionNameExpression",
   "FunctionStatement", "GlobalStatement", "GotoStatement", "IfStatement",
   "IndexExpression", "LabelStatement", "LiteralExpression", "LocalFunctionStatement",
   "LocalStatement", "NameDefList", "NameExpression", "ParExpression", "ParamList",
   "RepeatStatement", "ReturnStatement", "StringLiteralExpression",
   "SuffixedExpression", "TableExpression", "TableField", "TableFieldList",
   "TableFieldSep", "VarList", "WhileStatement"}
        \subseteq NodeKinds \ (Operations \union {"None"})
      /\ "BinaryExpression" \in NodeKinds \ {"None"} /\ "UnaryExpression" \in NodeKinds \ {"None"}
  BY DEF NodeKinds, Operations
<1>2. QED BY <1>1, InstructionsLead, ZenonT(40)

\* Calls.
LEMMA CallsLead ==
  /\ Do("Alternatives") \in Neutral /\ Do("Arguments") \in Neutral
  /\ Do("Assignment") \in Drops /\ Do("Attribute") \in Drops
  /\ Do("AttributeName") \in Closes /\ Do("AttributedGlobals") \in Neutral
  /\ Do("CallArgs") \in Neutral /\ Do("FieldSep") \in Neutral
  /\ Do("ForHead") \in Neutral /\ Do("ForStep") \in Neutral
  /\ Do("FunctionName") \in Neutral /\ Do("Initializer") \in Neutral
  /\ Do("MoreGlobals") \in Neutral /\ Do("MoreLocals") \in Neutral
  /\ Do("MoreNames") \in Neutral /\ Do("MoreParams") \in Neutral
  /\ Do("MoreTargets") \in Neutral /\ Do("ParamList") \in Neutral
  /\ Do("PrimaryExpression") \in Closes /\ Do("Returned") \in Neutral
  /\ Do("StatementList") \in Neutral /\ Do("TestThenBlock") \in Neutral
  /\ Do("VarargName") \in Neutral
  /\ \A n \in Nat :
       /\ DoWith("BinaryOperators", n) \in Flat /\ DoWith("FieldList", n) \in Neutral
       /\ DoWith("MoreExpressions", n) \in Neutral
       /\ DoWith("NextExpression", n) \in Neutral
       /\ DoWith("Subexpression", n) \in Neutral
  /\ DoWith("Suffixes", 0) \in Drops /\ DoWith("Suffixes", 1) \in Closes
<1> DEFINE levels ==
      {"Alternatives", "Arguments", "AttributedGlobals", "CallArgs", "FieldSep", "ForHead",
       "ForStep", "FunctionName", "Initializer", "MoreGlobals", "MoreLocals", "MoreNames",
       "MoreParams", "MoreTargets", "ParamList", "Returned", "StatementList",
       "TestThenBlock", "VarargName", "FieldList", "MoreExpressions",
       "NextExpression", "Subexpression"}
<1>1. levels \subseteq Rules \ (Closing \union Undoing \union {"BinaryOperators"})
  BY DEF Rules, ExpressionRules, StatementRules, Closing, Undoing
<1>2. \A r \in levels, n \in Nat : DoWith(r, n) \in Neutral
  BY <1>1, InstructionsLead, Zenon
<1>3. \A r \in levels : Do(r) \in Neutral
  BY <1>2, Zenon DEF Do, DoWith
<1>4. /\ \A r \in Closing \ {"Suffixes"} : Do(r) \in Closes
      /\ Do("Attribute") \in Drops /\ Do("Assignment") \in Drops
      /\ DoWith("Suffixes", 0) \in Drops /\ DoWith("Suffixes", 1) \in Closes
  <2>1. \A r : Do(r) = DoWith(r, 0)
    BY DEF Do, DoWith
  <2>2. /\ "Attribute" \in Undoing /\ "Assignment" \in Undoing /\ "Suffixes" \in Undoing
        /\ "Suffixes" \in Closing /\ "Attribute" # "Suffixes" /\ "Assignment" # "Suffixes"
    BY DEF Undoing, Closing
  <2>3. QED BY <2>1, <2>2, InstructionsLead
<1>5. {"AttributeName", "PrimaryExpression"} \subseteq Closing \ {"Suffixes"}
  BY DEF Closing
<1>6. \A r \in levels : r \in levels
  OBVIOUS
<1>7. QED BY <1>2, <1>3, <1>4, <1>5, InstructionsLead, ZenonT(60)

\* The functions that only call others.
LEMMA ExpressionsLead ==
  /\ \A n \in Nat : Subexpression(n) \in Neutral
  /\ Expression \in Neutral
  /\ \A n \in Nat : ExpressionListUntil(n) \in Neutral
  /\ ExpressionList \in Neutral /\ CheckName \in Neutral /\ LocalAttribute \in Neutral
  /\ Block \in Neutral /\ SuffixedExpression \in Neutral /\ StringLiteral \in Neutral
  /\ TableConstructor \in Neutral /\ FunctionBody \in Neutral /\ FieldSel \in Neutral
  /\ YIndex \in Neutral /\ FunctionCallArgs \in Neutral
<1> USE InstructionsLead, LevelComposes, MarkersCompose, ChecksLead, CompletesLead, CallsLead
<1>1. \A n \in Nat : Subexpression(n) \in Neutral
  BY DEF Subexpression
<1>2. Expression \in Neutral
  BY <1>1 DEF Expression
<1>3. \A n \in Nat : ExpressionListUntil(n) \in Neutral
  BY <1>2 DEF ExpressionListUntil
<1>4. ExpressionList \in Neutral
  BY <1>3 DEF ExpressionList
<1>5. CheckName \in Neutral
  BY DEF CheckName
<1>6. LocalAttribute \in Neutral
  BY DEF LocalAttribute
<1>7. Block \in Neutral
  BY DEF Block
<1>8. SuffixedExpression \in Neutral
  BY DEF SuffixedExpression
<1>9. StringLiteral \in Neutral
  BY DEF StringLiteral
<1>10. TableConstructor \in Neutral
  BY DEF TableConstructor
<1>11. FunctionBody \in Neutral
  BY <1>7 DEF FunctionBody
<1>12. FieldSel \in Neutral
  BY DEF FieldSel
<1>13. YIndex \in Neutral
  BY <1>2 DEF YIndex
<1>14. FunctionCallArgs \in Neutral
  BY DEF FunctionCallArgs
<1>15. QED
  BY <1>1, <1>2, <1>3, <1>4, <1>5, <1>6, <1>7, <1>8, <1>9, <1>10, <1>11, <1>12, <1>13, <1>14,
     Zenon

\* The statements.
LEMMA StatementsLead ==
  /\ IfStatement \in Neutral /\ WhileStatement \in Neutral /\ DoStatement \in Neutral
  /\ ForBody \in Neutral /\ ForStatement \in Neutral /\ ForNumber \in Neutral
  /\ ForList \in Neutral /\ RepeatStatement \in Neutral /\ FunctionStatement \in Neutral
  /\ LocalFunctionStatement \in Neutral /\ LocalStatement \in Neutral
  /\ LabelStatement \in Neutral /\ ReturnStatement \in Neutral
  /\ BreakStatement \in Neutral /\ GotoStatement \in Neutral
  /\ AssignmentOrCall \in Neutral /\ GlobalNameList \in Neutral
<1> USE InstructionsLead, LevelComposes, MarkersCompose, ChecksLead, CompletesLead, CallsLead,
        ExpressionsLead
<1>1. IfStatement \in Neutral
  BY DEF IfStatement
<1>2. WhileStatement \in Neutral
  BY DEF WhileStatement
<1>3. DoStatement \in Neutral
  BY DEF DoStatement
<1>4. ForBody \in Neutral
  BY DEF ForBody
<1>5. ForStatement \in Neutral
  BY DEF ForStatement
<1>6. ForNumber \in Neutral
  BY <1>4 DEF ForNumber
<1>7. ForList \in Neutral
  BY <1>4 DEF ForList
<1>8. RepeatStatement \in Neutral
  BY DEF RepeatStatement
<1>9. FunctionStatement \in Neutral
  BY DEF FunctionStatement
<1>10. LocalFunctionStatement \in Neutral
  BY DEF LocalFunctionStatement
<1>11. LocalStatement \in Neutral
  BY DEF LocalStatement
<1>12. LabelStatement \in Neutral
  BY DEF LabelStatement
<1>13. ReturnStatement \in Neutral
  BY DEF ReturnStatement
<1>14. BreakStatement \in Neutral
  BY DEF BreakStatement
<1>15. GotoStatement \in Neutral
  BY DEF GotoStatement
<1>16. AssignmentOrCall \in Neutral
  BY DEF AssignmentOrCall
<1>17. GlobalNameList \in Neutral
  BY DEF GlobalNameList
<1>18. QED
  BY <1>1, <1>2, <1>3, <1>4, <1>5, <1>6, <1>7, <1>8, <1>9, <1>10, <1>11, <1>12, <1>13, <1>14,
     <1>15, <1>16, <1>17, Zenon

\* The functions that look at a token, but for a function that is declared global.
LEMMA ByTokenLead ==
  ASSUME NEW token, NEW ahead
  PROVE  /\ SimpleExpression(token) \in Neutral
         /\ Field(token, ahead) \in Neutral
         /\ ahead # "function" => TryGlobalStatement(ahead) \in Neutral
         /\ ~(token = "global" /\ ahead = "function") => Statement(token, ahead) \in Neutral
<1> USE InstructionsLead, LevelComposes, MarkersCompose, ChecksLead, CompletesLead, CallsLead,
        ExpressionsLead
<1>1. SimpleExpression(token) \in Neutral
  <2>1. /\ Mark \o Eat \o Complete("LiteralExpression") \in Neutral
        /\ Mark \o Eat \o FunctionBody \o Complete("ClosureExpression") \in Neutral
    OBVIOUS
  <2>2. SimpleExpression(token) \in
          {Mark \o Eat \o Complete("LiteralExpression"), StringLiteral, TableConstructor,
           Mark \o Eat \o FunctionBody \o Complete("ClosureExpression"), SuffixedExpression}
    BY Zenon DEF SimpleExpression
  <2>3. QED BY <2>1, <2>2
<1>2. Field(token, ahead) \in Neutral
  <2>1. Check("=") \o Expression \in Neutral
    OBVIOUS
  <2>2. /\ Eat \o (Check("=") \o Expression) \in Neutral
        /\ YIndex \o (Check("=") \o Expression) \in Neutral
    BY <2>1
  <2>3. \A p \in Neutral : Mark \o p \o Do("FieldSep") \o Complete("TableField") \in Neutral
    OBVIOUS
  <2>4. QED BY <2>2, <2>3 DEF Field
<1>3. ASSUME ahead # "function" PROVE TryGlobalStatement(ahead) \in Neutral
  <2>1. Eat \o Eat \o Test(";") \o Complete("GlobalStatement") \in Closes
    OBVIOUS
  <2>2. Eat \o LocalAttribute \o Do("AttributedGlobals") \o Test(";")
          \o Complete("GlobalStatement") \in Closes
    OBVIOUS
  <2>3. Eat \o GlobalNameList \o Test(";") \o Complete("GlobalStatement") \in Closes
    BY StatementsLead
  <2>4. Undo \o AssignmentOrCall \in Drops
    BY StatementsLead
  <2>5. \A p \in Drops : Mark \o p \in Neutral
    OBVIOUS
  <2>6. \A p \in Closes : p \in Drops
    OBVIOUS
  <2>7. QED BY <1>3, <2>1, <2>2, <2>3, <2>4, <2>5, <2>6, Zenon DEF TryGlobalStatement
<1>4. ASSUME ~(token = "global" /\ ahead = "function") PROVE Statement(token, ahead) \in Neutral
  <2>1. Mark \o Eat \o Complete("EmptyStatement") \in Neutral
    OBVIOUS
  <2>2. ExpressionStatement(token, ahead) \in Neutral
    BY <1>3, <1>4, StatementsLead DEF ExpressionStatement
  <2>3. QED BY <2>1, <2>2, StatementsLead, Zenon DEF Statement
<1>5. QED BY <1>1, <1>2, <1>3, <1>4, Zenon

\* What ends by completing a node completes one.
LEMMA CompletesMake ==
  /\ \A k \in Operations : Complete(k) \in Shuts \cap Making
  /\ \A k \in {"ClosureExpression", "LiteralExpression", "NameExpression", "ParExpression",
               "StringLiteralExpression", "TableExpression", "VarList"} :
       /\ Complete(k) \in Closes \cap Making
       /\ \A p \in Neutral : p \o Complete(k) \in Closes \cap Making
       /\ \A p \in Opens : p \o Complete(k) \in Neutral \cap Making \cap Supplies
<1> DEFINE kinds == {"ClosureExpression", "LiteralExpression", "NameExpression", "ParExpression",
                     "StringLiteralExpression", "TableExpression", "VarList"}
<1>1. /\ kinds \subseteq NodeKinds \ (Operations \union {"None"})
      /\ Operations \subseteq NodeKinds \ {"None"}
  BY DEF NodeKinds, Operations
<1> HIDE DEF kinds
<1>2. \A k \in Operations : Complete(k) \in Shuts \cap Making
  BY <1>1, InstructionsLead, InstructionsPrepared
<1>3. /\ Neutral \subseteq Prepared /\ Opens \subseteq Prepared \cap Enters
      /\ Closes \subseteq Drops \cap Leaves
  BY MarkersCompose DEF Neutral, Opens, Closes
<1>4. ASSUME NEW k \in kinds
      PROVE  /\ Complete(k) \in Closes \cap Making
             /\ \A p \in Neutral : p \o Complete(k) \in Closes \cap Making
             /\ \A p \in Opens : p \o Complete(k) \in Neutral \cap Making \cap Supplies
  <2>1. Complete(k) \in Closes \cap Making
    BY <1>1, InstructionsLead, InstructionsPrepared
  <2>2. QED BY <1>3, <2>1, PreparedComposes, MarkersCompose, FramesCompose
<1>5. QED BY <1>2, <1>4 DEF kinds

\* A suffixed expression completes a node that is no operation, with suffixes or without.
LEMMA SuffixedSupplies == SuffixedExpression \in Supplies
<1> DEFINE mark   == [op |-> "Mark", what |-> "none", arg |-> 0]
           suffix == [op |-> "Do", what |-> "Suffixes", arg |-> 0]
<1>1. Mark = <<mark>> /\ DoWith("Suffixes", 0) = <<suffix>>
  BY DEF Mark, DoWith, Instruction
<1>2. mark \in Instructions /\ suffix \in Instructions
  BY DEF Instructions, ExpressionRules
<1>3. \A b \in Frames, f \in Holding : Turn(mark, Append(b, f), Append(Append(b, f), Blank))
  BY FramesTyped DEF Turn, Entering
<1>4. \A b \in Frames, f, g \in Frame :
        Takes(f, g) => Turn(suffix, Append(Append(b, f), Single), Append(b, g))
  BY FramesTyped DEF Turn, Ending
<1> HIDE DEF mark, suffix
<1>5. Mark \in Program /\ DoWith("Suffixes", 0) \in Program
  <2>1. \A i \in Instructions : <<i>> \in Program
    BY DEF Program
  <2>2. QED BY <1>1, <1>2, <2>1
<1>6. Mark \in Enters /\ Do("PrimaryExpression") \in Leaves
  BY InstructionsTurn, CallsLead DEF Closes
<1>7. Mark \o Do("PrimaryExpression") \in Supplies
  BY <1>6, FramesCompose
<1>8. /\ Mark \o Do("PrimaryExpression") \in Program
      /\ \A b \in Frames : Passes(Mark \o Do("PrimaryExpression"), Append(b, Blank), Append(b, Single))
  <2>1. Takes(Blank, Single)
    BY DEF Takes
  <2>2. QED BY <1>7, <2>1, FramesTyped DEF Supplies
<1>9. ASSUME NEW b \in Frames, NEW f \in Frame, NEW g \in Frame, Takes(f, g)
      PROVE  Passes(Mark \o (Mark \o Do("PrimaryExpression")) \o DoWith("Suffixes", 0),
                    Append(b, f), Append(b, g))
  <2>1. /\ Append(b, f) \in Frames /\ Append(b, g) \in Frames
        /\ Append(Append(b, f), Blank) \in Frames /\ Append(Append(b, f), Single) \in Frames
        /\ f \in Holding
    BY <1>9, FramesTyped
  <2>2. Passes(Mark, Append(b, f), Append(Append(b, f), Blank))
    BY <1>1, <1>2, <1>3, <2>1, PassesOne
  <2>3. Passes(DoWith("Suffixes", 0), Append(Append(b, f), Single), Append(b, g))
    BY <1>1, <1>2, <1>4, <1>9, <2>1, PassesOne
  <2>4. Passes(Mark \o (Mark \o Do("PrimaryExpression")), Append(b, f),
               Append(Append(b, f), Single))
    BY <1>5, <1>8, <2>1, <2>2, PassesOn
  <2>5. QED BY <1>5, <1>8, <2>1, <2>3, <2>4, PassesOn, ProgramsCompose
<1>10. SuffixedExpression = Mark \o (Mark \o Do("PrimaryExpression")) \o DoWith("Suffixes", 0)
  <2>1. Do("PrimaryExpression") \in Program
    BY <1>6 DEF Leaves
  <2>2. (Mark \o Mark) \o Do("PrimaryExpression") = Mark \o (Mark \o Do("PrimaryExpression"))
    BY <1>5, <2>1 DEF Program
  <2>3. QED BY <2>2 DEF SuffixedExpression
<1>11. SuffixedExpression \in Program
  BY ExpressionsLead DEF Neutral, Flat
<1>12. QED BY <1>9, <1>10, <1>11 DEF Supplies

LEMMA SimpleMakes ==
  ASSUME NEW token
  PROVE  SimpleExpression(token) \in Making \cap Supplies
<1> USE InstructionsLead, LevelComposes, MarkersCompose, ChecksLead, CompletesLead, CallsLead,
        ExpressionsLead
<1>1. /\ Mark \o Eat \o Complete("LiteralExpression") \in Making \cap Supplies
      /\ Mark \o Eat \o FunctionBody \o Complete("ClosureExpression") \in Making \cap Supplies
      /\ StringLiteral \in Making \cap Supplies
  BY CompletesMake DEF StringLiteral
<1>2. TableConstructor \in Making \cap Supplies
  <2>1. Mark \o Check("{") \o Mark \o DoWith("FieldList", 0) \o Complete("TableFieldList")
          \o Check("}") \in Opens
    OBVIOUS
  <2>2. QED BY <2>1, CompletesMake DEF TableConstructor
<1>3. SuffixedExpression \in Making \cap Supplies
  <2>1. Mark \o Mark \in Prepared /\ DoWith("Suffixes", 0) \in Program
    BY PreparedComposes DEF Opens, Drops
  <2>2. QED
    BY <2>1, InstructionsPrepared, PreparedComposes, SuffixedSupplies DEF SuffixedExpression
<1>4. SimpleExpression(token) \in
        {Mark \o Eat \o Complete("LiteralExpression"), StringLiteral, TableConstructor,
         Mark \o Eat \o FunctionBody \o Complete("ClosureExpression"), SuffixedExpression}
  BY Zenon DEF SimpleExpression
<1>5. QED BY <1>1, <1>2, <1>3, <1>4

\* What a call of a rule does, its body does.
LeadsAs(p, rule, arg) ==
  /\ IF rule = "Suffixes" THEN p \in (IF arg = 1 THEN Closes ELSE Drops)
     ELSE IF rule \in Closing THEN p \in Closes
     ELSE IF rule \in Undoing THEN p \in Drops
     ELSE IF rule \in {"Subexpression", "BinaryOperators"} THEN p \in Flat ELSE p \in Neutral
  /\ rule \in {"Subexpression", "PrimaryExpression"} => p \in Making

\* The rules of the expressions.
LEMMA ExpressionBodyLeads ==
  ASSUME NEW rule \in ExpressionRules, NEW arg \in Nat, NEW token, NEW ahead
  PROVE  LeadsAs(ExpressionBody(rule, arg, token, ahead), rule, arg)
<1> DEFINE body == ExpressionBody(rule, arg, token, ahead)
<1> USE InstructionsLead, LevelComposes, MarkersCompose, ChecksLead, CompletesLead, CallsLead,
        ExpressionsLead
<1>1. CASE rule = "Subexpression"
  <2>1. Mark \o Eat \o Subexpression(UNARY_PRIORITY) \o Complete("UnaryExpression")
          \in Flat \cap Making
    <3>1. Mark \o Eat \o Subexpression(UNARY_PRIORITY) \in Opens
      BY DEF UNARY_PRIORITY
    <3>2. Complete("UnaryExpression") \in Shuts \cap Making
      BY CompletesMake DEF Operations
    <3>3. \A p \in Opens : \A q \in Shuts \cap Making : p \o q \in Flat \cap Making
      <4>1. "plain" \in {"plain", "around"}
        OBVIOUS
      <4>2. ASSUME NEW p \in Opens, NEW q \in Shuts \cap Making, NEW ms \in SomeMarkers
            PROVE  p \o q \in Program /\ Leads(p \o q, ms, ms) /\ p \o q \in Making
        <5>1. p \in Program /\ q \in Program /\ p \in Prepared
          BY DEF Opens, Shuts, Prepared
        <5>2. Leads(p, ms, Append(ms, "plain")) /\ Leads(q, Append(ms, "plain"), ms)
          BY <4>1 DEF Opens, Shuts
        <5>3. ms \in Markers /\ Append(ms, "plain") \in Markers
          BY <4>1, MarkersGrow, SomeAreMarkers
        <5>4. QED BY <5>1, <5>2, <5>3, LeadsOn, ProgramsCompose, PreparedComposes
      <4>3. SomeMarkers # {}
        BY SomeMarkersThereAre
      <4>4. QED BY <4>2, <4>3 DEF Flat
    <3>4. QED BY <3>1, <3>2, <3>3
  <2>2. \A p \in Flat \cap Making : p \o DoWith("BinaryOperators", arg) \in Flat \cap Making
    OBVIOUS
  <2>3. SimpleExpression(token) \in Flat \cap Making
    BY ByTokenLead, SimpleMakes
  <2>4. body \in Flat \cap Making
    BY <1>1, <2>1, <2>2, <2>3 DEF ExpressionBody
  <2>5. QED BY <1>1, <2>4 DEF LeadsAs, Closing, Undoing
<1>2. CASE rule = "BinaryOperators"
  <2>1. ASSUME NEW n \in Nat
        PROVE  Precede \o Eat \o Subexpression(n) \o Complete("BinaryExpression")
                 \o DoWith("BinaryOperators", arg) \in Flat
    <3>1. Eat \in Flat /\ Subexpression(n) \in Flat
      OBVIOUS
    <3>2. QED BY <3>1
  <2>2. body \in Flat
    BY <1>2, <2>1, PrioritiesTyped DEF ExpressionBody
  <2>3. QED BY <1>2, <2>2 DEF LeadsAs, Closing, Undoing
<1>3. CASE rule = "MoreExpressions"
  BY <1>3 DEF ExpressionBody, LeadsAs, Closing, Undoing
<1>4. CASE rule = "NextExpression"
  BY <1>4 DEF ExpressionBody, LeadsAs, Closing, Undoing
<1>5. CASE rule = "PrimaryExpression"
  <2>1. /\ Eat \o Expression \o Check(")") \o Complete("ParExpression") \in Closes \cap Making
        /\ Eat \o Complete("NameExpression") \in Closes \cap Making
    <3>1. Eat \o Expression \o Check(")") \in Neutral
      OBVIOUS
    <3>2. QED BY <3>1, CompletesMake
  <2>2. Error \o Complete("None") \in Closes \cap Making
    <3>1. Complete("None") \in Making
      BY InstructionsPrepared DEF NodeKinds
    <3>2. QED BY <3>1, ErrorsLead, InstructionsPrepared, PreparedComposes
  <2>3. QED BY <1>5, <2>1, <2>2 DEF ExpressionBody, LeadsAs, Closing
<1>6. CASE rule = "Suffixes"
  <2>1. \A p \in Neutral : p \o DoWith("Suffixes", 1) \in Closes
    OBVIOUS
  <2>2. FieldSel \o FunctionCallArgs \in Neutral
    OBVIOUS
  <2>3. body \in Closes \/ (arg # 1 /\ body \in Drops)
    BY <1>6, <2>1, <2>2 DEF ExpressionBody
  <2>4. QED BY <1>6, <2>3 DEF LeadsAs
<1>7. CASE rule = "CallArgs"
  BY <1>7, ErrorsLead DEF ExpressionBody, LeadsAs, Closing, Undoing
<1>8. CASE rule = "Arguments"
  BY <1>8 DEF ExpressionBody, LeadsAs, Closing, Undoing
<1>9. CASE rule = "FieldList"
  BY <1>9, ByTokenLead DEF ExpressionBody, LeadsAs, Closing, Undoing
<1>10. CASE rule = "FieldSep"
  BY <1>10 DEF ExpressionBody, LeadsAs, Closing, Undoing
<1>11. CASE rule = "ParamList"
  BY <1>11, ErrorsLead DEF ExpressionBody, LeadsAs, Closing, Undoing
<1>12. CASE rule = "MoreParams"
  BY <1>12 DEF ExpressionBody, LeadsAs, Closing, Undoing
<1>13. CASE rule = "VarargName"
  BY <1>13 DEF ExpressionBody, LeadsAs, Closing, Undoing
<1>14. QED
  BY <1>1, <1>2, <1>3, <1>4, <1>5, <1>6, <1>7, <1>8, <1>9, <1>10, <1>11, <1>12, <1>13
  DEF ExpressionRules

\* A suffix is read, or the Marker for the suffixed expression is undone.
LEMMA SuffixesLeave ==
  ASSUME NEW rule \in ExpressionRules, NEW arg \in Nat, NEW token, NEW ahead,
         rule = "Suffixes", arg # 1
  PROVE  ExpressionBody(rule, arg, token, ahead) \in Closes \union {Undo}
<1> DEFINE body == ExpressionBody(rule, arg, token, ahead)
<1>1. /\ \A q \in Neutral : q \o DoWith("Suffixes", 1) \in Closes
      /\ FieldSel \o FunctionCallArgs \in Neutral
      /\ FieldSel \in Neutral /\ YIndex \in Neutral /\ FunctionCallArgs \in Neutral
  BY InstructionsLead, LevelComposes, MarkersCompose, CallsLead, ExpressionsLead
<1>2. body \in Closes \union {Undo}
  <2>1. \A q \in {FieldSel, YIndex, FieldSel \o FunctionCallArgs, FunctionCallArgs} :
          q \o DoWith("Suffixes", 1) \in Closes
    BY <1>1
  <2>2. CASE token = "."
    BY <2>1, <2>2 DEF ExpressionBody
  <2>3. CASE token = "["
    BY <2>1, <2>3 DEF ExpressionBody
  <2>4. CASE token = ":"
    BY <2>1, <2>4 DEF ExpressionBody
  <2>5. CASE token \notin {".", "[", ":"}
    BY <2>1, <2>5 DEF ExpressionBody
  <2>6. QED BY <2>2, <2>3, <2>4, <2>5
<1>3. QED BY <1>2

\* The rules of the statements.
LEMMA StatementBodyLeads ==
  ASSUME NEW rule \in StatementRules, NEW arg \in Nat, NEW token, NEW ahead,
         ~(rule = "StatementList" /\ token = "global" /\ ahead = "function")
  PROVE  LeadsAs(StatementBody(rule, token, ahead), rule, arg)
<1> USE InstructionsLead, LevelComposes, MarkersCompose, ChecksLead, CompletesLead, CallsLead,
        ExpressionsLead, StatementsLead
<1>1. CASE rule = "StatementList"
  BY <1>1, ByTokenLead DEF StatementBody, LeadsAs, Closing, Undoing
<1>2. CASE rule = "TestThenBlock"
  BY <1>2 DEF StatementBody, LeadsAs, Closing, Undoing
<1>3. CASE rule = "Alternatives"
  BY <1>3 DEF StatementBody, LeadsAs, Closing, Undoing
<1>4. CASE rule = "ForHead"
  BY <1>4, ErrorsLead DEF StatementBody, LeadsAs, Closing, Undoing
<1>5. CASE rule = "ForStep"
  BY <1>5 DEF StatementBody, LeadsAs, Closing, Undoing
<1>6. CASE rule = "MoreNames"
  BY <1>6 DEF StatementBody, LeadsAs, Closing, Undoing
<1>7. CASE rule = "FunctionName"
  BY <1>7 DEF StatementBody, LeadsAs, Closing, Undoing
<1>8. CASE rule = "MoreLocals"
  BY <1>8 DEF StatementBody, LeadsAs, Closing, Undoing
<1>9. CASE rule = "Initializer"
  BY <1>9 DEF StatementBody, LeadsAs, Closing, Undoing
<1>10. CASE rule = "MoreGlobals"
  BY <1>10 DEF StatementBody, LeadsAs, Closing, Undoing
<1>11. CASE rule = "AttributedGlobals"
  BY <1>11 DEF StatementBody, LeadsAs, Closing, Undoing
<1>12. CASE rule = "Returned"
  BY <1>12 DEF StatementBody, LeadsAs, Closing, Undoing
<1>13. CASE rule = "Assignment"
  <2>1. Do("MoreTargets") \o Complete("VarList") \o Precede \in Swaps
    <3>1. Do("MoreTargets") \o Complete("VarList") \in Closes \cap Making
      BY CompletesMake
    <3>2. QED BY <3>1
  <2>2. \A p \in Swaps : p \o Check("=") \o ExpressionList \o Test(";")
                           \o Complete("AssignStatement") \in Drops
    OBVIOUS
  <2>3. Test(";") \o Complete("ExpressionStatement") \in Drops
    OBVIOUS
  <2>4. QED BY <1>13, <2>1, <2>2, <2>3 DEF StatementBody, LeadsAs, Closing, Undoing
<1>14. CASE rule = "MoreTargets"
  BY <1>14 DEF StatementBody, LeadsAs, Closing, Undoing
<1>15. CASE rule = "Attribute"
  BY <1>15 DEF StatementBody, LeadsAs, Closing, Undoing
<1>16. CASE rule = "AttributeName"
  <2>1. \A p, q \in Neutral : p \o Check(">") \o q \o Complete("Attribute") \in Closes
    OBVIOUS
  <2>2. QED BY <1>16, <2>1, ErrorsLead DEF StatementBody, LeadsAs, Closing
<1>17. QED
  BY <1>1, <1>2, <1>3, <1>4, <1>5, <1>6, <1>7, <1>8, <1>9, <1>10, <1>11, <1>12, <1>13, <1>14,
     <1>15, <1>16
  DEF StatementRules

\* Whatever the tokens, but for a function that is declared global, the body of a rule does to
\* the open Markers what the call of the rule is said to do: no function of the grammar closes
\* a Marker of its caller, none leaves one open, and none drops one that is a parent.
THEOREM BodyKeepsMarkers ==
  ASSUME NEW rule \in Rules, NEW arg \in Nat, NEW token, NEW ahead,
         ~(rule = "StatementList" /\ token = "global" /\ ahead = "function"),
         NEW in, in = [op |-> "Do", what |-> rule, arg |-> arg],
         NEW ms, NEW after, Step(in, ms, after),
         NEW p, p = Body(rule, arg, token, ahead)
  PROVE  Leads(p, ms, after)
<1>1. LeadsAs(p, rule, arg)
  BY ExpressionBodyLeads, StatementBodyLeads DEF Body, Rules
<1>2. ms \in SomeMarkers /\ after \in Markers
  BY DEF Step, SomeMarkers
<1>3. CASE rule \notin Closing \union Undoing
  <2>1. after = ms /\ p \in Flat
    BY <1>1, <1>3, MarkersCompose DEF Step, LeadsAs, Closing, Undoing
  <2>2. QED BY <1>2, <2>1 DEF Flat
<1>4. CASE rule \in Closing /\ (rule = "Suffixes" => arg = 1)
  <2>1. p \in Closes
    BY <1>1, <1>4 DEF LeadsAs
  <2>2. after # <<>> /\ \E f \in {"plain", "around"} : ms = Append(after, f)
    <3>1. "plain" \in {"plain", "around"}
      OBVIOUS
    <3>2. QED BY <1>4, <3>1 DEF Step
  <2>3. QED BY <1>2, <2>1, <2>2 DEF Closes, Shuts, SomeMarkers
<1>5. CASE rule \in Undoing /\ ~(rule \in Closing /\ (rule = "Suffixes" => arg = 1))
  <2>1. p \in Drops
    BY <1>1, <1>5 DEF LeadsAs, Undoing, Closing
  <2>2. after # <<>> /\ ms = Append(after, "plain")
    BY <1>5 DEF Step
  <2>3. QED BY <1>2, <2>1, <2>2 DEF Drops, SomeMarkers
<1>6. CASE rule \in Closing /\ rule = "Suffixes" /\ arg # 1
  BY <1>5, <1>6 DEF Undoing
<1>7. QED BY <1>3, <1>4, <1>5, <1>6

\* Nor does it put a Marker around a node before there is one.
LEMMA BodyPrepares ==
  ASSUME NEW rule \in Rules, NEW arg \in Nat, NEW token, NEW ahead,
         ~(rule = "StatementList" /\ token = "global" /\ ahead = "function"),
         NEW p, p = Body(rule, arg, token, ahead)
  PROVE  /\ rule # "BinaryOperators" => p \in Prepared
         /\ rule \in {"Subexpression", "PrimaryExpression"} => p \in Making
<1>1. LeadsAs(p, rule, arg)
  BY ExpressionBodyLeads, StatementBodyLeads DEF Body, Rules
<1>2. QED BY <1>1 DEF LeadsAs, Neutral, Closes, Shuts, Drops, Making

-----------------------------------------------------------------------------
(* Skipping comments. *)

\* The first token that is no comment is one.
LEMMA SkipsOnce ==
  ASSUME NEW s, NEW i, NEW j, NEW k, Skips(s, i, j), Skips(s, i, k), i \in Nat
  PROVE  j = k
<1>1. j \in Nat /\ k \in Nat /\ s[j] \notin Comments /\ s[k] \notin Comments
  BY DEF Skips
<1>2. ~(j < k)
  BY <1>1 DEF Skips
<1>3. ~(k < j)
  BY <1>1 DEF Skips
<1>4. QED BY <1>1, <1>2, <1>3

\* SkipComment answers that token.
LEMMA SkipCommentFinds ==
  ASSUME NEW s, NEW i \in Nat, NEW j, Skips(s, i, j)
  PROVE  SkipComment(s, i) = j
<1>1. j \in 1..Len(s)
  BY DEF Skips
<1>2. PICK k \in 1..Len(s) : Skips(s, i, k) /\ k = SkipComment(s, i)
  BY <1>1 DEF SkipComment
<1>3. QED BY <1>2, SkipsOnce

\* Where SkipComment comes to: a token that is no comment, or the end.
LEMMA SkipCommentTyped ==
  ASSUME NEW s \in Seq(TokenKinds), NEW i \in Nat
  PROVE  /\ SkipComment(s, i) \in Nat \ {0}
         /\ \/ Skips(s, i, SkipComment(s, i))
            \/ SkipComment(s, i) = Len(s) + 1
<1>1. Len(s) \in Nat
  OBVIOUS
<1>2. CASE \E j \in 1..Len(s) : Skips(s, i, j)
  <2>1. PICK j \in 1..Len(s) : Skips(s, i, j)
    BY <1>2
  <2>2. SkipComment(s, i) = j
    BY <2>1, SkipCommentFinds
  <2>3. QED BY <2>1, <2>2, <1>1
<1>3. CASE ~ \E j \in 1..Len(s) : Skips(s, i, j)
  BY <1>1, <1>3 DEF SkipComment
<1>4. QED BY <1>2, <1>3

\* Skipping twice is skipping once.
LEMMA SkipTwice ==
  ASSUME NEW s \in Seq(TokenKinds), NEW i \in Nat
  PROVE  SkipComment(s, SkipComment(s, i)) = SkipComment(s, i)
<1> DEFINE j == SkipComment(s, i)
<1>1. j \in Nat \ {0} /\ Len(s) \in Nat
  BY SkipCommentTyped
<1>2. CASE Skips(s, i, j)
  <2>1. Skips(s, j, j)
    BY <1>1, <1>2 DEF Skips
  <2>2. QED BY <1>1, <2>1, SkipCommentFinds
<1>3. CASE j = Len(s) + 1
  <2>1. \A k \in 1..Len(s) : ~Skips(s, j, k)
    BY <1>1, <1>3 DEF Skips
  <2>2. QED BY <1>3, <2>1 DEF SkipComment
<1>4. QED BY <1>2, <1>3, SkipCommentTyped

\* Past a comment there is the same token as before it.
LEMMA SkipPastComment ==
  ASSUME NEW s \in Seq(TokenKinds), NEW i \in 1..Len(s), s[i] \in Comments
  PROVE  SkipComment(s, i + 1) = SkipComment(s, i)
<1>1. i \in Nat /\ i + 1 \in Nat /\ Len(s) \in Nat
  OBVIOUS
<1>2. ASSUME NEW j, Skips(s, i + 1, j) PROVE Skips(s, i, j)
  BY <1>1, <1>2 DEF Skips
<1>3. CASE Skips(s, i + 1, SkipComment(s, i + 1))
  BY <1>1, <1>2, <1>3, SkipCommentFinds
<1>4. ASSUME NEW j, Skips(s, i, j) PROVE Skips(s, i + 1, j)
  <2>1. i # j
    BY <1>4 DEF Skips
  <2>2. QED BY <1>1, <1>4, <2>1 DEF Skips
<1>5. CASE Skips(s, i, SkipComment(s, i))
  BY <1>1, <1>4, <1>5, SkipCommentFinds
<1>6. QED BY <1>1, <1>3, <1>5, SkipCommentTyped

\* Past the comment that ends a line there is the same token as before it.
LEMMA InlinedSkips ==
  ASSUME tokens \in Seq(TokenKinds), NEW n \in Nat
  PROVE  Inlined(n) \in Nat /\ SkipComment(tokens, Inlined(n) + 1) = SkipComment(tokens, n + 1)
<1>1. CASE n > 0 /\ n < Len(tokens) /\ tokens[n + 1] = "inline"
  <2>1. n + 1 \in 1..Len(tokens) /\ tokens[n + 1] \in Comments
    BY <1>1 DEF Comments
  <2>2. QED BY <1>1, <2>1, SkipPastComment DEF Inlined
<1>2. CASE ~(n > 0 /\ n < Len(tokens) /\ tokens[n + 1] = "inline")
  BY <1>2 DEF Inlined
<1>3. QED BY <1>1, <1>2

\* A token that was found stays found when the file goes on.
LEMMA SkipStays ==
  ASSUME NEW s \in Seq(TokenKinds), NEW k \in TokenKinds,
         NEW i \in Nat \ {0}, SkipComment(s, i) <= Len(s)
  PROVE  SkipComment(Append(s, k), i) = SkipComment(s, i)
<1> DEFINE j == SkipComment(s, i)
           t == Append(s, k)
<1>1. Skips(s, i, j) /\ j \in Nat /\ Len(s) \in Nat
  BY SkipCommentTyped, SMTT(30)
<1>2. Len(t) = Len(s) + 1 /\ \A l \in 1..Len(s) : t[l] = s[l]
  OBVIOUS
<1>3. j \in 1..Len(s) /\ i <= j /\ \A l \in i..(j - 1) : l \in 1..Len(s)
  BY <1>1 DEF Skips
<1>4. Skips(t, i, j)
  BY <1>1, <1>2, <1>3 DEF Skips
<1>5. QED BY <1>4, SkipCommentFinds

-----------------------------------------------------------------------------
(* Events. *)

\* The events that steps of the parser add are events.
LEMMA EventsTyped ==
  /\ NodeStart \in EventRecord /\ NodeStart.type = "NodeStart" /\ NodeStart.parent = 0
  /\ NodeEnd \in EventRecord /\ NodeEnd.type = "NodeEnd" /\ NodeEnd.parent = 0
  /\ ErrorEvent \in EventRecord /\ ErrorEvent.type = "Error" /\ ErrorEvent.parent = 0
  /\ \A n \in Nat : /\ EatToken(n) \in EventRecord /\ EatToken(n).type = "EatToken"
                    /\ EatToken(n).parent = 0 /\ EatToken(n).index = n
<1>1. {"NodeStart", "NodeEnd", "Error", "EatToken"} \subseteq EventType
  BY DEF EventType
<1>2. "None" \in NodeKinds
  BY DEF NodeKinds
<1>3. \A t \in EventType, n \in Nat :
        /\ Event(t, "None", n) \in EventRecord /\ Event(t, "None", n).type = t
        /\ Event(t, "None", n).parent = 0 /\ Event(t, "None", n).index = n
  BY <1>2 DEF Event, EventRecord
<1>4. QED
  BY <1>1, <1>3 DEF NodeStart, NodeEnd, ErrorEvent, EatToken

WithKind(ev, i, k) == [ev EXCEPT ![i].kind = k]

WithParent(ev, i, n) == [ev EXCEPT ![i].parent = n]

\* Another kind changes nothing else.
LEMMA KindSet ==
  ASSUME NEW ev \in Seq(EventRecord), NEW i \in Nat, NEW k \in NodeKinds
  PROVE  /\ WithKind(ev, i, k) \in Seq(EventRecord) /\ Len(WithKind(ev, i, k)) = Len(ev)
         /\ \A q \in 1..Len(ev) : /\ WithKind(ev, i, k)[q].type = ev[q].type
                                  /\ WithKind(ev, i, k)[q].index = ev[q].index
                                  /\ WithKind(ev, i, k)[q].parent = ev[q].parent
<1> DEFINE new == WithKind(ev, i, k)
<1>1. ASSUME NEW e \in EventRecord
      PROVE  /\ [e EXCEPT !.kind = k] \in EventRecord
             /\ [e EXCEPT !.kind = k].type = e.type /\ [e EXCEPT !.kind = k].index = e.index
             /\ [e EXCEPT !.kind = k].parent = e.parent
  BY DEF EventRecord
<1>2. DOMAIN new = 1..Len(ev) /\ Len(ev) \in Nat
  BY DEF WithKind
<1>3. \A q \in 1..Len(ev) : /\ ev[q] \in EventRecord
                            /\ new[q] = IF q = i THEN [ev[q] EXCEPT !.kind = k] ELSE ev[q]
  BY DEF WithKind
<1>4. \A q \in 1..Len(ev) : new[q] \in EventRecord
  BY <1>1, <1>3
<1>5. new \in [1..Len(ev) -> EventRecord]
  BY <1>2, <1>4 DEF WithKind
<1>6. new \in Seq(EventRecord) /\ Len(new) = Len(ev)
  BY <1>2, <1>5
<1>7. QED BY <1>1, <1>3, <1>6

\* Another parent changes nothing else.
LEMMA ParentSet ==
  ASSUME NEW ev \in Seq(EventRecord), NEW i \in Nat, NEW n \in Nat
  PROVE  /\ WithParent(ev, i, n) \in Seq(EventRecord) /\ Len(WithParent(ev, i, n)) = Len(ev)
         /\ \A q \in 1..Len(ev) :
              /\ WithParent(ev, i, n)[q].type = ev[q].type
              /\ WithParent(ev, i, n)[q].index = ev[q].index
              /\ WithParent(ev, i, n)[q].parent = IF q = i THEN n ELSE ev[q].parent
<1> DEFINE new == WithParent(ev, i, n)
<1>1. ASSUME NEW e \in EventRecord
      PROVE  /\ [e EXCEPT !.parent = n] \in EventRecord
             /\ [e EXCEPT !.parent = n].type = e.type
             /\ [e EXCEPT !.parent = n].index = e.index
             /\ [e EXCEPT !.parent = n].parent = n
  BY DEF EventRecord
<1>2. DOMAIN new = 1..Len(ev) /\ Len(ev) \in Nat
  BY DEF WithParent
<1>3. \A q \in 1..Len(ev) : /\ ev[q] \in EventRecord
                            /\ new[q] = IF q = i THEN [ev[q] EXCEPT !.parent = n] ELSE ev[q]
  BY DEF WithParent
<1>4. \A q \in 1..Len(ev) : new[q] \in EventRecord
  BY <1>1, <1>3
<1>5. new \in [1..Len(ev) -> EventRecord]
  BY <1>2, <1>4 DEF WithParent
<1>6. new \in Seq(EventRecord) /\ Len(new) = Len(ev)
  BY <1>2, <1>5
<1>7. QED BY <1>1, <1>3, <1>6

\* One more event leaves those before it.
LEMMA EventAdded ==
  ASSUME NEW ev \in Seq(EventRecord), NEW e \in EventRecord, NEW new, new = Append(ev, e)
  PROVE  /\ new \in Seq(EventRecord) /\ Len(new) = Len(ev) + 1
         /\ new[Len(ev) + 1] = e
         /\ \A q \in 1..Len(ev) : new[q] = ev[q]
OBVIOUS

-----------------------------------------------------------------------------
(* Which tokens the events read. *)

Eats(ev, q) == ev[q].type = "EatToken"

\* The first event after p that reads a token reads the one that follows token `read`.
Follows(ev, file, read, p) ==
  \A q \in (p + 1)..Len(ev) :
    Eats(ev, q) /\ (\A r \in (p + 1)..(q - 1) : ~Eats(ev, r))
      => ev[q].index = SkipComment(file, read + 1)

\* The events read the tokens of the file in order.
InOrder(ev, file) ==
  /\ Follows(ev, file, 0, 0)
  /\ \A p \in 1..Len(ev) : Eats(ev, p) => /\ ev[p].index \in Nat \ {0}
                                          /\ Follows(ev, file, ev[p].index, p)

\* `at` is the token after the one read last.
ReadUpTo(ev, at) ==
  /\ (\A q \in 1..Len(ev) : ~Eats(ev, q)) => at = 1
  /\ \A q \in 1..Len(ev) :
       Eats(ev, q) /\ (\A r \in (q + 1)..Len(ev) : ~Eats(ev, r)) => at = ev[q].index + 1

\* The events read tokens that are there, until all are.
Known(ev, file, all) ==
  all \/ \A q \in 1..Len(ev) : Eats(ev, q) => ev[q].index <= Len(file)

\* The same tokens are read by the events of ev and by as many of new.
Keeps(ev, new) ==
  /\ Len(new) \in {Len(ev), Len(ev) + 1}
  /\ \A q \in 1..Len(ev) : new[q].type = ev[q].type /\ new[q].index = ev[q].index

\* What is not read by an event that is added stays in order.
LEMMA FollowsKept ==
  ASSUME NEW ev \in Seq(EventRecord), NEW new \in Seq(EventRecord), Keeps(ev, new),
         Len(new) = Len(ev) \/ ~Eats(new, Len(ev) + 1),
         NEW file, NEW read, NEW p \in Nat, Follows(ev, file, read, p)
  PROVE  Follows(new, file, read, p)
<1> SUFFICES ASSUME NEW q \in (p + 1)..Len(new), Eats(new, q),
                    \A r \in (p + 1)..(q - 1) : ~Eats(new, r)
             PROVE  new[q].index = SkipComment(file, read + 1)
  BY DEF Follows
<1>1. Len(ev) \in Nat /\ Len(new) \in Nat /\ q \in Nat
  OBVIOUS
<1>2. q \in (p + 1)..Len(ev)
  BY <1>1 DEF Keeps
<1>3. \A r \in (p + 1)..q : r \in 1..Len(ev)
  BY <1>1, <1>2
<1>4. \A r \in (p + 1)..q : Eats(new, r) <=> Eats(ev, r)
  BY <1>3 DEF Keeps, Eats
<1>5. Eats(ev, q) /\ \A r \in (p + 1)..(q - 1) : ~Eats(ev, r)
  BY <1>1, <1>2, <1>4
<1>6. ev[q].index = SkipComment(file, read + 1)
  BY <1>2, <1>5 DEF Follows
<1>7. QED BY <1>1, <1>2, <1>3, <1>6 DEF Keeps

\* An event that is added after others that read nothing may read what follows.
LEMMA FollowsEaten ==
  ASSUME NEW ev \in Seq(EventRecord), NEW new \in Seq(EventRecord), Keeps(ev, new),
         Len(new) = Len(ev) + 1,
         NEW file, NEW read, NEW p \in 0..Len(ev), Follows(ev, file, read, p),
         (\A r \in (p + 1)..Len(ev) : ~Eats(ev, r))
           => new[Len(ev) + 1].index = SkipComment(file, read + 1)
  PROVE  Follows(new, file, read, p)
<1> SUFFICES ASSUME NEW q \in (p + 1)..Len(new), Eats(new, q),
                    \A r \in (p + 1)..(q - 1) : ~Eats(new, r)
             PROVE  new[q].index = SkipComment(file, read + 1)
  BY DEF Follows
<1>1. Len(ev) \in Nat /\ Len(new) \in Nat /\ q \in Nat /\ p \in Nat
  OBVIOUS
<1>2. \A r \in (p + 1)..Len(ev) : r \in 1..Len(ev) /\ (Eats(new, r) <=> Eats(ev, r))
  BY <1>1 DEF Keeps, Eats
<1>3. CASE q = Len(ev) + 1
  <2>1. \A r \in (p + 1)..Len(ev) : r \in (p + 1)..(q - 1)
    BY <1>1, <1>3
  <2>2. QED BY <1>2, <1>3, <2>1
<1>4. CASE q # Len(ev) + 1
  <2>1. q \in (p + 1)..Len(ev)
    BY <1>1, <1>4
  <2>2. \A r \in (p + 1)..(q - 1) : r \in (p + 1)..Len(ev)
    BY <1>1, <2>1
  <2>3. Eats(ev, q) /\ \A r \in (p + 1)..(q - 1) : ~Eats(ev, r)
    BY <1>2, <2>1, <2>2
  <2>4. ev[q].index = SkipComment(file, read + 1)
    BY <2>1, <2>3 DEF Follows
  <2>5. QED BY <1>2, <2>1, <2>4 DEF Keeps
<1>5. QED BY <1>3, <1>4

\* The tokens read stay in order when an event is added that reads none.
LEMMA InOrderStays ==
  ASSUME NEW ev \in Seq(EventRecord), NEW new \in Seq(EventRecord), Keeps(ev, new),
         Len(new) = Len(ev) \/ ~Eats(new, Len(ev) + 1),
         NEW file, NEW all, InOrder(ev, file), Known(ev, file, all)
  PROVE  InOrder(new, file) /\ Known(new, file, all)
<1>1. Len(ev) \in Nat /\ Len(new) \in Nat /\ Len(new) \in {Len(ev), Len(ev) + 1}
  BY DEF Keeps
<1>2. \A q \in 1..Len(ev) : /\ q \in 1..Len(new)
                            /\ Eats(new, q) <=> Eats(ev, q)
                            /\ new[q].index = ev[q].index
  BY <1>1 DEF Keeps, Eats
<1>3. \A q \in 1..Len(new) : Eats(new, q) => q \in 1..Len(ev)
  BY <1>1
<1>4. InOrder(new, file)
  <2>1. Follows(new, file, 0, 0)
    BY FollowsKept DEF InOrder
  <2>2. ASSUME NEW p \in 1..Len(new), Eats(new, p)
        PROVE  new[p].index \in Nat \ {0} /\ Follows(new, file, new[p].index, p)
    <3>1. p \in 1..Len(ev) /\ Eats(ev, p) /\ new[p].index = ev[p].index /\ p \in Nat
      BY <1>2, <1>3, <2>2
    <3>2. ev[p].index \in Nat \ {0} /\ Follows(ev, file, ev[p].index, p)
      BY <3>1 DEF InOrder
    <3>3. Follows(new, file, ev[p].index, p)
      BY <3>1, <3>2, FollowsKept
    <3>4. QED BY <3>1, <3>2, <3>3
  <2>3. QED BY <2>1, <2>2 DEF InOrder
<1>5. Known(new, file, all)
  BY <1>2, <1>3 DEF Known
<1>6. QED BY <1>4, <1>5

\* So does the token read last.
LEMMA InOrderKept ==
  ASSUME NEW ev \in Seq(EventRecord), NEW new \in Seq(EventRecord), Keeps(ev, new),
         Len(new) = Len(ev) \/ ~Eats(new, Len(ev) + 1),
         NEW file, NEW at, NEW all, InOrder(ev, file), ReadUpTo(ev, at), Known(ev, file, all)
  PROVE  InOrder(new, file) /\ ReadUpTo(new, at) /\ Known(new, file, all)
<1>1. Len(ev) \in Nat /\ Len(new) \in Nat /\ Len(new) \in {Len(ev), Len(ev) + 1}
  BY DEF Keeps
<1>2. \A q \in 1..Len(ev) : /\ q \in 1..Len(new)
                            /\ Eats(new, q) <=> Eats(ev, q)
                            /\ new[q].index = ev[q].index
  BY <1>1 DEF Keeps, Eats
<1>3. \A q \in 1..Len(new) : Eats(new, q) => q \in 1..Len(ev)
  BY <1>1
<1>4. (\A q \in 1..Len(new) : ~Eats(new, q)) => \A q \in 1..Len(ev) : ~Eats(ev, q)
  BY <1>2
<1>5. ASSUME NEW q \in 1..Len(new), Eats(new, q), \A r \in (q + 1)..Len(new) : ~Eats(new, r)
      PROVE  at = new[q].index + 1
  <2>1. q \in 1..Len(ev) /\ Eats(ev, q)
    BY <1>2, <1>3, <1>5
  <2>2. \A r \in (q + 1)..Len(ev) : r \in 1..Len(ev) /\ r \in (q + 1)..Len(new)
    BY <1>1, <2>1
  <2>3. \A r \in (q + 1)..Len(ev) : ~Eats(ev, r)
    BY <1>2, <1>5, <2>2
  <2>4. QED BY <1>2, <2>1, <2>3 DEF ReadUpTo
<1>6. QED BY <1>4, <1>5, InOrderStays DEF ReadUpTo

\* They do so when the event reads the next token.
LEMMA InOrderEaten ==
  ASSUME NEW ev \in Seq(EventRecord), NEW file \in Seq(TokenKinds),
         NEW at \in Nat \ {0}, NEW all, NEW n, n = SkipComment(file, at),
         InOrder(ev, file), ReadUpTo(ev, at), Known(ev, file, all),
         all \/ n <= Len(file),
         NEW new, new = Append(ev, EatToken(n))
  PROVE  InOrder(new, file) /\ ReadUpTo(new, n + 1) /\ Known(new, file, all)
<1> DEFINE l == Len(ev) + 1
<1>1. n \in Nat \ {0}
  BY SkipCommentTyped
<1>2. /\ new \in Seq(EventRecord) /\ Len(new) = l /\ Eats(new, l) /\ new[l].index = n
      /\ \A q \in 1..Len(ev) : new[q] = ev[q]
  BY <1>1, EventsTyped, EventAdded DEF Eats
<1>3. Len(ev) \in Nat /\ l \in Nat
  OBVIOUS
<1>4. Keeps(ev, new)
  BY <1>2 DEF Keeps
<1>5. InOrder(new, file)
  <2>1. Follows(new, file, 0, 0)
    <3>1. (\A r \in (0 + 1)..Len(ev) : ~Eats(ev, r)) => new[l].index = SkipComment(file, 0 + 1)
      BY <1>2 DEF ReadUpTo
    <3>2. Follows(ev, file, 0, 0) /\ 0 \in 0..Len(ev)
      BY <1>3 DEF InOrder
    <3>3. QED BY <1>2, <1>4, <3>1, <3>2, FollowsEaten
  <2>2. ASSUME NEW p \in 1..Len(ev), Eats(new, p)
        PROVE  new[p].index \in Nat \ {0} /\ Follows(new, file, new[p].index, p)
    <3>1. Eats(ev, p) /\ new[p] = ev[p]
      BY <1>2, <2>2 DEF Eats
    <3>2. ev[p].index \in Nat \ {0} /\ Follows(ev, file, ev[p].index, p)
      BY <3>1 DEF InOrder
    <3>3. (\A r \in (p + 1)..Len(ev) : ~Eats(ev, r))
            => new[l].index = SkipComment(file, ev[p].index + 1)
      BY <1>2, <3>1 DEF ReadUpTo
    <3>4. p \in 0..Len(ev)
      OBVIOUS
    <3>5. Follows(new, file, ev[p].index, p)
      BY <1>2, <1>4, <3>2, <3>3, <3>4, FollowsEaten
    <3>6. QED BY <3>1, <3>2, <3>5
  <2>3. Follows(new, file, n, l)
    BY <1>2, <1>3 DEF Follows
  <2>4. QED
    <3>1. \A p \in 1..l : p \in 1..Len(ev) \/ p = l
      BY <1>3
    <3>2. QED BY <1>1, <1>2, <2>1, <2>2, <2>3, <3>1 DEF InOrder
<1>6. ReadUpTo(new, n + 1)
  <2>1. l \in 1..l
    BY <1>3
  <2>2. ASSUME NEW q \in 1..l, Eats(new, q), \A r \in (q + 1)..l : ~Eats(new, r)
        PROVE  q = l
    BY <1>2, <1>3, <2>2
  <2>3. QED BY <1>2, <2>1, <2>2 DEF ReadUpTo
<1>7. Known(new, file, all)
  <2>1. \A q \in 1..l : q \in 1..Len(ev) \/ q = l
    BY <1>3
  <2>2. QED BY <1>2, <2>1 DEF Known, Eats
<1>8. QED BY <1>5, <1>6, <1>7

\* Nothing that is read changes when another token is found.
LEMMA InOrderLonger ==
  ASSUME NEW ev \in Seq(EventRecord), NEW file \in Seq(TokenKinds), NEW k \in TokenKinds,
         InOrder(ev, file), Known(ev, file, FALSE)
  PROVE  InOrder(ev, Append(file, k)) /\ Known(ev, Append(file, k), FALSE)
<1> DEFINE f == Append(file, k)
<1>1. Len(file) \in Nat /\ Len(f) = Len(file) + 1 /\ Len(ev) \in Nat
  OBVIOUS
<1>2. ASSUME NEW read \in Nat, NEW p \in Nat, Follows(ev, file, read, p)
      PROVE  Follows(ev, f, read, p)
  <2> SUFFICES ASSUME NEW q \in (p + 1)..Len(ev), Eats(ev, q),
                      \A r \in (p + 1)..(q - 1) : ~Eats(ev, r)
               PROVE  ev[q].index = SkipComment(f, read + 1)
    BY DEF Follows
  <2>1. q \in 1..Len(ev)
    BY <1>1
  <2>2. ev[q].index = SkipComment(file, read + 1)
    BY <1>2 DEF Follows
  <2>3. SkipComment(file, read + 1) <= Len(file)
    BY <2>1, <2>2 DEF Known
  <2>4. read + 1 \in Nat \ {0}
    OBVIOUS
  <2>5. SkipComment(f, read + 1) = SkipComment(file, read + 1)
    BY <2>3, <2>4, SkipStays
  <2>6. QED BY <2>2, <2>5
<1>3. InOrder(ev, f)
  BY <1>1, <1>2 DEF InOrder
<1>4. Known(ev, f, FALSE)
  <2>1. ASSUME NEW q \in 1..Len(ev), Eats(ev, q) PROVE ev[q].index <= Len(f)
    <3>1. ev[q].index <= Len(file)
      BY <2>1 DEF Known
    <3>2. ev[q] \in EventRecord
      BY <2>1
    <3>3. ev[q].index \in Nat
      BY <3>2 DEF EventRecord
    <3>4. QED BY <1>1, <3>1, <3>3
  <2>2. QED BY <2>1 DEF Known
<1>5. QED BY <1>3, <1>4

\* What follows one token follows another when there are only comments between them.
LEMMA FollowsAlso ==
  ASSUME NEW ev, NEW file, NEW read, NEW also, NEW p,
         SkipComment(file, also + 1) = SkipComment(file, read + 1),
         Follows(ev, file, read, p)
  PROVE  Follows(ev, file, also, p)
BY DEF Follows

\* An event that reads nothing can be passed.
LEMMA FollowsPassed ==
  ASSUME NEW ev, Len(ev) \in Nat, NEW file, NEW read, NEW p \in Nat,
         Follows(ev, file, read, p), ~Eats(ev, p + 1)
  PROVE  Follows(ev, file, read, p + 1)
<1> SUFFICES ASSUME NEW q \in (p + 2)..Len(ev), Eats(ev, q),
                    \A r \in (p + 2)..(q - 1) : ~Eats(ev, r)
             PROVE  ev[q].index = SkipComment(file, read + 1)
  BY DEF Follows
<1>1. q \in (p + 1)..Len(ev)
  OBVIOUS
<1>2. \A r \in (p + 1)..(q - 1) : r = p + 1 \/ r \in (p + 2)..(q - 1)
  OBVIOUS
<1>3. \A r \in (p + 1)..(q - 1) : ~Eats(ev, r)
  BY <1>2
<1>4. QED BY <1>1, <1>3 DEF Follows

-----------------------------------------------------------------------------
(* The invariant. *)

\* The tree is not begun before the events are there.
Waiting ==
  /\ phase = "parse" => next = 1 /\ parents = <<>> /\ parentPos = 0 /\ eaten = 0
  /\ parentPos # 0 => parents # <<>> /\ phase = "build"

ReadInOrder ==
  /\ InOrder(events, tokens)
  /\ Known(events, tokens, ended)
  /\ phase = "parse" => ReadUpTo(events, tokenIndex)

\* The next token that an event reads is the one that the tree comes to.
TreeFollows == phase = "build" => Follows(events, tokens, eaten, next - 1)

IInv ==
  /\ source \in Sources
  /\ TypeOK
  /\ EventsLinked
  /\ Waiting
  /\ ReadInOrder
  /\ TreeFollows

\* The parser starts with the first token, and no event.
LEMMA InitInv == Init => IInv
<1> SUFFICES ASSUME Init PROVE IInv
  OBVIOUS
<1> USE DEF Init, ParserInit
<1>1. TypeOK
  <2>1. todo \in Seq(Instructions)
    BY ExpressionsQuiet, StartsGrow DEF Program
  <2>2. tokens \in Seq(TokenKinds) /\ events \in Seq(EventRecord) /\ marks \in Seq(1..Len(events))
    OBVIOUS
  <2>3. parents \in Seq(NodeKinds) /\ entries \in Seq(EntryRecord)
    OBVIOUS
  <2>4. nodeStack \in Seq(0..Len(entries))
    OBVIOUS
  <2>5. /\ tokenIndex \in Nat \ {0} /\ completed \in Nat \ {0} /\ errors \in Nat
        /\ next \in Nat \ {0} /\ parentPos \in Nat /\ eaten \in Nat
    OBVIOUS
  <2>6. ended \in BOOLEAN /\ phase \in {"parse", "build", "done"}
    BY Zenon
  <2>7. QED BY <2>1, <2>2, <2>3, <2>4, <2>5, <2>6, Zenon DEF TypeOK
<1>2. EventsLinked
  BY DEF EventsLinked
<1>3. Waiting
  BY DEF Waiting
<1>4. ReadInOrder
  BY DEF ReadInOrder, InOrder, Follows, Known, ReadUpTo
<1>5. TreeFollows
  BY DEF TreeFollows
<1>6. QED BY <1>1, <1>2, <1>3, <1>4, <1>5 DEF IInv

\* The last element of a sequence, and those before it.
LEMMA PopTyped ==
  ASSUME NEW S, NEW s \in Seq(S), s # <<>>
  PROVE  /\ Top(s) \in S /\ Pop(s) \in Seq(S)
         /\ Len(Pop(s)) = Len(s) - 1
         /\ \A k \in 1..(Len(s) - 1) : Pop(s)[k] = s[k]
<1>1. Len(s) \in Nat /\ Len(s) > 0
  OBVIOUS
<1>2. Len(s) - 1 \in Nat /\ Len(s) - 1 <= Len(s)
  BY <1>1
<1>3. \A n \in Nat : n <= Len(s) =>
        /\ SubSeq(s, 1, n) \in Seq(S) /\ Len(SubSeq(s, 1, n)) = n
        /\ \A k \in 1..n : SubSeq(s, 1, n)[k] = s[k]
  OBVIOUS
<1>4. /\ Pop(s) \in Seq(S) /\ Len(Pop(s)) = Len(s) - 1
      /\ \A k \in 1..(Len(s) - 1) : Pop(s)[k] = s[k]
  BY <1>2, <1>3, Zenon DEF Pop
<1>5. Top(s) \in S
  BY <1>1 DEF Top
<1>6. QED BY <1>4, <1>5

\* A sequence with one more element.
LEMMA AppendTyped ==
  ASSUME NEW S, NEW s \in Seq(S), NEW e \in S
  PROVE  Append(s, e) \in Seq(S) /\ Append(s, e) # <<>>
<1>1. Append(s, e) \in Seq(S) /\ Len(Append(s, e)) = Len(s) + 1 /\ Len(s) \in Nat
  OBVIOUS
<1>2. Len(<<>>) = 0
  OBVIOUS
<1>3. QED BY <1>1, <1>2

\* The same, as two sequences.
LEMMA OneMore ==
  ASSUME NEW S, NEW s \in Seq(S), NEW e \in S
  PROVE  s \o <<e>> \in Seq(S) /\ Len(s \o <<e>>) = Len(s) + 1
OBVIOUS

\* A sequence over a set is one over a larger set.
LEMMA SeqWider ==
  ASSUME NEW S, NEW T, S \subseteq T, NEW s \in Seq(S)
  PROVE  s \in Seq(T)
OBVIOUS

-----------------------------------------------------------------------------
(* Markers and parents. *)

\* The Markers ms are open at starts of nodes.
Marked(ev, ms) == \A k \in 1..Len(ms) : ev[ms[k]].type = "NodeStart"

\* The parents are starts of nodes that come later.
Linked(ev) ==
  \A q \in 1..Len(ev) :
    ev[q].parent # 0 => ev[q].parent \in (q + 1)..Len(ev) /\ ev[ev[q].parent].type = "NodeStart"

\* What comes after one event is an event.
LEMMA LaterIsThere ==
  ASSUME NEW n \in Nat, NEW q \in 1..n, NEW p \in (q + 1)..n
  PROVE  p \in 1..n
OBVIOUS

\* Other kinds leave the Markers and the parents as they are.
LEMMA KindIsLinked ==
  ASSUME NEW ev \in Seq(EventRecord), NEW i \in Nat, NEW k \in NodeKinds,
         NEW ms \in Seq(1..Len(ev)), Marked(ev, ms), Linked(ev)
  PROVE  /\ WithKind(ev, i, k) \in Seq(EventRecord) /\ Len(WithKind(ev, i, k)) = Len(ev)
         /\ Keeps(ev, WithKind(ev, i, k))
         /\ Marked(WithKind(ev, i, k), ms) /\ Linked(WithKind(ev, i, k))
<1> DEFINE new == WithKind(ev, i, k)
<1>1. /\ new \in Seq(EventRecord) /\ Len(new) = Len(ev)
      /\ \A q \in 1..Len(ev) : /\ new[q].type = ev[q].type /\ new[q].index = ev[q].index
                                /\ new[q].parent = ev[q].parent
  BY KindSet
<1>2. Len(ev) \in Nat
  OBVIOUS
<1>3. Keeps(ev, new)
  BY <1>1 DEF Keeps
<1>4. Marked(new, ms)
  <2>1. \A n \in 1..Len(ms) : ms[n] \in 1..Len(ev)
    OBVIOUS
  <2>2. QED BY <1>1, <2>1 DEF Marked
<1>5. Linked(new)
  BY <1>1, <1>2 DEF Linked
<1>6. QED BY <1>1, <1>3, <1>4, <1>5

\* So does an event without a parent.
LEMMA EventIsLinked ==
  ASSUME NEW ev \in Seq(EventRecord), NEW e \in EventRecord, e.parent = 0,
         NEW new, new = Append(ev, e), Linked(ev)
  PROVE  /\ new \in Seq(EventRecord) /\ Keeps(ev, new) /\ Linked(new)
         /\ Len(new) = Len(ev) + 1
         /\ Eats(new, Len(ev) + 1) <=> e.type = "EatToken"
<1> DEFINE l == Len(ev) + 1
<1>1. /\ new \in Seq(EventRecord) /\ Len(new) = l /\ new[l] = e
      /\ \A q \in 1..Len(ev) : new[q] = ev[q]
  BY EventAdded
<1>2. Len(ev) \in Nat
  OBVIOUS
<1>3. ASSUME NEW q \in 1..l, new[q].parent # 0
      PROVE  new[q].parent \in (q + 1)..l /\ new[new[q].parent].type = "NodeStart"
  <2>1. q \in 1..Len(ev)
    BY <1>1, <1>2, <1>3
  <2>2. ev[q].parent \in (q + 1)..Len(ev) /\ ev[ev[q].parent].type = "NodeStart"
    BY <1>1, <1>3, <2>1 DEF Linked
  <2>3. ev[q].parent \in 1..Len(ev)
    BY <2>1, <2>2
  <2>4. QED BY <1>1, <2>1, <2>2, <2>3
<1>4. QED BY <1>1, <1>3 DEF Keeps, Linked, Eats

\* A Marker at the event that is added, with the others.
LEMMA MarkerOpened ==
  ASSUME NEW ev \in Seq(EventRecord), NEW ms \in Seq(1..Len(ev)), Marked(ev, ms)
  PROVE  /\ Append(ms, Len(ev) + 1) \in Seq(1..Len(Append(ev, NodeStart)))
         /\ Marked(Append(ev, NodeStart), Append(ms, Len(ev) + 1))
<1> DEFINE l   == Len(ev) + 1
           new == Append(ev, NodeStart)
           now == Append(ms, l)
<1>1. /\ Len(new) = l /\ new[l].type = "NodeStart"
      /\ \A q \in 1..Len(ev) : new[q] = ev[q]
  BY EventsTyped, EventAdded
<1>2. Len(ev) \in Nat /\ Len(ms) \in Nat
  OBVIOUS
<1>3. ms \in Seq(1..l) /\ l \in 1..l
  <2>1. 1..Len(ev) \subseteq 1..l /\ l \in 1..l
    BY <1>2
  <2>2. QED BY <2>1, SeqWider
<1>4. now \in Seq(1..l)
  BY <1>3
<1>5. ASSUME NEW k \in 1..Len(now) PROVE new[now[k]].type = "NodeStart"
  <2>1. CASE k \in 1..Len(ms)
    <3>1. now[k] = ms[k] /\ ms[k] \in 1..Len(ev)
      BY <2>1
    <3>2. ev[ms[k]].type = "NodeStart"
      BY <2>1 DEF Marked
    <3>3. QED BY <1>1, <3>1, <3>2
  <2>2. CASE k = Len(ms) + 1
    <3>1. now[k] = l
      BY <2>2
    <3>2. QED BY <1>1, <3>1
  <2>3. QED BY <1>2, <2>1, <2>2
<1>6. QED BY <1>1, <1>4, <1>5 DEF Marked

\* The other Markers stay when an event is added, and when the innermost is closed.
LEMMA MarkersStay ==
  ASSUME NEW ev \in Seq(EventRecord), NEW e \in EventRecord,
         NEW ms \in Seq(1..Len(ev)), Marked(ev, ms)
  PROVE  /\ ms \in Seq(1..Len(Append(ev, e))) /\ Marked(Append(ev, e), ms)
         /\ ms # <<>> => Pop(ms) \in Seq(1..Len(ev)) /\ Marked(ev, Pop(ms))
<1> DEFINE new == Append(ev, e)
<1>1. Len(new) = Len(ev) + 1 /\ \A q \in 1..Len(ev) : new[q] = ev[q]
  BY EventAdded
<1>2. Len(ev) \in Nat /\ Len(ms) \in Nat /\ \A k \in 1..Len(ms) : ms[k] \in 1..Len(ev)
  OBVIOUS
<1>3. ms \in Seq(1..Len(new))
  <2>1. 1..Len(ev) \subseteq 1..Len(new)
    BY <1>1, <1>2
  <2>2. QED BY <2>1, SeqWider
<1>4. Marked(new, ms)
  BY <1>1, <1>2 DEF Marked
<1>5. ASSUME ms # <<>> PROVE Pop(ms) \in Seq(1..Len(ev)) /\ Marked(ev, Pop(ms))
  <2>1. /\ Pop(ms) \in Seq(1..Len(ev)) /\ Len(Pop(ms)) = Len(ms) - 1
        /\ \A k \in 1..(Len(ms) - 1) : Pop(ms)[k] = ms[k]
    BY <1>5, PopTyped
  <2>2. \A k \in 1..(Len(ms) - 1) : k \in 1..Len(ms)
    BY <1>2
  <2>3. QED BY <2>1, <2>2 DEF Marked
<1>6. QED BY <1>3, <1>4, <1>5

-----------------------------------------------------------------------------
(* Steps of the parser. *)

\* What the parser holds is of its type after a step that leaves the tree alone.
LEMMA ParserTyped ==
  ASSUME TypeOK, UNCHANGED tree,
         tokens' \in Seq(TokenKinds), ended' \in BOOLEAN, tokenIndex' \in Nat \ {0},
         events' \in Seq(EventRecord), todo' \in Seq(Instructions),
         marks' \in Seq(1..Len(events')), completed' \in Nat \ {0}, errors' \in Nat,
         phase' \in {"parse", "build"}
  PROVE  TypeOK'
<1>1. /\ next' = next /\ parents' = parents /\ parentPos' = parentPos
      /\ entries' = entries /\ nodeStack' = nodeStack /\ eaten' = eaten
  BY DEF tree
<1>2. /\ next' \in Nat \ {0} /\ parents' \in Seq(NodeKinds) /\ parentPos' \in Nat
      /\ entries' \in Seq(EntryRecord) /\ nodeStack' \in Seq(0..Len(entries'))
      /\ eaten' \in Nat
  BY <1>1, Zenon DEF TypeOK
<1>3. phase' \in {"parse", "build", "done"}
  OBVIOUS
<1>4. QED BY <1>2, <1>3, Zenon DEF TypeOK

\* What the steps that leave the input alone have in common.
LEMMA StepKeeps ==
  ASSUME IInv, phase = "parse", UNCHANGED tree, UNCHANGED Input,
         tokenIndex' \in Nat \ {0}, events' \in Seq(EventRecord),
         todo' \in Seq(Instructions),
         marks' \in Seq(1..Len(events')), completed' \in Nat \ {0}, errors' \in Nat,
         Marked(events', marks'), Linked(events'),
         InOrder(events', tokens) /\ ReadUpTo(events', tokenIndex')
           /\ Known(events', tokens, ended)
  PROVE  IInv'
<1>1. source' = source /\ tokens' = tokens /\ ended' = ended /\ phase' = phase
  BY DEF Input
<1>2. /\ next' = next /\ parents' = parents /\ parentPos' = parentPos /\ eaten' = eaten
  BY DEF tree
<1>3. TypeOK'
  <2>1. tokens' \in Seq(TokenKinds) /\ ended' \in BOOLEAN /\ phase' \in {"parse", "build"}
    BY <1>1, Zenon DEF IInv, TypeOK
  <2>2. TypeOK
    BY DEF IInv
  <2>3. QED BY <2>1, <2>2, ParserTyped
<1>4. Waiting'
  BY <1>1, <1>2 DEF IInv, Waiting
<1>5. EventsLinked'
  BY <1>1, <1>4 DEF Waiting, EventsLinked, Marked, Linked
<1>6. ReadInOrder'
  BY <1>1 DEF ReadInOrder
<1>7. TreeFollows'
  BY <1>1 DEF TreeFollows
<1>8. source' \in Sources
  BY <1>1 DEF IInv
<1>9. QED BY <1>3, <1>4, <1>5, <1>6, <1>7, <1>8, Zenon DEF IInv

\* A step that adds no event that reads a token.
LEMMA QuietKeeps ==
  ASSUME IInv, phase = "parse", UNCHANGED tree, UNCHANGED Input, UNCHANGED tokenIndex,
         events' \in Seq(EventRecord), Keeps(events, events'),
         Len(events') = Len(events) \/ ~Eats(events', Len(events) + 1),
         todo' \in Seq(Instructions),
         marks' \in Seq(1..Len(events')), completed' \in Nat \ {0}, errors' \in Nat,
         Marked(events', marks'), Linked(events')
  PROVE  IInv'
<1>1. /\ events \in Seq(EventRecord) /\ tokenIndex \in Nat \ {0}
      /\ InOrder(events, tokens) /\ ReadUpTo(events, tokenIndex) /\ Known(events, tokens, ended)
  BY DEF IInv, TypeOK, ReadInOrder
<1>2. InOrder(events', tokens) /\ ReadUpTo(events', tokenIndex) /\ Known(events', tokens, ended)
  BY <1>1, InOrderKept
<1>3. QED BY <1>1, <1>2, StepKeeps

\* The types that the steps of the parser use, and the instructions that are left.
LEMMA WhileParsing ==
  ASSUME IInv, todo # <<>>
  PROVE  /\ events \in Seq(EventRecord) /\ Len(events) \in Nat
         /\ marks \in Seq(1..Len(events)) /\ Len(marks) \in Nat
         /\ completed \in Nat \ {0} /\ errors \in Nat
         /\ tokens \in Seq(TokenKinds) /\ tokenIndex \in Nat \ {0}
         /\ Instr \in Instructions /\ Tail(todo) \in Seq(Instructions)
         /\ Marked(events, marks) /\ Linked(events)
<1>1. /\ events \in Seq(EventRecord) /\ marks \in Seq(1..Len(events))
      /\ completed \in Nat \ {0} /\ errors \in Nat
      /\ tokens \in Seq(TokenKinds) /\ tokenIndex \in Nat \ {0}
      /\ todo \in Seq(Instructions)
  BY DEF IInv, TypeOK
<1>2. Instr \in Instructions /\ Tail(todo) \in Seq(Instructions)
  BY <1>1 DEF Instr
<1>3. Len(events) \in Nat /\ Len(marks) \in Nat
  BY <1>1
<1>4. QED BY <1>1, <1>2, <1>3 DEF IInv, EventsLinked, Marked, Linked

\* A Marker is opened.
LEMMA OpenMarkerKeeps ==
  ASSUME IInv, UNCHANGED tree, OpenMarker
  PROVE  IInv'
<1>1. /\ phase = "parse" /\ todo # <<>>
      /\ events' = Append(events, NodeStart) /\ marks' = Append(marks, Len(events) + 1)
      /\ todo' = Tail(todo) /\ UNCHANGED Input
      /\ tokenIndex' = tokenIndex /\ completed' = completed /\ errors' = errors
  BY DEF OpenMarker, Runs
<1> USE WhileParsing, <1>1
<1>2. Keeps(events, events') /\ events' \in Seq(EventRecord)
      /\ Linked(events') /\ ~Eats(events', Len(events) + 1)
  BY EventsTyped, EventIsLinked
<1>3. marks' \in Seq(1..Len(events')) /\ Marked(events', marks')
  BY MarkerOpened
<1>4. QED BY <1>2, <1>3, QuietKeeps

\* What an instruction says.
LEMMA InstructionSays ==
  ASSUME NEW in \in Instructions
  PROVE  /\ in.op = "Complete" => in.what \in NodeKinds
         /\ in.op = "Do" => in.what \in Rules /\ in.arg \in Nat
BY DEF Instructions, Rules

\* A Marker is completed.
LEMMA CompleteMarkerKeeps ==
  ASSUME IInv, UNCHANGED tree, CompleteMarker
  PROVE  IInv'
<1> DEFINE mid == WithKind(events, Top(marks), Instr.what)
<1>1. /\ phase = "parse" /\ todo # <<>> /\ Instr.op = "Complete" /\ marks # <<>>
      /\ events' = Append(mid, NodeEnd) /\ marks' = Pop(marks)
      /\ todo' = Tail(todo) /\ UNCHANGED Input
      /\ tokenIndex' = tokenIndex /\ completed' = Top(marks) /\ errors' = errors
  BY DEF CompleteMarker, CompleteAs, Runs, WithKind
<1> USE WhileParsing, <1>1
<1>2. Top(marks) \in 1..Len(events) /\ Top(marks) \in Nat \ {0}
  <2>1. Top(marks) \in 1..Len(events)
    BY PopTyped
  <2>2. QED BY <2>1
<1>3. Instr.what \in NodeKinds
  BY InstructionSays
<1>4. /\ mid \in Seq(EventRecord) /\ Len(mid) = Len(events) /\ Keeps(events, mid)
      /\ Marked(mid, marks) /\ Linked(mid)
  BY <1>2, <1>3, KindIsLinked
<1> HIDE DEF mid
<1>5. /\ events' \in Seq(EventRecord) /\ Keeps(mid, events') /\ Linked(events')
      /\ Len(events') = Len(mid) + 1 /\ ~Eats(events', Len(mid) + 1)
  BY <1>4, EventsTyped, EventIsLinked
<1>6. Keeps(events, events')
  BY <1>4, <1>5 DEF Keeps
<1>7. marks \in Seq(1..Len(mid))
  BY <1>4
<1>8. Pop(marks) \in Seq(1..Len(mid)) /\ Marked(mid, Pop(marks))
  BY <1>4, <1>7, EventsTyped, MarkersStay
<1>9. marks' \in Seq(1..Len(events')) /\ Marked(events', marks')
  BY <1>4, <1>8, EventsTyped, MarkersStay
<1>10. ~Eats(events', Len(events) + 1)
  BY <1>4, <1>5
<1>11. QED BY <1>2, <1>5, <1>6, <1>9, <1>10, QuietKeeps

\* A Marker is undone.
LEMMA UndoMarkerKeeps ==
  ASSUME IInv, UNCHANGED tree, UndoMarker
  PROVE  IInv'
<1>1. /\ phase = "parse" /\ todo # <<>> /\ marks # <<>>
      /\ events' = WithKind(events, Top(marks), "None") /\ marks' = Pop(marks)
      /\ todo' = Tail(todo) /\ UNCHANGED Input
      /\ tokenIndex' = tokenIndex /\ completed' = completed /\ errors' = errors
  BY DEF UndoMarker, Runs, WithKind
<1> USE WhileParsing, <1>1
<1>2. Top(marks) \in Nat
  <2>1. Top(marks) \in 1..Len(events)
    BY PopTyped
  <2>2. QED BY <2>1
<1>3. "None" \in NodeKinds
  BY DEF NodeKinds
<1>4. /\ events' \in Seq(EventRecord) /\ Len(events') = Len(events) /\ Keeps(events, events')
      /\ Marked(events', marks) /\ Linked(events')
  BY <1>2, <1>3, KindIsLinked
<1>5. marks \in Seq(1..Len(events'))
  BY <1>4
<1>6. marks' \in Seq(1..Len(events')) /\ Marked(events', marks')
  BY <1>4, <1>5, EventsTyped, MarkersStay
<1>7. QED BY <1>4, <1>6, QuietKeeps

\* A Marker is undone after it was completed.
LEMMA UndoCompletedKeeps ==
  ASSUME IInv, UNCHANGED tree, UndoCompleted
  PROVE  IInv'
<1>1. /\ phase = "parse" /\ todo # <<>>
      /\ events' = WithKind(events, completed, "None") /\ marks' = marks
      /\ todo' = Tail(todo) /\ UNCHANGED Input
      /\ tokenIndex' = tokenIndex /\ completed' = completed /\ errors' = errors
  BY DEF UndoCompleted, Runs, WithKind
<1> USE WhileParsing, <1>1
<1>2. "None" \in NodeKinds
  BY DEF NodeKinds
<1>3. /\ events' \in Seq(EventRecord) /\ Len(events') = Len(events) /\ Keeps(events, events')
      /\ Marked(events', marks) /\ Linked(events')
  BY <1>2, KindIsLinked
<1>4. marks' \in Seq(1..Len(events')) /\ Marked(events', marks')
  BY <1>3
<1>5. QED BY <1>3, <1>4, QuietKeeps

\* A node that is given a parent keeps what is read and what is marked.
LEMMA PrecedeReadsNothing ==
  ASSUME IInv, PrecedeNode
  PROVE  /\ events' \in Seq(EventRecord) /\ Len(events') = Len(events) + 1
         /\ Keeps(events, events') /\ ~Eats(events', Len(events) + 1) /\ Linked(events')
         /\ marks' \in Seq(1..Len(events')) /\ Marked(events', marks')
<1> DEFINE l   == Len(events) + 1
           mid == IF events[completed].type = "NodeStart"
                  THEN WithParent(events, completed, l) ELSE events
<1>1. /\ phase = "parse" /\ todo # <<>>
      /\ events' = Append(mid, NodeStart) /\ marks' = Append(marks, l)
      /\ todo' = Tail(todo) /\ UNCHANGED Input
      /\ tokenIndex' = tokenIndex /\ completed' = completed /\ errors' = errors
  BY DEF PrecedeNode, PrecedeAs, Runs, WithParent
<1> USE WhileParsing, <1>1
<1>2. l \in Nat
  OBVIOUS
<1>2p. /\ events[completed].type = "NodeStart" => mid = WithParent(events, completed, l)
       /\ events[completed].type # "NodeStart" => mid = events
  OBVIOUS
<1> HIDE DEF mid
<1>3. /\ mid \in Seq(EventRecord) /\ Len(mid) = Len(events)
      /\ \A q \in 1..Len(events) :
           /\ mid[q].type = events[q].type /\ mid[q].index = events[q].index
           /\ \/ mid[q].parent = events[q].parent
              \/ mid[q].parent = l /\ events[q].type = "NodeStart"
  <2>1. CASE events[completed].type = "NodeStart"
    <3>1. mid = WithParent(events, completed, l)
      BY <1>2p, <2>1
    <3>2. /\ mid \in Seq(EventRecord) /\ Len(mid) = Len(events)
          /\ \A q \in 1..Len(events) :
               /\ mid[q].type = events[q].type /\ mid[q].index = events[q].index
               /\ mid[q].parent = IF q = completed THEN l ELSE events[q].parent
      BY <1>2, <3>1, ParentSet, SMTT(30)
    <3>3. ASSUME NEW q \in 1..Len(events)
          PROVE  \/ mid[q].parent = events[q].parent
                 \/ mid[q].parent = l /\ events[q].type = "NodeStart"
      <4>1. CASE q = completed
        BY <2>1, <3>2, <4>1
      <4>2. CASE q # completed
        BY <3>2, <4>2
      <4>3. QED BY <4>1, <4>2
    <3>4. QED BY <3>2, <3>3
  <2>2. CASE events[completed].type # "NodeStart"
    <3>1. mid = events
      BY <1>2p, <2>2
    <3>2. QED BY <3>1
  <2>3. QED BY <2>1, <2>2
<1>4. /\ events' \in Seq(EventRecord) /\ Len(events') = l /\ events'[l] = NodeStart
      /\ \A q \in 1..Len(events) : events'[q] = mid[q]
  BY <1>3, EventsTyped, EventAdded
<1>5. events'[l].type = "NodeStart" /\ events'[l].parent = 0 /\ ~Eats(events', l)
  BY <1>4, EventsTyped DEF Eats
<1>6. Keeps(events, events')
  BY <1>3, <1>4 DEF Keeps
<1>7. Linked(events')
  <2> SUFFICES ASSUME NEW q \in 1..l, events'[q].parent # 0
               PROVE  /\ events'[q].parent \in (q + 1)..l
                      /\ events'[events'[q].parent].type = "NodeStart"
    BY <1>4 DEF Linked
  <2>1. q \in 1..Len(events) /\ events'[q].parent = mid[q].parent
    BY <1>4, <1>5
  <2>2. CASE mid[q].parent = l
    <3>1. events'[q].parent = l /\ l \in (q + 1)..l
      BY <2>1, <2>2
    <3>2. QED BY <1>5, <3>1
  <2>3. CASE mid[q].parent = events[q].parent
    <3>1. /\ events[q].parent \in (q + 1)..Len(events)
          /\ events[events[q].parent].type = "NodeStart"
      BY <2>1, <2>3 DEF Linked
    <3>2. events[q].parent \in 1..Len(events)
      BY <2>1, <3>1, LaterIsThere
    <3>3. events'[events[q].parent].type = "NodeStart"
      BY <1>3, <1>4, <3>1, <3>2
    <3>4. QED BY <2>1, <2>3, <3>1, <3>2, <3>3, SMTT(30)
  <2>4. QED BY <1>3, <2>1, <2>2, <2>3
<1>8. marks \in Seq(1..Len(mid)) /\ Marked(mid, marks)
  <2>1. \A k \in 1..Len(marks) : marks[k] \in 1..Len(events)
    BY SMTT(30)
  <2>2. QED BY <1>3, <2>1 DEF Marked
<1>9. marks' \in Seq(1..Len(events')) /\ Marked(events', marks')
  BY <1>3, <1>8, MarkerOpened
<1>10. QED BY <1>4, <1>5, <1>6, <1>7, <1>9

\* A node is given a parent that starts after it.
LEMMA PrecedeNodeKeeps ==
  ASSUME IInv, UNCHANGED tree, PrecedeNode
  PROVE  IInv'
<1>1. /\ phase = "parse" /\ todo # <<>> /\ todo' = Tail(todo) /\ UNCHANGED Input
      /\ tokenIndex' = tokenIndex /\ completed' = completed /\ errors' = errors
  BY DEF PrecedeNode, PrecedeAs, Runs
<1>2. QED BY <1>1, WhileParsing, PrecedeReadsNothing, QuietKeeps

\* Where a function looks at a token, it is there or the file is at its end.
LEMMA LookingFinds ==
  ASSUME IInv, todo # <<>>, Instr.op \in Looking, Ready
  PROVE  Position \in Nat \ {0} /\ (ended \/ Position <= Len(tokens))
BY WhileParsing, SkipCommentTyped DEF Ready, Position

\* A token is read.
LEMMA AdvanceKeeps ==
  ASSUME IInv, UNCHANGED tree, UNCHANGED <<Input, marks, completed>>, phase = "parse",
         todo # <<>>, todo' = Tail(todo), Instr.op \in Looking, Ready, Advance
  PROVE  IInv'
<1>1. /\ events' = Append(events, EatToken(Position)) /\ tokenIndex' = Position + 1
      /\ UNCHANGED Input /\ marks' = marks /\ completed' = completed /\ errors' = errors
  BY DEF Advance
<1>2. Position \in Nat \ {0} /\ (ended \/ Position <= Len(tokens))
  BY LookingFinds
<1> USE WhileParsing, <1>1, <1>2
<1>3. Position = SkipComment(tokens, tokenIndex)
  BY DEF Position
<1>4. InOrder(events, tokens) /\ ReadUpTo(events, tokenIndex) /\ Known(events, tokens, ended)
  BY DEF IInv, ReadInOrder
<1>5. /\ InOrder(events', tokens) /\ ReadUpTo(events', tokenIndex')
      /\ Known(events', tokens, ended)
  BY <1>3, <1>4, InOrderEaten
<1>6. /\ events' \in Seq(EventRecord) /\ Linked(events')
      /\ marks' \in Seq(1..Len(events')) /\ Marked(events', marks')
  <2>1. EatToken(Position) \in EventRecord /\ EatToken(Position).parent = 0
    BY EventsTyped
  <2>2. events' \in Seq(EventRecord) /\ Linked(events')
    BY <2>1, EventIsLinked
  <2>3. marks' \in Seq(1..Len(events')) /\ Marked(events', marks')
    BY <2>1, MarkersStay
  <2>4. QED BY <2>2, <2>3
<1>7. tokenIndex' \in Nat \ {0}
  OBVIOUS
<1>8. QED BY <1>5, <1>6, <1>7, StepKeeps

\* An error is recorded.
LEMMA ErrorKeeps ==
  ASSUME IInv, UNCHANGED tree, UNCHANGED <<Input, marks, completed>>, phase = "parse",
         todo # <<>>, todo' = Tail(todo), LuaExpectedError
  PROVE  IInv'
<1>1. /\ events' = Append(events, ErrorEvent) /\ tokenIndex' = tokenIndex
      /\ UNCHANGED Input /\ marks' = marks /\ completed' = completed /\ errors' = errors + 1
  BY DEF LuaExpectedError
<1> USE WhileParsing, <1>1
<1>2. /\ events' \in Seq(EventRecord) /\ Linked(events') /\ Keeps(events, events')
      /\ ~Eats(events', Len(events) + 1)
  BY EventsTyped, EventIsLinked
<1>3. marks' \in Seq(1..Len(events')) /\ Marked(events', marks')
  BY EventsTyped, MarkersStay
<1>4. QED BY <1>2, <1>3, QuietKeeps

\* The events stay.
LEMMA SilentKeeps ==
  ASSUME IInv, UNCHANGED tree, UNCHANGED <<Input, tokenIndex, events, completed>>,
         phase = "parse", todo # <<>>, todo' \in Seq(Instructions), errors' \in Nat,
         marks' = marks \/ marks' = <<>>
  PROVE  IInv'
<1>1. UNCHANGED Input /\ tokenIndex' = tokenIndex /\ events' = events /\ completed' = completed
  OBVIOUS
<1> USE WhileParsing, <1>1
<1>2. Keeps(events, events')
  BY DEF Keeps
<1>3. marks' \in Seq(1..Len(events')) /\ Marked(events', marks')
  <2>1. CASE marks' = marks
    BY <2>1
  <2>2. CASE marks' = <<>>
    BY <2>2 DEF Marked
  <2>3. QED BY <2>1, <2>2
<1>4. QED BY <1>2, <1>3, QuietKeeps

\* Another token is found, or that there is none.
LEMMA LexKeeps ==
  ASSUME IInv, UNCHANGED tree, Lex
  PROVE  IInv'
<1>1. /\ phase = "parse" /\ todo # <<>> /\ ~Ready /\ phase' = phase
      /\ source' = source /\ tokenIndex' = tokenIndex /\ events' = events /\ todo' = todo
      /\ marks' = marks /\ completed' = completed /\ errors' = errors
      /\ next' = next /\ parents' = parents /\ parentPos' = parentPos /\ eaten' = eaten
  BY DEF Lex, tree
<1> USE WhileParsing, <1>1
<1>2. InOrder(events, tokens) /\ ReadUpTo(events, tokenIndex) /\ Known(events, tokens, ended)
  BY DEF IInv, ReadInOrder
<1>3. todo' \in Seq(Instructions) /\ ended \in BOOLEAN
  BY DEF IInv, TypeOK
<1>4. /\ tokens' \in Seq(TokenKinds) /\ ended' \in BOOLEAN
      /\ InOrder(events', tokens') /\ Known(events', tokens', ended')
  <2>1. CASE ended' = TRUE /\ tokens' = tokens
    <3>1. Known(events, tokens, TRUE)
      BY DEF Known
    <3>2. QED BY <1>2, <2>1, <3>1
  <2>2. CASE /\ Len(tokens) < Len(source) /\ ended' = ended
             /\ \E k \in source[Len(tokens) + 1] : tokens' = Append(tokens, k)
    <3>1. PICK k \in source[Len(tokens) + 1] : tokens' = Append(tokens, k)
      BY <2>2
    <3>2. source \in Seq(SUBSET TokenKinds)
      BY SourcesAssumption DEF IInv
    <3>3. Len(tokens) + 1 \in 1..Len(source)
      BY <2>2, <3>2
    <3>4. k \in TokenKinds
      BY <3>2, <3>3
    <3>5. ended = FALSE
      <4>1. ~ended
        BY DEF Ready
      <4>2. QED BY <1>3, <4>1
    <3>6. Known(events, tokens, FALSE)
      BY <1>2, <3>5
    <3>7. InOrder(events, tokens') /\ Known(events, tokens', FALSE)
      BY <1>2, <3>1, <3>4, <3>6, InOrderLonger
    <3>8. tokens' \in Seq(TokenKinds)
      BY <3>1, <3>4
    <3>9. QED BY <2>2, <3>5, <3>7, <3>8
  <2>3. QED BY <2>1, <2>2 DEF Lex
<1>5. TypeOK'
  <2>1. marks' \in Seq(1..Len(events')) /\ phase' \in {"parse", "build"}
    OBVIOUS
  <2>2. TypeOK
    BY DEF IInv
  <2>3. QED BY <1>3, <1>4, <2>1, <2>2, ParserTyped
<1>6. Waiting'
  BY DEF IInv, Waiting
<1>7. EventsLinked'
  BY <1>6 DEF Waiting, EventsLinked, Marked, Linked
<1>8. ReadInOrder'
  BY <1>2, <1>4 DEF ReadInOrder
<1>9. TreeFollows'
  BY DEF TreeFollows
<1>10. source' \in Sources
  BY DEF IInv
<1>11. QED BY <1>5, <1>6, <1>7, <1>8, <1>9, <1>10, Zenon DEF IInv

\* The tree is begun.
LEMMA ParsedKeeps ==
  ASSUME IInv, UNCHANGED tree, Parsed
  PROVE  IInv'
<1>1. /\ phase = "parse" /\ phase' = "build"
      /\ source' = source /\ tokens' = tokens /\ ended' = ended
      /\ tokenIndex' = tokenIndex /\ events' = events /\ todo' = todo
      /\ marks' = marks /\ completed' = completed /\ errors' \in {errors, errors + 1}
      /\ next' = next /\ parents' = parents /\ parentPos' = parentPos /\ eaten' = eaten
  BY DEF Parsed, tree
<1> USE <1>1
<1>2. TypeOK'
  <2>1. TypeOK
    BY DEF IInv
  <2>2. /\ tokens' \in Seq(TokenKinds) /\ ended' \in BOOLEAN /\ tokenIndex' \in Nat \ {0}
        /\ events' \in Seq(EventRecord) /\ todo' \in Seq(Instructions)
        /\ marks' \in Seq(1..Len(events')) /\ completed' \in Nat \ {0}
    BY <2>1, Zenon DEF TypeOK
  <2>3. errors' \in Nat
    BY <2>1 DEF TypeOK
  <2>4. phase' \in {"parse", "build"}
    OBVIOUS
  <2>5. QED BY <2>1, <2>2, <2>3, <2>4, ParserTyped
<1>3. next = 1 /\ parentPos = 0 /\ eaten = 0
  BY DEF IInv, Waiting
<1>4. Waiting'
  BY <1>3 DEF Waiting
<1>5. EventsLinked'
  BY <1>3 DEF IInv, EventsLinked
<1>6. ReadInOrder'
  BY DEF IInv, ReadInOrder
<1>7. TreeFollows'
  <2>1. Follows(events, tokens, 0, 0)
    BY DEF IInv, ReadInOrder, InOrder
  <2>2. next' - 1 = 0 /\ eaten' = 0
    BY <1>3
  <2>3. QED BY <2>1, <2>2 DEF TreeFollows
<1>8. source' \in Sources
  BY DEF IInv
<1>9. QED BY <1>2, <1>4, <1>5, <1>6, <1>7, <1>8, Zenon DEF IInv

\* Every step of the parser.
LEMMA ParserKeeps ==
  ASSUME IInv, Parse
  PROVE  IInv'
<1>1. UNCHANGED tree
  BY DEF Parse
<1> USE <1>1
<1>2. CASE Lex
  BY <1>2, LexKeeps
<1>3. CASE OpenMarker
  BY <1>3, OpenMarkerKeeps
<1>4. CASE CompleteMarker
  BY <1>4, CompleteMarkerKeeps
<1>5. CASE UndoMarker
  BY <1>5, UndoMarkerKeeps
<1>6. CASE UndoCompleted
  BY <1>6, UndoCompletedKeeps
<1>7. CASE PrecedeNode
  BY <1>7, PrecedeNodeKeeps
<1>8. CASE EatCurrent
  BY <1>8, AdvanceKeeps DEF EatCurrent, Runs, Looking
<1>9. CASE CheckAndNext
  BY <1>9, AdvanceKeeps, ErrorKeeps DEF CheckAndNext, Runs, Looking
<1>10. CASE TestAndNext
  <2>1. CASE Advance
    BY <1>10, <2>1, AdvanceKeeps DEF TestAndNext, Runs, Looking
  <2>2. CASE UNCHANGED <<events, tokenIndex, errors>>
    <3>1. todo # <<>> /\ todo' = Tail(todo) /\ errors' = errors
      BY <1>10, <2>2 DEF TestAndNext, Runs
    <3>2. todo' \in Seq(Instructions) /\ errors' \in Nat
      BY <3>1, WhileParsing
    <3>3. QED BY <1>10, <2>2, <3>1, <3>2, SilentKeeps DEF TestAndNext, Runs
  <2>3. QED BY <1>10, <2>1, <2>2 DEF TestAndNext
<1>11. CASE ExpectError
  BY <1>11, ErrorKeeps DEF ExpectError, Runs
<1>12. CASE Call
  <2>1. /\ todo # <<>> /\ Instr.op = "Do" /\ errors' = errors
        /\ todo' = Body(Instr.what, Instr.arg, Current, LookAhead) \o Tail(todo)
    BY <1>12 DEF Call, Runs
  <2>2. Instr.what \in Rules /\ Instr.arg \in Nat /\ Tail(todo) \in Program
    BY <2>1, WhileParsing, InstructionSays DEF Program
  <2>3. todo' \in Seq(Instructions)
    BY <2>1, <2>2, BodyTyped, ProgramsCompose DEF Program
  <2>4. errors' \in Nat
    BY <2>1, WhileParsing
  <2>5. QED BY <1>12, <2>1, <2>3, <2>4, SilentKeeps DEF Call, Runs
<1>13. CASE Throw
  <2>1. todo # <<>> /\ todo' = <<>> /\ marks' = <<>> /\ errors' = errors + 1
    BY <1>13 DEF Throw
  <2>2. todo' \in Seq(Instructions) /\ errors' \in Nat
    BY <2>1, WhileParsing
  <2>3. QED BY <1>13, <2>1, <2>2, SilentKeeps DEF Throw
<1>14. CASE Parsed
  BY <1>14, ParsedKeeps
<1>15. QED
  BY <1>2, <1>3, <1>4, <1>5, <1>6, <1>7, <1>8, <1>9, <1>10, <1>11, <1>12, <1>13, <1>14
  DEF Parse, ParserNext

-----------------------------------------------------------------------------
(* Steps that build the tree. *)

\* The types that the steps of the tree use.
LEMMA WhileBuilding ==
  ASSUME IInv
  PROVE  /\ events \in Seq(EventRecord) /\ Len(events) \in Nat /\ Linked(events)
         /\ tokens \in Seq(TokenKinds) /\ Len(tokens) \in Nat
         /\ next \in Nat \ {0} /\ next - 1 \in Nat /\ eaten \in Nat
         /\ parents \in Seq(NodeKinds) /\ parentPos \in Nat
         /\ entries \in Seq(EntryRecord) /\ Len(entries) \in Nat
         /\ nodeStack \in Seq(0..Len(entries))
         /\ InOrder(events, tokens)
         /\ parentPos # 0 => parents # <<>> /\ parentPos \in next..Len(events)
         /\ phase = "build" => Follows(events, tokens, eaten, next - 1)
<1>1. /\ events \in Seq(EventRecord) /\ tokens \in Seq(TokenKinds)
      /\ next \in Nat \ {0} /\ eaten \in Nat /\ parents \in Seq(NodeKinds)
      /\ parentPos \in Nat /\ entries \in Seq(EntryRecord)
      /\ nodeStack \in Seq(0..Len(entries))
  BY DEF IInv, TypeOK
<1>2. Linked(events) /\ (parentPos # 0 => parentPos \in next..Len(events))
  BY DEF IInv, EventsLinked, Linked
<1>3. parentPos # 0 => parents # <<>>
  BY DEF IInv, Waiting
<1>4. /\ InOrder(events, tokens)
      /\ phase = "build" => Follows(events, tokens, eaten, next - 1)
  BY DEF IInv, ReadInOrder, TreeFollows
<1>5. Len(events) \in Nat /\ Len(tokens) \in Nat /\ Len(entries) \in Nat /\ next - 1 \in Nat
  BY <1>1
<1>6. QED BY <1>1, <1>2, <1>3, <1>4, <1>5

\* What the steps that leave the events alone have in common.
LEMMA BuildKeeps ==
  ASSUME IInv, phase = "build", UNCHANGED parser,
         next' \in Nat \ {0}, parents' \in Seq(NodeKinds), parentPos' \in Nat,
         entries' \in Seq(EntryRecord), nodeStack' \in Seq(0..Len(entries')), eaten' \in Nat,
         parentPos' # 0 =>
           parents' # <<>> /\ parentPos' \in next'..Len(events) /\ phase' = "build",
         \/ phase' = "build" /\ Follows(events, tokens, eaten', next' - 1)
         \/ phase' = "done"
  PROVE  IInv'
<1>1. /\ source' = source /\ tokens' = tokens /\ ended' = ended /\ tokenIndex' = tokenIndex
      /\ events' = events /\ todo' = todo /\ marks' = marks /\ completed' = completed
      /\ errors' = errors
  BY DEF parser
<1> USE <1>1
<1>2. TypeOK'
  <2>1. /\ tokens' \in Seq(TokenKinds) /\ ended' \in BOOLEAN /\ tokenIndex' \in Nat \ {0}
        /\ events' \in Seq(EventRecord) /\ todo' \in Seq(Instructions)
        /\ marks' \in Seq(1..Len(events')) /\ completed' \in Nat \ {0} /\ errors' \in Nat
    BY Zenon DEF IInv, TypeOK
  <2>2. phase' \in {"parse", "build", "done"}
    OBVIOUS
  <2>3. QED BY <2>1, <2>2, Zenon DEF TypeOK
<1>3. EventsLinked'
  BY DEF IInv, EventsLinked
<1>4. Waiting'
  BY DEF Waiting
<1>5. ReadInOrder'
  BY DEF IInv, ReadInOrder
<1>6. TreeFollows'
  BY DEF TreeFollows
<1>7. source' \in Sources
  BY DEF IInv
<1>8. QED BY <1>2, <1>3, <1>4, <1>5, <1>6, <1>7, Zenon DEF IInv

\* A node is about to start.
LEMMA ReplayStartKeeps ==
  ASSUME IInv, ReplayStart
  PROVE  IInv'
<1>1. /\ phase = "build" /\ phase' = phase /\ UNCHANGED parser
      /\ parents = <<>> /\ next <= Len(events) /\ events[next].type = "NodeStart"
      /\ next' = next + 1 /\ entries' = entries /\ nodeStack' = nodeStack /\ eaten' = eaten
      /\ \/ parents' = parents /\ parentPos' = parentPos
         \/ parents' = <<events[next].kind>> /\ parentPos' = events[next].parent
  BY DEF ReplayStart, Replaying
<1> USE WhileBuilding, <1>1
<1>2. parentPos = 0 /\ next \in 1..Len(events)
  OBVIOUS
<1>3. events[next] \in EventRecord
  BY <1>2
<1>4. events[next].kind \in NodeKinds /\ events[next].parent \in Nat
  BY <1>3 DEF EventRecord
<1>5. events[next].parent # 0 => events[next].parent \in (next + 1)..Len(events)
  BY <1>2 DEF Linked
<1>6. /\ parents' \in Seq(NodeKinds) /\ parentPos' \in Nat
      /\ parentPos' # 0 => parents' # <<>> /\ parentPos' \in (next + 1)..Len(events)
  <2>1. CASE parents' = parents /\ parentPos' = parentPos
    BY <1>2, <2>1
  <2>2. CASE parents' = <<events[next].kind>> /\ parentPos' = events[next].parent
    <3>1. <<events[next].kind>> \in Seq(NodeKinds) /\ <<events[next].kind>> # <<>>
      BY <1>4
    <3>2. QED BY <1>4, <1>5, <2>2, <3>1
  <2>3. QED BY <2>1, <2>2
<1>7. parentPos' # 0 => parents' # <<>> /\ parentPos' \in next'..Len(events)
  BY <1>6
<1>8. Follows(events, tokens, eaten, next)
  <2>1. ~Eats(events, (next - 1) + 1)
    BY DEF Eats
  <2>2. Follows(events, tokens, eaten, (next - 1) + 1)
    BY <2>1, FollowsPassed
  <2>3. QED BY <2>2
<1>9. next' - 1 = next /\ next' \in Nat \ {0}
  OBVIOUS
<1>10. QED BY <1>6, <1>7, <1>8, <1>9, BuildKeeps

\* One more parent is found; its kind is taken from its event.
LEMMA ClimbKeeps ==
  ASSUME IInv, Climb
  PROVE  IInv'
<1>1. /\ phase = "build" /\ phase' = phase /\ parentPos > 0
      /\ source' = source /\ tokens' = tokens /\ ended' = ended /\ tokenIndex' = tokenIndex
      /\ todo' = todo /\ marks' = marks /\ completed' = completed /\ errors' = errors
      /\ next' = next /\ entries' = entries /\ nodeStack' = nodeStack /\ eaten' = eaten
      /\ \/ /\ parents' = Append(parents, events[parentPos].kind)
            /\ parentPos' = events[parentPos].parent
            /\ events' = WithKind(events, parentPos, "None")
         \/ parentPos' = 0 /\ parents' = parents /\ events' = events
  BY DEF Climb, WithKind
<1> USE WhileBuilding, <1>1
<1>2. parents # <<>> /\ parentPos \in next..Len(events) /\ parentPos \in 1..Len(events)
  OBVIOUS
<1>3. events[parentPos] \in EventRecord
  BY <1>2
<1>4. events[parentPos].kind \in NodeKinds /\ events[parentPos].parent \in Nat
  BY <1>3 DEF EventRecord
<1>5. marks \in Seq(1..Len(events)) /\ Marked(events, marks)
  BY DEF IInv, TypeOK, EventsLinked, Marked
<1>6. /\ events' \in Seq(EventRecord) /\ Len(events') = Len(events) /\ Keeps(events, events')
      /\ Marked(events', marks) /\ Linked(events')
  <2>1. CASE events' = events
    BY <1>5, <2>1 DEF Keeps
  <2>2. CASE events' = WithKind(events, parentPos, "None")
    <3>1. "None" \in NodeKinds
      BY DEF NodeKinds
    <3>2. QED BY <1>5, <2>2, <3>1, KindIsLinked
  <2>3. QED BY <2>1, <2>2
<1>7. parents' \in Seq(NodeKinds) /\ parents' # <<>> /\ parentPos' \in Nat
  <2>1. CASE parents' = parents /\ parentPos' = 0
    BY <1>2, <2>1
  <2>2. CASE /\ parents' = Append(parents, events[parentPos].kind)
             /\ parentPos' = events[parentPos].parent
    BY <1>4, <2>2, AppendTyped
  <2>3. QED BY <2>1, <2>2
<1>8. parentPos' # 0 => parentPos' \in next..Len(events)
  <2>1. events[parentPos].parent # 0
          => events[parentPos].parent \in (parentPos + 1)..Len(events)
    BY <1>2 DEF Linked
  <2>2. QED BY <1>2, <2>1
<1>9. TypeOK'
  <2>1. /\ tokens' \in Seq(TokenKinds) /\ ended' \in BOOLEAN /\ tokenIndex' \in Nat \ {0}
        /\ todo' \in Seq(Instructions) /\ completed' \in Nat \ {0} /\ errors' \in Nat
        /\ phase' \in {"parse", "build", "done"}
        /\ next' \in Nat \ {0} /\ entries' \in Seq(EntryRecord)
        /\ nodeStack' \in Seq(0..Len(entries')) /\ eaten' \in Nat
    BY Zenon DEF IInv, TypeOK
  <2>2. marks' \in Seq(1..Len(events'))
    BY <1>5, <1>6
  <2>3. QED BY <1>6, <1>7, <2>1, <2>2, Zenon DEF TypeOK
<1>10. EventsLinked'
  BY <1>6, <1>8 DEF EventsLinked, Marked, Linked
<1>11. Waiting'
  BY <1>7 DEF Waiting
<1>12. InOrder(events', tokens) /\ Known(events', tokens, ended)
  <2>1. Known(events, tokens, ended)
    BY DEF IInv, ReadInOrder
  <2>2. QED BY <1>6, <2>1, InOrderStays
<1>13. ReadInOrder'
  BY <1>12 DEF ReadInOrder
<1>14. TreeFollows'
  BY <1>6, FollowsKept DEF TreeFollows
<1>15. source' \in Sources
  BY DEF IInv
<1>16. QED BY <1>9, <1>10, <1>11, <1>13, <1>14, <1>15, Zenon DEF IInv

\* What is added to the tree are entries, and as many as tokens are taken.
LEMMA TakenTyped ==
  ASSUME IInv, NEW n \in Int
  PROVE  /\ OpenNode \in Nat \union {Unlinked}
         /\ Taken(n) \in Seq(EntryRecord)
         /\ Len(Taken(n)) = IF n >= eaten THEN n - eaten ELSE 0
<1> USE WhileBuilding
<1>1. OpenNode \in Nat \union {Unlinked}
  <2>1. CASE nodeStack = <<>>
    BY <2>1 DEF OpenNode
  <2>2. CASE nodeStack # <<>>
    <3>1. Top(nodeStack) \in 0..Len(entries)
      BY <2>2, PopTyped
    <3>2. QED BY <2>2, <3>1 DEF OpenNode
  <2>3. QED BY <2>1, <2>2
<1>2. \A k \in Nat : TokenEntry(k) \in EntryRecord
  BY <1>1 DEF TokenEntry, EntryRecord
<1>2p. \A m \in Nat : \A f \in [1..m -> EntryRecord] : f \in Seq(EntryRecord) /\ Len(f) = m
  OBVIOUS
<1>3. CASE n >= eaten
  <2>1. n - eaten \in Nat
    BY <1>3
  <2>2. \A k \in 1..(n - eaten) : TokenEntry(eaten + k) \in EntryRecord
    BY <1>2
  <2>3. Taken(n) \in [1..(n - eaten) -> EntryRecord]
    BY <2>2 DEF Taken
  <2>4. Taken(n) \in Seq(EntryRecord) /\ Len(Taken(n)) = n - eaten
    BY <1>2p, <2>1, <2>3, Zenon
  <2>5. QED BY <1>1, <1>3, <2>4
<1>4. CASE ~(n >= eaten)
  <2>1. 1..(n - eaten) = 1..0
    BY <1>4
  <2>2. Taken(n) \in [1..0 -> EntryRecord]
    BY <2>1 DEF Taken
  <2>3. Taken(n) \in Seq(EntryRecord) /\ Len(Taken(n)) = 0
    BY <1>2p, <2>2
  <2>4. QED BY <1>1, <1>4, <2>3
<1>5. QED BY <1>3, <1>4

\* The comments before the next token are skipped; where the tree is then, it comes to
\* the same token.
LEMMA CommentedSkips ==
  ASSUME IInv
  PROVE  /\ Commented \in Nat
         /\ Commented + 1 = SkipComment(tokens, eaten + 1)
         /\ SkipComment(tokens, Commented + 1) = SkipComment(tokens, eaten + 1)
<1> USE WhileBuilding
<1>1. eaten + 1 \in Nat /\ SkipComment(tokens, eaten + 1) \in Nat \ {0}
  <2>1. tokens \in Seq(TokenKinds) /\ eaten + 1 \in Nat
    OBVIOUS
  <2>2. QED BY <2>1, SkipCommentTyped
<1>2. Commented \in Nat /\ Commented + 1 = SkipComment(tokens, eaten + 1)
  BY <1>1 DEF Commented
<1>3. QED BY <1>1, <1>2, SkipTwice

\* Longer sequences of entries are entries, and the open nodes are among them.
LEMMA EntriesGrow ==
  ASSUME IInv, NEW more \in Seq(EntryRecord)
  PROVE  /\ entries \o more \in Seq(EntryRecord)
         /\ Len(entries \o more) = Len(entries) + Len(more)
         /\ nodeStack \in Seq(0..Len(entries \o more))
         /\ nodeStack # <<>> => Pop(nodeStack) \in Seq(0..Len(entries \o more))
<1> USE WhileBuilding
<1>1. /\ entries \o more \in Seq(EntryRecord)
      /\ Len(entries \o more) = Len(entries) + Len(more)
  OBVIOUS
<1>2. 0..Len(entries) \subseteq 0..Len(entries \o more)
  <2>1. Len(more) \in Nat
    OBVIOUS
  <2>2. QED BY <1>1, <2>1
<1>3. nodeStack \in Seq(0..Len(entries \o more))
  BY <1>2, SeqWider
<1>4. QED BY <1>1, <1>3, PopTyped

\* A node starts, after the comments before it.
LEMMA StartNodeKeeps ==
  ASSUME IInv, StartNode
  PROVE  IInv'
<1> DEFINE kind     == Top(parents)
           comments == IF IsEatAllComment(kind) THEN <<>> ELSE Taken(Commented)
           l        == Len(entries) + Len(comments) + 1
<1>1. /\ phase = "build" /\ phase' = phase /\ UNCHANGED parser /\ parents # <<>>
      /\ parentPos = 0 /\ parentPos' = 0 /\ next' = next
      /\ entries' = entries \o comments \o <<NodeEntry(kind)>>
      /\ eaten' = eaten + Len(comments)
      /\ nodeStack' = Append(nodeStack, l)
      /\ parents' = Pop(parents)
  BY DEF StartNode, StartAfter
<1> USE WhileBuilding, <1>1
<1>2. kind \in NodeKinds /\ parents' \in Seq(NodeKinds)
  BY PopTyped
<1>3. /\ Commented \in Nat
      /\ SkipComment(tokens, Commented + 1) = SkipComment(tokens, eaten + 1)
  BY CommentedSkips
<1>4. /\ Taken(Commented) \in Seq(EntryRecord)
      /\ Len(Taken(Commented)) = IF Commented >= eaten THEN Commented - eaten ELSE 0
      /\ OpenNode \in Nat \union {Unlinked}
  <2>1. Commented \in Int
    BY <1>3
  <2>2. QED BY <2>1, TakenTyped
<1>5. comments \in {<<>>, Taken(Commented)}
  OBVIOUS
<1> HIDE DEF comments
<1>6. /\ comments \in Seq(EntryRecord) /\ Len(comments) \in Nat
      /\ eaten + Len(comments) \in {eaten, Commented}
  <2>1. CASE comments = <<>>
    <3>1. <<>> \in Seq(EntryRecord) /\ Len(<<>>) = 0
      OBVIOUS
    <3>2. QED BY <2>1, <3>1
  <2>2. CASE comments = Taken(Commented)
    <3>1. CASE Commented >= eaten
      <4>1. Len(comments) = Commented - eaten
        BY <1>4, <2>2, <3>1
      <4>2. QED BY <1>3, <1>4, <2>2, <3>1, <4>1, SMTT(30)
    <3>2. CASE ~(Commented >= eaten)
      <4>1. Len(comments) = 0
        BY <1>4, <2>2, <3>2
      <4>2. QED BY <1>4, <2>2, <4>1
    <3>3. QED BY <3>1, <3>2
  <2>3. QED BY <1>5, <2>1, <2>2
<1>7. NodeEntry(kind) \in EntryRecord
  BY <1>2, <1>4 DEF NodeEntry, EntryRecord
<1>8. /\ entries' \in Seq(EntryRecord) /\ Len(entries') = l
      /\ nodeStack \in Seq(0..Len(entries'))
  <2> DEFINE s == entries \o comments
  <2>1. /\ s \in Seq(EntryRecord) /\ Len(s) = Len(entries) + Len(comments)
        /\ nodeStack \in Seq(0..Len(s))
    BY <1>6, EntriesGrow
  <2> HIDE DEF s
  <2>2. s \o <<NodeEntry(kind)>> \in Seq(EntryRecord)
        /\ Len(s \o <<NodeEntry(kind)>>) = Len(s) + 1
    BY <1>7, <2>1, OneMore
  <2>3. entries' = s \o <<NodeEntry(kind)>>
    BY DEF s
  <2>4. 0..Len(s) \subseteq 0..Len(entries')
    BY <1>6, <2>1, <2>2, <2>3, SMTT(30)
  <2>5. QED BY <2>1, <2>2, <2>3, <2>4, SeqWider
<1>9. nodeStack' \in Seq(0..Len(entries'))
  <2>1. l \in 0..Len(entries')
    BY <1>6, <1>8
  <2>2. QED BY <1>8, <2>1, AppendTyped
<1>10. Follows(events, tokens, eaten', next' - 1)
  <2>1. CASE eaten' = eaten
    BY <2>1
  <2>2. CASE eaten' = Commented
    BY <1>3, <2>2, FollowsAlso
  <2>3. QED BY <1>6, <2>1, <2>2
<1>11. eaten' \in Nat
  BY <1>6
<1>12. QED BY <1>2, <1>8, <1>9, <1>10, <1>11, BuildKeeps

\* Events that read no token go by.
LEMMA NextFollows ==
  ASSUME IInv, phase = "build", events[next].type # "EatToken"
  PROVE  Follows(events, tokens, eaten, next)
<1> USE WhileBuilding
<1>1. ~Eats(events, (next - 1) + 1)
  BY DEF Eats
<1>2. Follows(events, tokens, eaten, (next - 1) + 1)
  BY <1>1, FollowsPassed
<1>3. QED BY <1>2

\* A token is taken; it is the one that the event has read.
LEMMA ReplayEatKeeps ==
  ASSUME IInv, ReplayEat
  PROVE  IInv'
<1>1. /\ phase = "build" /\ phase' = phase /\ UNCHANGED parser /\ parents = <<>>
      /\ next <= Len(events) /\ events[next].type = "EatToken" /\ next' = next + 1
      /\ entries' = entries \o Taken(Inlined(Commented + 1))
      /\ eaten' = Inlined(Commented + 1)
      /\ parents' = parents /\ parentPos' = parentPos /\ nodeStack' = nodeStack
  BY DEF ReplayEat, Replaying
<1> USE WhileBuilding, <1>1
<1>2. next \in 1..Len(events) /\ Eats(events, next)
  BY DEF Eats
<1>3. events[next].index = SkipComment(tokens, eaten + 1)
  <2>1. /\ next \in ((next - 1) + 1)..Len(events)
        /\ \A r \in ((next - 1) + 1)..(next - 1) : ~Eats(events, r)
    BY <1>2
  <2>2. QED BY <1>2, <2>1 DEF Follows
<1>4. Commented \in Nat /\ Commented + 1 = events[next].index
  BY <1>3, CommentedSkips
<1>5. Follows(events, tokens, events[next].index, next)
  BY <1>2 DEF InOrder
<1>6. /\ Inlined(Commented + 1) \in Nat
      /\ SkipComment(tokens, Inlined(Commented + 1) + 1)
           = SkipComment(tokens, events[next].index + 1)
  <2>1. Commented + 1 \in Nat /\ tokens \in Seq(TokenKinds)
    BY <1>4
  <2>2. QED BY <1>4, <2>1, InlinedSkips
<1>7. Follows(events, tokens, eaten', next)
  BY <1>5, <1>6, FollowsAlso
<1>8. Taken(Inlined(Commented + 1)) \in Seq(EntryRecord)
  BY <1>6, TakenTyped
<1>9. entries' \in Seq(EntryRecord) /\ nodeStack' \in Seq(0..Len(entries'))
  BY <1>8, EntriesGrow
<1>10. next' - 1 = next /\ next' \in Nat \ {0} /\ eaten' \in Nat /\ parentPos' = 0
  BY <1>6, SMTT(30)
<1>11. QED BY <1>7, <1>9, <1>10, BuildKeeps

\* The innermost node ends, with the comments that are its own.
LEMMA FinishNodeKeeps ==
  ASSUME IInv, FinishNode
  PROVE  /\ entries' \in Seq(EntryRecord) /\ nodeStack' \in Seq(0..Len(entries'))
         /\ eaten' \in Nat
         /\ SkipComment(tokens, eaten' + 1) = SkipComment(tokens, eaten + 1)
<1> USE WhileBuilding
<1>1. CASE nodeStack = <<>>
  <2>1. entries' = entries /\ eaten' = eaten /\ nodeStack' = nodeStack
    BY <1>1 DEF FinishNode
  <2>2. QED BY <2>1
<1>2. CASE nodeStack # <<>>
  <2>1. PICK upTo \in {Commented, Inlined(eaten)} :
          entries' = entries \o Taken(upTo) /\ eaten' = upTo /\ nodeStack' = Pop(nodeStack)
    BY <1>2 DEF FinishNode
  <2>2. upTo \in Nat /\ SkipComment(tokens, upTo + 1) = SkipComment(tokens, eaten + 1)
    BY CommentedSkips, InlinedSkips
  <2>3. Taken(upTo) \in Seq(EntryRecord)
    BY <2>2, TakenTyped
  <2>4. entries' \in Seq(EntryRecord) /\ nodeStack' \in Seq(0..Len(entries'))
    BY <1>2, <2>1, <2>3, EntriesGrow
  <2>5. QED BY <2>1, <2>2, <2>4
<1>3. QED BY <1>1, <1>2

\* A node ends.
LEMMA ReplayEndKeeps ==
  ASSUME IInv, ReplayEnd
  PROVE  IInv'
<1>1. /\ phase = "build" /\ phase' = phase /\ UNCHANGED parser /\ parents = <<>>
      /\ events[next].type = "NodeEnd" /\ next' = next + 1 /\ FinishNode
      /\ parents' = parents /\ parentPos' = parentPos
  BY DEF ReplayEnd, Replaying
<1> USE WhileBuilding, <1>1
<1>2. /\ entries' \in Seq(EntryRecord) /\ nodeStack' \in Seq(0..Len(entries'))
      /\ eaten' \in Nat /\ SkipComment(tokens, eaten' + 1) = SkipComment(tokens, eaten + 1)
  BY FinishNodeKeeps
<1>3. Follows(events, tokens, eaten, next)
  BY NextFollows
<1>4. Follows(events, tokens, eaten', next)
  BY <1>2, <1>3, FollowsAlso
<1>5. next' - 1 = next /\ next' \in Nat \ {0} /\ parentPos' = 0
  OBVIOUS
<1>6. QED BY <1>2, <1>4, <1>5, BuildKeeps

\* An error leaves the tree as it is.
LEMMA ReplayErrorKeeps ==
  ASSUME IInv, ReplayError
  PROVE  IInv'
<1>1. /\ phase = "build" /\ phase' = phase /\ UNCHANGED parser /\ parents = <<>>
      /\ events[next].type = "Error" /\ next' = next + 1
      /\ parents' = parents /\ parentPos' = parentPos
      /\ entries' = entries /\ nodeStack' = nodeStack /\ eaten' = eaten
  BY DEF ReplayError, Replaying
<1> USE WhileBuilding, <1>1
<1>2. Follows(events, tokens, eaten', next)
  BY NextFollows
<1>3. next' - 1 = next /\ next' \in Nat \ {0} /\ parentPos' = 0
  OBVIOUS
<1>4. QED BY <1>2, <1>3, BuildKeeps

\* The file ends.
LEMMA BuiltKeeps ==
  ASSUME IInv, Built
  PROVE  IInv'
<1>1. /\ phase = "build" /\ phase' = "done" /\ UNCHANGED parser /\ parents = <<>>
      /\ FinishNode /\ next' = next /\ parents' = parents /\ parentPos' = parentPos
  BY DEF Built
<1> USE WhileBuilding, <1>1
<1>2. /\ entries' \in Seq(EntryRecord) /\ nodeStack' \in Seq(0..Len(entries'))
      /\ eaten' \in Nat
  BY FinishNodeKeeps
<1>3. parentPos' = 0
  OBVIOUS
<1>4. QED BY <1>2, <1>3, BuildKeeps

\* A step that changes nothing.
LEMMA StutterKeeps ==
  ASSUME IInv, UNCHANGED vars
  PROVE  IInv'
<1>1. /\ source' = source /\ tokens' = tokens /\ ended' = ended /\ tokenIndex' = tokenIndex
      /\ events' = events /\ todo' = todo /\ marks' = marks /\ completed' = completed
      /\ errors' = errors /\ phase' = phase /\ next' = next /\ parents' = parents
      /\ parentPos' = parentPos /\ entries' = entries /\ nodeStack' = nodeStack
      /\ eaten' = eaten
  BY DEF vars, parser, tree
<1>2. TypeOK'
  BY <1>1, Zenon DEF IInv, TypeOK
<1>3. EventsLinked'
  BY <1>1 DEF IInv, EventsLinked
<1>4. Waiting'
  BY <1>1 DEF IInv, Waiting
<1>5. ReadInOrder'
  BY <1>1 DEF IInv, ReadInOrder
<1>6. TreeFollows'
  BY <1>1 DEF IInv, TreeFollows
<1>7. source' \in Sources
  BY <1>1 DEF IInv
<1>8. QED BY <1>2, <1>3, <1>4, <1>5, <1>6, <1>7, Zenon DEF IInv

\* Every step.
LEMMA NextInv == IInv /\ [Next]_vars => IInv'
<1> SUFFICES ASSUME IInv, [Next]_vars PROVE IInv'
  OBVIOUS
<1>1. CASE Parse
  BY <1>1, ParserKeeps
<1>2. CASE ReplayStart
  BY <1>2, ReplayStartKeeps
<1>3. CASE Climb
  BY <1>3, ClimbKeeps
<1>4. CASE StartNode
  BY <1>4, StartNodeKeeps
<1>5. CASE ReplayEat
  BY <1>5, ReplayEatKeeps
<1>6. CASE ReplayEnd
  BY <1>6, ReplayEndKeeps
<1>7. CASE ReplayError
  BY <1>7, ReplayErrorKeeps
<1>8. CASE Built
  BY <1>8, BuiltKeeps
<1>9. CASE UNCHANGED vars
  BY <1>9, StutterKeeps
<1>10. QED
  BY <1>1, <1>2, <1>3, <1>4, <1>5, <1>6, <1>7, <1>8, <1>9 DEF Next, Terminating

\* The invariant holds in every state.
THEOREM Invariant == Spec => []IInv
BY InitInv, NextInv, PTL DEF Spec

\* The tokens, the events with the Markers into them, the instructions, the tree and the
\* open nodes are always of their types: whatever the file, LuaParser keeps no Marker
\* beyond the events it has, and BuildTree no open node beyond the tree.
THEOREM TypeCorrect == Spec => []TypeOK
<1>1. IInv => TypeOK
  BY DEF IInv
<1>2. QED BY Invariant, <1>1, PTL

\* Whatever the file, every Marker is at the start of a node, and a parent comes after the
\* node that Precede gave it to: the loop of BuildTree that climbs the parents ends.
THEOREM Linking == Spec => []EventsLinked
<1>1. IInv => EventsLinked
  BY DEF IInv
<1>2. QED BY Invariant, <1>1, PTL

\* Whatever the file and the errors in it, the token that BuildTree comes to, by its own
\* count and with its own rules for comments, is the one that LuaParser had read.
THEOREM ParserAndTreeInStep == Spec => []InStep
<1>1. IInv => InStep
  <2> SUFFICES ASSUME IInv, Replaying("EatToken")
               PROVE  SkipComment(tokens, eaten + 1) = events[next].index
    BY DEF InStep
  <2>1. phase = "build" /\ next \in 1..Len(events) /\ Eats(events, next)
    BY WhileBuilding DEF Replaying, Eats
  <2>2. /\ next \in ((next - 1) + 1)..Len(events)
        /\ \A r \in ((next - 1) + 1)..(next - 1) : ~Eats(events, r)
    BY <2>1, WhileBuilding
  <2>3. QED BY <2>1, <2>2, WhileBuilding DEF Follows
<1>2. QED BY Invariant, <1>1, PTL

-----------------------------------------------------------------------------
(* Tokens are read where they are known to be there. *)

\* What is left to do reads only tokens that were seen, and records few errors.
Foretold ==
  phase = "parse" =>
    /\ \/ todo \in Quiet \union CheckedError
       \/ todo \in Reading /\ Position <= Len(tokens)
       \/ /\ todo \in ReadingTwo
          /\ Position <= Len(tokens) /\ SkipComment(tokens, Position + 1) <= Len(tokens)
       \/ todo \in Failing /\ errors <= MaxErrors + 1
       \/ todo \in TwoErrors /\ errors <= MaxErrors
    /\ todo # <<>> => errors <= MaxErrors + 2

\* Every token that an event reads is in the file.
AllThere == Known(events, tokens, FALSE)

ReadsThere == Foretold /\ AllThere

\* What is left after the first instruction.
LEMMA TodoGoesOn ==
  ASSUME todo # <<>>
  PROVE  /\ todo \in Quiet => Instr.op \notin {"Eat", "Error"} /\ Tail(todo) \in Quiet
         /\ todo \in CheckedError => Instr.op = "Check" /\ Tail(todo) \in OneError
         /\ todo \in Reading =>
              \/ Instr.op = "Eat" /\ Tail(todo) \in Quiet \union CheckedError
              \/ Instr.op \in Opening /\ Tail(todo) \in OneEat
         /\ todo \in ReadingTwo =>
              \/ Instr.op = "Eat" /\ Tail(todo) \in OneEat
              \/ Instr.op \in Opening /\ Tail(todo) \in TwoEats
         /\ todo \in Failing => Instr.op = "Error" /\ Tail(todo) \in Quiet \union CheckedError
         /\ todo \in TwoErrors => Instr.op = "Error" /\ Tail(todo) \in OneError
<1>1. ASSUME todo \in Quiet
      PROVE  Instr.op \notin {"Eat", "Error"} /\ Tail(todo) \in Quiet
  <2>1. Instr \in QuietInstructions /\ Tail(todo) \in Quiet
    BY <1>1 DEF Quiet, Instr
  <2>2. QED BY <2>1 DEF QuietInstructions
<1>2. \A ops, rest : todo \in After(ops, rest) => Instr.op \in ops /\ Tail(todo) \in rest
  BY DEF After, Instr
<1>3. QED
  BY <1>1, <1>2
  DEF OneEat, TwoEats, OneError, TwoErrors, CheckedError, Reading, ReadingTwo, Failing

\* The parser starts with a block.
LEMMA ReadsThereInit == Init => ReadsThere
BY ExpressionsQuiet, ErrorsAssumption
DEF Init, ParserInit, ReadsThere, Foretold, AllThere, Known

\* An event that reads no token changes nothing.
LEMMA KnownStays ==
  ASSUME NEW ev \in Seq(EventRecord), NEW new, NEW file, Known(ev, file, FALSE),
         Keeps(ev, new), Len(new) = Len(ev) \/ ~Eats(new, Len(ev) + 1)
  PROVE  Known(new, file, FALSE)
<1> SUFFICES ASSUME NEW q \in 1..Len(new), Eats(new, q) PROVE new[q].index <= Len(file)
  BY DEF Known
<1>1. q \in 1..Len(ev)
  BY DEF Keeps
<1>2. QED BY <1>1 DEF Known, Keeps, Eats

\* A step that reads no token, and calls nothing.
LEMMA QuietIsThere ==
  ASSUME IInv, ReadsThere, phase = "parse", todo # <<>>, UNCHANGED Input, todo' = Tail(todo),
         Instr.op \notin {"Eat", "Error", "Check"},
         Keeps(events, events'), Len(events') = Len(events) \/ ~Eats(events', Len(events) + 1),
         UNCHANGED <<tokenIndex, errors>>
  PROVE  ReadsThere'
<1>1. tokens' = tokens /\ phase' = phase /\ tokenIndex' = tokenIndex /\ errors' = errors
  BY DEF Input
<1>2. AllThere'
  BY <1>1, WhileParsing, KnownStays DEF ReadsThere, AllThere
<1>3. Position' = Position
  BY <1>1 DEF Position
<1>4. Foretold'
  BY <1>1, <1>3, TodoGoesOn DEF ReadsThere, Foretold, Reading, ReadingTwo
<1>5. QED BY <1>2, <1>4 DEF ReadsThere

\* A token that is checked for is there.
LEMMA ExpectedIsThere ==
  ASSUME IInv, todo # <<>>, Instr.op \in {"Check", "Test"}, Is(Current, Instr.what)
  PROVE  Position <= Len(tokens)
<1>1. Instr.what \in TokenKinds
  BY WhileParsing DEF Instructions
<1>2. Current # Eof
  BY <1>1 DEF Is, Eof, TokenKinds, Names
<1>3. QED BY <1>2 DEF Current, TokenAt

\* A token is read that is there.
LEMMA AdvanceIsThere ==
  ASSUME IInv, ReadsThere, phase = "parse", todo # <<>>, UNCHANGED Input, todo' = Tail(todo),
         Instr.op \in {"Eat", "Check", "Test"}, Position <= Len(tokens), ~TooManyErrors,
         Advance
  PROVE  ReadsThere'
<1>1. /\ tokens' = tokens /\ phase' = phase /\ errors' = errors
      /\ events' = Append(events, EatToken(Position)) /\ tokenIndex' = Position + 1
  BY DEF Input, Advance
<1> USE WhileParsing
<1>2. Position \in Nat \ {0} /\ Len(tokens) \in Nat /\ errors <= MaxErrors
  <2>1. tokenIndex \in Nat
    OBVIOUS
  <2>2. Position \in Nat \ {0} /\ Len(tokens) \in Nat
    BY <2>1, SkipCommentTyped DEF Position
  <2>3. QED BY <2>2, ErrorsAssumption DEF TooManyErrors
<1>3. AllThere'
  <2>1. /\ Len(events') = Len(events) + 1 /\ events'[Len(events) + 1].index = Position
        /\ \A q \in 1..Len(events) : events'[q] = events[q]
    BY <1>1, <1>2, EventsTyped, EventAdded
  <2>2. \A q \in 1..Len(events') : q \in 1..Len(events) \/ q = Len(events) + 1
    BY <2>1
  <2>3. QED BY <1>1, <2>1, <2>2 DEF ReadsThere, AllThere, Known, Eats
<1>4. Position' = SkipComment(tokens, Position + 1)
  BY <1>1 DEF Position
<1>5. Foretold'
  BY <1>1, <1>2, <1>4, ErrorsAssumption, TodoGoesOn
  DEF ReadsThere, Foretold, Reading, ReadingTwo, Failing, Opening
<1>6. QED BY <1>3, <1>5 DEF ReadsThere

\* An error is recorded, by a check or where the grammar says so.
LEMMA ErrorIsThere ==
  ASSUME IInv, ReadsThere, phase = "parse", todo # <<>>, UNCHANGED Input, todo' = Tail(todo),
         Instr.op = "Error" \/ (Instr.op = "Check" /\ ~TooManyErrors),
         LuaExpectedError
  PROVE  ReadsThere'
<1>1. /\ tokens' = tokens /\ phase' = phase /\ errors' = errors + 1
      /\ events' = Append(events, ErrorEvent) /\ tokenIndex' = tokenIndex
  BY DEF Input, LuaExpectedError
<1> USE WhileParsing
<1>2. AllThere'
  <2>1. Keeps(events, events') /\ ~Eats(events', Len(events) + 1)
    BY <1>1, EventsTyped, EventIsLinked
  <2>2. QED BY <1>1, <2>1, KnownStays DEF ReadsThere, AllThere
<1>3. Foretold'
  BY <1>1, ErrorsAssumption, TodoGoesOn
  DEF ReadsThere, Foretold, Reading, ReadingTwo, Failing, Opening, TooManyErrors
<1>4. QED BY <1>2, <1>3 DEF ReadsThere

\* A function is called; it reads tokens that it has seen.
LEMMA CallIsThere ==
  ASSUME IInv, ReadsThere, Call
  PROVE  ReadsThere'
<1>1. /\ phase = "parse" /\ todo # <<>> /\ Instr.op = "Do" /\ ~TooManyErrors
      /\ todo' = Body(Instr.what, Instr.arg, Current, LookAhead) \o Tail(todo)
      /\ tokens' = tokens /\ phase' = phase /\ events' = events /\ tokenIndex' = tokenIndex
      /\ errors' = errors
  BY DEF Call, Runs, Input
<1> USE WhileParsing
<1>2. Tail(todo) \in Quiet
  BY <1>1, TodoGoesOn DEF ReadsThere, Foretold, Opening
<1>3. Instr.what \in Rules /\ Instr.arg \in Nat
  BY <1>1, InstructionSays
<1>4. Foreseen(todo', Current, LookAhead)
  BY <1>1, <1>2, <1>3, BodyForeseen, ForeseenGrows
<1>5. Position' = Position /\ errors <= MaxErrors
  BY <1>1, ErrorsAssumption DEF Position, TooManyErrors
<1>6. /\ Current # Eof => Position <= Len(tokens)
      /\ LookAhead # Eof => SkipComment(tokens, Position + 1) <= Len(tokens)
  BY DEF Current, LookAhead, TokenAt
<1>7. Foretold'
  BY <1>1, <1>4, <1>5, <1>6, ErrorsAssumption DEF Foretold, Foreseen
<1>8. QED BY <1>1, <1>7 DEF ReadsThere, AllThere

\* Another token is found where none was seen.
LEMMA LexIsThere ==
  ASSUME IInv, ReadsThere, Lex
  PROVE  ReadsThere'
<1>1. /\ phase = "parse" /\ todo # <<>> /\ ~Ready /\ phase' = phase
      /\ events' = events /\ todo' = todo /\ errors' = errors
  BY DEF Lex
<1> USE WhileParsing
<1>2. Instr.op \in Looking /\ (Instr.op = "Eat" => ~(Position <= Len(tokens)))
  BY <1>1 DEF Ready
<1>3. todo \in Quiet \union CheckedError
  BY <1>1, <1>2, TodoGoesOn DEF ReadsThere, Foretold, Looking, Opening
<1>4. Foretold'
  BY <1>1, <1>3 DEF ReadsThere, Foretold
<1>5. Len(tokens') >= Len(tokens) /\ Len(tokens') \in Nat
  <2>1. Len(tokens) \in Nat
    OBVIOUS
  <2>2. CASE tokens' = tokens
    BY <2>1, <2>2
  <2>3. CASE \E k \in source[Len(tokens) + 1] : tokens' = Append(tokens, k)
    BY <2>1, <2>3
  <2>4. QED BY <2>2, <2>3 DEF Lex
<1>6. AllThere'
  <2>1. \A q \in 1..Len(events) : events[q] \in EventRecord
    BY <1>1
  <2>2. \A q \in 1..Len(events) : events[q].index \in Nat
    BY <2>1 DEF EventRecord
  <2>3. QED BY <1>1, <1>5, <2>2 DEF ReadsThere, AllThere, Known
<1>7. QED BY <1>4, <1>6 DEF ReadsThere

\* Every step of the parser.
LEMMA ParserIsThere ==
  ASSUME IInv, ReadsThere, ParserNext
  PROVE  ReadsThere'
<1>1. CASE Lex
  BY <1>1, LexIsThere
<1>2. CASE OpenMarker
  <2>1. Keeps(events, events') /\ ~Eats(events', Len(events) + 1)
    BY <1>2, WhileParsing, EventsTyped, EventIsLinked DEF OpenMarker, Runs
  <2>2. QED BY <1>2, <2>1, QuietIsThere DEF OpenMarker, Runs
<1>3. CASE CompleteMarker
  <2>1. /\ todo # <<>> /\ Instr.op = "Complete" /\ marks # <<>>
        /\ events' = Append(WithKind(events, Top(marks), Instr.what), NodeEnd)
    BY <1>3 DEF CompleteMarker, CompleteAs, Runs, WithKind
  <2> DEFINE mid == WithKind(events, Top(marks), Instr.what)
  <2>2. mid \in Seq(EventRecord) /\ Len(mid) = Len(events) /\ Keeps(events, mid)
        /\ Linked(mid) /\ events' = Append(mid, NodeEnd)
    <3>1. Top(marks) \in 1..Len(events) /\ Len(events) \in Nat
      BY <2>1, WhileParsing, PopTyped
    <3>2. Top(marks) \in Nat /\ Instr.what \in NodeKinds
      BY <2>1, <3>1, WhileParsing, InstructionSays
    <3>3. QED BY <2>1, <3>2, WhileParsing, KindIsLinked
  <2> HIDE DEF mid
  <2>3. Keeps(mid, events') /\ Len(events') = Len(mid) + 1 /\ ~Eats(events', Len(mid) + 1)
    BY <2>2, EventsTyped, EventIsLinked
  <2>4. Keeps(events, events') /\ ~Eats(events', Len(events) + 1)
    BY <2>2, <2>3 DEF Keeps
  <2>5. QED BY <1>3, <2>1, <2>4, QuietIsThere DEF CompleteMarker, Runs
<1>4. CASE UndoMarker
  <2>1. Keeps(events, events') /\ Len(events') = Len(events)
    <3>1. /\ todo # <<>> /\ marks # <<>> /\ "None" \in NodeKinds
          /\ events' = WithKind(events, Top(marks), "None")
      BY <1>4 DEF UndoMarker, Runs, WithKind, NodeKinds
    <3>2. Top(marks) \in 1..Len(events) /\ Len(events) \in Nat
      BY <3>1, WhileParsing, PopTyped
    <3>3. Top(marks) \in Nat
      BY <3>2
    <3>4. QED BY <3>1, <3>3, WhileParsing, KindIsLinked
  <2>2. QED BY <1>4, <2>1, QuietIsThere DEF UndoMarker, Runs
<1>5. CASE UndoCompleted
  <2>1. Keeps(events, events') /\ Len(events') = Len(events)
    <3>1. /\ todo # <<>> /\ "None" \in NodeKinds
          /\ events' = WithKind(events, completed, "None")
      BY <1>5 DEF UndoCompleted, Runs, WithKind, NodeKinds
    <3>2. QED BY <3>1, WhileParsing, KindIsLinked
  <2>2. QED BY <1>5, <2>1, QuietIsThere DEF UndoCompleted, Runs
<1>6. CASE PrecedeNode
  <2>1. Keeps(events, events') /\ ~Eats(events', Len(events) + 1)
    BY <1>6, PrecedeReadsNothing
  <2>2. QED BY <1>6, <2>1, QuietIsThere DEF PrecedeNode, PrecedeAs, Runs
<1>7. CASE EatCurrent
  <2>1. todo # <<>> /\ Instr.op = "Eat" /\ phase = "parse"
    BY <1>7 DEF EatCurrent, Runs
  <2>2. Position <= Len(tokens)
    BY <2>1, TodoGoesOn DEF ReadsThere, Foretold
  <2>3. QED BY <1>7, <2>1, <2>2, AdvanceIsThere DEF EatCurrent
<1>8. CASE CheckAndNext
  BY <1>8, ExpectedIsThere, AdvanceIsThere, ErrorIsThere DEF CheckAndNext, Runs
<1>9. CASE TestAndNext
  <2>1. CASE Is(Current, Instr.what)
    BY <1>9, <2>1, ExpectedIsThere, AdvanceIsThere DEF TestAndNext, Runs
  <2>2. CASE ~Is(Current, Instr.what)
    BY <1>9, <2>2, QuietIsThere DEF TestAndNext, Runs, Keeps
  <2>3. QED BY <2>1, <2>2
<1>10. CASE ExpectError
  BY <1>10, ErrorIsThere DEF ExpectError, Runs
<1>11. CASE Call
  BY <1>11, CallIsThere
<1>12. CASE Throw
  BY <1>12, QuietComposes DEF Throw, Input, ReadsThere, Foretold, AllThere
<1>13. CASE Parsed
  BY <1>13 DEF Parsed, ReadsThere, Foretold, AllThere
<1>14. QED
  BY <1>1, <1>2, <1>3, <1>4, <1>5, <1>6, <1>7, <1>8, <1>9, <1>10, <1>11, <1>12, <1>13
  DEF ParserNext

\* Climbing to the parents changes no event that reads a token.
LEMMA ClimbReadsNothing ==
  ASSUME IInv, Climb
  PROVE  Keeps(events, events') /\ Len(events') = Len(events)
<1>1. events \in Seq(EventRecord) /\ parentPos \in Nat /\ Len(events) \in Nat
  BY WhileBuilding
<1>2. CASE events' = events
  BY <1>1, <1>2 DEF Keeps
<1>3. CASE events' = WithKind(events, parentPos, "None")
  <2>1. "None" \in NodeKinds
    BY DEF NodeKinds
  <2>2. /\ Len(events') = Len(events)
        /\ \A q \in 1..Len(events) : /\ events'[q].type = events[q].type
                                     /\ events'[q].index = events[q].index
    BY <1>1, <1>3, <2>1, KindSet
  <2>3. QED BY <2>2 DEF Keeps
<1>4. QED BY <1>2, <1>3 DEF Climb, WithKind

\* Every step: while the tree is built, the events keep what they read.
LEMMA ReadsThereNext ==
  ASSUME IInv, ReadsThere, [Next]_vars
  PROVE  ReadsThere'
<1>1. CASE Parse
  BY <1>1, ParserIsThere DEF Parse
<1>2. CASE Climb
  <2>1. phase = "build" /\ phase' = phase /\ tokens' = tokens
    BY <1>2 DEF Climb
  <2>2. Keeps(events, events') /\ Len(events') = Len(events)
    BY <1>2, ClimbReadsNothing
  <2>3. AllThere'
    BY <2>1, <2>2, WhileBuilding, KnownStays DEF ReadsThere, AllThere
  <2>4. QED BY <2>1, <2>3 DEF ReadsThere, Foretold
<1>3. CASE UNCHANGED parser /\ phase = "build" /\ phase' # "parse"
  BY <1>3 DEF parser, ReadsThere, Foretold, AllThere
<1>4. CASE UNCHANGED vars
  <2>1. Position' = Position
    BY <1>4 DEF vars, parser, Position
  <2>2. QED BY <1>4, <2>1 DEF vars, parser, ReadsThere, Foretold, AllThere
<1>5. QED
  BY <1>1, <1>2, <1>3, <1>4
  DEF Next, Terminating, ReplayStart, StartNode, StartAfter, ReplayEat, ReplayEnd, ReplayError,
      Built, Replaying

\* Whatever the file: a function of LuaParser reads a token without a test only where it has
\* seen that it is there, so that BuildTree never takes a token behind the last; and while
\* there is anything left to do, at most two errors have come after the one with which the
\* parser gives up, so that it does.
THEOREM ReadsTokensThere == Spec => []TokensThere
<1>1. Init => IInv /\ ReadsThere
  BY InitInv, ReadsThereInit
<1>2. IInv /\ ReadsThere /\ [Next]_vars => (IInv /\ ReadsThere)'
  BY NextInv, ReadsThereNext
<1>3. IInv /\ ReadsThere => TokensThere
  <2> SUFFICES ASSUME IInv, ReadsThere PROVE TokensThere
    OBVIOUS
  <2>1. ASSUME Replaying("EatToken") PROVE events[next].index <= Len(tokens)
    <3>1. next \in 1..Len(events) /\ Eats(events, next)
      BY <2>1, WhileBuilding DEF Replaying, Eats
    <3>2. QED BY <3>1 DEF ReadsThere, AllThere, Known
  <2>2. QED BY <2>1 DEF TokensThere, ReadsThere, Foretold
<1>4. QED BY <1>1, <1>2, <1>3, PTL DEF Spec

-----------------------------------------------------------------------------
(* Every token once and in order, and where the comments go. *)

\* The entries hold the first n tokens, each once and in order.
HoldsUpTo(es, n) ==
  /\ \A k \in 1..Len(es) : es[k].token \in 0..n
  /\ \A j, k \in 1..Len(es) :
       j < k /\ es[j].token # 0 /\ es[k].token # 0 => es[j].token < es[k].token
  /\ \A t \in 1..n : \E k \in 1..Len(es) : es[k].token = t

\* Nodes that do not begin with comments.
Bare(e) == e.token = 0 /\ ~IsEatAllComment(e.kind)

\* After a node that does not begin with comments comes no comment, neither in the tree nor
\* among the tokens behind the first n, which are still to come.
CommentsKeptOut(es, n) ==
  \A k \in 1..Len(es) :
    Bare(es[k]) => IF k < Len(es)
                   THEN es[k + 1].token # 0 => tokens[es[k + 1].token] \notin Comments
                   ELSE n < Len(tokens) => tokens[n + 1] \notin Comments

\* The tree holds the tokens that were taken.
TokensInOrder == eaten <= Len(tokens) /\ HoldsUpTo(entries, eaten)

NoCommentFirst == CommentsKeptOut(entries, eaten)

\* Whatever the events have said to read so far was taken.
ReadIsTaken ==
  \A q \in 1..Len(events) : q < next /\ Eats(events, q) => events[q].index <= eaten

TreeInOrder ==
  /\ phase = "parse" => entries = <<>>
  /\ TokensInOrder
  /\ NoCommentFirst
  /\ ReadIsTaken

\* The elements of two sequences, one after the other.
LEMMA ConcatElements ==
  ASSUME NEW S, NEW s \in Seq(S), NEW t \in Seq(S), NEW both, both = s \o t
  PROVE  /\ both \in Seq(S) /\ Len(both) = Len(s) + Len(t)
         /\ \A k \in 1..Len(s) : both[k] = s[k]
         /\ \A k \in 1..Len(t) : both[Len(s) + k] = t[k]
OBVIOUS

\* How far the tree goes before a node or a token, and after it.
LEMMA TakesUpTo ==
  ASSUME IInv, TokensInOrder
  PROVE  /\ Commented \in eaten..Len(tokens)
         /\ Commented < Len(tokens) => tokens[Commented + 1] \notin Comments
         /\ \A n \in 0..Len(tokens) : Inlined(n) \in n..Len(tokens)
<1> USE WhileBuilding
<1>1. eaten + 1 \in Nat /\ eaten <= Len(tokens)
  BY DEF TokensInOrder
<1>2. Commented \in Nat /\ Commented + 1 = SkipComment(tokens, eaten + 1)
  BY CommentedSkips
<1>3. \/ Skips(tokens, eaten + 1, Commented + 1)
      \/ Commented = Len(tokens)
  <2>1. tokens \in Seq(TokenKinds)
    OBVIOUS
  <2>2. \/ Skips(tokens, eaten + 1, SkipComment(tokens, eaten + 1))
        \/ SkipComment(tokens, eaten + 1) = Len(tokens) + 1
    BY <1>1, <2>1, SkipCommentTyped
  <2>3. QED BY <1>2, <2>2
<1>4. Commented \in eaten..Len(tokens)
  BY <1>1, <1>2, <1>3 DEF Skips
<1>5. Commented < Len(tokens) => tokens[Commented + 1] \notin Comments
  BY <1>3 DEF Skips
<1>6. \A n \in 0..Len(tokens) : Inlined(n) \in n..Len(tokens)
  BY DEF Inlined
<1>7. QED BY <1>4, <1>5, <1>6

\* What the tree is when tokens were taken.
LEMMA TakenAdds ==
  ASSUME IInv, NEW n \in eaten..Len(tokens), NEW more, more = entries \o Taken(n)
  PROVE  /\ more \in Seq(EntryRecord) /\ Len(more) = Len(entries) + (n - eaten)
         /\ \A k \in 1..Len(entries) : more[k] = entries[k]
         /\ \A k \in 1..Len(more) : k > Len(entries) => more[k].token = eaten + (k - Len(entries))
<1>1. /\ n \in Int /\ eaten \in Nat /\ n - eaten \in Nat
      /\ entries \in Seq(EntryRecord) /\ Len(entries) \in Nat
  BY WhileBuilding
<1>2. Taken(n) \in Seq(EntryRecord) /\ Len(Taken(n)) = n - eaten
  BY <1>1, TakenTyped
<1>3. \A k \in 1..(n - eaten) : Taken(n)[k].token = eaten + k
  BY <1>1 DEF Taken, TokenEntry
<1>4. /\ more \in Seq(EntryRecord) /\ Len(more) = Len(entries) + (n - eaten)
      /\ \A k \in 1..Len(entries) : more[k] = entries[k]
      /\ \A k \in 1..(n - eaten) : more[Len(entries) + k] = Taken(n)[k]
  <2>1. entries \in Seq(EntryRecord) /\ Taken(n) \in Seq(EntryRecord)
    BY <1>1, <1>2
  <2>2. /\ more \in Seq(EntryRecord) /\ Len(more) = Len(entries) + Len(Taken(n))
        /\ \A k \in 1..Len(entries) : more[k] = entries[k]
        /\ \A k \in 1..Len(Taken(n)) : more[Len(entries) + k] = Taken(n)[k]
    BY <2>1, ConcatElements
  <2>3. QED BY <1>2, <2>2
<1>5. ASSUME NEW k \in 1..Len(more), k > Len(entries)
      PROVE  more[k].token = eaten + (k - Len(entries))
  <2>1. k - Len(entries) \in 1..(n - eaten) /\ Len(entries) + (k - Len(entries)) = k
    BY <1>1, <1>4, <1>5
  <2>2. QED BY <1>3, <1>4, <2>1
<1>6. QED BY <1>4, <1>5

\* The tokens up to some n behind the tree are in order, and no comment comes behind a node
\* that does not begin with comments.
LEMMA TakenGivesOrder ==
  ASSUME IInv, TokensInOrder, NoCommentFirst, NEW n \in eaten..Len(tokens),
         NEW more, more = entries \o Taken(n)
  PROVE  HoldsUpTo(more, n) /\ CommentsKeptOut(more, n)
<1> DEFINE l == Len(entries)
<1>1. /\ eaten \in Nat /\ n \in Nat /\ l \in Nat /\ Len(tokens) \in Nat /\ eaten <= n
      /\ entries \in Seq(EntryRecord)
  BY WhileBuilding
<1>2. /\ Len(more) = l + (n - eaten)
      /\ \A k \in 1..l : more[k] = entries[k]
      /\ \A k \in 1..Len(more) : k > l => more[k].token = eaten + (k - l)
  BY TakenAdds
<1> HIDE DEF l
<1>3. \A k \in 1..l : entries[k].token \in 0..eaten
  BY DEF TokensInOrder, HoldsUpTo, l
<1>4. \A k \in 1..Len(more) : k > l => k - l \in 1..(n - eaten)
  BY <1>1, <1>2
<1>5. \A k \in 1..Len(more) : k \in 1..l \/ k > l
  BY <1>1, <1>2
<1>6. ASSUME NEW k \in 1..Len(more) PROVE more[k].token \in 0..n
  <2>1. CASE k \in 1..l
    <3>1. more[k].token \in 0..eaten
      BY <1>2, <1>3, <2>1
    <3>2. QED BY <1>1, <3>1
  <2>2. CASE k > l
    <3>1. more[k].token = eaten + (k - l) /\ k - l \in 1..(n - eaten)
      BY <1>2, <1>4, <2>2
    <3>2. QED BY <1>1, <3>1
  <2>3. QED BY <1>5, <2>1, <2>2
<1>7. ASSUME NEW j \in 1..Len(more), NEW k \in 1..Len(more),
             j < k, more[j].token # 0, more[k].token # 0
      PROVE  more[j].token < more[k].token
  <2>1. CASE k \in 1..l
    <3>1. j \in 1..l
      BY <1>1, <1>7, <2>1
    <3>2. QED BY <1>2, <1>7, <2>1, <3>1 DEF TokensInOrder, HoldsUpTo, l
  <2>2. CASE k > l /\ j \in 1..l
    <3>1. more[k].token = eaten + (k - l) /\ k - l \in 1..(n - eaten)
      BY <1>2, <1>4, <2>2
    <3>2. more[j].token \in 0..eaten
      BY <1>2, <1>3, <2>2
    <3>3. QED BY <1>1, <3>1, <3>2
  <2>3. CASE k > l /\ j > l
    <3>1. more[k].token = eaten + (k - l) /\ more[j].token = eaten + (j - l)
      BY <1>2, <2>3
    <3>2. QED BY <1>1, <1>7, <3>1
  <2>4. QED BY <1>5, <2>1, <2>2, <2>3
<1>8. ASSUME NEW t \in 1..n PROVE \E k \in 1..Len(more) : more[k].token = t
  <2>1. CASE t \in 1..eaten
    <3>1. PICK k \in 1..l : entries[k].token = t
      BY <2>1 DEF TokensInOrder, HoldsUpTo, l
    <3>2. k \in 1..Len(more)
      BY <1>1, <1>2
    <3>3. QED BY <1>2, <3>1, <3>2
  <2>2. CASE t > eaten
    <3>1. l + (t - eaten) \in 1..Len(more) /\ l + (t - eaten) > l
      BY <1>1, <1>2, <2>2
    <3>2. more[l + (t - eaten)].token = eaten + ((l + (t - eaten)) - l)
      BY <1>2, <3>1
    <3>3. more[l + (t - eaten)].token = t
      BY <1>1, <3>2
    <3>4. QED BY <3>1, <3>3
  <2>3. QED BY <1>1, <2>1, <2>2
<1>9. ASSUME NEW k \in 1..Len(more), Bare(more[k])
      PROVE  IF k < Len(more)
             THEN more[k + 1].token # 0 => tokens[more[k + 1].token] \notin Comments
             ELSE n < Len(tokens) => tokens[n + 1] \notin Comments
  <2>1. k \in 1..l
    BY <1>1, <1>2, <1>5, <1>9 DEF Bare
  <2>2. Bare(entries[k])
    BY <1>2, <1>9, <2>1
  <2>3. CASE k < l
    <3>1. k < Len(entries) /\ k + 1 \in 1..l /\ k < Len(more)
      BY <1>1, <1>2, <2>1, <2>3 DEF l
    <3>2. entries[k + 1].token # 0 => tokens[entries[k + 1].token] \notin Comments
      BY <2>1, <2>2, <3>1 DEF NoCommentFirst, CommentsKeptOut, l
    <3>3. QED BY <1>2, <3>1, <3>2
  <2>4. CASE k = l
    <3>1. eaten < Len(tokens) => tokens[eaten + 1] \notin Comments
      BY <1>1, <2>1, <2>2, <2>4 DEF NoCommentFirst, CommentsKeptOut, l
    <3>2. ASSUME k < Len(more)
          PROVE  more[k + 1].token = eaten + 1 /\ eaten < Len(tokens)
      <4>1. l + 1 \in 1..Len(more) /\ l + 1 > l /\ (l + 1) - l = 1
        BY <1>1, <1>2, <2>4, <3>2
      <4>2. more[l + 1].token = eaten + ((l + 1) - l)
        BY <1>2, <4>1
      <4>3. QED BY <1>1, <1>2, <2>4, <3>2, <4>1, <4>2
    <3>3. ~(k < Len(more)) => n = eaten
      BY <1>1, <1>2, <2>4
    <3>4. QED BY <3>1, <3>2, <3>3
  <2>5. QED BY <1>1, <2>1, <2>3, <2>4
<1>10. QED BY <1>6, <1>7, <1>8, <1>9 DEF HoldsUpTo, CommentsKeptOut

\* Taking tokens keeps their order, and comments out of the nodes that have begun.
LEMMA TakingKeepsOrder ==
  ASSUME IInv, TokensInOrder, NoCommentFirst, NEW n \in eaten..Len(tokens),
         tokens' = tokens, entries' = entries \o Taken(n), eaten' = n
  PROVE  TokensInOrder' /\ NoCommentFirst' /\ eaten <= eaten'
<1>1. HoldsUpTo(entries', n) /\ CommentsKeptOut(entries', n)
  BY TakenGivesOrder
<1>2. eaten \in Nat /\ Len(tokens) \in Nat /\ n <= Len(tokens) /\ eaten <= n
  BY WhileBuilding
<1>3. QED BY <1>1, <1>2 DEF TokensInOrder, NoCommentFirst, CommentsKeptOut

\* A node begins: behind it comes no comment that it does not keep for itself.
LEMMA BeginningKeepsOrder ==
  ASSUME IInv, TokensInOrder, NoCommentFirst, StartNode
  PROVE  TokensInOrder' /\ NoCommentFirst' /\ eaten <= eaten'
<1> DEFINE kind     == Top(parents)
           upTo     == IF IsEatAllComment(kind) THEN eaten ELSE Commented
           mid      == entries \o Taken(upTo)
           l        == Len(mid)
<1>1. /\ parents # <<>> /\ tokens' = tokens
      /\ entries' = entries
           \o (IF IsEatAllComment(kind) THEN <<>> ELSE Taken(Commented)) \o <<NodeEntry(kind)>>
      /\ eaten' = eaten + Len(IF IsEatAllComment(kind) THEN <<>> ELSE Taken(Commented))
  BY DEF StartNode, StartAfter, parser
<1>2. /\ eaten \in Nat /\ Len(tokens) \in Nat /\ eaten <= Len(tokens)
      /\ entries \in Seq(EntryRecord)
  BY WhileBuilding DEF TokensInOrder
<1>3. /\ upTo \in eaten..Len(tokens)
      /\ ~IsEatAllComment(kind) =>
           (upTo < Len(tokens) => tokens[upTo + 1] \notin Comments)
  BY <1>2, TakesUpTo
<1> HIDE DEF upTo
<1>4. /\ Taken(upTo) \in Seq(EntryRecord) /\ Len(Taken(upTo)) = upTo - eaten
      /\ Taken(eaten) = <<>>
  <2> DEFINE Adds(n) == /\ Taken(n) \in Seq(EntryRecord)
                        /\ Len(Taken(n)) = IF n >= eaten THEN n - eaten ELSE 0
  <2>0. \A n \in Int : Adds(n)
    BY TakenTyped
  <2>1. Adds(upTo) /\ Adds(eaten)
    <3>1. upTo \in Int /\ eaten \in Int
      BY <1>2, <1>3
    <3> HIDE DEF Adds
    <3>2. QED BY <2>0, <3>1
  <2>2. Len(Taken(eaten)) = 0 /\ Taken(eaten) \in Seq(EntryRecord)
    BY <1>2, <2>1
  <2>3. QED BY <1>2, <1>3, <2>1, <2>2
<1>5. entries' = mid \o <<NodeEntry(kind)>> /\ eaten' = upTo
  <2>1. CASE IsEatAllComment(kind)
    <3>1. upTo = eaten /\ Taken(upTo) = <<>>
      BY <1>4, <2>1 DEF upTo
    <3>2. QED BY <1>1, <1>2, <2>1, <3>1
  <2>2. CASE ~IsEatAllComment(kind)
    <3>1. upTo = Commented
      BY <2>2 DEF upTo
    <3>2. QED BY <1>1, <1>2, <1>3, <1>4, <2>2, <3>1
  <2>3. QED BY <2>1, <2>2
<1>6. /\ mid \in Seq(EntryRecord) /\ l \in Nat /\ NodeEntry(kind) \in EntryRecord
      /\ NodeEntry(kind).token = 0 /\ NodeEntry(kind).kind = kind
  <2>1. mid \in Seq(EntryRecord)
    BY <1>3, TakenAdds
  <2>2. kind \in NodeKinds
    BY <1>1, WhileBuilding, PopTyped
  <2>3. OpenNode \in Nat \union {Unlinked}
    BY <1>2, TakenTyped
  <2>4. QED BY <2>1, <2>2, <2>3 DEF NodeEntry, EntryRecord
<1>7. /\ Len(entries') = l + 1 /\ entries'[l + 1].token = 0 /\ entries'[l + 1].kind = kind
      /\ \A k \in 1..l : entries'[k] = mid[k]
  BY <1>5, <1>6
<1>8. mid = entries \o Taken(upTo) /\ l = Len(mid)
  OBVIOUS
<1> HIDE DEF mid, l, kind
<1>9. HoldsUpTo(mid, upTo) /\ CommentsKeptOut(mid, upTo)
  BY <1>3, <1>8, TakenGivesOrder
<1>10. upTo \in Nat /\ eaten <= upTo /\ upTo <= Len(tokens)
  BY <1>2, <1>3
<1>11. HoldsUpTo(entries', upTo)
  <2>1. \A k \in 1..(l + 1) : k \in 1..l \/ k = l + 1
    BY <1>6
  <2>2. \A k \in 1..(l + 1) : entries'[k].token \in 0..upTo
    <3>1. \A k \in 1..l : mid[k].token \in 0..upTo
      BY <1>8, <1>9 DEF HoldsUpTo
    <3>2. 0 \in 0..upTo
      BY <1>10
    <3>3. QED BY <1>7, <2>1, <3>1, <3>2
  <2>3. \A j, k \in 1..(l + 1) :
          j < k /\ entries'[j].token # 0 /\ entries'[k].token # 0
            => entries'[j].token < entries'[k].token
    <3>1. \A j, k \in 1..l :
            j < k /\ mid[j].token # 0 /\ mid[k].token # 0 => mid[j].token < mid[k].token
      BY <1>8, <1>9 DEF HoldsUpTo
    <3>2. QED BY <1>7, <2>1, <3>1
  <2>4. \A t \in 1..upTo : \E k \in 1..(l + 1) : entries'[k].token = t
    <3>1. \A k \in 1..l : k \in 1..(l + 1)
      BY <1>6
    <3>2. \A t \in 1..upTo : \E k \in 1..l : mid[k].token = t
      BY <1>8, <1>9 DEF HoldsUpTo
    <3>3. QED BY <1>7, <3>1, <3>2
  <2>5. QED BY <1>7, <2>2, <2>3, <2>4 DEF HoldsUpTo
<1>12. CommentsKeptOut(entries', upTo)
  <2> SUFFICES ASSUME NEW k \in 1..(l + 1), Bare(entries'[k])
               PROVE  IF k < l + 1
                      THEN entries'[k + 1].token # 0
                             => tokens[entries'[k + 1].token] \notin Comments
                      ELSE upTo < Len(tokens) => tokens[upTo + 1] \notin Comments
    BY <1>7 DEF CommentsKeptOut
  <2>1. CASE k < l
    <3>1. k \in 1..l /\ k + 1 \in 1..l
      BY <1>6, <2>1
    <3>2. entries'[k] = mid[k] /\ entries'[k + 1] = mid[k + 1] /\ k < l + 1
      BY <1>6, <1>7, <2>1, <3>1
    <3>3. QED BY <1>8, <1>9, <2>1, <3>1, <3>2 DEF CommentsKeptOut
  <2>2. CASE k = l
    BY <1>6, <1>7, <2>2
  <2>3. CASE k = l + 1
    BY <1>3, <1>6, <1>7, <2>3 DEF Bare
  <2>4. QED BY <1>6, <2>1, <2>2, <2>3
<1>13. TokensInOrder' /\ NoCommentFirst'
  BY <1>1, <1>5, <1>10, <1>11, <1>12 DEF TokensInOrder, NoCommentFirst, CommentsKeptOut
<1>14. QED BY <1>5, <1>10, <1>13

\* The innermost node ends, with the comments that are its own.
LEMMA FinishingKeepsOrder ==
  ASSUME IInv, TokensInOrder, NoCommentFirst, FinishNode, tokens' = tokens
  PROVE  TokensInOrder' /\ NoCommentFirst' /\ eaten <= eaten'
<1>1. CASE nodeStack = <<>>
  <2>1. entries' = entries /\ eaten' = eaten
    BY <1>1 DEF FinishNode
  <2>2. eaten \in Nat
    BY WhileBuilding
  <2>3. QED BY <2>1, <2>2 DEF TokensInOrder, HoldsUpTo, NoCommentFirst, CommentsKeptOut, Bare
<1>2. CASE nodeStack # <<>>
  <2>1. PICK upTo \in {Commented, Inlined(eaten)} :
          entries' = entries \o Taken(upTo) /\ eaten' = upTo
    BY <1>2 DEF FinishNode
  <2>2. eaten \in 0..Len(tokens)
    BY WhileBuilding DEF TokensInOrder
  <2>3. upTo \in eaten..Len(tokens)
    BY <2>2, TakesUpTo
  <2>4. QED BY <2>1, <2>3, TakingKeepsOrder
<1>3. QED BY <1>1, <1>2

\* The token that an event speaks of is the next one that the tree comes to.
LEMMA EventSpeaksOf ==
  ASSUME IInv, ReadsThere, Replaying("EatToken")
  PROVE  /\ next \in 1..Len(events) /\ Eats(events, next)
         /\ events[next].index = Commented + 1
         /\ Commented + 1 \in 0..Len(tokens)
<1> USE WhileBuilding
<1>1. next \in 1..Len(events) /\ Eats(events, next)
  BY DEF Eats, Replaying
<1>2. events[next].index = SkipComment(tokens, eaten + 1)
  <2>1. /\ next \in ((next - 1) + 1)..Len(events)
        /\ \A r \in ((next - 1) + 1)..(next - 1) : ~Eats(events, r)
    BY <1>1
  <2>2. Follows(events, tokens, eaten, next - 1)
    BY DEF Replaying
  <2>3. QED BY <1>1, <2>1, <2>2 DEF Follows
<1>3. Commented \in Nat /\ Commented + 1 = events[next].index
  BY <1>2, CommentedSkips
<1>4. events[next].index <= Len(tokens)
  BY <1>1 DEF ReadsThere, AllThere, Known
<1>5. QED BY <1>1, <1>3, <1>4

\* A token is taken, the comments before it, and the one that ends its line.
LEMMA EatingKeepsOrder ==
  ASSUME IInv, ReadsThere, TokensInOrder, NoCommentFirst, ReplayEat
  PROVE  /\ TokensInOrder' /\ NoCommentFirst' /\ eaten <= eaten'
         /\ events[next].index <= eaten'
<1>1. /\ Replaying("EatToken") /\ tokens' = tokens
      /\ entries' = entries \o Taken(Inlined(Commented + 1))
      /\ eaten' = Inlined(Commented + 1)
  BY DEF ReplayEat, parser
<1>2. /\ events[next].index = Commented + 1
      /\ Commented + 1 \in 0..Len(tokens)
  BY <1>1, EventSpeaksOf
<1>3. Inlined(Commented + 1) \in (Commented + 1)..Len(tokens) /\ eaten <= Commented
  BY <1>2, TakesUpTo
<1>4. eaten \in Nat /\ Commented \in Nat /\ Len(tokens) \in Nat
  BY WhileBuilding, CommentedSkips
<1>5. Inlined(Commented + 1) \in eaten..Len(tokens) /\ Commented + 1 <= eaten'
  BY <1>1, <1>3, <1>4
<1>6. QED BY <1>1, <1>2, <1>5, TakingKeepsOrder

\* Events that read nothing go by, or one whose token was taken.
LEMMA ReadIsTakenStays ==
  ASSUME IInv, ReadIsTaken, phase = "build", eaten' \in Nat, eaten <= eaten',
         Keeps(events, events'), Len(events') = Len(events),
         \/ next' = next
         \/ next' = next + 1 /\ (Eats(events, next) => events[next].index <= eaten')
  PROVE  ReadIsTaken'
<1> SUFFICES ASSUME NEW q \in 1..Len(events), q < next', Eats(events, q)
             PROVE  events[q].index <= eaten'
  BY DEF ReadIsTaken, Keeps, Eats
<1> USE WhileBuilding
<1>1. q < next \/ (q = next /\ next' = next + 1)
  OBVIOUS
<1>2. events[q].index \in Nat
  <2>1. events[q] \in EventRecord
    OBVIOUS
  <2>2. QED BY <2>1 DEF EventRecord
<1>3. CASE q < next
  <2>1. events[q].index <= eaten
    BY <1>3 DEF ReadIsTaken
  <2>2. QED BY <1>2, <2>1
<1>4. CASE q = next /\ next' = next + 1
  BY <1>4
<1>5. QED BY <1>1, <1>3, <1>4

\* At the start there is nothing in the tree.
LEMMA TreeInOrderInit == Init => TreeInOrder
BY DEF Init, ParserInit, TreeInOrder, TokensInOrder, NoCommentFirst, HoldsUpTo, CommentsKeptOut,
       ReadIsTaken, Eats

\* While the file is parsed nothing comes to the tree, and what is known of it is nothing.
LEMMA ParsingKeepsOrder ==
  ASSUME IInv, IInv', TreeInOrder, Parse
  PROVE  TreeInOrder'
<1>1. phase = "parse" /\ UNCHANGED tree
  <2>1. ASSUME NEW ops, Runs(ops) PROVE phase = "parse"
    BY <2>1 DEF Runs
  <2>2. Lex \/ Throw \/ Parsed => phase = "parse"
    BY DEF Lex, Throw, Parsed
  <2>3. OpenMarker \/ CompleteMarker \/ UndoMarker \/ UndoCompleted => phase = "parse"
    BY <2>1 DEF OpenMarker, CompleteMarker, UndoMarker, UndoCompleted
  <2>4. PrecedeNode \/ EatCurrent \/ CheckAndNext \/ TestAndNext => phase = "parse"
    BY <2>1 DEF PrecedeNode, PrecedeAs, EatCurrent, CheckAndNext, TestAndNext
  <2>5. ExpectError \/ Call => phase = "parse"
    BY <2>1 DEF ExpectError, Call
  <2>6. QED BY <2>2, <2>3, <2>4, <2>5 DEF Parse, ParserNext
<1>2. entries = <<>> /\ next = 1 /\ eaten = 0
  BY <1>1 DEF TreeInOrder, IInv, Waiting
<1>3. entries' = <<>> /\ next' = 1 /\ eaten' = 0
  BY <1>1, <1>2 DEF tree
<1>4. Len(tokens') \in Nat
  BY DEF IInv, TypeOK
<1>5. TokensInOrder'
  BY <1>3, <1>4 DEF TokensInOrder, HoldsUpTo
<1>6. NoCommentFirst' /\ ReadIsTaken'
  BY <1>3 DEF NoCommentFirst, CommentsKeptOut, ReadIsTaken, Bare
<1>7. QED BY <1>3, <1>5, <1>6 DEF TreeInOrder

\* Climbing to the parents changes the kinds of events alone.
LEMMA ClimbingKeepsOrder ==
  ASSUME IInv, TreeInOrder, Climb
  PROVE  TreeInOrder'
<1>1. /\ phase = "build" /\ phase' = phase /\ tokens' = tokens /\ entries' = entries
      /\ eaten' = eaten /\ next' = next
  BY DEF Climb
<1>2. Keeps(events, events') /\ Len(events') = Len(events)
  BY ClimbReadsNothing
<1>3. eaten' \in Nat /\ eaten <= eaten'
  BY <1>1, WhileBuilding
<1>4. ReadIsTaken'
  BY <1>1, <1>2, <1>3, ReadIsTakenStays DEF TreeInOrder
<1>5. TokensInOrder' /\ NoCommentFirst'
  BY <1>1 DEF TreeInOrder, TokensInOrder, HoldsUpTo, NoCommentFirst, CommentsKeptOut, Bare
<1>6. QED BY <1>1, <1>4, <1>5 DEF TreeInOrder

\* Every step.
LEMMA TreeInOrderNext ==
  ASSUME IInv, IInv', ReadsThere, TreeInOrder, [Next]_vars
  PROVE  TreeInOrder'
<1>1. TokensInOrder /\ NoCommentFirst /\ ReadIsTaken
  BY DEF TreeInOrder
<1>2. eaten \in Nat /\ eaten' \in Nat
  BY DEF IInv, TypeOK
<1>3. CASE Parse
  BY <1>3, ParsingKeepsOrder
<1>4. CASE Climb
  BY <1>4, ClimbingKeepsOrder
<1>5. ASSUME phase = "build", phase' \in {"build", "done"}, UNCHANGED parser,
             TokensInOrder', NoCommentFirst', eaten <= eaten',
             \/ next' = next
             \/ next' = next + 1 /\ (Eats(events, next) => events[next].index <= eaten')
      PROVE  TreeInOrder'
  <2>1. Keeps(events, events') /\ Len(events') = Len(events)
    BY <1>5, WhileBuilding DEF parser, Keeps
  <2>2. ReadIsTaken'
    BY <1>1, <1>2, <1>5, <2>1, ReadIsTakenStays
  <2>3. QED BY <1>5, <2>2 DEF TreeInOrder
<1>6. CASE ReplayStart \/ ReplayError
  <2>1. /\ phase = "build" /\ phase' = "build" /\ UNCHANGED parser /\ tokens' = tokens
        /\ entries' = entries /\ eaten' = eaten /\ next' = next + 1 /\ ~Eats(events, next)
    BY <1>6 DEF ReplayStart, ReplayError, Replaying, Eats, parser
  <2>2. TokensInOrder' /\ NoCommentFirst' /\ eaten <= eaten'
    BY <1>1, <1>2, <2>1 DEF TokensInOrder, HoldsUpTo, NoCommentFirst, CommentsKeptOut, Bare
  <2>3. QED BY <1>5, <2>1, <2>2
<1>7. CASE StartNode
  <2>1. phase = "build" /\ phase' = "build" /\ UNCHANGED parser /\ next' = next
    BY <1>7 DEF StartNode, StartAfter
  <2>2. TokensInOrder' /\ NoCommentFirst' /\ eaten <= eaten'
    BY <1>1, <1>7, BeginningKeepsOrder
  <2>3. QED BY <1>5, <2>1, <2>2
<1>8. CASE ReplayEat
  <2>1. phase = "build" /\ phase' = "build" /\ UNCHANGED parser /\ next' = next + 1
    BY <1>8 DEF ReplayEat, Replaying
  <2>2. /\ TokensInOrder' /\ NoCommentFirst' /\ eaten <= eaten'
        /\ events[next].index <= eaten'
    BY <1>1, <1>8, EatingKeepsOrder
  <2>3. QED BY <1>5, <2>1, <2>2
<1>9. CASE ReplayEnd
  <2>1. /\ phase = "build" /\ phase' = "build" /\ UNCHANGED parser /\ next' = next + 1
        /\ FinishNode /\ tokens' = tokens /\ ~Eats(events, next)
    BY <1>9 DEF ReplayEnd, Replaying, Eats, parser
  <2>2. TokensInOrder' /\ NoCommentFirst' /\ eaten <= eaten'
    BY <1>1, <2>1, FinishingKeepsOrder
  <2>3. QED BY <1>5, <2>1, <2>2
<1>10. CASE Built
  <2>1. /\ phase = "build" /\ phase' = "done" /\ UNCHANGED parser /\ next' = next
        /\ FinishNode /\ tokens' = tokens
    BY <1>10 DEF Built, parser
  <2>2. TokensInOrder' /\ NoCommentFirst' /\ eaten <= eaten'
    BY <1>1, <2>1, FinishingKeepsOrder
  <2>3. QED BY <1>5, <2>1, <2>2
<1>11. CASE UNCHANGED vars
  BY <1>11
  DEF vars, parser, tree, TreeInOrder, TokensInOrder, HoldsUpTo, NoCommentFirst,
      CommentsKeptOut, ReadIsTaken, Bare, Eats
<1>12. QED
  BY <1>3, <1>4, <1>6, <1>7, <1>8, <1>9, <1>10, <1>11 DEF Next, Terminating

\* Whatever the file, with errors or without: the tree holds the tokens up to some token, each
\* once and in the order of the file, and among them every token that the events up to here
\* have read; the counter of BuildTree neither loses a token nor takes one twice.
THEOREM TreeKeepsOrder == Spec => [](TokensInOrder /\ ReadIsTaken)
<1>1. Init => IInv /\ ReadsThere /\ TreeInOrder
  BY InitInv, ReadsThereInit, TreeInOrderInit
<1>2. IInv /\ ReadsThere /\ TreeInOrder /\ [Next]_vars => (IInv /\ ReadsThere /\ TreeInOrder)'
  BY NextInv, ReadsThereNext, TreeInOrderNext
<1>3. TreeInOrder => TokensInOrder /\ ReadIsTaken
  BY DEF TreeInOrder
<1>4. QED BY <1>1, <1>2, <1>3, PTL DEF Spec

\* Whatever the file: no node but a block, a table's fields and the file begins with a
\* comment, whenever Precede has put the node around others.
THEOREM NodesBeginWithCode == Spec => []CommentsOutside
<1>1. Init => IInv /\ ReadsThere /\ TreeInOrder
  BY InitInv, ReadsThereInit, TreeInOrderInit
<1>2. IInv /\ ReadsThere /\ TreeInOrder /\ [Next]_vars => (IInv /\ ReadsThere /\ TreeInOrder)'
  BY NextInv, ReadsThereNext, TreeInOrderNext
<1>3. IInv /\ TreeInOrder => CommentsOutside
  <2>1. SUFFICES ASSUME IInv, TreeInOrder, NEW n \in 1..(Len(entries) - 1),
                        entries[n].token = 0, ~IsEatAllComment(entries[n].kind),
                        entries[n + 1].token # 0
                 PROVE  tokens[entries[n + 1].token] \notin Comments
    BY DEF CommentsOutside
  <2>2. n \in 1..Len(entries) /\ n < Len(entries)
    BY WhileBuilding
  <2>3. QED BY <2>1, <2>2 DEF TreeInOrder, NoCommentFirst, CommentsKeptOut, Bare
<1>4. QED BY <1>1, <1>2, <1>3, PTL DEF Spec

-----------------------------------------------------------------------------
(* Numbers in order. *)

\* A finite set of numbers that is not empty has a greatest member: one with the fewest
\* members above it.
LEMMA HasGreatest ==
  ASSUME NEW A \in SUBSET Nat, A # {}, IsFiniteSet(A)
  PROVE  Syntax!Greatest(A) \in A /\ \A y \in A : y <= Syntax!Greatest(A)
<1> DEFINE Above(x) == {y \in A : y > x}
           T == {Above(x) : x \in A}
<1>1. T \subseteq FiniteSubsetsOf(A) /\ T # {}
  <2>1. \A x \in A : Above(x) \in SUBSET A /\ IsFiniteSet(Above(x))
    BY FS_Subset
  <2>2. QED BY <2>1 DEF FiniteSubsetsOf
<1>2. PICK U \in T : \A V \in T : ~ (<<V, U>> \in StrictSubsetOrdering(A))
  <2> HIDE DEF T
  <2>1. QED BY <1>1, FS_StrictSubsetOrderingWellFounded, WFMin
<1>3. PICK x \in A : U = Above(x)
  BY <1>2
<1>4. ASSUME NEW y \in A PROVE y <= x
  <2> SUFFICES ASSUME y > x PROVE FALSE
    <3>1. x \in Nat /\ y \in Nat
      OBVIOUS
    <3>2. QED BY <3>1
  <2>1. Above(y) \subseteq Above(x) /\ Above(y) # Above(x) /\ Above(x) \subseteq A
    <3>1. y \in Above(x) /\ y \notin Above(y)
      OBVIOUS
    <3>2. \A z \in Above(y) : z \in Above(x)
      OBVIOUS
    <3>3. QED BY <3>1, <3>2
  <2>2. <<Above(y), Above(x)>> \in (SUBSET A) \X (SUBSET A)
    BY <2>1
  <2>3. Above(y) \in T
    OBVIOUS
  <2> HIDE DEF Above, T
  <2>4. <<Above(y), Above(x)>> \in StrictSubsetOrdering(A)
    BY <2>1, <2>2 DEF StrictSubsetOrdering
  <2>5. QED BY <1>2, <1>3, <2>3, <2>4
<1>5. \E g \in A : \A y \in A : y <= g
  BY <1>4
<1>6. QED BY <1>5 DEF Syntax!Greatest

\* It has a least member, too.
LEMMA HasLeast ==
  ASSUME NEW n \in Nat, NEW A \in SUBSET (0..n), A # {}
  PROVE  Syntax!Least(A) \in A /\ \A y \in A : Syntax!Least(A) <= y
<1> DEFINE B == {n - x : x \in A}
<1>1. B \in SUBSET (0..n) /\ B # {}
  <2>1. \A x \in A : x \in 0..n /\ n - x \in 0..n
    OBVIOUS
  <2>2. PICK x \in A : TRUE
    OBVIOUS
  <2>3. QED BY <2>1, <2>2
<1>2. B \in SUBSET Nat /\ IsFiniteSet(B)
  <2>1. IsFiniteSet(0..n)
    BY FS_Interval
  <2>2. 0..n \subseteq Nat
    OBVIOUS
  <2> HIDE DEF B
  <2>3. QED BY <1>1, <2>1, <2>2, FS_Subset
<1>3. PICK g \in B : \A y \in B : y <= g
  <2> HIDE DEF B
  <2>1. QED BY <1>1, <1>2, HasGreatest
<1>4. PICK x \in A : g = n - x
  BY <1>3
<1>5. \A y \in A : x <= y
  <2>1. \A y \in A : n - y <= n - x
    BY <1>3, <1>4
  <2>2. QED BY <2>1
<1>6. \E l \in A : \A y \in A : l <= y
  BY <1>5
<1>7. QED BY <1>6 DEF Syntax!Least

Before(S, x) == {y \in S : y < x}

\* A greater member has more members before it.
LEMMA BeforeGrows ==
  ASSUME NEW n \in Nat, NEW S \in SUBSET (1..n)
  PROVE  /\ IsFiniteSet(S) /\ Cardinality(S) \in Nat
         /\ \A x \in S : Cardinality(Before(S, x)) \in 0..(Cardinality(S) - 1)
         /\ \A x, y \in S : x < y => Cardinality(Before(S, x)) < Cardinality(Before(S, y))
<1>1. IsFiniteSet(S) /\ Cardinality(S) \in Nat
  <2>1. IsFiniteSet(1..n)
    BY FS_Interval
  <2>2. QED BY <2>1, FS_Subset, FS_CardinalityType
<1>2. \A x \in S : /\ IsFiniteSet(Before(S, x)) /\ Cardinality(Before(S, x)) \in Nat
  <2>1. \A x \in S : Before(S, x) \in SUBSET S
    BY DEF Before
  <2>2. QED BY <1>1, <2>1, FS_Subset, FS_CardinalityType
<1>3. ASSUME NEW x \in S, NEW U \in SUBSET S, Before(S, x) \subseteq U, x \in U
      PROVE  Cardinality(Before(S, x)) + 1 <= Cardinality(U)
  <2>1. IsFiniteSet(U) /\ Cardinality(U) \in Nat
    BY <1>1, FS_Subset, FS_CardinalityType
  <2>2. x \notin Before(S, x)
    BY DEF Before
  <2>3. Before(S, x) \cup {x} \in SUBSET U
    BY <1>3
  <2>4. Cardinality(Before(S, x) \cup {x}) = Cardinality(Before(S, x)) + 1
    BY <1>2, <2>2, FS_AddElement
  <2>5. QED BY <2>1, <2>3, <2>4, FS_Subset
<1>4. ASSUME NEW x \in S PROVE Cardinality(Before(S, x)) \in 0..(Cardinality(S) - 1)
  <2>1. S \in SUBSET S /\ Before(S, x) \subseteq S
    BY DEF Before
  <2>2. Cardinality(Before(S, x)) + 1 <= Cardinality(S)
    BY <1>3, <2>1
  <2>3. QED BY <1>1, <1>2, <2>2
<1>5. ASSUME NEW x \in S, NEW y \in S, x < y
      PROVE  Cardinality(Before(S, x)) < Cardinality(Before(S, y))
  <2>1. Before(S, y) \in SUBSET S /\ Before(S, x) \subseteq Before(S, y) /\ x \in Before(S, y)
    <3>1. \A z \in S : z < x => z < y
      BY <1>5
    <3>2. QED BY <1>5, <3>1 DEF Before
  <2>2. Cardinality(Before(S, x)) + 1 <= Cardinality(Before(S, y))
    BY <1>3, <2>1
  <2>3. QED BY <1>2, <2>2
<1>6. QED BY <1>1, <1>4, <1>5

\* The sequence s holds the members of S, each once and in order.
Lists(s, S) ==
  /\ s \in Seq(S) /\ Len(s) \in Nat
  /\ Len(s) = Cardinality(S)
  /\ \A k \in 1..Len(s) : s[k] \in S /\ Cardinality(Before(S, s[k])) = k - 1
  /\ \A j, k \in 1..Len(s) : j < k => s[j] < s[k]
  /\ \A x \in S : \E k \in 1..Len(s) : s[k] = x

\* Ascending does so.
LEMMA AscendingLists ==
  ASSUME NEW n \in Nat, NEW S \in SUBSET (1..n)
  PROVE  Lists(Ascending(S), S)
<1> DEFINE m == Cardinality(S)
           s == Ascending(S)
           rank == [x \in S |-> Cardinality(Before(S, x)) + 1]
<1>1. /\ IsFiniteSet(S) /\ m \in Nat
      /\ \A x \in S : Cardinality(Before(S, x)) \in 0..(m - 1)
      /\ \A x, y \in S : x < y => Cardinality(Before(S, x)) < Cardinality(Before(S, y))
  BY BeforeGrows
<1> HIDE DEF m
<1>2. rank \in Injection(S, 1..m)
  <2>1. rank \in [S -> 1..m]
    BY <1>1
  <2>2. ASSUME NEW x \in S, NEW y \in S, rank[x] = rank[y] PROVE x = y
    <3>1. ~(x < y) /\ ~(y < x)
      BY <1>1, <2>2
    <3>2. x \in Nat /\ y \in Nat
      OBVIOUS
    <3>3. QED BY <3>1, <3>2
  <2>3. DOMAIN rank = S
    OBVIOUS
  <2> HIDE DEF rank
  <2>4. QED BY <2>1, <2>2, <2>3 DEF Injection, IsInjective
<1>3. \A k \in 1..m : \E x \in S : rank[x] = k
  <2>1. IsFiniteSet(1..m) /\ Cardinality(1..m) = m
    BY <1>1, FS_Interval
  <2>2. rank \in Surjection(S, 1..m)
    <3> HIDE DEF rank
    <3>1. QED BY <1>2, <2>1, FS_Injection DEF m
  <2> HIDE DEF rank
  <2>3. QED BY <2>2 DEF Surjection
<1>4. s = [k \in 1..m |-> CHOOSE x \in S : Cardinality(Before(S, x)) = k - 1]
  BY DEF Ascending, Before, m
<1>5. ASSUME NEW k \in 1..m PROVE s[k] \in S /\ Cardinality(Before(S, s[k])) = k - 1
  <2>1. PICK x \in S : rank[x] = k
    BY <1>3
  <2>2. Cardinality(Before(S, x)) = k - 1
    BY <1>1, <2>1
  <2>3. s[k] = CHOOSE z \in S : Cardinality(Before(S, z)) = k - 1
    BY <1>4
  <2>4. QED BY <2>2, <2>3
<1>6. s \in [1..m -> S]
  BY <1>4, <1>5
<1>7. s \in Seq(S) /\ Len(s) = m
  BY <1>1, <1>6
<1>8. ASSUME NEW x \in S, NEW y \in S,
             Cardinality(Before(S, x)) < Cardinality(Before(S, y))
      PROVE  x < y
  <2>1. x \in Nat /\ y \in Nat /\ x # y /\ ~(y < x)
    BY <1>1, <1>8
  <2>2. QED BY <2>1
<1>9. ASSUME NEW j \in 1..m, NEW k \in 1..m, j < k PROVE s[j] < s[k]
  <2>1. s[j] \in S /\ s[k] \in S
    BY <1>5
  <2>2. Cardinality(Before(S, s[j])) < Cardinality(Before(S, s[k]))
    <3>1. j - 1 < k - 1
      BY <1>9
    <3>2. QED BY <1>5, <3>1
  <2>3. QED BY <1>8, <2>1, <2>2
<1>10. ASSUME NEW x \in S PROVE \E k \in 1..m : s[k] = x
  <2> DEFINE k == Cardinality(Before(S, x)) + 1
  <2>1. k \in 1..m /\ k - 1 = Cardinality(Before(S, x))
    BY <1>1
  <2>2. s[k] \in S /\ Cardinality(Before(S, s[k])) = Cardinality(Before(S, x))
    BY <1>5, <2>1
  <2>3. s[k] = x
    <3>1. s[k] \in Nat /\ x \in Nat
      <4>1. \A y \in S : y \in Nat
        OBVIOUS
      <4>2. QED BY <2>2, <4>1
    <3>2. Cardinality(Before(S, x)) \in Nat
      BY <1>1
    <3>3. ~(s[k] < x) /\ ~(x < s[k])
      <4>1. /\ s[k] < x => Cardinality(Before(S, s[k])) < Cardinality(Before(S, x))
            /\ x < s[k] => Cardinality(Before(S, x)) < Cardinality(Before(S, s[k]))
        BY <1>1, <2>2, Zenon
      <4>2. QED BY <2>2, <3>2, <4>1
    <3>4. QED BY <3>1, <3>3
  <2>4. QED BY <2>1, <2>3
<1>11. QED BY <1>1, <1>5, <1>7, <1>9, <1>10 DEF m, Lists

-----------------------------------------------------------------------------
(* When parents make a tree. *)

\* Every entry but the first hangs below one before it, and the entries between the two do not
\* hang below what was before the parent.
Forest(parent, size) ==
  /\ size \in Nat \ {0} /\ parent \in [1..size -> Int]
  /\ parent[1] = 0
  /\ \A k \in 2..size : parent[k] \in 1..(k - 1)
  /\ \A k, m \in 1..size : k < m => parent[m] <= parent[k] \/ parent[m] >= k

\* The subtree of n ends at l.
Spans(parent, size, n, l) ==
  /\ l \in n..size
  /\ \A k \in (n + 1)..l : parent[k] >= n
  /\ l < size => parent[l + 1] < n

LEMMA SpansOnce ==
  ASSUME NEW size \in Nat, NEW parent \in [1..size -> Int],
         NEW n \in 1..size, NEW l, NEW m, Spans(parent, size, n, l), Spans(parent, size, n, m)
  PROVE  l = m
<1>1. /\ l \in n..size /\ m \in n..size /\ n \in Nat
      /\ l < size => parent[l + 1] < n
      /\ m < size => parent[m + 1] < n
  BY DEF Spans
<1>2. ASSUME l < m PROVE FALSE
  <2>1. l + 1 \in (n + 1)..m /\ l < size /\ l + 1 \in 1..size
    BY <1>1, <1>2
  <2>2. parent[l + 1] >= n /\ parent[l + 1] < n /\ parent[l + 1] \in Int
    BY <1>1, <2>1 DEF Spans
  <2>3. QED BY <1>1, <2>2
<1>3. ASSUME m < l PROVE FALSE
  <2>1. m + 1 \in (n + 1)..l /\ m < size /\ m + 1 \in 1..size
    BY <1>1, <1>3
  <2>2. parent[m + 1] >= n /\ parent[m + 1] < n /\ parent[m + 1] \in Int
    BY <1>1, <2>1 DEF Spans
  <2>3. QED BY <1>1, <2>2
<1>4. QED BY <1>1, <1>2, <1>3

\* LastBelow finds the end of a subtree.
LEMMA GreatestSpans ==
  ASSUME NEW size \in Nat, NEW parent \in [1..size -> Int], NEW n \in 1..size,
         NEW l, l = Syntax!Greatest({m \in n..size : \A k \in (n + 1)..m : parent[k] >= n})
  PROVE  Spans(parent, size, n, l)
<1> DEFINE A == {m \in n..size : \A k \in (n + 1)..m : parent[k] >= n}
<1>1. A \in SUBSET Nat /\ A \in SUBSET (n..size) /\ n \in A
  OBVIOUS
<1>2. IsFiniteSet(A)
  <2>1. IsFiniteSet(n..size)
    BY FS_Interval
  <2> HIDE DEF A
  <2>2. QED BY <1>1, <2>1, FS_Subset
<1>3. l \in A /\ \A y \in A : y <= l
  <2> HIDE DEF A
  <2>1. Syntax!Greatest(A) \in A /\ \A y \in A : y <= Syntax!Greatest(A)
    BY <1>1, <1>2, HasGreatest
  <2>2. l = Syntax!Greatest(A)
    BY DEF A
  <2>3. QED BY <2>1, <2>2
<1>4. l \in n..size /\ \A k \in (n + 1)..l : parent[k] >= n
  BY <1>3
<1>5. ASSUME l < size PROVE parent[l + 1] < n
  <2>1. l + 1 \notin A
    BY <1>3, <1>4, SMTT(30)
  <2>2. l + 1 \in n..size /\ l + 1 \in 1..size
    BY <1>4, <1>5
  <2>3. PICK k \in (n + 1)..(l + 1) : ~(parent[k] >= n)
    BY <2>1, <2>2
  <2>4. k = l + 1
    BY <1>4, <2>3
  <2>5. parent[l + 1] \in Int
    BY <2>2
  <2>6. QED BY <2>3, <2>4, <2>5
<1>6. QED BY <1>4, <1>5 DEF Spans

\* The subtree of an entry without children is the entry.
LEMMA LeafSpans ==
  ASSUME NEW size, NEW parent, Forest(parent, size), NEW n \in 1..size,
         \A k \in 1..size : parent[k] # n
  PROVE  Spans(parent, size, n, n)
<1>1. /\ size \in Nat /\ n \in Nat /\ n > 0
      /\ \A k \in 2..size : parent[k] \in 1..(k - 1)
  BY DEF Forest
<1>2. ASSUME n < size PROVE parent[n + 1] < n
  <2>1. n + 1 \in 2..size /\ n + 1 \in 1..size
    BY <1>1, <1>2
  <2>2. parent[n + 1] \in 1..n /\ parent[n + 1] # n
    BY <1>1, <2>1
  <2>3. QED BY <1>1, <2>2
<1>3. QED BY <1>1, <1>2 DEF Spans

\* The children of n, and where they are among the entries behind n.
LEMMA ChildIsBehind ==
  ASSUME NEW size, NEW parent, Forest(parent, size), NEW n \in 1..size,
         NEW j \in 1..size, parent[j] = n
  PROVE  n < j /\ j \in 2..size
<1>1. /\ size \in Nat /\ n \in Nat /\ n > 0 /\ parent[1] = 0
      /\ \A k \in 2..size : parent[k] \in 1..(k - 1)
  BY DEF Forest
<1>2. j \in 2..size
  <2>1. j # 1
    BY <1>1
  <2>2. QED BY <1>1, <2>1
<1>3. QED BY <1>1, <1>2

\* What is between an entry and one of its children does not hang higher than the child.
LEMMA BetweenHangsLow ==
  ASSUME NEW size, NEW parent, Forest(parent, size), NEW n \in 1..size,
         NEW j \in 1..size, parent[j] = n, NEW k \in (n + 1)..j
  PROVE  parent[k] >= n /\ k \in 2..size /\ parent[k] \in 1..(k - 1)
<1>1. /\ size \in Nat /\ n \in Nat /\ n > 0 /\ j \in Nat /\ k \in Nat
      /\ \A i \in 2..size : parent[i] \in 1..(i - 1)
      /\ \A i, m \in 1..size : i < m => parent[m] <= parent[i] \/ parent[m] >= i
  BY DEF Forest
<1>2. k \in 1..size /\ k \in 2..size
  BY <1>1
<1>3. parent[k] \in 1..(k - 1)
  BY <1>1, <1>2
<1>4. CASE k = j
  BY <1>1, <1>4
<1>5. CASE k < j
  <2>1. n <= parent[k] \/ n >= k
    BY <1>1, <1>2, <1>5
  <2>2. QED BY <1>1, <1>2, <1>3, <2>1
<1>6. QED BY <1>1, <1>2, <1>3, <1>4, <1>5

\* The first child comes right after its parent.
LEMMA FirstChildNext ==
  ASSUME NEW size, NEW parent, Forest(parent, size), NEW n \in 1..size,
         NEW j \in 1..size, parent[j] = n
  PROVE  n + 1 \in 1..size /\ parent[n + 1] = n
<1>1. size \in Nat /\ n \in Nat /\ j \in Nat /\ n < j
  BY ChildIsBehind DEF Forest
<1>2. n + 1 \in (n + 1)..j /\ n + 1 \in 1..size
  BY <1>1
<1>3. parent[n + 1] >= n /\ parent[n + 1] \in 1..((n + 1) - 1)
  BY <1>2, BetweenHangsLow
<1>4. QED BY <1>1, <1>2, <1>3

\* A subtree ends with that of its last child.
LEMMA LastChildSpans ==
  ASSUME NEW size, NEW parent, Forest(parent, size), NEW n \in 1..size,
         NEW g \in 1..size, parent[g] = n, \A k \in 1..size : parent[k] = n => k <= g,
         NEW l, Spans(parent, size, g, l)
  PROVE  Spans(parent, size, n, l)
<1>1. /\ size \in Nat /\ n \in Nat /\ g \in Nat /\ n < g
      /\ \A k, m \in 1..size : k < m => parent[m] <= parent[k] \/ parent[m] >= k
      /\ parent \in [1..size -> Int]
  <2>1. n < g
    BY ChildIsBehind
  <2>2. QED BY <2>1 DEF Forest
<1>2. /\ l \in g..size /\ l \in Nat
      /\ \A k \in (g + 1)..l : parent[k] >= g
      /\ l < size => parent[l + 1] < g
  BY <1>1 DEF Spans
<1>3. l \in n..size
  BY <1>1, <1>2
<1>4. ASSUME NEW k \in (n + 1)..l PROVE parent[k] >= n
  <2>1. CASE k <= g
    <3>1. k \in (n + 1)..g
      BY <1>1, <1>2, <2>1
    <3>2. QED BY <3>1, BetweenHangsLow
  <2>2. CASE k > g
    <3>1. k \in (g + 1)..l /\ k \in 1..size
      BY <1>1, <1>2, <2>2
    <3>2. parent[k] >= g /\ parent[k] \in Int
      BY <1>1, <1>2, <3>1
    <3>3. QED BY <1>1, <3>2
  <2>3. QED BY <1>1, <1>2, <2>1, <2>2
<1>5. ASSUME l < size PROVE parent[l + 1] < n
  <2>1. l + 1 \in 1..size /\ g < l + 1
    BY <1>1, <1>2, <1>5
  <2>2. parent[l + 1] \in Int /\ parent[l + 1] < g /\ parent[l + 1] # n
    BY <1>1, <1>2, <1>5, <2>1
  <2>3. parent[l + 1] <= parent[g] \/ parent[l + 1] >= g
    BY <1>1, <2>1
  <2>4. QED BY <1>1, <2>2, <2>3
<1>6. QED BY <1>3, <1>4, <1>5 DEF Spans

\* The subtree of a child ends before the next child.
LEMMA NextChildSpans ==
  ASSUME NEW size, NEW parent, Forest(parent, size), NEW n \in 1..size,
         NEW a \in 1..size, NEW b \in 1..size, a < b, parent[a] = n, parent[b] = n,
         \A k \in 1..size : parent[k] = n => k <= a \/ k >= b
  PROVE  Spans(parent, size, a, b - 1)
<1>1. /\ size \in Nat /\ n \in Nat /\ a \in Nat /\ b \in Nat /\ n < a
      /\ \A k, m \in 1..size : k < m => parent[m] <= parent[k] \/ parent[m] >= k
      /\ parent \in [1..size -> Int]
  <2>1. n < a
    BY ChildIsBehind
  <2>2. QED BY <2>1 DEF Forest
<1>2. b - 1 \in a..size /\ (b - 1) + 1 = b
  BY <1>1
<1>3. ASSUME NEW k \in (a + 1)..(b - 1) PROVE parent[k] >= a
  <2>1. k \in (n + 1)..b /\ k \in 1..size /\ a < k /\ k < b
    BY <1>1
  <2>2. parent[k] >= n /\ parent[k] \in Int /\ parent[k] # n
    <3>1. parent[k] >= n
      BY <2>1, BetweenHangsLow
    <3>2. QED BY <1>1, <2>1, <3>1
  <2>3. parent[k] <= parent[a] \/ parent[k] >= a
    BY <1>1, <2>1
  <2>4. QED BY <1>1, <2>2, <2>3
<1>4. QED BY <1>1, <1>2, <1>3 DEF Spans

\* The links list the children, tell where the subtrees end, and lead from each child to the
\* next one.
ChildrenListed(t, parent, size) ==
  /\ t.children \in [1..size -> Seq(1..size)]
  /\ \A i \in 1..size :
       /\ Len(t.children[i]) \in Nat
       /\ \A k \in 1..Len(t.children[i]) :
            t.children[i][k] \in 1..size /\ parent[t.children[i][k]] = i
       /\ \A j, k \in 1..Len(t.children[i]) : j < k => t.children[i][j] < t.children[i][k]
       /\ \A x \in 1..size :
            parent[x] = i => \E k \in 1..Len(t.children[i]) : t.children[i][k] = x

EndsFound(t, parent, size) ==
  /\ DOMAIN t.last = 1..size /\ t.last = [n \in 1..size |-> t.last[n]]
  /\ \A i \in 1..size : Spans(parent, size, i, t.last[i])

NextFound(t, parent, size) ==
  /\ t.next \in [1..size -> 0..size]
  /\ \A i \in 1..size : \A k \in (i + 1)..size :
       parent[k] = parent[i] => t.next[i] \in (i + 1)..k /\ parent[t.next[i]] = parent[i]

\* Then they are a tree.
LEMMA LinksMakeTree ==
  ASSUME NEW size, NEW parent, Forest(parent, size),
         NEW t, t.size = size, t.parent = parent,
         ChildrenListed(t, parent, size), EndsFound(t, parent, size), NextFound(t, parent, size)
  PROVE  Syntax!IsTree(t)
<1>1. /\ size \in Nat /\ size >= 1
      /\ parent \in [1..size -> Int] /\ parent[1] = 0
      /\ \A k \in 2..size : parent[k] \in 1..(k - 1)
  BY DEF Forest
<1>3. t.size = size /\ t.parent = parent
  OBVIOUS
<1>5. ASSUME NEW i \in 1..size
      PROVE  /\ t.children[i] \in Seq(1..size) /\ Len(t.children[i]) \in Nat
             /\ \A k \in 1..Len(t.children[i]) :
                  t.children[i][k] \in 1..size /\ parent[t.children[i][k]] = i
             /\ \A j, k \in 1..Len(t.children[i]) : j < k => t.children[i][j] < t.children[i][k]
             /\ \A x \in 1..size : parent[x] = i => \E k \in 1..Len(t.children[i]) : t.children[i][k] = x
  <2>1. t.children[i] \in Seq(1..size)
    BY DEF ChildrenListed
  <2>2. QED BY <2>1, Zenon DEF ChildrenListed
<1>6. ASSUME NEW i \in 1..size PROVE Spans(parent, size, i, t.last[i])
  BY Zenon DEF EndsFound
<1>7. t.last \in [1..size -> 1..size]
  <2>1. \A i \in 1..size : t.last[i] \in 1..size
    BY <1>1, <1>6 DEF Spans
  <2>2. QED BY <2>1 DEF EndsFound
<1>9. t.next \in [1..size -> 0..size]
  BY DEF NextFound
<1>10. t.children \in [1..size -> Seq(1..size)]
  BY DEF ChildrenListed
<1>11. t.parent \in [1..size -> 0..size]
  <2>1. \A k \in 1..size : parent[k] \in 0..size
    <3> SUFFICES ASSUME NEW k \in 1..size PROVE parent[k] \in 0..size
      OBVIOUS
    <3>1. CASE k = 1
      BY <1>1, <3>1
    <3>2. CASE k # 1
      <4>1. k \in 2..size
        BY <1>1, <3>2
      <4>2. parent[k] \in 1..(k - 1)
        BY <1>1, <4>1
      <4>3. QED BY <1>1, <4>2
    <3>3. QED BY <3>1, <3>2
  <2>2. QED BY <1>1, <1>3, <2>1
<1>12. t.last[1] = size
  <2>1. 1 \in 1..size /\ \A k \in 2..size : parent[k] >= 1
    BY <1>1
  <2>2. Spans(parent, size, 1, size)
    BY <1>1, <2>1 DEF Spans
  <2>3. QED BY <1>1, <1>6, <2>1, <2>2, SpansOnce
<1>13. ASSUME NEW i \in 1..size, t.children[i] = <<>> PROVE t.last[i] = i
  <2>1. Len(t.children[i]) = 0
    BY <1>13
  <2>2. \A k \in 1..size : parent[k] # i
    BY <1>5, <2>1
  <2>3. Spans(parent, size, i, i)
    BY <2>2, LeafSpans
  <2>4. QED BY <1>1, <1>6, <2>3, SpansOnce
<1>14. ASSUME NEW i \in 1..size, t.children[i] # <<>>
       PROVE  /\ t.children[i][1] = i + 1
              /\ t.last[i] = t.last[t.children[i][Len(t.children[i])]]
  <2> DEFINE c == t.children[i]
             n == Len(c)
  <2>1. /\ n \in Nat /\ n >= 1
        /\ \A k \in 1..n : c[k] \in 1..size /\ parent[c[k]] = i
        /\ \A j, k \in 1..n : j < k => c[j] < c[k]
        /\ \A x \in 1..size : parent[x] = i => \E k \in 1..n : c[k] = x
    <3>1. c \in Seq(1..size) /\ c # <<>>
      BY <1>5, <1>14
    <3> HIDE DEF c
    <3>2. n >= 1
      BY <3>1
    <3>3. QED BY <1>5, <3>2 DEF c
  <2> HIDE DEF c, n
  <2>2. c[1] = i + 1
    <3>1. 1 \in 1..n
      BY <2>1
    <3>2. i + 1 \in 1..size /\ parent[i + 1] = i
      BY <2>1, <3>1, FirstChildNext
    <3>3. PICK k \in 1..n : c[k] = i + 1
      BY <2>1, <3>2
    <3>4. i < c[1] /\ c[1] \in Nat /\ i \in Nat
      <4>1. i < c[1]
        <5>1. c[1] \in 1..size /\ parent[c[1]] = i
          BY <2>1, <3>1
        <5>2. QED BY <5>1, ChildIsBehind
      <4>2. QED BY <2>1, <3>1, <4>1
    <3>5. CASE k = 1
      BY <3>3, <3>5
    <3>6. CASE k # 1
      <4>1. 1 < k
        BY <3>6, <2>1
      <4>2. c[1] < c[k]
        BY <2>1, <3>1, <4>1
      <4>3. QED BY <3>3, <3>4, <4>2
    <3>7. QED BY <3>5, <3>6
  <2>3. t.last[i] = t.last[c[n]]
    <3>1. n \in 1..n /\ c[n] \in 1..size /\ parent[c[n]] = i
      BY <2>1
    <3>2. ASSUME NEW x \in 1..size, parent[x] = i PROVE x <= c[n]
      <4>1. PICK k \in 1..n : c[k] = x
        BY <2>1, <3>2
      <4>2. CASE k = n
        BY <3>1, <4>1, <4>2
      <4>3. CASE k # n
        <5>1. k < n
          BY <2>1, <4>3
        <5>2. c[k] < c[n]
          BY <2>1, <3>1, <5>1
        <5>3. QED BY <3>1, <4>1, <5>2
      <4>4. QED BY <4>2, <4>3
    <3>3. Spans(parent, size, c[n], t.last[c[n]])
      BY <1>6, <3>1
    <3>4. Spans(parent, size, i, t.last[c[n]])
      BY <3>1, <3>2, <3>3, LastChildSpans
    <3>5. Spans(parent, size, i, t.last[i])
      BY <1>6
    <3>6. QED BY <1>1, <3>4, <3>5, SpansOnce
  <2>4. QED BY <2>2, <2>3 DEF c, n
<1>15. ASSUME NEW i \in 1..size, NEW k \in 1..(Len(t.children[i]) - 1)
       PROVE  /\ t.children[i][k + 1] = t.last[t.children[i][k]] + 1
              /\ t.next[t.children[i][k]] = t.children[i][k + 1]
  <2> DEFINE c == t.children[i]
             n == Len(c)
             a == c[k]
             b == c[k + 1]
  <2>1. /\ n \in Nat
        /\ \A j \in 1..n : c[j] \in 1..size /\ parent[c[j]] = i
        /\ \A j, m \in 1..n : j < m => c[j] < c[m]
        /\ \A x \in 1..size : parent[x] = i => \E j \in 1..n : c[j] = x
    BY <1>5
  <2>2. k \in 1..n /\ k + 1 \in 1..n /\ k < k + 1
    BY <2>1
  <2> HIDE DEF c, n
  <2>3. /\ a \in 1..size /\ b \in 1..size /\ parent[a] = i /\ parent[b] = i /\ a < b
    BY <2>1, <2>2
  <2>4. ASSUME NEW x \in 1..size, parent[x] = i PROVE x <= a \/ x >= b
    <3>1. PICK j \in 1..n : c[j] = x
      BY <2>1, <2>4
    <3>2. CASE j <= k
      <4>1. j = k \/ j < k
        BY <2>1, <2>2, <3>2
      <4>2. j < k => c[j] < c[k]
        BY <2>1, <2>2
      <4>3. QED BY <2>3, <3>1, <4>1, <4>2
    <3>3. CASE ~(j <= k)
      <4>1. j = k + 1 \/ k + 1 < j
        BY <2>1, <2>2, <3>3
      <4>2. k + 1 < j => c[k + 1] < c[j]
        BY <2>1, <2>2
      <4>3. QED BY <2>3, <3>1, <4>1, <4>2
    <3>4. QED BY <3>2, <3>3
  <2> HIDE DEF a, b
  <2>5. b = t.last[a] + 1
    <3>1. Spans(parent, size, a, b - 1)
      BY <2>3, <2>4, NextChildSpans
    <3>2. Spans(parent, size, a, t.last[a])
      BY <1>6, <2>3
    <3>3. b - 1 = t.last[a]
      BY <1>1, <2>3, <3>1, <3>2, SpansOnce
    <3>4. QED BY <2>3, <3>3
  <2>6. t.next[a] = b
    <3>1. b \in (a + 1)..size /\ parent[b] = parent[a]
      BY <1>1, <2>3
    <3>2. t.next[a] \in (a + 1)..b /\ parent[t.next[a]] = i
      BY <2>3, <3>1 DEF NextFound
    <3>3. t.next[a] \in 1..size
      BY <1>1, <2>3, <3>2
    <3>4. t.next[a] <= a \/ t.next[a] >= b
      BY <2>4, <3>2, <3>3
    <3>5. \A z \in (a + 1)..b : z <= a \/ z >= b => z = b
      BY <1>1, <2>3
    <3>6. QED BY <3>2, <3>4, <3>5
  <2>7. QED BY <2>5, <2>6 DEF a, b, c
<1>16. size \in Nat \ {0}
  BY <1>1
<1>17. QED
  <2>1. \A i \in 1..t.size :
          LET c == t.children[i] IN
          /\ c = <<>> => t.last[i] = i
          /\ c # <<>> => c[1] = i + 1 /\ t.last[i] = t.last[c[Len(c)]]
          /\ \A k \in 1..Len(c) : t.parent[c[k]] = i
          /\ \A k \in 1..(Len(c) - 1) : c[k + 1] = t.last[c[k]] + 1 /\ t.next[c[k]] = c[k + 1]
    BY <1>3, <1>5, <1>13, <1>14, <1>15
  <2>2. /\ t.size \in Nat \ {0} /\ t.children \in [1..t.size -> Seq(1..t.size)]
        /\ t.last \in [1..t.size -> 1..t.size] /\ t.parent \in [1..t.size -> 0..t.size]
        /\ t.next \in [1..t.size -> 0..t.size] /\ t.last[1] = t.size
    BY <1>3, <1>7, <1>9, <1>10, <1>11, <1>12, <1>16
  <2>3. QED BY <2>1, <2>2, Zenon DEF Syntax!IsTree

\* Entries that hang below one another as in a forest are a tree.
LEMMA ForestIsTree ==
  ASSUME entries \in Seq(EntryRecord),
         NEW size, size = Len(entries), NEW parent, Forest(parent, size),
         \A k \in 1..size : entries[k].parent = parent[k]
  PROVE  Syntax!IsTree(Tree)
<1> DEFINE t == Tree
<1>1. /\ size \in Nat /\ size >= 1 /\ DOMAIN entries = 1..size
      /\ parent \in [1..size -> Int] /\ parent[1] = 0
      /\ \A k \in 2..size : parent[k] \in 1..(k - 1)
  <2>1. DOMAIN entries = 1..Len(entries)
    OBVIOUS
  <2>2. size \in Nat /\ size >= 1
    BY DEF Forest
  <2>3. QED BY <2>1, <2>2 DEF Forest
<1>2. \A k \in 1..size : entries[k].parent = parent[k]
  OBVIOUS
<1>3. /\ t.size = size /\ t.parent = parent
      /\ t.children = [n \in 1..size |-> Ascending(ChildrenOf(n))]
      /\ t.last = [n \in 1..size |-> LastBelow(n)]
      /\ t.next = [n \in 1..size |-> NextBeside(n)]
  <2>1. parent = [n \in 1..size |-> entries[n].parent]
    BY <1>1, <1>2
  <2>2. QED BY <1>1, <2>1 DEF Tree
<1> HIDE DEF t
<1>4. \A i \in 1..size : ChildrenOf(i) = {k \in 1..size : parent[k] = i} /\ ChildrenOf(i) \in SUBSET (1..size)
  BY <1>1, <1>2 DEF ChildrenOf
<1>5. ASSUME NEW i \in 1..size
      PROVE  /\ t.children[i] \in Seq(1..size) /\ Len(t.children[i]) \in Nat
             /\ \A k \in 1..Len(t.children[i]) :
                  t.children[i][k] \in 1..size /\ parent[t.children[i][k]] = i
             /\ \A j, k \in 1..Len(t.children[i]) : j < k => t.children[i][j] < t.children[i][k]
             /\ \A x \in 1..size : parent[x] = i => \E k \in 1..Len(t.children[i]) : t.children[i][k] = x
  <2>1. t.children[i] = Ascending(ChildrenOf(i))
    BY <1>3
  <2>2. ChildrenOf(i) = {k \in 1..size : parent[k] = i}
    BY <1>4
  <2>3. size \in Nat
    BY <1>1
  <2> DEFINE c == t.children[i]
             S == ChildrenOf(i)
  <2>4. c = Ascending(S) /\ S = {k \in 1..size : parent[k] = i}
    BY <2>1, <2>2
  <2> HIDE DEF c, S
  <2>5. S \in SUBSET (1..size) /\ \A x \in 1..size : x \in S <=> parent[x] = i
    BY <2>4
  <2>6. Lists(c, S)
    BY <2>3, <2>4, <2>5, AscendingLists
  <2>7. c \in Seq(1..size)
    <3>1. c \in Seq(S) /\ S \subseteq 1..size
      BY <2>5, <2>6 DEF Lists
    <3>2. QED BY <3>1, SeqWider
  <2>8. \A k \in 1..Len(c) : c[k] \in 1..size /\ parent[c[k]] = i
    BY <2>5, <2>6 DEF Lists
  <2>9. \A x \in 1..size : parent[x] = i => \E k \in 1..Len(c) : c[k] = x
    BY <2>5, <2>6 DEF Lists
  <2>10. /\ c \in Seq(1..size) /\ Len(c) \in Nat
         /\ \A k \in 1..Len(c) : c[k] \in 1..size /\ parent[c[k]] = i
         /\ \A j, k \in 1..Len(c) : j < k => c[j] < c[k]
         /\ \A x \in 1..size : parent[x] = i => \E k \in 1..Len(c) : c[k] = x
    BY <2>6, <2>7, <2>8, <2>9, Zenon DEF Lists
  <2>11. QED BY <2>10 DEF c
<1>6. ASSUME NEW i \in 1..size PROVE Spans(parent, size, i, t.last[i])
  <2>1. t.last[i] = LastBelow(i)
    BY <1>3
  <2>2. {m \in i..Len(entries) : \A k \in (i + 1)..m : entries[k].parent >= i}
          = {m \in i..size : \A k \in (i + 1)..m : parent[k] >= i}
    <3>1. \A m \in i..size : \A k \in (i + 1)..m : k \in 1..size
      BY <1>1
    <3>2. \A m \in i..size : \A k \in (i + 1)..m : entries[k].parent = parent[k]
      BY <1>2, <3>1
    <3>3. QED BY <3>2
  <2>3. LastBelow(i) = Syntax!Greatest({m \in i..size : \A k \in (i + 1)..m : parent[k] >= i})
    BY <2>2 DEF LastBelow
  <2>4. QED BY <1>1, <2>1, <2>3, GreatestSpans
<1>8. ASSUME NEW i \in 1..size
      PROVE  /\ t.next[i] \in 0..size
             /\ \A k \in (i + 1)..size :
                  parent[k] = parent[i] => t.next[i] \in (i + 1)..k /\ parent[t.next[i]] = parent[i]
  <2> DEFINE later == {k \in (i + 1)..size : parent[k] = parent[i]}
  <2>1. later = {k \in (i + 1)..Len(entries) : entries[k].parent = entries[i].parent}
    <3>1. \A k \in (i + 1)..size : k \in 1..size
      BY <1>1
    <3>2. QED BY <1>2, <3>1
  <2>2. t.next[i] = IF later = {} THEN 0 ELSE Syntax!Least(later)
    <3>1. t.next[i] = NextBeside(i)
      BY <1>3
    <3> HIDE DEF later
    <3>2. NextBeside(i) = IF later = {} THEN 0 ELSE Syntax!Least(later)
      BY <2>1 DEF NextBeside
    <3>3. QED BY <3>1, <3>2
  <2>3. later \in SUBSET (0..size)
    BY <1>1
  <2> HIDE DEF later
  <2>4. later # {} => Syntax!Least(later) \in later /\ \A y \in later : Syntax!Least(later) <= y
    BY <1>1, <2>3, HasLeast
  <2>5. /\ later = {} => t.next[i] = 0
        /\ later # {} => t.next[i] \in later /\ \A y \in later : t.next[i] <= y
    BY <2>2, <2>4
  <2>6. t.next[i] \in 0..size
    <3>1. CASE later = {}
      BY <1>1, <2>5, <3>1
    <3>2. CASE later # {}
      BY <2>3, <2>5, <3>2
    <3>3. QED BY <3>1, <3>2
  <2>7. ASSUME NEW k \in (i + 1)..size, parent[k] = parent[i]
        PROVE  t.next[i] \in (i + 1)..k /\ parent[t.next[i]] = parent[i]
    <3>1. k \in later
      BY <2>7 DEF later
    <3>2. t.next[i] \in later /\ t.next[i] <= k
      BY <2>5, <3>1
    <3>3. t.next[i] \in (i + 1)..size /\ parent[t.next[i]] = parent[i]
      BY <3>2 DEF later
    <3>4. QED BY <3>2, <3>3
  <2>8. QED BY <2>6, <2>7
<1>9. ChildrenListed(t, parent, size)
  <2>1. \A n \in 1..size : Ascending(ChildrenOf(n)) \in Seq(1..size)
    BY <1>3, <1>5
  <2>2. t.children \in [1..size -> Seq(1..size)]
    BY <1>3, <2>1
  <2>3. QED BY <1>5, <2>2, Zenon DEF ChildrenListed
<1>10. EndsFound(t, parent, size)
  <2>1. DOMAIN t.last = 1..size /\ t.last = [n \in 1..size |-> t.last[n]]
    BY <1>3
  <2>2. QED BY <1>6, <2>1, Zenon DEF EndsFound
<1>11. NextFound(t, parent, size)
  <2>1. \A n \in 1..size : NextBeside(n) \in 0..size
    BY <1>3, <1>8
  <2>2. t.next \in [1..size -> 0..size]
    BY <1>3, <2>1
  <2>3. QED BY <1>8, <2>2 DEF NextFound
<1>12. Syntax!IsTree(t)
  BY <1>3, <1>9, <1>10, <1>11, LinksMakeTree
<1>13. QED BY <1>12 DEF t

-----------------------------------------------------------------------------
(* The tokens of a tree, one after the other. *)

\* f gives the members of S the numbers up to n, one to each.
OneEach(f, S, n) ==
  /\ \A k \in S : f[k] \in 1..n
  /\ \A j, k \in S : f[j] = f[k] => j = k
  /\ \A t \in 1..n : \E k \in S : f[k] = t

\* A set of entries holds as many tokens as it has members.
LEMMA TokensCounted ==
  ASSUME NEW S, IsFiniteSet(S), NEW n \in Nat,
         NEW f, OneEach(f, S, n)
  PROVE  Cardinality(S) = n
<1> DEFINE g == [k \in S |-> f[k]]
<1>1. g \in [S -> 1..n] /\ DOMAIN g = S
  BY DEF OneEach
<1>2. (\A j, k \in S : g[j] = g[k] => j = k) /\ (\A t \in 1..n : \E k \in S : g[k] = t)
  BY DEF OneEach
<1> HIDE DEF g
<1>3. g \in Bijection(S, 1..n)
  BY <1>1, <1>2 DEF Bijection, Injection, IsInjective, Surjection
<1>4. Cardinality(1..n) = Cardinality(S)
  BY <1>3, FS_Bijection DEF ExistsBijection
<1>5. Cardinality(1..n) = n
  BY FS_Interval
<1>6. QED BY <1>4, <1>5

\* When the entries hold the first n tokens in order, the k-th entry that holds a token holds
\* token k.
LEMMA TokensListed ==
  ASSUME entries \in Seq(EntryRecord), NEW n \in Nat, HoldsUpTo(entries, n),
         NEW S, S = {k \in DOMAIN entries : entries[k].token # 0},
         NEW kept, kept = Ascending(S)
  PROVE  Len(kept) = n /\ \A k \in 1..Len(kept) : entries[kept[k]].token = k
<1> DEFINE size == Len(entries)
           f == [k \in S |-> entries[k].token]
<1>1. size \in Nat /\ DOMAIN entries = 1..size
  OBVIOUS
<1>2. S \in SUBSET (1..size) /\ \A k \in 1..size : k \in S <=> entries[k].token # 0
  BY <1>1
<1>3. /\ \A k \in 1..size : entries[k].token \in 0..n
      /\ \A j, k \in 1..size : j < k /\ entries[j].token # 0 /\ entries[k].token # 0
                                 => entries[j].token < entries[k].token
      /\ \A t \in 1..n : \E k \in 1..size : entries[k].token = t
  BY DEF HoldsUpTo
<1> HIDE DEF size
<1>4. /\ \A k \in S : f[k] \in 1..n
      /\ \A t \in 1..n : \E k \in S : f[k] = t
      /\ \A j, k \in S : j < k => f[j] < f[k]
  <2>1. \A k \in S : f[k] \in 1..n
    BY <1>2, <1>3
  <2>2. ASSUME NEW t \in 1..n PROVE \E k \in S : f[k] = t
    <3>1. PICK k \in 1..size : entries[k].token = t
      BY <1>3
    <3>2. QED BY <1>2, <3>1
  <2>3. \A j, k \in S : j < k => f[j] < f[k]
    BY <1>2, <1>3
  <2>4. QED BY <2>1, <2>2, <2>3
<1> HIDE DEF f
<1>5. \A k \in S : k \in Nat
  BY <1>1, <1>2
<1>6. ASSUME NEW j \in S, NEW k \in S PROVE /\ f[j] = f[k] => j = k
                                            /\ f[j] < f[k] => j < k
  <2>1. j \in Nat /\ k \in Nat /\ f[j] \in Nat /\ f[k] \in Nat
    BY <1>4, <1>5
  <2>2. (j < k => f[j] < f[k]) /\ (k < j => f[k] < f[j])
    BY <1>4
  <2>3. QED BY <2>1, <2>2
<1>7. IsFiniteSet(S) /\ \A k \in S : IsFiniteSet(Before(S, k))
  <2>1. IsFiniteSet(S)
    BY <1>1, <1>2, BeforeGrows
  <2>2. \A k \in S : Before(S, k) \in SUBSET S
    BY DEF Before
  <2>3. QED BY <2>1, <2>2, FS_Subset
<1>8. Cardinality(S) = n
  <2>1. \A j, k \in S : f[j] = f[k] => j = k
    BY <1>6
  <2>2. (\A k \in S : f[k] \in 1..n) /\ (\A t \in 1..n : \E k \in S : f[k] = t)
    BY <1>4
  <2>3. OneEach(f, S, n)
    BY <2>1, <2>2 DEF OneEach
  <2>4. QED BY <1>7, <2>3, TokensCounted
<1>9. ASSUME NEW k \in S PROVE Cardinality(Before(S, k)) = f[k] - 1
  <2> DEFINE B == Before(S, k)
             m == f[k] - 1
  <2>1. m \in Nat /\ m < n /\ f[k] \in 1..n
    BY <1>4
  <2>2. \A j \in B : j \in S /\ j < k
    BY DEF Before
  <2>3. \A j \in S : j < k => j \in B
    BY DEF Before
  <2>4. \A j \in B : f[j] \in 1..m
    <3>1. \A j \in B : f[j] \in 1..n /\ f[j] < f[k]
      BY <1>4, <2>2
    <3>2. QED BY <2>1, <3>1
  <2>5. ASSUME NEW t \in 1..m PROVE \E j \in B : f[j] = t
    <3>1. t \in 1..n /\ t < f[k]
      BY <2>1
    <3>2. PICK j \in S : f[j] = t
      BY <1>4, <3>1
    <3>3. j < k
      BY <1>6, <3>1, <3>2
    <3>4. QED BY <2>3, <3>2, <3>3
  <2>6. IsFiniteSet(B)
    BY <1>7
  <2> HIDE DEF B, m
  <2>7. OneEach(f, B, m)
    BY <1>6, <2>2, <2>4, <2>5 DEF OneEach
  <2>8. Cardinality(B) = m
    BY <2>1, <2>6, <2>7, TokensCounted
  <2>9. QED BY <2>8 DEF B, m
<1>10. /\ Len(kept) = Cardinality(S)
       /\ \A k \in 1..Len(kept) : kept[k] \in S /\ Cardinality(Before(S, kept[k])) = k - 1
  <2>1. Lists(kept, S)
    BY <1>1, <1>2, AscendingLists
  <2>2. QED BY <2>1 DEF Lists
<1>11. ASSUME NEW k \in 1..Len(kept) PROVE entries[kept[k]].token = k
  <2>1. kept[k] \in S /\ Cardinality(Before(S, kept[k])) = k - 1
    BY <1>10
  <2>2. f[kept[k]] - 1 = k - 1 /\ f[kept[k]] \in 1..n
    BY <1>4, <1>9, <2>1
  <2>3. f[kept[k]] = entries[kept[k]].token
    BY <2>1 DEF f
  <2>4. k \in Int
    OBVIOUS
  <2>5. QED BY <2>2, <2>3, <2>4
<1>12. QED BY <1>8, <1>10, <1>11

-----------------------------------------------------------------------------
(* Starts and ends of nodes. *)

\* Events with which a node starts that is to come, and those with which one ends.
IsLive(e) == e.type = "NodeStart" /\ e.kind # "None"

IsEnd(e) == e.type = "NodeEnd"

Live(ev, i) == {q \in i..Len(ev) : IsLive(ev[q])}

Ends(ev, i) == {q \in i..Len(ev) : IsEnd(ev[q])}

\* How many more nodes end than start, from event i on.
Surplus(ev, i) == Cardinality(Ends(ev, i)) - Cardinality(Live(ev, i))

\* The events that are counted are finitely many.
LEMMA CountsTyped ==
  ASSUME NEW ev \in Seq(EventRecord), NEW i \in Nat
  PROVE  /\ IsFiniteSet(Ends(ev, i)) /\ IsFiniteSet(Live(ev, i))
         /\ Cardinality(Ends(ev, i)) \in Nat /\ Cardinality(Live(ev, i)) \in Nat
         /\ Surplus(ev, i) \in Int
<1>1. i \in Int /\ Len(ev) \in Int
  OBVIOUS
<1>2. IsFiniteSet(i..Len(ev))
  BY <1>1, FS_Interval
<1>3. Ends(ev, i) \in SUBSET (i..Len(ev)) /\ Live(ev, i) \in SUBSET (i..Len(ev))
  BY DEF Ends, Live
<1>4. IsFiniteSet(Ends(ev, i)) /\ IsFiniteSet(Live(ev, i))
  BY <1>2, <1>3, FS_Subset
<1>5. Cardinality(Ends(ev, i)) \in Nat /\ Cardinality(Live(ev, i)) \in Nat
  BY <1>4, FS_CardinalityType
<1>6. QED BY <1>4, <1>5 DEF Surplus

\* One more element.
LEMMA OneMoreCounted ==
  ASSUME NEW S, NEW T, NEW x, IsFiniteSet(S), x \notin S, T = S \union {x}
  PROVE  Cardinality(T) = Cardinality(S) + 1
BY FS_AddElement

\* Where the same nodes start and end, the surplus is the same.
LEMMA SurplusSame ==
  ASSUME NEW ev \in Seq(EventRecord), NEW new \in Seq(EventRecord), NEW i \in Nat,
         Len(new) >= Len(ev),
         \A q \in i..Len(ev) : (IsLive(new[q]) <=> IsLive(ev[q])) /\ (IsEnd(new[q]) <=> IsEnd(ev[q])),
         \A q \in i..Len(new) : q > Len(ev) => ~IsLive(new[q]) /\ ~IsEnd(new[q])
  PROVE  Surplus(new, i) = Surplus(ev, i)
<1>1. Len(ev) \in Nat /\ Len(new) \in Nat
  OBVIOUS
<1>2. Ends(new, i) = Ends(ev, i)
  BY <1>1 DEF Ends
<1>3. Live(new, i) = Live(ev, i)
  BY <1>1 DEF Live
<1>4. QED BY <1>2, <1>3 DEF Surplus

\* After the last event nothing is left.
LEMMA SurplusNone ==
  ASSUME NEW ev \in Seq(EventRecord)
  PROVE  Surplus(ev, Len(ev) + 1) = 0
<1>1. Len(ev) \in Nat
  OBVIOUS
<1>2. Ends(ev, Len(ev) + 1) = {} /\ Live(ev, Len(ev) + 1) = {}
  BY <1>1 DEF Ends, Live
<1>3. Cardinality({}) = 0
  BY FS_EmptySet
<1>4. Cardinality(Ends(ev, Len(ev) + 1)) = 0 /\ Cardinality(Live(ev, Len(ev) + 1)) = 0
  BY <1>2, <1>3
<1>5. QED BY <1>4 DEF Surplus

\* What one event is to the surplus.
Counts(e) == IF IsEnd(e) THEN 1 ELSE IF IsLive(e) THEN -1 ELSE 0

\* From one event to the next.
LEMMA SurplusNext ==
  ASSUME NEW ev \in Seq(EventRecord), NEW i \in 1..Len(ev)
  PROVE  Surplus(ev, i) = Surplus(ev, i + 1) + Counts(ev[i])
<1>1. Len(ev) \in Nat /\ i \in Nat /\ i + 1 \in Nat
  OBVIOUS
<1>2. /\ IsFiniteSet(Ends(ev, i + 1)) /\ IsFiniteSet(Live(ev, i + 1))
      /\ Cardinality(Ends(ev, i + 1)) \in Nat /\ Cardinality(Live(ev, i + 1)) \in Nat
  BY <1>1, CountsTyped
<1>3. \A q : q \in i..Len(ev) <=> q = i \/ q \in (i + 1)..Len(ev)
  BY <1>1
<1>4. i \notin Ends(ev, i + 1) /\ i \notin Live(ev, i + 1)
  BY <1>1 DEF Ends, Live
<1>5. CASE IsEnd(ev[i])
  <2>1. Ends(ev, i) = Ends(ev, i + 1) \union {i}
    BY <1>3, <1>5 DEF Ends
  <2>2. Live(ev, i) = Live(ev, i + 1)
    BY <1>3, <1>5 DEF Live, IsLive, IsEnd
  <2>3. Cardinality(Ends(ev, i)) = Cardinality(Ends(ev, i + 1)) + 1
    BY <1>2, <1>4, <2>1, OneMoreCounted
  <2>4. QED BY <1>2, <1>5, <2>2, <2>3 DEF Surplus, Counts
<1>6. CASE IsLive(ev[i]) /\ ~IsEnd(ev[i])
  <2>1. Live(ev, i) = Live(ev, i + 1) \union {i}
    BY <1>3, <1>6 DEF Live
  <2>2. Ends(ev, i) = Ends(ev, i + 1)
    BY <1>3, <1>6 DEF Ends
  <2>3. Cardinality(Live(ev, i)) = Cardinality(Live(ev, i + 1)) + 1
    BY <1>2, <1>4, <2>1, OneMoreCounted
  <2>4. QED BY <1>2, <1>6, <2>2, <2>3 DEF Surplus, Counts
<1>7. CASE ~IsLive(ev[i]) /\ ~IsEnd(ev[i])
  <2>1. Live(ev, i) = Live(ev, i + 1)
    BY <1>3, <1>7 DEF Live
  <2>2. Ends(ev, i) = Ends(ev, i + 1)
    BY <1>3, <1>7 DEF Ends
  <2>3. QED BY <1>2, <1>7, <2>1, <2>2 DEF Surplus, Counts
<1>8. QED BY <1>5, <1>6, <1>7

\* Another kind of one event.
LEMMA KindsSet ==
  ASSUME NEW ev \in Seq(EventRecord), NEW i \in Nat, NEW k \in NodeKinds
  PROVE  \A q \in 1..Len(ev) : WithKind(ev, i, k)[q].kind = IF q = i THEN k ELSE ev[q].kind
<1> DEFINE new == WithKind(ev, i, k)
<1>1. ASSUME NEW e \in EventRecord PROVE [e EXCEPT !.kind = k].kind = k
  BY DEF EventRecord
<1>2. \A q \in 1..Len(ev) : /\ ev[q] \in EventRecord
                            /\ new[q] = IF q = i THEN [ev[q] EXCEPT !.kind = k] ELSE ev[q]
  BY DEF WithKind
<1>3. QED BY <1>1, <1>2

\* Another parent leaves the kinds.
LEMMA ParentKeepsKind ==
  ASSUME NEW ev \in Seq(EventRecord), NEW i \in Nat, NEW n \in Nat
  PROVE  \A q \in 1..Len(ev) : WithParent(ev, i, n)[q].kind = ev[q].kind
<1> DEFINE new == WithParent(ev, i, n)
<1>1. ASSUME NEW e \in EventRecord PROVE [e EXCEPT !.parent = n].kind = e.kind
  BY DEF EventRecord
<1>2. \A q \in 1..Len(ev) : /\ ev[q] \in EventRecord
                            /\ new[q] = IF q = i THEN [ev[q] EXCEPT !.parent = n] ELSE ev[q]
  BY DEF WithParent
<1>3. QED BY <1>1, <1>2

\* A node that does not start by itself any more, since it is started as a parent.
LEMMA SurplusClimbed ==
  ASSUME NEW ev \in Seq(EventRecord), NEW p \in 1..Len(ev), IsLive(ev[p]),
         NEW i \in Nat \ {0}
  PROVE  Surplus(WithKind(ev, p, "None"), i) = IF i <= p THEN Surplus(ev, i) + 1 ELSE Surplus(ev, i)
<1> DEFINE new == WithKind(ev, p, "None")
<1>1. "None" \in NodeKinds /\ p \in Nat /\ Len(ev) \in Nat /\ i \in Nat
  BY DEF NodeKinds
<1>2. /\ new \in Seq(EventRecord) /\ Len(new) = Len(ev)
      /\ \A q \in 1..Len(ev) : new[q].type = ev[q].type
  BY <1>1, KindSet
<1>3. \A q \in 1..Len(ev) : new[q].kind = IF q = p THEN "None" ELSE ev[q].kind
  BY <1>1, KindsSet
<1> HIDE DEF new
<1>4. \A q \in 1..Len(ev) : /\ IsLive(new[q]) <=> IsLive(ev[q]) /\ q # p
                            /\ IsEnd(new[q]) <=> IsEnd(ev[q])
  BY <1>2, <1>3 DEF IsLive, IsEnd
<1>5. i..Len(ev) \subseteq 1..Len(ev)
  BY <1>1
<1>6. CASE i <= p
  <2>1. p \in i..Len(ev)
    BY <1>1, <1>6
  <2>2. Live(ev, i) = Live(new, i) \union {p} /\ p \notin Live(new, i)
    BY <1>2, <1>4, <1>5, <2>1 DEF Live
  <2>3. Ends(ev, i) = Ends(new, i)
    BY <1>2, <1>4, <1>5 DEF Ends
  <2>4. IsFiniteSet(Live(new, i)) /\ Cardinality(Live(new, i)) \in Nat /\ Cardinality(Ends(new, i)) \in Nat
    BY <1>1, <1>2, CountsTyped
  <2>5. Cardinality(Live(ev, i)) = Cardinality(Live(new, i)) + 1
    BY <2>2, <2>4, OneMoreCounted
  <2>6. Surplus(new, i) = Surplus(ev, i) + 1
    BY <2>3, <2>4, <2>5 DEF Surplus
  <2>7. QED BY <1>6, <2>6 DEF new
<1>7. CASE i > p
  <2>1. p \notin i..Len(ev)
    BY <1>1, <1>7
  <2>2. Live(ev, i) = Live(new, i)
    BY <1>2, <1>4, <1>5, <2>1 DEF Live
  <2>3. Ends(ev, i) = Ends(new, i)
    BY <1>2, <1>4, <1>5 DEF Ends
  <2>4. Surplus(new, i) = Surplus(ev, i)
    BY <2>2, <2>3 DEF Surplus
  <2>5. QED BY <1>1, <1>7, <2>4 DEF new
<1>8. QED BY <1>1, <1>6, <1>7

\* A node that is completed: it starts where its Marker is, and it ends here.
LEMMA SurplusCompleted ==
  ASSUME NEW ev \in Seq(EventRecord), NEW m \in 1..Len(ev), ev[m].type = "NodeStart",
         ev[m].kind = "None", NEW k \in NodeKinds \ {"None"}, NEW i \in 1..(Len(ev) + 1)
  PROVE  Surplus(Append(WithKind(ev, m, k), NodeEnd), i) =
           IF i <= m THEN Surplus(ev, i) ELSE Surplus(ev, i) + 1
<1> DEFINE mid == WithKind(ev, m, k)
           new == Append(mid, NodeEnd)
           l   == Len(ev) + 1
<1>1. m \in Nat /\ Len(ev) \in Nat /\ i \in Nat /\ l \in Nat
  OBVIOUS
<1>2. /\ mid \in Seq(EventRecord) /\ Len(mid) = Len(ev)
      /\ \A q \in 1..Len(ev) : mid[q].type = ev[q].type
  BY <1>1, KindSet
<1>3. \A q \in 1..Len(ev) : mid[q].kind = IF q = m THEN k ELSE ev[q].kind
  BY <1>1, KindsSet
<1> HIDE DEF mid
<1>4. /\ new \in Seq(EventRecord) /\ Len(new) = l /\ new[l] = NodeEnd
      /\ \A q \in 1..Len(ev) : new[q] = mid[q]
  <2>1. NodeEnd \in EventRecord
    BY EventsTyped
  <2>2. /\ new \in Seq(EventRecord) /\ Len(new) = Len(mid) + 1 /\ new[Len(mid) + 1] = NodeEnd
        /\ \A q \in 1..Len(mid) : new[q] = mid[q]
    BY <1>2, <2>1, EventAdded
  <2>3. QED BY <1>2, <2>2
<1> HIDE DEF new
<1>5. /\ \A q \in 1..Len(ev) : /\ IsLive(new[q]) <=> IsLive(ev[q]) \/ q = m
                               /\ IsEnd(new[q]) <=> IsEnd(ev[q])
      /\ IsEnd(new[l]) /\ ~IsLive(new[l]) /\ ~IsLive(ev[m])
  BY <1>2, <1>3, <1>4, EventsTyped DEF IsLive, IsEnd
<1>6. /\ i..Len(ev) \subseteq 1..Len(ev) /\ l \notin i..Len(ev)
      /\ \A q : q \in i..Len(new) <=> q = l \/ q \in i..Len(ev)
  BY <1>1, <1>4
<1>7. Ends(new, i) = Ends(ev, i) \union {l} /\ l \notin Ends(ev, i)
  BY <1>5, <1>6 DEF Ends
<1>8. /\ IsFiniteSet(Live(ev, i)) /\ Cardinality(Live(ev, i)) \in Nat
      /\ IsFiniteSet(Ends(ev, i)) /\ Cardinality(Ends(ev, i)) \in Nat
  BY <1>1, CountsTyped
<1>9. Cardinality(Ends(new, i)) = Cardinality(Ends(ev, i)) + 1
  BY <1>7, <1>8, OneMoreCounted
<1>10. CASE i <= m
  <2>1. m \in i..Len(ev)
    BY <1>1, <1>10
  <2>2. Live(new, i) = Live(ev, i) \union {m} /\ m \notin Live(ev, i)
    BY <1>5, <1>6, <2>1 DEF Live
  <2>3. Cardinality(Live(new, i)) = Cardinality(Live(ev, i)) + 1
    BY <1>8, <2>2, OneMoreCounted
  <2>4. Surplus(new, i) = Surplus(ev, i)
    BY <1>8, <1>9, <2>3 DEF Surplus
  <2>5. QED BY <1>10, <2>4 DEF new, mid
<1>11. CASE i > m
  <2>1. m \notin i..Len(ev)
    BY <1>1, <1>11
  <2>2. Live(new, i) = Live(ev, i)
    BY <1>5, <1>6, <2>1 DEF Live
  <2>3. Surplus(new, i) = Surplus(ev, i) + 1
    BY <1>8, <1>9, <2>2 DEF Surplus
  <2>4. QED BY <1>1, <1>11, <2>3 DEF new, mid
<1>12. QED BY <1>1, <1>10, <1>11

-----------------------------------------------------------------------------
(* What the events are like while a file is parsed without errors. *)

Increasing(s) == \A j, k \in 1..Len(s) : j < k => s[j] < s[k]

\* No two nodes are given the same parent.
ParentsDiffer(ev) ==
  \A p, q \in 1..Len(ev) : ev[p].parent = ev[q].parent /\ ev[p].parent # 0 => p = q

\* A parent is a node that is completed, or its Marker is open.
ParentsComplete(ev, ms) ==
  \A q \in 1..Len(ev) :
    ev[q].parent # 0 => \/ ev[ev[q].parent].kind # "None"
                        \/ \E k \in 1..Len(ms) : ms[k] = ev[q].parent

\* The open Markers are in order, the first at the first event, and are not completed yet.
Nested(ev, ms) ==
  /\ ms # <<>> => ms[1] = 1
  /\ Increasing(ms)
  /\ \A k \in 1..Len(ms) : ev[ms[k]].kind = "None"

\* As many nodes end as start, and from no event on less.
Balanced(ev) ==
  /\ \A i \in 1..Len(ev) : Surplus(ev, i) >= 0
  /\ Surplus(ev, 1) = 0

\* From every event on, one more ends: the block of the file.
Enclosed(ev) == \A i \in 2..Len(ev) : Surplus(ev, i) > 0

\* The first node is the block of the file.
Begun(ev, ms) ==
  /\ Len(ev) > 0 /\ ev[1].type = "NodeStart" /\ ev[1].parent = 0
  /\ ms = <<>> => ev[1].kind = "Block" /\ Enclosed(ev)

Shape(ev, ms) ==
  /\ Begun(ev, ms) /\ Nested(ev, ms)
  /\ ParentsDiffer(ev) /\ ParentsComplete(ev, ms)
  /\ Balanced(ev)

\* The Markers that are plain are no parents.
Plain(ev, ms, st) ==
  /\ Len(st) = Len(ms)
  /\ \A k \in 1..Len(ms) : st[k] = "plain" => \A q \in 1..Len(ev) : ev[q].parent # ms[k]

\* A token is read.
LEMMA EatShaped ==
  ASSUME NEW ev \in Seq(EventRecord), NEW e \in EventRecord, e.parent = 0, ~IsLive(e), ~IsEnd(e),
         NEW ms \in Seq(1..Len(ev)), ms # <<>>, Linked(ev), Shape(ev, ms),
         NEW new, new = Append(ev, e)
  PROVE  /\ Shape(new, ms)
         /\ \A st : Plain(ev, ms, st) => Plain(new, ms, st)
<1> DEFINE l == Len(ev) + 1
<1>1. /\ new \in Seq(EventRecord) /\ Len(new) = l /\ new[l] = e
      /\ \A q \in 1..Len(ev) : new[q] = ev[q]
  BY EventAdded
<1>2. Len(ev) \in Nat /\ Len(ms) \in Nat /\ \A k \in 1..Len(ms) : ms[k] \in 1..Len(ev)
  OBVIOUS
<1>3. \A q \in 1..l : q \in 1..Len(ev) \/ q = l
  BY <1>2
<1>4. ASSUME NEW q \in 1..Len(ev), ev[q].parent # 0 PROVE ev[q].parent \in 1..Len(ev)
  BY <1>2, <1>4 DEF Linked
<1>5. Begun(new, ms)
  BY <1>1, <1>2 DEF Shape, Begun
<1>6. Nested(new, ms)
  BY <1>1, <1>2 DEF Shape, Nested
<1>7. ParentsDiffer(new)
  <2>1. \A q \in 1..l : new[q].parent # 0 => q \in 1..Len(ev) /\ new[q] = ev[q]
    BY <1>1, <1>3
  <2>2. QED BY <1>1, <2>1 DEF Shape, ParentsDiffer
<1>8. ParentsComplete(new, ms)
  <2>1. ASSUME NEW q \in 1..l, new[q].parent # 0
        PROVE  \/ new[new[q].parent].kind # "None"
               \/ \E k \in 1..Len(ms) : ms[k] = new[q].parent
    <3>1. q \in 1..Len(ev) /\ new[q] = ev[q]
      BY <1>1, <1>3, <2>1
    <3>2. ev[q].parent \in 1..Len(ev)
      BY <1>4, <2>1, <3>1
    <3>3. new[ev[q].parent] = ev[ev[q].parent]
      BY <1>1, <3>2
    <3>4. QED BY <2>1, <3>1, <3>3 DEF Shape, ParentsComplete
  <2>2. QED BY <1>1, <2>1 DEF ParentsComplete
<1>9. Balanced(new)
  <2>1. \A i \in 1..Len(ev) : Surplus(new, i) = Surplus(ev, i)
    <3>1. ASSUME NEW i \in 1..Len(ev) PROVE Surplus(new, i) = Surplus(ev, i)
      <4>1. i \in Nat /\ Len(new) >= Len(ev)
        BY <1>1, <1>2
      <4>2. \A q \in i..Len(ev) : q \in 1..Len(ev) /\ new[q] = ev[q]
        <5>1. \A q \in i..Len(ev) : q \in 1..Len(ev)
          BY <1>2
        <5>2. QED BY <1>1, <5>1
      <4>3. \A q \in i..Len(new) : q > Len(ev) => new[q] = e
        <5>1. \A q \in i..Len(new) : q > Len(ev) => q = l
          BY <1>1, <1>2
        <5>2. QED BY <1>1, <5>1
      <4>4. QED BY <1>1, <4>1, <4>2, <4>3, SurplusSame
    <3>2. QED BY <3>1
  <2>2. Surplus(new, l) = 0
    <3>1. Surplus(new, l + 1) = 0
      BY <1>1, SurplusNone
    <3>2. Surplus(new, l) = Surplus(new, l + 1) + Counts(new[l])
      <4>1. l \in 1..Len(new)
        BY <1>1, <1>2
      <4>2. QED BY <1>1, <4>1, SurplusNext
    <3>3. Counts(new[l]) = 0
      BY <1>1 DEF Counts
    <3>4. QED BY <3>1, <3>2, <3>3
  <2>3. 1 \in 1..Len(ev)
    BY <1>2 DEF Shape, Begun
  <2>4. QED BY <1>1, <1>3, <2>1, <2>2, <2>3 DEF Shape, Balanced
<1>10. ASSUME NEW st, Plain(ev, ms, st) PROVE Plain(new, ms, st)
  <2>1. ASSUME NEW k \in 1..Len(ms), st[k] = "plain", NEW q \in 1..l PROVE new[q].parent # ms[k]
    <3>1. CASE q \in 1..Len(ev)
      BY <1>1, <1>10, <2>1, <3>1 DEF Plain
    <3>2. CASE q = l
      BY <1>1, <1>2, <3>2
    <3>3. QED BY <1>3, <3>1, <3>2
  <2>2. QED BY <1>1, <1>10, <2>1 DEF Plain
<1>11. QED BY <1>5, <1>6, <1>7, <1>8, <1>9, <1>10 DEF Shape

\* new has one more event than ev, a start at which a Marker opens, the parent of node c.
Started(ev, new, c) ==
  /\ Len(new) = Len(ev) + 1 /\ new[Len(ev) + 1] = NodeStart
  /\ \A q \in 1..Len(ev) : /\ new[q].type = ev[q].type /\ new[q].kind = ev[q].kind
                           /\ new[q].parent = IF q = c THEN Len(ev) + 1 ELSE ev[q].parent

\* The Markers with one more.
LEMMA MarkerAdded ==
  ASSUME NEW n \in Nat, NEW ms \in Seq(1..n), NEW now, now = Append(ms, n + 1)
  PROVE  /\ Len(ms) \in Nat /\ Len(now) = Len(ms) + 1 /\ now # <<>> /\ now[Len(ms) + 1] = n + 1
         /\ \A k \in 1..Len(ms) : now[k] = ms[k] /\ ms[k] \in 1..n
         /\ \A k \in 1..Len(now) : k \in 1..Len(ms) \/ k = Len(ms) + 1
<1>1. Len(ms) \in Nat /\ Len(now) = Len(ms) + 1 /\ now[Len(ms) + 1] = n + 1
  OBVIOUS
<1>2. \A k \in 1..Len(ms) : now[k] = ms[k] /\ ms[k] \in 1..n
  OBVIOUS
<1>3. Len(<<>>) = 0
  OBVIOUS
<1>4. now # <<>>
  BY <1>1, <1>3
<1>5. QED BY <1>1, <1>2, <1>4

\* A Marker is opened, also around a node.
LEMMA StartShaped ==
  ASSUME NEW ev \in Seq(EventRecord), NEW new \in Seq(EventRecord), NEW c \in Nat, c # 1,
         Started(ev, new, c), NEW ms \in Seq(1..Len(ev)), ms # <<>>, Linked(ev), Shape(ev, ms),
         NEW now, now = Append(ms, Len(ev) + 1)
  PROVE  Shape(new, now)
<1> DEFINE l == Len(ev) + 1
<1>1. /\ Len(new) = l /\ new[l].type = "NodeStart" /\ new[l].kind = "None" /\ new[l].parent = 0
      /\ \A q \in 1..Len(ev) : /\ new[q].type = ev[q].type /\ new[q].kind = ev[q].kind
                               /\ new[q].parent = IF q = c THEN l ELSE ev[q].parent
  BY EventsTyped DEF Started, NodeStart, Event
<1>2. Len(ev) \in Nat /\ l \in Nat /\ l \notin 1..Len(ev) /\ l # 0 /\ 1 \in 1..Len(ev)
  BY DEF Shape, Begun
<1>3. \A q \in 1..l : q \in 1..Len(ev) \/ q = l
  BY <1>2
<1>4. ASSUME NEW q \in 1..Len(ev), ev[q].parent # 0 PROVE ev[q].parent \in 1..Len(ev)
  BY <1>2, <1>4 DEF Linked
<1>5. /\ Len(ms) \in Nat /\ Len(now) = Len(ms) + 1 /\ now # <<>> /\ now[Len(ms) + 1] = l
      /\ \A k \in 1..Len(ms) : now[k] = ms[k] /\ ms[k] \in 1..Len(ev)
      /\ \A k \in 1..Len(now) : k \in 1..Len(ms) \/ k = Len(ms) + 1
  BY <1>2, MarkerAdded
<1> HIDE DEF l
<1>6. Begun(new, now)
  <2>1. Len(new) > 0
    BY <1>1, <1>2
  <2>2. new[1].type = "NodeStart" /\ new[1].parent = 0
    BY <1>1, <1>2 DEF Shape, Begun
  <2>3. QED BY <1>5, <2>1, <2>2 DEF Begun
<1>7. Nested(new, now)
  <2>1. now[1] = 1
    <3>1. Len(ms) > 0
      OBVIOUS
    <3>2. 1 \in 1..Len(ms)
      BY <1>5, <3>1
    <3>3. QED BY <1>5, <3>2 DEF Shape, Nested
  <2>2. Increasing(now)
    <3>1. ASSUME NEW j \in 1..Len(now), NEW k \in 1..Len(now), j < k PROVE now[j] < now[k]
      <4>1. CASE k \in 1..Len(ms)
        <5>1. j \in 1..Len(ms)
          BY <1>5, <3>1, <4>1
        <5>2. ms[j] < ms[k]
          BY <3>1, <4>1, <5>1 DEF Shape, Nested, Increasing
        <5>3. QED BY <1>5, <4>1, <5>1, <5>2
      <4>2. CASE k = Len(ms) + 1
        <5>1. j \in 1..Len(ms)
          BY <1>5, <3>1, <4>2
        <5>2. now[j] \in 1..Len(ev) /\ now[k] = l
          BY <1>5, <4>2, <5>1
        <5>3. QED BY <1>2, <5>2 DEF l
      <4>3. QED BY <1>5, <4>1, <4>2
    <3>2. QED BY <3>1 DEF Increasing
  <2>3. \A k \in 1..Len(now) : new[now[k]].kind = "None"
    <3>1. ASSUME NEW k \in 1..Len(ms) PROVE new[now[k]].kind = "None"
      <4>1. now[k] = ms[k] /\ ms[k] \in 1..Len(ev)
        BY <1>5
      <4>2. ev[ms[k]].kind = "None"
        BY DEF Shape, Nested
      <4>3. QED BY <1>1, <4>1, <4>2
    <3>2. QED BY <1>1, <1>5, <3>1
  <2>4. QED BY <2>1, <2>2, <2>3 DEF Nested
<1>8. ParentsDiffer(new)
  <2>1. ASSUME NEW p \in 1..l, NEW q \in 1..l, new[p].parent = new[q].parent, new[p].parent # 0
        PROVE  p = q
    <3>1. p \in 1..Len(ev) /\ q \in 1..Len(ev)
      BY <1>1, <1>3, <2>1
    <3>2. CASE p = c
      <4>1. new[p].parent = l
        BY <1>1, <3>1, <3>2
      <4>2. CASE q # c
        <5>1. ev[q].parent = l
          BY <1>1, <2>1, <3>1, <4>1, <4>2
        <5>2. QED BY <1>2, <1>4, <3>1, <5>1
      <4>3. QED BY <3>2, <4>2
    <3>3. CASE p # c
      <4>1. new[p].parent = ev[p].parent
        BY <1>1, <3>1, <3>3
      <4>2. CASE q = c
        <5>1. ev[p].parent = l
          BY <1>1, <2>1, <3>1, <4>1, <4>2
        <5>2. QED BY <1>2, <1>4, <3>1, <5>1
      <4>3. CASE q # c
        <5>1. ev[p].parent = ev[q].parent /\ ev[p].parent # 0
          BY <1>1, <2>1, <3>1, <4>1, <4>3
        <5>2. QED BY <3>1, <5>1 DEF Shape, ParentsDiffer
      <4>4. QED BY <4>2, <4>3
    <3>4. QED BY <3>2, <3>3
  <2>2. QED BY <1>1, <2>1 DEF ParentsDiffer
<1>9. ParentsComplete(new, now)
  <2>1. ASSUME NEW q \in 1..l, new[q].parent # 0
        PROVE  \/ new[new[q].parent].kind # "None"
               \/ \E k \in 1..Len(now) : now[k] = new[q].parent
    <3>1. q \in 1..Len(ev)
      BY <1>1, <1>3, <2>1
    <3>2. CASE q = c
      <4>1. new[q].parent = l
        BY <1>1, <3>1, <3>2
      <4>2. Len(ms) + 1 \in 1..Len(now)
        BY <1>5
      <4>3. QED BY <1>5, <4>1, <4>2
    <3>3. CASE q # c
      <4>1. new[q].parent = ev[q].parent
        BY <1>1, <3>1, <3>3
      <4>2. ev[q].parent \in 1..Len(ev)
        BY <1>4, <2>1, <3>1, <4>1
      <4>3. new[ev[q].parent].kind = ev[ev[q].parent].kind
        BY <1>1, <4>2
      <4>4. \A k \in 1..Len(ms) : k \in 1..Len(now)
        BY <1>5
      <4>5. \/ ev[ev[q].parent].kind # "None"
            \/ \E k \in 1..Len(ms) : ms[k] = ev[q].parent
        BY <2>1, <3>1, <4>1 DEF Shape, ParentsComplete
      <4>6. QED BY <1>5, <4>1, <4>3, <4>4, <4>5
    <3>4. QED BY <3>2, <3>3
  <2>2. QED BY <1>1, <2>1 DEF ParentsComplete
<1>10. Balanced(new)
  <2>1. ASSUME NEW i \in 1..Len(ev) PROVE Surplus(new, i) = Surplus(ev, i)
    <3>1. i \in Nat /\ Len(new) >= Len(ev)
      BY <1>1, <1>2 DEF l
    <3>2. \A q \in i..Len(ev) : q \in 1..Len(ev)
      BY <1>2
    <3>3. \A q \in i..Len(ev) : (IsLive(new[q]) <=> IsLive(ev[q])) /\ (IsEnd(new[q]) <=> IsEnd(ev[q]))
      BY <1>1, <3>2 DEF IsLive, IsEnd
    <3>4. \A q \in i..Len(new) : q > Len(ev) => q = l
      BY <1>1, <1>2 DEF l
    <3>5. ~IsLive(new[l]) /\ ~IsEnd(new[l])
      BY <1>1 DEF IsLive, IsEnd
    <3>6. QED BY <3>1, <3>3, <3>4, <3>5, SurplusSame
  <2>2. Surplus(new, l) = 0
    <3>1. Surplus(new, l + 1) = 0
      BY <1>1, SurplusNone
    <3>2. Surplus(new, l) = Surplus(new, l + 1) + Counts(new[l])
      <4>1. l \in 1..Len(new)
        BY <1>1, <1>2
      <4>2. QED BY <4>1, SurplusNext
    <3>3. Counts(new[l]) = 0
      BY <1>1 DEF Counts, IsLive, IsEnd
    <3>4. QED BY <3>1, <3>2, <3>3
  <2>3. QED BY <1>1, <1>2, <1>3, <2>1, <2>2 DEF Shape, Balanced
<1>11. QED BY <1>6, <1>7, <1>8, <1>9, <1>10 DEF Shape

\* The Marker that is opened is plain, unless it is the parent of a node.
LEMMA StartPlain ==
  ASSUME NEW ev \in Seq(EventRecord), NEW new \in Seq(EventRecord), NEW c \in Nat,
         Started(ev, new, c), NEW ms \in Seq(1..Len(ev)), Linked(ev),
         NEW now, now = Append(ms, Len(ev) + 1),
         NEW st \in Markers, Plain(ev, ms, st), NEW f \in {"plain", "around"}, f = "plain" => c = 0
  PROVE  Plain(new, now, Append(st, f))
<1> DEFINE l == Len(ev) + 1
           fs == Append(st, f)
<1>1. /\ Len(new) = l /\ new[l].parent = 0
      /\ \A q \in 1..Len(ev) : new[q].parent = IF q = c THEN l ELSE ev[q].parent
  BY EventsTyped DEF Started
<1>2. Len(ev) \in Nat /\ l \in Nat /\ l \notin 1..Len(ev) /\ l # 0
  OBVIOUS
<1>3. \A q \in 1..l : q \in 1..Len(ev) \/ q = l
  BY <1>2
<1>4. ASSUME NEW q \in 1..Len(ev), ev[q].parent # 0 PROVE ev[q].parent \in 1..Len(ev)
  BY <1>2, <1>4 DEF Linked
<1>5. /\ Len(ms) \in Nat /\ Len(now) = Len(ms) + 1 /\ now[Len(ms) + 1] = l
      /\ \A k \in 1..Len(ms) : now[k] = ms[k] /\ ms[k] \in 1..Len(ev)
      /\ \A k \in 1..Len(now) : k \in 1..Len(ms) \/ k = Len(ms) + 1
  BY <1>2, MarkerAdded
<1>6. /\ Len(st) = Len(ms) /\ Len(fs) = Len(ms) + 1 /\ fs[Len(ms) + 1] = f
      /\ \A k \in 1..Len(ms) : fs[k] = st[k]
  BY DEF Plain, Markers
<1> HIDE DEF l, fs
<1>7. ASSUME NEW k \in 1..Len(now), fs[k] = "plain", NEW q \in 1..l
      PROVE  new[q].parent # now[k]
  <2>1. CASE k \in 1..Len(ms)
    <3>1. now[k] = ms[k] /\ ms[k] \in 1..Len(ev) /\ st[k] = "plain"
      BY <1>5, <1>6, <1>7, <2>1
    <3>2. now[k] # 0 /\ now[k] # l
      <4>1. now[k] \in 1..Len(ev)
        BY <3>1
      <4>2. 0 \notin 1..Len(ev)
        BY <1>2
      <4>3. QED BY <1>2, <4>1, <4>2
    <3>3. CASE q = l
      BY <1>1, <3>2, <3>3
    <3>4. CASE q \in 1..Len(ev)
      <4>1. ev[q].parent # ms[k]
        BY <2>1, <3>1, <3>4 DEF Plain
      <4>2. QED BY <1>1, <3>1, <3>2, <3>4, <4>1
    <3>5. QED BY <1>3, <3>3, <3>4
  <2>2. CASE k = Len(ms) + 1
    <3>1. now[k] = l /\ c = 0
      BY <1>5, <1>6, <1>7, <2>2
    <3>2. CASE q = l
      BY <1>1, <1>2, <3>1, <3>2
    <3>3. CASE q \in 1..Len(ev)
      <4>1. new[q].parent = ev[q].parent
        BY <1>1, <3>1, <3>3
      <4>2. ev[q].parent # l
        BY <1>2, <1>4, <3>3
      <4>3. QED BY <3>1, <4>1, <4>2
    <3>4. QED BY <1>3, <3>2, <3>3
  <2>3. QED BY <1>5, <2>1, <2>2
<1>8. Len(fs) = Len(now)
  BY <1>5, <1>6
<1>9. QED BY <1>1, <1>7, <1>8 DEF Plain, fs

\* The Markers without the last.
LEMMA MarkerRemoved ==
  ASSUME NEW n \in Nat, NEW ms \in Seq(1..n), ms # <<>>, NEW now, now = Pop(ms)
  PROVE  /\ Len(ms) \in Nat /\ Len(ms) \in 1..Len(ms) /\ Len(now) = Len(ms) - 1
         /\ Top(ms) = ms[Len(ms)] /\ Top(ms) \in 1..n
         /\ \A k \in 1..Len(now) : k \in 1..Len(ms) /\ k < Len(ms) /\ now[k] = ms[k] /\ ms[k] \in 1..n
         /\ \A k \in 1..Len(ms) : k \in 1..Len(now) \/ k = Len(ms)
         /\ now = <<>> <=> Len(ms) = 1
<1>1. /\ Top(ms) \in 1..n /\ Len(now) = Len(ms) - 1
      /\ \A k \in 1..(Len(ms) - 1) : now[k] = ms[k]
      /\ now \in Seq(1..n)
  BY PopTyped
<1>2. Len(ms) \in Nat /\ Len(ms) > 0 /\ Len(ms) \in 1..Len(ms)
  OBVIOUS
<1>3. \A k \in 1..(Len(ms) - 1) : k \in 1..Len(ms) /\ k < Len(ms)
  BY <1>2
<1>4. \A k \in 1..Len(ms) : ms[k] \in 1..n
  OBVIOUS
<1>5. \A k \in 1..Len(now) : k \in 1..Len(ms) /\ k < Len(ms) /\ now[k] = ms[k] /\ ms[k] \in 1..n
  BY <1>1, <1>3, <1>4
<1>6. \A k \in 1..Len(ms) : k \in 1..Len(now) \/ k = Len(ms)
  BY <1>1, <1>2
<1>7. now = <<>> <=> Len(ms) = 1
  BY <1>1, <1>2, SMTT(30)
<1>8. QED BY <1>1, <1>2, <1>5, <1>6, <1>7 DEF Top

\* The other open Markers lie before the last, and the first stays where it is.
LEMMA OthersNested ==
  ASSUME NEW n \in Nat, NEW ms \in Seq(1..n), ms # <<>>, NEW now, now = Pop(ms),
         NEW ev, Nested(ev, ms)
  PROVE  /\ now # <<>> => now[1] = 1
         /\ Increasing(now)
         /\ \A k \in 1..Len(now) : now[k] # Top(ms) /\ ev[now[k]].kind = "None"
         /\ now = <<>> => Top(ms) = 1
         /\ now # <<>> => Top(ms) # 1
         /\ ev[Top(ms)].kind = "None"
<1>1. /\ Len(ms) \in Nat /\ Len(ms) \in 1..Len(ms) /\ Len(now) = Len(ms) - 1
      /\ Top(ms) = ms[Len(ms)] /\ Top(ms) \in 1..n
      /\ \A k \in 1..Len(now) : k \in 1..Len(ms) /\ k < Len(ms) /\ now[k] = ms[k] /\ ms[k] \in 1..n
      /\ \A k \in 1..Len(ms) : k \in 1..Len(now) \/ k = Len(ms)
      /\ now = <<>> <=> Len(ms) = 1
  BY MarkerRemoved
<1>2. ms[1] = 1 /\ Increasing(ms) /\ \A k \in 1..Len(ms) : ev[ms[k]].kind = "None"
  BY DEF Nested
<1>3. Increasing(now)
  BY <1>1, <1>2 DEF Increasing
<1>4. ASSUME NEW k \in 1..Len(now) PROVE now[k] < Top(ms) /\ now[k] \in 1..n
  <2>1. /\ k \in 1..Len(ms) /\ Len(ms) \in 1..Len(ms) /\ k < Len(ms)
        /\ now[k] = ms[k] /\ ms[k] \in 1..n
    BY <1>1
  <2>2. ms[k] < ms[Len(ms)]
    BY <1>2, <2>1 DEF Increasing
  <2>3. QED BY <1>1, <2>1, <2>2
<1>5. ASSUME now # <<>> PROVE 1 \in 1..Len(now) /\ now[1] = 1
  <2>1. 1 \in 1..Len(now)
    BY <1>1, <1>5
  <2>2. QED BY <1>1, <1>2, <2>1
<1>6. \A k \in 1..Len(now) : now[k] # Top(ms)
  BY <1>1, <1>4
<1>7. now # <<>> => Top(ms) # 1
  BY <1>5, <1>6
<1>8. now = <<>> => Top(ms) = 1
  BY <1>1, <1>2
<1>9. \A k \in 1..Len(now) : ev[now[k]].kind = "None"
  BY <1>1, <1>2
<1>10. ev[Top(ms)].kind = "None"
  BY <1>1, <1>2
<1>11. QED BY <1>3, <1>5, <1>6, <1>7, <1>8, <1>9, <1>10

\* A node is completed.
LEMMA CompleteShaped ==
  ASSUME NEW ev \in Seq(EventRecord), NEW ms \in Seq(1..Len(ev)), ms # <<>>,
         Marked(ev, ms), Linked(ev), Shape(ev, ms),
         NEW kind \in NodeKinds \ {"None"}, NEW now, now = Pop(ms), now = <<>> => kind = "Block",
         NEW new, new = Append(WithKind(ev, Top(ms), kind), NodeEnd)
  PROVE  Shape(new, now)
<1> DEFINE m   == Top(ms)
           mid == WithKind(ev, m, kind)
           l   == Len(ev) + 1
<1>1. /\ Len(ms) \in Nat /\ Len(ms) \in 1..Len(ms) /\ Len(now) = Len(ms) - 1
      /\ m = ms[Len(ms)] /\ m \in 1..Len(ev)
      /\ \A k \in 1..Len(now) : k \in 1..Len(ms) /\ k < Len(ms) /\ now[k] = ms[k] /\ ms[k] \in 1..Len(ev)
      /\ \A k \in 1..Len(ms) : k \in 1..Len(now) \/ k = Len(ms)
      /\ now = <<>> <=> Len(ms) = 1
  <2>1. Len(ev) \in Nat
    OBVIOUS
  <2>2. QED BY <2>1, MarkerRemoved
<1>2. /\ now # <<>> => now[1] = 1
      /\ Increasing(now)
      /\ \A k \in 1..Len(now) : now[k] # m /\ ev[now[k]].kind = "None"
      /\ now = <<>> => m = 1
      /\ now # <<>> => m # 1
      /\ ev[m].kind = "None"
  <2>1. Len(ev) \in Nat /\ Nested(ev, ms)
    BY DEF Shape
  <2>2. QED BY <2>1, OthersNested
<1>3. ev[m].type = "NodeStart"
  BY <1>1 DEF Marked
<1>4. Len(ev) \in Nat /\ m \in Nat /\ kind \in NodeKinds /\ 1 \in 1..Len(ev) /\ l \in Nat
  BY <1>1 DEF Shape, Begun
<1> HIDE DEF m
<1>5. /\ mid \in Seq(EventRecord) /\ Len(mid) = Len(ev)
      /\ \A q \in 1..Len(ev) : mid[q].type = ev[q].type /\ mid[q].parent = ev[q].parent
  BY <1>4, KindSet
<1>6. \A q \in 1..Len(ev) : mid[q].kind = IF q = m THEN kind ELSE ev[q].kind
  BY <1>4, KindsSet
<1>7. new = Append(mid, NodeEnd)
  BY DEF m
<1> HIDE DEF mid
<1>8. /\ new \in Seq(EventRecord) /\ Len(new) = l /\ new[l] = NodeEnd
      /\ \A q \in 1..Len(ev) : new[q] = mid[q]
  <2>1. NodeEnd \in EventRecord
    BY EventsTyped
  <2>2. /\ new \in Seq(EventRecord) /\ Len(new) = Len(mid) + 1 /\ new[Len(mid) + 1] = NodeEnd
        /\ \A q \in 1..Len(mid) : new[q] = mid[q]
    BY <1>5, <1>7, <2>1, EventAdded
  <2>3. QED BY <1>5, <2>2
<1>9. /\ \A q \in 1..Len(ev) : /\ new[q].type = ev[q].type /\ new[q].parent = ev[q].parent
                               /\ new[q].kind = IF q = m THEN kind ELSE ev[q].kind
      /\ new[l].parent = 0
  BY <1>5, <1>6, <1>8, EventsTyped
<1>10. \A q \in 1..l : q \in 1..Len(ev) \/ q = l
  BY <1>4
<1>11. \A i \in 1..l : Surplus(new, i) = IF i <= m THEN Surplus(ev, i) ELSE Surplus(ev, i) + 1
  <2>1. ASSUME NEW i \in 1..(Len(ev) + 1)
        PROVE  Surplus(Append(WithKind(ev, m, kind), NodeEnd), i) =
                 IF i <= m THEN Surplus(ev, i) ELSE Surplus(ev, i) + 1
    BY <1>1, <1>2, <1>3, SurplusCompleted
  <2>2. QED BY <1>7, <2>1 DEF mid
<1>12. \A i \in 1..l : Surplus(ev, i) \in Int /\ Surplus(ev, i) >= 0
  <2>1. Surplus(ev, l) = 0
    BY SurplusNone
  <2>2. \A i \in 1..Len(ev) : Surplus(ev, i) \in Int /\ Surplus(ev, i) >= 0
    <3>1. \A i \in 1..Len(ev) : i \in Nat
      OBVIOUS
    <3>2. QED BY <3>1, CountsTyped DEF Shape, Balanced
  <2>3. QED BY <1>10, <2>1, <2>2
<1> HIDE DEF l
<1>13. \A i \in 1..l : Surplus(new, i) >= 0 /\ (i > m => Surplus(new, i) > 0)
  <2>1. ASSUME NEW i \in 1..l PROVE Surplus(new, i) >= 0 /\ (i > m => Surplus(new, i) > 0)
    <3>1. i \in Nat /\ Surplus(ev, i) \in Int /\ Surplus(ev, i) >= 0
      BY <1>12
    <3>2. CASE i <= m
      BY <1>4, <1>11, <3>1, <3>2
    <3>3. CASE i > m
      BY <1>4, <1>11, <3>1, <3>3
    <3>4. QED BY <1>4, <3>1, <3>2, <3>3
  <2>2. QED BY <2>1
<1>14. Balanced(new)
  <2>1. 1 \in 1..l /\ 1 <= m
    BY <1>1, <1>4 DEF l
  <2>2. Surplus(new, 1) = 0
    BY <1>11, <2>1 DEF Shape, Balanced
  <2>3. QED BY <1>8, <1>13, <2>2 DEF Balanced
<1>15. Begun(new, now)
  <2>1. Len(new) > 0
    BY <1>4, <1>8 DEF l
  <2>2. new[1].type = "NodeStart" /\ new[1].parent = 0
    BY <1>4, <1>9 DEF Shape, Begun
  <2>3. ASSUME now = <<>> PROVE new[1].kind = "Block" /\ Enclosed(new)
    <3>1. m = 1 /\ kind = "Block"
      BY <1>2, <2>3
    <3>2. new[1].kind = "Block"
      BY <1>4, <1>9, <3>1
    <3>3. \A i \in 2..l : i \in 1..l /\ i > 1
      BY <1>4
    <3>4. Enclosed(new)
      BY <1>8, <1>13, <3>1, <3>3 DEF Enclosed
    <3>5. QED BY <3>2, <3>4
  <2>4. QED BY <2>1, <2>2, <2>3 DEF Begun
<1>16. Nested(new, now)
  <2>1. ASSUME NEW k \in 1..Len(now) PROVE new[now[k]].kind = "None"
    <3>1. now[k] \in 1..Len(ev) /\ now[k] # m /\ ev[now[k]].kind = "None"
      BY <1>1, <1>2
    <3>2. QED BY <1>9, <3>1
  <2>2. QED BY <1>2, <2>1 DEF Nested
<1>17. \A q \in 1..l : new[q].parent # 0 => q \in 1..Len(ev) /\ new[q].parent = ev[q].parent
  BY <1>9, <1>10
<1>18. ParentsDiffer(new)
  <2>1. ParentsDiffer(ev)
    BY DEF Shape
  <2>2. ASSUME NEW p \in 1..l, NEW q \in 1..l, new[p].parent = new[q].parent, new[p].parent # 0
        PROVE  p = q
    <3>1. /\ p \in 1..Len(ev) /\ new[p].parent = ev[p].parent
          /\ q \in 1..Len(ev) /\ new[q].parent = ev[q].parent
      BY <1>17, <2>2
    <3>2. QED BY <2>1, <2>2, <3>1 DEF ParentsDiffer
  <2>3. QED BY <1>8, <2>2 DEF ParentsDiffer
<1>19. ParentsComplete(new, now)
  <2>1. ASSUME NEW q \in 1..l, new[q].parent # 0
        PROVE  \/ new[new[q].parent].kind # "None"
               \/ \E k \in 1..Len(now) : now[k] = new[q].parent
    <3>1. q \in 1..Len(ev) /\ new[q].parent = ev[q].parent
      BY <1>17, <2>1
    <3>2. ev[q].parent \in 1..Len(ev)
      BY <1>4, <2>1, <3>1 DEF Linked
    <3>3. CASE ev[q].parent = m
      BY <1>9, <3>1, <3>2, <3>3
    <3>4. CASE ev[q].parent # m
      <4>1. new[ev[q].parent].kind = ev[ev[q].parent].kind
        BY <1>9, <3>2, <3>4
      <4>2. \/ ev[ev[q].parent].kind # "None"
            \/ \E k \in 1..Len(ms) : ms[k] = ev[q].parent
        BY <2>1, <3>1 DEF Shape, ParentsComplete
      <4>3. QED BY <1>1, <3>1, <3>4, <4>1, <4>2
    <3>5. QED BY <3>3, <3>4
  <2>2. QED BY <1>8, <2>1 DEF ParentsComplete
<1>20. QED BY <1>14, <1>15, <1>16, <1>18, <1>19 DEF Shape

\* A Marker that is no parent is undone.
LEMMA UndoShaped ==
  ASSUME NEW ev \in Seq(EventRecord), NEW ms \in Seq(1..Len(ev)), ms # <<>>,
         Marked(ev, ms), Linked(ev), Shape(ev, ms),
         \A q \in 1..Len(ev) : ev[q].parent # Top(ms),
         NEW now, now = Pop(ms), now # <<>>,
         NEW new, new = WithKind(ev, Top(ms), "None")
  PROVE  Shape(new, now)
<1> DEFINE m == Top(ms)
<1>1. /\ Len(ms) \in Nat /\ Len(ms) \in 1..Len(ms) /\ Len(now) = Len(ms) - 1
      /\ m = ms[Len(ms)] /\ m \in 1..Len(ev)
      /\ \A k \in 1..Len(now) : k \in 1..Len(ms) /\ k < Len(ms) /\ now[k] = ms[k] /\ ms[k] \in 1..Len(ev)
      /\ \A k \in 1..Len(ms) : k \in 1..Len(now) \/ k = Len(ms)
  <2>1. Len(ev) \in Nat
    OBVIOUS
  <2>2. QED BY <2>1, MarkerRemoved
<1>2. /\ now[1] = 1
      /\ Increasing(now)
      /\ \A k \in 1..Len(now) : now[k] # m /\ ev[now[k]].kind = "None"
      /\ ev[m].kind = "None"
  <2>1. Len(ev) \in Nat /\ Nested(ev, ms)
    BY DEF Shape
  <2>2. QED BY <2>1, OthersNested
<1>3. Len(ev) \in Nat /\ m \in Nat /\ "None" \in NodeKinds /\ 1 \in 1..Len(ev)
  BY <1>1 DEF Shape, Begun, NodeKinds
<1>4. \A q \in 1..Len(ev) : ev[q].parent # m
  OBVIOUS
<1>5. new = WithKind(ev, m, "None")
  OBVIOUS
<1> HIDE DEF m
<1>6. /\ new \in Seq(EventRecord) /\ Len(new) = Len(ev)
      /\ \A q \in 1..Len(ev) : new[q].type = ev[q].type /\ new[q].parent = ev[q].parent
  <2>1. /\ WithKind(ev, m, "None") \in Seq(EventRecord) /\ Len(WithKind(ev, m, "None")) = Len(ev)
        /\ \A q \in 1..Len(ev) : /\ WithKind(ev, m, "None")[q].type = ev[q].type
                                  /\ WithKind(ev, m, "None")[q].parent = ev[q].parent
    BY <1>3, KindSet
  <2>2. QED BY <1>5, <2>1
<1>7. \A q \in 1..Len(ev) : new[q].kind = ev[q].kind
  <2>1. \A q \in 1..Len(ev) : new[q].kind = IF q = m THEN "None" ELSE ev[q].kind
    BY <1>3, <1>5, KindsSet
  <2>2. QED BY <1>2, <2>1
<1>8. \A i \in 1..Len(ev) : Surplus(new, i) = Surplus(ev, i)
  <2>1. ASSUME NEW i \in 1..Len(ev) PROVE Surplus(new, i) = Surplus(ev, i)
    <3>1. i \in Nat /\ Len(new) >= Len(ev)
      BY <1>3, <1>6
    <3>2. \A q \in i..Len(ev) : q \in 1..Len(ev)
      BY <1>3
    <3>3. \A q \in i..Len(ev) : (IsLive(new[q]) <=> IsLive(ev[q])) /\ (IsEnd(new[q]) <=> IsEnd(ev[q]))
      BY <1>6, <1>7, <3>2 DEF IsLive, IsEnd
    <3>4. \A q \in i..Len(new) : ~(q > Len(ev))
      BY <1>3, <1>6
    <3>5. QED BY <1>6, <3>1, <3>3, <3>4, SurplusSame
  <2>2. QED BY <2>1
<1>9. Balanced(new)
  BY <1>3, <1>6, <1>8 DEF Shape, Balanced
<1>10. Begun(new, now)
  BY <1>3, <1>6 DEF Shape, Begun
<1>11. Nested(new, now)
  BY <1>1, <1>2, <1>7 DEF Nested
<1>12. ParentsDiffer(new)
  BY <1>6 DEF Shape, ParentsDiffer
<1>13. ParentsComplete(new, now)
  <2>1. ASSUME NEW q \in 1..Len(ev), new[q].parent # 0
        PROVE  \/ new[new[q].parent].kind # "None"
               \/ \E k \in 1..Len(now) : now[k] = new[q].parent
    <3>1. new[q].parent = ev[q].parent /\ ev[q].parent # m
      BY <1>4, <1>6
    <3>2. ev[q].parent \in 1..Len(ev)
      BY <1>3, <2>1, <3>1 DEF Linked
    <3>3. new[ev[q].parent].kind = ev[ev[q].parent].kind
      BY <1>7, <3>2
    <3>4. \/ ev[ev[q].parent].kind # "None"
          \/ \E k \in 1..Len(ms) : ms[k] = ev[q].parent
      BY <2>1, <3>1 DEF Shape, ParentsComplete
    <3>5. QED BY <1>1, <3>1, <3>3, <3>4
  <2>2. QED BY <1>6, <2>1 DEF ParentsComplete
<1>14. QED BY <1>9, <1>10, <1>11, <1>12, <1>13 DEF Shape

\* All parents were there before.
OldParents(ev, new) ==
  \A q \in 1..Len(new) :
    new[q].parent = 0 \/ (q \in 1..Len(ev) /\ new[q].parent = ev[q].parent)

\* The Markers that are left are as plain as they were.
LEMMA LessPlain ==
  ASSUME NEW ev \in Seq(EventRecord), NEW ms \in Seq(1..Len(ev)), ms # <<>>,
         NEW new, OldParents(ev, new),
         NEW rest \in Markers, NEW f \in {"plain", "around"}, Plain(ev, ms, Append(rest, f))
  PROVE  Plain(new, Pop(ms), rest)
<1> DEFINE st  == Append(rest, f)
           now == Pop(ms)
           n   == Len(ev)
<1>1. /\ Len(ms) \in Nat /\ Len(now) = Len(ms) - 1
      /\ \A k \in 1..Len(now) : k \in 1..Len(ms) /\ k < Len(ms) /\ now[k] = ms[k] /\ ms[k] \in 1..n
  <2>1. n \in Nat
    OBVIOUS
  <2>2. QED BY <2>1, MarkerRemoved
<1>2. Len(st) = Len(ms) /\ Len(rest) \in Nat /\ Len(st) = Len(rest) + 1
      /\ \A k \in 1..Len(rest) : st[k] = rest[k]
  BY DEF Markers, Plain
<1> HIDE DEF now
<1>3. Len(rest) = Len(now)
  BY <1>1, <1>2
<1>4. ASSUME NEW k \in 1..Len(now), rest[k] = "plain", NEW q \in 1..Len(new)
      PROVE  new[q].parent # now[k]
  <2>1. st[k] = "plain" /\ k \in 1..Len(ms) /\ now[k] = ms[k] /\ ms[k] \in 1..n
    BY <1>1, <1>2, <1>3, <1>4
  <2>2. \A p \in 1..Len(ev) : ev[p].parent # ms[k]
    BY <2>1 DEF Plain
  <2>3. ms[k] # 0
    BY <2>1
  <2>4. QED BY <2>1, <2>2, <2>3 DEF OldParents
<1>5. QED BY <1>3, <1>4 DEF Plain, now

-----------------------------------------------------------------------------
(* A file is parsed without errors. *)

\* No keyword `global` stands before `function`: for a global function the parser keeps
\* Markers open (a case in which TokensKept fails).
GlobalFunctionFree ==
  \A i \in 1..Len(tokens) :
    tokens[i] = "global" => TokenAt(SkipComment(tokens, i + 1)) # "function"

Clean == errors = 0 /\ GlobalFunctionFree

BlockEnd == [op |-> "Complete", what |-> "Block", arg |-> 0]

\* The last instruction completes the block of the file.
ClosesBlock(p) == p # <<>> => p[Len(p)] = BlockEnd

\* What is left to do closes the open Markers.
ToCome(ev, ms, p) == \E st \in Markers : Plain(ev, ms, st) /\ Leads(p, st, <<>>)

Parsing ==
  /\ Shape(events, marks) /\ ToCome(events, marks, todo) /\ ClosesBlock(todo)
  /\ completed = 1 => todo \in Prepared

WellParsed ==
  phase = "parse" /\ Clean =>
    IF events = <<>> THEN marks = <<>> /\ todo = Block ELSE Parsing

\* The block of a file.
LEMMA BlockLeads ==
  /\ Block # <<>> /\ Head(Block).op = "Mark"
  /\ Tail(Block) \in Prepared /\ Leads(Tail(Block), <<"plain">>, <<>>) /\ ClosesBlock(Tail(Block))
<1> DEFINE do   == [op |-> "Do", what |-> "StatementList", arg |-> 0]
           mark == [op |-> "Mark", what |-> "none", arg |-> 0]
<1>1. Do("StatementList") = DoWith("StatementList", 0) /\ Do("StatementList") = <<do>>
  BY DEF Do, DoWith, Instruction
<1>2. Complete("Block") = <<BlockEnd>> /\ Mark = <<mark>>
  BY DEF Complete, Instruction, BlockEnd, Mark
<1>3. "StatementList" \in Rules \ (Closing \union Undoing \union {"BinaryOperators"})
      /\ "Block" \in NodeKinds \ {"None"}
  BY DEF Rules, StatementRules, Closing, Undoing, NodeKinds
<1>4. do \in Instructions /\ BlockEnd \in Instructions /\ mark \in Instructions
  BY <1>3 DEF Instructions, BlockEnd, Rules
<1>5. <<"plain">> \in Markers /\ <<>> \in Markers /\ <<"plain">> = Append(<<>>, "plain")
  BY DEF Markers
<1>6. Step(do, <<"plain">>, <<"plain">>)
  <2>1. do.op = "Do" /\ do.what \notin Closing \union Undoing
    BY <1>3
  <2>2. <<"plain">> # <<>>
    OBVIOUS
  <2>3. QED BY <1>5, <2>1, <2>2 DEF Step
<1>7. Step(BlockEnd, <<"plain">>, <<>>)
  <2>1. BlockEnd.op = "Complete" /\ BlockEnd.what # "None"
    BY DEF BlockEnd
  <2>2. <<"plain">> # <<>> /\ \E f \in {"plain", "around"} : <<"plain">> = Append(<<>>, f)
    BY <1>5
  <2>3. QED BY <1>5, <2>1, <2>2 DEF Step
<1> HIDE DEF do, mark
<1>8. <<do>> \in Program /\ <<BlockEnd>> \in Program
  BY <1>4 DEF Program
<1>9. Leads(<<do>>, <<"plain">>, <<"plain">>) /\ Leads(<<BlockEnd>>, <<"plain">>, <<>>)
  BY <1>4, <1>5, <1>6, <1>7, LeadsOne
<1>10. Leads(<<do>> \o <<BlockEnd>>, <<"plain">>, <<>>)
  BY <1>5, <1>8, <1>9, LeadsOn
<1>11. <<do>> \in Prepared /\ <<BlockEnd>> \in Making
  BY <1>1, <1>2, <1>3, InstructionsPrepared
<1>12. <<do>> \o <<BlockEnd>> \in Prepared
  BY <1>11, PreparedComposes
<1>13. Block = <<mark>> \o <<do>> \o <<BlockEnd>>
  BY <1>1, <1>2 DEF Block
<1>14. Block # <<>> /\ Head(Block) = mark /\ Tail(Block) = <<do>> \o <<BlockEnd>>
  BY <1>13
<1>15. ClosesBlock(<<do>> \o <<BlockEnd>>)
  BY DEF ClosesBlock
<1>16. mark.op = "Mark"
  BY DEF mark
<1>17. QED BY <1>10, <1>12, <1>14, <1>15, <1>16

\* A program that makes nothing at first is prepared afterwards as well.
LEMMA PreparedLater ==
  ASSUME NEW p \in Prepared, p # <<>>, ~Makes(Head(p))
  PROVE  ~Wraps(Head(p)) /\ Tail(p) \in Prepared
<1>1. /\ p \in Program /\ Len(p) \in Nat /\ Len(p) > 0 /\ Head(p) = p[1] /\ Tail(p) \in Program
      /\ Len(Tail(p)) = Len(p) - 1 /\ \A k \in 1..(Len(p) - 1) : Tail(p)[k] = p[k + 1]
  BY DEF Prepared, Program
<1>2. \A k \in 1..Len(p) : Wraps(p[k]) => \E j \in 1..(k - 1) : Makes(p[j])
  BY DEF Prepared
<1>3. ~Wraps(Head(p))
  <2>1. 1 \in 1..Len(p) /\ \A j \in 1..(1 - 1) : FALSE
    BY <1>1
  <2>2. QED BY <1>1, <1>2, <2>1
<1>4. ASSUME NEW k \in 1..(Len(p) - 1), Wraps(Tail(p)[k])
      PROVE  \E j \in 1..(k - 1) : Makes(Tail(p)[j])
  <2>1. k + 1 \in 1..Len(p) /\ Wraps(p[k + 1])
    BY <1>1, <1>4
  <2>2. PICK j \in 1..((k + 1) - 1) : Makes(p[j])
    BY <1>2, <2>1
  <2>3. j # 1
    BY <1>1, <2>2
  <2>4. j - 1 \in 1..(k - 1) /\ j - 1 \in 1..(Len(p) - 1) /\ (j - 1) + 1 = j
    <3>1. k \in Nat /\ j \in Nat /\ j <= k /\ j > 1 /\ k <= Len(p) - 1
      BY <1>1, <2>2, <2>3
    <3>2. QED BY <1>1, <3>1
  <2>5. Tail(p)[j - 1] = p[j]
    BY <1>1, <2>4
  <2>6. QED BY <2>2, <2>4, <2>5
<1>5. QED BY <1>1, <1>3, <1>4 DEF Prepared

\* An instruction of what is left to do leads from the Markers st to mid.
Going(st, mid) ==
  /\ st \in Markers /\ mid \in Markers
  /\ Plain(events, marks, st) /\ Step(Instr, st, mid) /\ Leads(Tail(todo), mid, <<>>)

\* What the next instruction does to the Markers, and what is left after it.
LEMMA GoesOn ==
  ASSUME IInv, Parsing, todo # <<>>, Instr.op # "Error"
  PROVE  /\ \E st, mid : Going(st, mid)
         /\ ClosesBlock(Tail(todo)) /\ (Tail(todo) = <<>> => Instr = BlockEnd)
         /\ completed = 1 /\ ~Makes(Instr) => ~Wraps(Instr) /\ Tail(todo) \in Prepared
         /\ marks # <<>> /\ Len(events) > 0 /\ Tail(todo) \in Program
<1>1. /\ todo \in Program /\ Tail(todo) \in Program /\ Len(todo) \in Nat /\ Len(todo) > 0
      /\ Len(Tail(todo)) = Len(todo) - 1 /\ Instr = todo[1] /\ Instr = Head(todo)
      /\ \A k \in 1..(Len(todo) - 1) : Tail(todo)[k] = todo[k + 1]
  <2>1. todo \in Program
    BY DEF IInv, TypeOK, Program
  <2>2. QED BY <2>1 DEF Program, Instr
<1>2. PICK st \in Markers : Plain(events, marks, st) /\ Leads(todo, st, <<>>)
  BY DEF Parsing, ToCome
<1>3. <<>> \in Markers
  BY DEF Markers
<1>4. PICK mid \in Markers : Step(Instr, st, mid) /\ Leads(Tail(todo), mid, <<>>)
  BY <1>1, <1>2, <1>3, LeadsFirst
<1>5. Going(st, mid)
  BY <1>2, <1>4 DEF Going
<1>6. st # <<>>
  BY <1>4 DEF Step
<1>7. marks # <<>>
  <2>1. Len(st) # 0 /\ Len(st) = Len(marks)
    BY <1>2, <1>6 DEF Plain, Markers
  <2>2. QED BY <2>1
<1>8. todo[Len(todo)] = BlockEnd
  BY DEF Parsing, ClosesBlock
<1>9. Tail(todo) = <<>> => Instr = BlockEnd
  <2>1. Tail(todo) = <<>> => Len(Tail(todo)) = 0
    <3>1. Len(<<>>) = 0
      OBVIOUS
    <3>2. QED BY <3>1, Zenon
  <2>2. Tail(todo) = <<>> => Len(todo) = 1
    BY <1>1, <2>1
  <2>3. QED BY <1>1, <1>8, <2>2
<1>10. ClosesBlock(Tail(todo))
  <2>1. ASSUME Tail(todo) # <<>> PROVE Tail(todo)[Len(Tail(todo))] = BlockEnd
    <3>1. Len(Tail(todo)) # 0 /\ Len(Tail(todo)) \in Nat
      BY <1>1, <2>1 DEF Program
    <3>2. Len(Tail(todo)) \in 1..(Len(todo) - 1) /\ Len(Tail(todo)) + 1 = Len(todo)
      BY <1>1, <3>1
    <3>3. QED BY <1>1, <1>8, <3>2
  <2>2. QED BY <2>1 DEF ClosesBlock
<1>11. completed = 1 /\ ~Makes(Instr) => ~Wraps(Instr) /\ Tail(todo) \in Prepared
  BY <1>1, PreparedLater DEF Parsing
<1>12. Len(events) > 0
  BY DEF Parsing, Shape, Begun
<1>13. QED BY <1>1, <1>5, <1>7, <1>9, <1>10, <1>11, <1>12

\* The block of the file is opened.
LEMMA BlockOpens ==
  ASSUME IInv, OpenMarker, events = <<>>, marks = <<>>, todo = Block
  PROVE  Parsing'
<1>1. /\ events' = Append(events, NodeStart) /\ marks' = Append(marks, Len(events) + 1)
      /\ todo' = Tail(Block)
  BY DEF OpenMarker
<1>2. events' = <<NodeStart>> /\ marks' = << 1 >> /\ Len(events') = 1 /\ events'[1] = NodeStart
      /\ Len(marks') = 1 /\ marks'[1] = 1 /\ marks' # <<>>
  BY <1>1
<1>3. /\ NodeStart \in EventRecord /\ NodeStart.type = "NodeStart" /\ NodeStart.parent = 0
      /\ NodeStart.kind = "None"
  BY EventsTyped DEF NodeStart, Event
<1>4. events' \in Seq(EventRecord)
  BY <1>2, <1>3
<1>5. \A k \in 1..1 : k = 1
  OBVIOUS
<1>6. Balanced(events')
  <2>1. Surplus(events', 2) = 0
    <3>1. Surplus(events', Len(events') + 1) = 0
      BY <1>4, SurplusNone
    <3>2. Len(events') + 1 = 2
      BY <1>2
    <3>3. QED BY <3>1, <3>2
  <2>2. Surplus(events', 1) = Surplus(events', 1 + 1) + Counts(events'[1])
    <3>1. 1 \in 1..Len(events')
      BY <1>2
    <3>2. QED BY <1>4, <3>1, SurplusNext
  <2>3. Counts(events'[1]) = 0
    BY <1>2, <1>3 DEF Counts, IsLive, IsEnd
  <2>4. Surplus(events', 1) = 0
    BY <2>1, <2>2, <2>3
  <2>5. QED BY <1>2, <1>5, <2>4 DEF Balanced
<1>7. Begun(events', marks')
  BY <1>2, <1>3 DEF Begun
<1>8. Nested(events', marks')
  <2>1. Increasing(marks')
    BY <1>2, <1>5 DEF Increasing
  <2>2. \A k \in 1..Len(marks') : events'[marks'[k]].kind = "None"
    BY <1>2, <1>3, <1>5
  <2>3. QED BY <1>2, <2>1, <2>2 DEF Nested
<1>9. \A q \in 1..Len(events') : events'[q].parent = 0
  BY <1>2, <1>3, <1>5
<1>10. ParentsDiffer(events') /\ ParentsComplete(events', marks')
  BY <1>9 DEF ParentsDiffer, ParentsComplete
<1>11. Shape(events', marks')
  BY <1>6, <1>7, <1>8, <1>10 DEF Shape
<1>12. Plain(events', marks', <<"plain">>)
  <2>1. Len(<<"plain">>) = 1
    OBVIOUS
  <2>2. QED BY <1>2, <1>5, <1>9, <2>1 DEF Plain
<1>13. <<"plain">> \in Markers
  BY DEF Markers
<1>14. ToCome(events', marks', todo')
  BY <1>1, <1>12, <1>13, BlockLeads DEF ToCome
<1>15. QED BY <1>1, <1>11, <1>14, BlockLeads DEF Parsing

\* An instruction that leaves the Markers, and the events but for a token that is read.
LEMMA SameMarkers ==
  ASSUME IInv, Parsing, todo # <<>>, Instr.op \in {"Eat", "Check", "Test"},
         todo' = Tail(todo), marks' = marks, completed' = completed,
         events' = events \/ events' = Append(events, EatToken(Position))
  PROVE  Parsing'
<1>1. PICK st, mid : Going(st, mid)
  BY GoesOn
<1>2. mid = st
  BY <1>1 DEF Going, Step
<1>3. /\ ClosesBlock(todo') /\ marks # <<>> /\ Len(events) > 0
      /\ (completed' = 1 => todo' \in Prepared)
  <2>1. ~Makes(Instr)
    BY DEF Makes
  <2>2. QED BY <2>1, GoesOn
<1>4. Leads(todo', st, <<>>) /\ st \in Markers /\ Plain(events, marks, st)
  BY <1>1, <1>2 DEF Going
<1>5. Shape(events', marks') /\ Plain(events', marks', st)
  <2>1. CASE events' = events
    BY <1>4, <2>1 DEF Parsing
  <2>2. CASE events' = Append(events, EatToken(Position))
    <3>1. Position \in Nat
      BY WhileParsing, SkipCommentTyped DEF Position
    <3>2. EatToken(Position) \in EventRecord /\ EatToken(Position).parent = 0
          /\ EatToken(Position).type = "EatToken"
      BY <3>1, EventsTyped
    <3>3. ~IsLive(EatToken(Position)) /\ ~IsEnd(EatToken(Position))
      BY <3>2 DEF IsLive, IsEnd
    <3>4. Shape(events, marks)
      BY DEF Parsing
    <3>5. /\ events \in Seq(EventRecord) /\ marks \in Seq(1..Len(events)) /\ Linked(events)
      BY WhileParsing
    <3>6. /\ Shape(events', marks)
          /\ \A fs : Plain(events, marks, fs) => Plain(events', marks, fs)
      BY <1>3, <2>2, <3>2, <3>3, <3>4, <3>5, EatShaped
    <3>7. QED BY <1>4, <3>6
  <2>3. QED BY <2>1, <2>2
<1>6. ToCome(events', marks', todo')
  BY <1>4, <1>5 DEF ToCome
<1>7. QED BY <1>3, <1>5, <1>6 DEF Parsing

\* A Marker is opened.
LEMMA MarkShapes ==
  ASSUME IInv, Parsing, todo # <<>>, OpenMarker
  PROVE  Parsing'
<1>1. /\ Instr.op = "Mark" /\ events' = Append(events, NodeStart)
      /\ marks' = Append(marks, Len(events) + 1) /\ todo' = Tail(todo) /\ completed' = completed
  BY DEF OpenMarker, Runs
<1>2. PICK st, mid : Going(st, mid)
  BY <1>1, GoesOn
<1>3. /\ ClosesBlock(todo') /\ marks # <<>> /\ Len(events) > 0
      /\ (completed' = 1 => todo' \in Prepared)
  <2>1. ~Makes(Instr)
    BY <1>1 DEF Makes
  <2>2. QED BY <1>1, <2>1, GoesOn
<1>4. mid = Append(st, "plain")
  BY <1>1, <1>2 DEF Going, Step
<1>5. st \in Markers /\ mid \in Markers /\ Plain(events, marks, st) /\ Leads(todo', mid, <<>>)
  BY <1>1, <1>2 DEF Going
<1>6. events \in Seq(EventRecord) /\ marks \in Seq(1..Len(events)) /\ Linked(events)
      /\ Len(events) \in Nat
  BY WhileParsing
<1>7. /\ events' \in Seq(EventRecord) /\ Len(events') = Len(events) + 1
      /\ events'[Len(events) + 1] = NodeStart
      /\ \A q \in 1..Len(events) : events'[q] = events[q]
  <2>1. NodeStart \in EventRecord
    BY EventsTyped
  <2>2. QED BY <1>1, <1>6, <2>1, EventAdded
<1>8. Started(events, events', 0)
  <2>1. 0 \notin 1..Len(events)
    BY <1>6
  <2>2. QED BY <1>7, <2>1 DEF Started
<1>9. 0 \in Nat /\ 0 # 1 /\ Shape(events, marks)
  BY DEF Parsing
<1>10. Shape(events', marks')
  BY <1>1, <1>3, <1>6, <1>7, <1>8, <1>9, StartShaped
<1>11. Plain(events', marks', mid)
  <2>1. "plain" \in {"plain", "around"} /\ ("plain" = "plain" => 0 = 0)
    OBVIOUS
  <2>2. QED BY <1>1, <1>4, <1>5, <1>6, <1>7, <1>8, <1>9, <2>1, StartPlain
<1>12. ToCome(events', marks', todo')
  BY <1>5, <1>11 DEF ToCome
<1>13. QED BY <1>3, <1>10, <1>12 DEF Parsing

\* A Marker is opened around the node completed last, which is not the block of the file.
LEMMA PrecedeShapes ==
  ASSUME IInv, Parsing, todo # <<>>, PrecedeNode
  PROVE  Parsing'
<1> DEFINE l   == Len(events) + 1
           mid == IF events[completed].type = "NodeStart"
                  THEN WithParent(events, completed, l) ELSE events
<1>1. /\ Instr.op = "Precede" /\ todo # <<>>
      /\ events' = Append(mid, NodeStart) /\ marks' = Append(marks, l)
      /\ todo' = Tail(todo) /\ completed' = completed
  BY DEF PrecedeNode, PrecedeAs, Runs, WithParent
<1>2. PICK st, ms : Going(st, ms)
  BY <1>1, GoesOn
<1>3. /\ ClosesBlock(todo') /\ marks # <<>> /\ Len(events) > 0
      /\ completed # 1
  <2>1. ~Makes(Instr) /\ Wraps(Instr)
    BY <1>1 DEF Makes, Wraps
  <2>2. QED BY <1>1, <2>1, GoesOn
<1>4. ms = Append(st, "around")
  BY <1>1, <1>2 DEF Going, Step
<1>5. st \in Markers /\ ms \in Markers /\ Plain(events, marks, st) /\ Leads(todo', ms, <<>>)
  BY <1>1, <1>2 DEF Going
<1>6. events \in Seq(EventRecord) /\ marks \in Seq(1..Len(events)) /\ Linked(events)
      /\ Len(events) \in Nat /\ l \in Nat /\ completed \in Nat \ {0}
  BY WhileParsing
<1>7. PICK c \in Nat :
        /\ c # 1 /\ mid \in Seq(EventRecord) /\ Len(mid) = Len(events)
        /\ \A q \in 1..Len(events) :
             /\ mid[q].type = events[q].type /\ mid[q].kind = events[q].kind
             /\ mid[q].parent = IF q = c THEN l ELSE events[q].parent
  <2>1. CASE events[completed].type = "NodeStart"
    <3>1. mid = WithParent(events, completed, l)
      BY <2>1
    <3>2. completed \in Nat /\ completed # 1
      BY <1>3, <1>6
    <3> HIDE DEF mid, l
    <3>3. /\ mid \in Seq(EventRecord) /\ Len(mid) = Len(events)
          /\ \A q \in 1..Len(events) :
               /\ mid[q].type = events[q].type
               /\ mid[q].parent = IF q = completed THEN l ELSE events[q].parent
      BY <1>6, <3>1, <3>2, ParentSet
    <3>4. \A q \in 1..Len(events) : mid[q].kind = events[q].kind
      BY <1>6, <3>1, <3>2, ParentKeepsKind
    <3>5. QED BY <3>2, <3>3, <3>4
  <2>2. CASE events[completed].type # "NodeStart"
    <3>1. mid = events
      BY <2>2
    <3> HIDE DEF mid
    <3>2. \A q \in 1..Len(events) : q # 0
      BY <1>6
    <3>3. 0 \in Nat /\ 0 # 1
      OBVIOUS
    <3>4. \A q \in 1..Len(events) : mid[q].parent = IF q = 0 THEN l ELSE events[q].parent
      BY <3>1, <3>2
    <3>5. QED BY <1>6, <3>1, <3>3, <3>4
  <2>3. QED BY <2>1, <2>2
<1> HIDE DEF mid
<1>8. /\ events' \in Seq(EventRecord) /\ Len(events') = l /\ events'[l] = NodeStart
      /\ \A q \in 1..Len(events) : events'[q] = mid[q]
  <2>1. NodeStart \in EventRecord
    BY EventsTyped
  <2>2. /\ events' \in Seq(EventRecord) /\ Len(events') = Len(mid) + 1
        /\ events'[Len(mid) + 1] = NodeStart
        /\ \A q \in 1..Len(mid) : events'[q] = mid[q]
    BY <1>1, <1>7, <2>1, EventAdded
  <2>3. QED BY <1>7, <2>2
<1>9. Started(events, events', c)
  BY <1>7, <1>8 DEF Started
<1>10. Shape(events, marks)
  BY DEF Parsing
<1>11. Shape(events', marks')
  BY <1>1, <1>3, <1>6, <1>7, <1>8, <1>9, <1>10, StartShaped
<1>12. Plain(events', marks', ms)
  <2>1. "around" \in {"plain", "around"} /\ ("around" = "plain" => c = 0)
    OBVIOUS
  <2>2. QED BY <1>1, <1>4, <1>5, <1>6, <1>7, <1>8, <1>9, <2>1, StartPlain
<1>13. ToCome(events', marks', todo')
  BY <1>5, <1>12 DEF ToCome
<1>14. QED BY <1>1, <1>3, <1>11, <1>13 DEF Parsing

\* When the last Marker is closed nothing is left to do.
LEMMA LastMarker ==
  ASSUME IInv, Parsing, todo # <<>>, Instr.op # "Error", NEW st, NEW mid, Going(st, mid),
         NEW f, st = Append(mid, f)
  PROVE  /\ Pop(marks) = <<>> => Tail(todo) = <<>> /\ Instr = BlockEnd
         /\ Len(marks) = Len(mid) + 1 /\ Len(mid) \in Nat
<1>1. /\ mid \in Markers /\ Len(st) = Len(marks) /\ Leads(Tail(todo), mid, <<>>)
  BY DEF Going, Plain
<1>2. Len(mid) \in Nat /\ Len(st) = Len(mid) + 1 /\ (Len(mid) = 0 => mid = <<>>)
  BY <1>1 DEF Markers
<1>3. marks # <<>> /\ Tail(todo) \in Program /\ (Tail(todo) = <<>> => Instr = BlockEnd)
  BY GoesOn
<1>4. Len(Pop(marks)) = Len(marks) - 1
  BY <1>3, WhileParsing, PopTyped
<1>5. ASSUME Pop(marks) = <<>> PROVE Tail(todo) = <<>>
  <2>1. Len(<<>>) = 0
    OBVIOUS
  <2>2. mid = <<>>
    BY <1>1, <1>2, <1>4, <1>5, <2>1
  <2>3. <<>> \in Markers
    BY DEF Markers
  <2>4. QED BY <1>1, <1>3, <2>2, <2>3, LeadsNoFurther
<1>6. QED BY <1>1, <1>2, <1>3, <1>5

\* A Marker is completed.
LEMMA CompleteShapes ==
  ASSUME IInv, Parsing, todo # <<>>, CompleteMarker
  PROVE  Parsing'
<1>1. /\ Instr.op = "Complete" /\ marks # <<>>
      /\ events' = Append(WithKind(events, Top(marks), Instr.what), NodeEnd)
      /\ marks' = Pop(marks) /\ todo' = Tail(todo) /\ completed' = Top(marks)
  BY DEF CompleteMarker, CompleteAs, Runs, WithKind
<1>2. PICK st, mid : Going(st, mid)
  BY <1>1, GoesOn
<1>3. ClosesBlock(todo')
  BY <1>1, GoesOn
<1>4. Instr.what # "None" /\ \E f \in {"plain", "around"} : st = Append(mid, f)
  BY <1>1, <1>2 DEF Going, Step
<1>5. PICK f \in {"plain", "around"} : st = Append(mid, f)
  BY <1>4
<1>6. /\ marks' = <<>> => todo' = <<>> /\ Instr = BlockEnd
  BY <1>1, <1>2, <1>5, LastMarker
<1>7. st \in Markers /\ mid \in Markers /\ Plain(events, marks, st) /\ Leads(todo', mid, <<>>)
  BY <1>1, <1>2 DEF Going
<1>8. /\ events \in Seq(EventRecord) /\ marks \in Seq(1..Len(events)) /\ Linked(events)
      /\ Len(events) \in Nat /\ Marked(events, marks) /\ Instr.what \in NodeKinds
  BY <1>1, WhileParsing, InstructionSays
<1>9. marks' = <<>> => Instr.what = "Block"
  BY <1>6 DEF BlockEnd
<1>10. Shape(events, marks) /\ Nested(events, marks)
  BY DEF Parsing, Shape
<1>11. Instr.what \in NodeKinds \ {"None"}
  BY <1>4, <1>8
<1>12. Shape(events', marks')
  BY <1>1, <1>8, <1>9, <1>10, <1>11, CompleteShaped
<1>13. Plain(events', marks', mid)
  <2> DEFINE m    == Top(marks)
             kind == Instr.what
             set  == WithKind(events, m, kind)
  <2>1. m \in Nat
    <3>1. m \in 1..Len(events)
      BY <1>1, <1>8, PopTyped
    <3>2. QED BY <1>8, <3>1
  <2>2. kind \in NodeKinds /\ events' = Append(set, NodeEnd)
    BY <1>1, <1>8
  <2> HIDE DEF m, kind
  <2>3. /\ set \in Seq(EventRecord) /\ Len(set) = Len(events)
        /\ \A q \in 1..Len(events) : set[q].parent = events[q].parent
    BY <1>8, <2>1, <2>2, KindSet
  <2> HIDE DEF set
  <2>4. NodeEnd \in EventRecord /\ NodeEnd.parent = 0
    BY EventsTyped
  <2>5. /\ Len(events') = Len(set) + 1 /\ events'[Len(set) + 1] = NodeEnd
        /\ \A q \in 1..Len(set) : events'[q] = set[q]
    BY <2>2, <2>3, <2>4, EventAdded
  <2>6. \A q \in 1..Len(events') : q \in 1..Len(events) \/ q = Len(events) + 1
    BY <1>8, <2>3, <2>5
  <2>7. \A q \in 1..Len(events') : events'[q].parent = 0
          \/ (q \in 1..Len(events) /\ events'[q].parent = events[q].parent)
    BY <2>3, <2>4, <2>5, <2>6
  <2>8. OldParents(events, events')
    BY <2>7 DEF OldParents
  <2>9. QED BY <1>1, <1>5, <1>7, <1>8, <2>8, LessPlain, Zenon
<1>14. ToCome(events', marks', todo')
  BY <1>7, <1>13 DEF ToCome
<1>15. completed' = 1 => todo' \in Prepared
  <2>1. marks' # <<>> => Top(marks) # 1
    BY <1>1, <1>8, <1>10, OthersNested
  <2>2. QED BY <1>1, <1>6, <2>1, InstructionsPrepared
<1>16. QED BY <1>3, <1>12, <1>14, <1>15 DEF Parsing

\* A Marker is undone, which is not that of the block and no parent.
LEMMA UndoShapes ==
  ASSUME IInv, Parsing, todo # <<>>, UndoMarker
  PROVE  Parsing'
<1>1. /\ Instr.op = "Undo" /\ marks # <<>>
      /\ events' = WithKind(events, Top(marks), "None")
      /\ marks' = Pop(marks) /\ todo' = Tail(todo) /\ completed' = completed
  BY DEF UndoMarker, Runs, WithKind
<1>2. PICK st, mid : Going(st, mid)
  BY <1>1, GoesOn
<1>3. ClosesBlock(todo') /\ (completed' = 1 => todo' \in Prepared)
  <2>1. ~Makes(Instr)
    BY <1>1 DEF Makes
  <2>2. QED BY <1>1, <2>1, GoesOn
<1>4. st = Append(mid, "plain")
  BY <1>1, <1>2 DEF Going, Step
<1>5. /\ marks' # <<>> /\ Len(marks) = Len(mid) + 1 /\ Len(mid) \in Nat
  <2>1. Instr # BlockEnd
    BY <1>1 DEF BlockEnd
  <2>2. QED BY <1>1, <1>2, <1>4, <2>1, LastMarker
<1>6. st \in Markers /\ mid \in Markers /\ Plain(events, marks, st) /\ Leads(todo', mid, <<>>)
  BY <1>1, <1>2 DEF Going
<1>7. /\ events \in Seq(EventRecord) /\ marks \in Seq(1..Len(events)) /\ Linked(events)
      /\ Len(events) \in Nat /\ Marked(events, marks)
  BY WhileParsing
<1>8. \A q \in 1..Len(events) : events[q].parent # Top(marks)
  <2>1. st[Len(marks)] = "plain" /\ Len(marks) \in 1..Len(marks)
    BY <1>4, <1>5, <1>6 DEF Markers
  <2>2. QED BY <1>6, <2>1 DEF Plain, Top
<1>9. Shape(events, marks)
  BY DEF Parsing
<1>10. Shape(events', marks')
  BY <1>1, <1>5, <1>7, <1>8, <1>9, UndoShaped
<1>11. Plain(events', marks', mid)
  <2> DEFINE m == Top(marks)
  <2>1. m \in Nat /\ "None" \in NodeKinds
    <3>1. m \in 1..Len(events)
      BY <1>1, <1>7, PopTyped
    <3>2. QED BY <1>7, <3>1 DEF NodeKinds
  <2>2. events' = WithKind(events, m, "None")
    BY <1>1
  <2> HIDE DEF m
  <2>3. /\ Len(WithKind(events, m, "None")) = Len(events)
        /\ \A q \in 1..Len(events) : WithKind(events, m, "None")[q].parent = events[q].parent
    BY <1>7, <2>1, KindSet
  <2>4. \A q \in 1..Len(events') : events'[q].parent = 0
          \/ (q \in 1..Len(events) /\ events'[q].parent = events[q].parent)
    BY <2>2, <2>3
  <2>5. OldParents(events, events')
    BY <2>4 DEF OldParents
  <2>6. QED BY <1>1, <1>4, <1>6, <1>7, <2>5, LessPlain, Zenon
<1>12. ToCome(events', marks', todo')
  BY <1>6, <1>11 DEF ToCome
<1>13. QED BY <1>3, <1>10, <1>12 DEF Parsing

\* Nothing is undone after it was completed, in a file without errors.
LEMMA NothingUndone ==
  ASSUME IInv, Parsing, todo # <<>>
  PROVE  Instr.op # "UndoLast"
<1>1. SUFFICES ASSUME Instr.op = "UndoLast" PROVE FALSE
  OBVIOUS
<1>2. PICK st, mid : Going(st, mid)
  BY <1>1, GoesOn
<1>3. QED BY <1>1, <1>2 DEF Going, Step

\* A function is called.
LEMMA CallShapes ==
  ASSUME IInv, Parsing, todo # <<>>, GlobalFunctionFree, Call
  PROVE  Parsing'
<1>1. /\ Instr.op = "Do"
      /\ todo' = Body(Instr.what, Instr.arg, Current, LookAhead) \o Tail(todo)
      /\ events' = events /\ marks' = marks /\ completed' = completed
  BY DEF Call, Runs
<1> DEFINE p == Body(Instr.what, Instr.arg, Current, LookAhead)
<1>2. Instr.what \in Rules /\ Instr.arg \in Nat
  BY <1>1, WhileParsing, InstructionSays
<1>3. ~(Instr.what = "StatementList" /\ Current = "global" /\ LookAhead = "function")
  <2>1. SUFFICES ASSUME Current = "global", LookAhead = "function" PROVE FALSE
    OBVIOUS
  <2>2. Position \in 1..Len(tokens) /\ tokens[Position] = "global"
    <3>1. Position \in Nat \ {0} /\ Len(tokens) \in Nat
      BY WhileParsing, SkipCommentTyped DEF Position
    <3>2. Position <= Len(tokens) /\ tokens[Position] = "global"
      BY <2>1 DEF Current, TokenAt, Eof
    <3>3. QED BY <3>1, <3>2
  <2>3. QED BY <2>1, <2>2 DEF GlobalFunctionFree, LookAhead
<1>4. PICK st, mid : Going(st, mid)
  BY <1>1, GoesOn
<1>5. /\ ClosesBlock(Tail(todo)) /\ Tail(todo) # <<>> /\ Tail(todo) \in Program
      /\ completed = 1 /\ ~Makes(Instr) => ~Wraps(Instr) /\ Tail(todo) \in Prepared
  <2>1. Instr # BlockEnd
    BY <1>1 DEF BlockEnd
  <2>2. QED BY <1>1, <2>1, GoesOn
<1>6. /\ st \in Markers /\ mid \in Markers /\ Plain(events, marks, st)
      /\ Leads(Tail(todo), mid, <<>>) /\ Step(Instr, st, mid)
  BY <1>4 DEF Going
<1>7. p \in Program
  BY <1>2, BodyTyped
<1>8. Instr = [op |-> "Do", what |-> Instr.what, arg |-> Instr.arg]
  BY <1>1, WhileParsing DEF Instructions
<1>9. Leads(p, st, mid)
  BY <1>2, <1>3, <1>6, <1>8, BodyKeepsMarkers
<1>10. /\ Instr.what # "BinaryOperators" => p \in Prepared
       /\ Instr.what \in {"Subexpression", "PrimaryExpression"} => p \in Making
  BY <1>2, <1>3, BodyPrepares
<1> HIDE DEF p
<1>11. todo' = p \o Tail(todo)
  BY <1>1 DEF p
<1>12. Leads(todo', st, <<>>)
  <2>1. <<>> \in Markers
    BY DEF Markers
  <2>2. QED BY <1>5, <1>6, <1>7, <1>9, <1>11, <2>1, LeadsOn
<1>13. completed = 1 => todo' \in Prepared
  <2>1. CASE Makes(Instr)
    <3>1. Instr.what \in {"Subexpression", "PrimaryExpression"}
      BY <1>1, <2>1 DEF Makes
    <3>2. QED BY <1>5, <1>10, <1>11, <3>1, PreparedComposes
  <2>2. CASE ~Makes(Instr)
    <3>1. completed = 1 => Instr.what # "BinaryOperators" /\ Tail(todo) \in Prepared
      BY <1>1, <1>5, <2>2 DEF Wraps
    <3>2. QED BY <1>10, <1>11, <3>1, PreparedComposes
  <2>3. QED BY <2>1, <2>2
<1>14. ClosesBlock(todo')
  <2>1. /\ Len(p) \in Nat /\ Len(Tail(todo)) \in Nat /\ Len(todo') = Len(p) + Len(Tail(todo))
        /\ Len(Tail(todo)) > 0
        /\ \A k \in 1..Len(Tail(todo)) : todo'[Len(p) + k] = Tail(todo)[k]
    BY <1>5, <1>7, <1>11 DEF Program
  <2>2. Len(Tail(todo)) \in 1..Len(Tail(todo))
    BY <2>1
  <2>3. todo'[Len(todo')] = BlockEnd
    BY <1>5, <2>1, <2>2 DEF ClosesBlock
  <2>4. QED BY <2>3 DEF ClosesBlock
<1>15. ToCome(events', marks', todo')
  BY <1>1, <1>6, <1>12 DEF ToCome
<1>16. Shape(events', marks')
  BY <1>1 DEF Parsing
<1>17. QED BY <1>1, <1>13, <1>14, <1>15, <1>16 DEF Parsing

\* Where another token has been found there was no global function before either.
LEMMA LexKeepsFree ==
  ASSUME IInv, Lex, GlobalFunctionFree'
  PROVE  GlobalFunctionFree
<1>1. tokens \in Seq(TokenKinds) /\ Len(tokens) \in Nat /\ todo # <<>>
  BY WhileBuilding DEF Lex
<1>2. CASE tokens' = tokens
  BY <1>2 DEF GlobalFunctionFree, TokenAt
<1>3. CASE \E k \in source[Len(tokens) + 1] : tokens' = Append(tokens, k) /\ Len(tokens) < Len(source)
  <2>1. PICK k \in source[Len(tokens) + 1] : tokens' = Append(tokens, k)
    BY <1>3
  <2>2. k \in TokenKinds
    <3>1. source \in Seq(SUBSET TokenKinds) /\ Len(tokens) < Len(source)
      BY <1>3, SourcesAssumption DEF IInv
    <3>2. Len(tokens) + 1 \in 1..Len(source)
      BY <1>1, <3>1
    <3>3. QED BY <3>1, <3>2
  <2>3. Len(tokens') = Len(tokens) + 1 /\ \A l \in 1..Len(tokens) : tokens'[l] = tokens[l]
    BY <1>1, <2>1, <2>2
  <2>4. ASSUME NEW i \in 1..Len(tokens), tokens[i] = "global",
               TokenAt(SkipComment(tokens, i + 1)) = "function"
        PROVE  FALSE
    <3> DEFINE j == SkipComment(tokens, i + 1)
    <3>1. i + 1 \in Nat \ {0}
      BY <1>1
    <3>2. j \in Nat \ {0}
      BY <1>1, <3>1, SkipCommentTyped
    <3>3. j <= Len(tokens) /\ tokens[j] = "function"
      BY <2>4 DEF TokenAt, Eof
    <3>4. SkipComment(tokens', i + 1) = j
      BY <1>1, <2>1, <2>2, <3>1, <3>3, SkipStays
    <3> HIDE DEF j
    <3>5. j \in 1..Len(tokens) /\ j <= Len(tokens')
      BY <1>1, <2>3, <3>2, <3>3
    <3>6. i \in 1..Len(tokens') /\ tokens'[i] = "global"
      BY <1>1, <2>3, <2>4
    <3>7. tokens'[j] = "function"
      BY <2>3, <3>3, <3>5
    <3>8. SkipComment(tokens', i + 1) <= Len(tokens')
          /\ tokens'[SkipComment(tokens', i + 1)] = "function"
      BY <3>4, <3>5, <3>7
    <3>9. QED BY <3>6, <3>8 DEF GlobalFunctionFree, TokenAt
  <2>5. QED BY <2>4 DEF GlobalFunctionFree
<1>4. QED BY <1>2, <1>3 DEF Lex

\* Once there are events, what is known of them holds.
LEMMA HasParsed ==
  ASSUME WellParsed, phase = "parse", Clean, todo # <<>> => Instr.op # "Mark"
  PROVE  Parsing
<1>1. events # <<>>
  BY BlockLeads DEF WellParsed, Instr
<1>2. QED BY <1>1 DEF WellParsed

\* At the start nothing is open, and the block is to come.
LEMMA WellParsedInit == Init => WellParsed
BY DEF Init, ParserInit, WellParsed

\* Every step of the parser, in a file without errors.
LEMMA ParserShapes ==
  ASSUME IInv, WellParsed, ParserNext, phase' = "parse", Clean'
  PROVE  IF events' = <<>> THEN marks' = <<>> /\ todo' = Block ELSE Parsing'
<1>1. errors' = 0 /\ GlobalFunctionFree' /\ errors \in Nat
  BY DEF Clean, IInv, TypeOK
<1>2. Parsing' => events' # <<>>
  <2>1. ASSUME Parsing', events' = <<>> PROVE FALSE
    <3>1. Len(events') > 0
      BY <2>1 DEF Parsing, Shape, Begun
    <3>2. Len(<<>>) = 0
      OBVIOUS
    <3>3. QED BY <2>1, <3>1, <3>2
  <2>2. QED BY <2>1
<1>3. ASSUME tokens' = tokens PROVE GlobalFunctionFree
  BY <1>1, <1>3 DEF GlobalFunctionFree, TokenAt
<1>4. CASE Lex
  <2>1. /\ phase = "parse" /\ events' = events /\ marks' = marks /\ todo' = todo
        /\ completed' = completed /\ errors' = errors
    BY <1>4 DEF Lex
  <2>2. Clean
    BY <1>1, <1>4, <2>1, LexKeepsFree DEF Clean
  <2>3. QED BY <2>1, <2>2 DEF WellParsed, Parsing
<1>5. ASSUME UNCHANGED Input, errors' = errors PROVE Clean /\ GlobalFunctionFree
  BY <1>1, <1>3, <1>5 DEF Clean, Input
<1>6. CASE OpenMarker
  <2>1. phase = "parse" /\ todo # <<>> /\ Clean
    BY <1>5, <1>6 DEF OpenMarker, Runs
  <2>2. CASE events = <<>>
    <3>1. marks = <<>> /\ todo = Block
      BY <2>1, <2>2 DEF WellParsed
    <3>2. QED BY <1>2, <1>6, <2>2, <3>1, BlockOpens
  <2>3. CASE events # <<>>
    <3>1. Parsing
      BY <2>1, <2>3 DEF WellParsed
    <3>2. QED BY <1>2, <1>6, <2>1, <3>1, MarkShapes
  <2>4. QED BY <2>2, <2>3
<1>7. CASE CompleteMarker
  <2>1. phase = "parse" /\ todo # <<>> /\ Clean /\ Instr.op = "Complete"
    BY <1>5, <1>7 DEF CompleteMarker, Runs
  <2>2. Parsing
    BY <2>1, HasParsed
  <2>3. QED BY <1>2, <1>7, <2>1, <2>2, CompleteShapes
<1>8. CASE UndoMarker
  <2>1. phase = "parse" /\ todo # <<>> /\ Clean /\ Instr.op = "Undo"
    BY <1>5, <1>8 DEF UndoMarker, Runs
  <2>2. Parsing
    BY <2>1, HasParsed
  <2>3. QED BY <1>2, <1>8, <2>1, <2>2, UndoShapes
<1>9. CASE UndoCompleted
  <2>1. phase = "parse" /\ todo # <<>> /\ Clean /\ Instr.op = "UndoLast"
    BY <1>5, <1>9 DEF UndoCompleted, Runs
  <2>2. Parsing
    BY <2>1, HasParsed
  <2>3. QED BY <2>1, <2>2, NothingUndone
<1>10. CASE PrecedeNode
  <2>1. phase = "parse" /\ todo # <<>> /\ Clean /\ Instr.op = "Precede"
    BY <1>5, <1>10 DEF PrecedeNode, PrecedeAs, Runs
  <2>2. Parsing
    BY <2>1, HasParsed
  <2>3. QED BY <1>2, <1>10, <2>1, <2>2, PrecedeShapes
<1>11. ASSUME phase = "parse", todo # <<>>, Instr.op \in {"Eat", "Check", "Test"},
              UNCHANGED <<Input, marks, completed>>, todo' = Tail(todo),
              Advance \/ UNCHANGED <<events, tokenIndex, errors>>
       PROVE  Parsing'
  <2>1. /\ errors' = errors /\ marks' = marks /\ completed' = completed
        /\ events' = events \/ events' = Append(events, EatToken(Position))
    BY <1>11 DEF Advance
  <2>2. Clean
    BY <1>5, <1>11, <2>1
  <2>3. Parsing
    BY <1>11, <2>2, HasParsed
  <2>4. QED BY <1>11, <2>1, <2>3, SameMarkers
<1>12. ASSUME LuaExpectedError PROVE FALSE
  BY <1>1, <1>12 DEF LuaExpectedError
<1>13. CASE EatCurrent
  BY <1>2, <1>11, <1>13 DEF EatCurrent, Runs
<1>14. CASE CheckAndNext
  BY <1>2, <1>11, <1>12, <1>14 DEF CheckAndNext, Runs
<1>15. CASE TestAndNext
  BY <1>2, <1>11, <1>15 DEF TestAndNext, Runs
<1>16. CASE ExpectError
  BY <1>12, <1>16 DEF ExpectError
<1>17. CASE Call
  <2>1. phase = "parse" /\ todo # <<>> /\ Clean /\ GlobalFunctionFree /\ Instr.op = "Do"
    BY <1>5, <1>17 DEF Call, Runs
  <2>2. Parsing
    BY <2>1, HasParsed
  <2>3. QED BY <1>2, <1>17, <2>1, <2>2, CallShapes
<1>18. CASE Throw
  BY <1>1, <1>18 DEF Throw
<1>19. CASE Parsed
  BY <1>19 DEF Parsed
<1>20. QED
  BY <1>4, <1>6, <1>7, <1>8, <1>9, <1>10, <1>13, <1>14, <1>15, <1>16, <1>17, <1>18, <1>19
  DEF ParserNext

\* Every step.
LEMMA WellParsedNext ==
  ASSUME IInv, WellParsed, [Next]_vars
  PROVE  WellParsed'
<1>1. CASE Parse
  BY <1>1, ParserShapes DEF Parse, WellParsed
<1>2. CASE UNCHANGED vars
  BY <1>2 DEF vars, parser, tree, WellParsed, Parsing, Clean, GlobalFunctionFree, TokenAt
<1>3. CASE phase = "build" /\ phase' # "parse"
  BY <1>3 DEF WellParsed
<1>4. QED
  BY <1>1, <1>2, <1>3
  DEF Next, Terminating, ReplayStart, Climb, StartNode, StartAfter, ReplayEat, ReplayEnd,
      ReplayError, Built, Replaying, parser

\* At the end of a file without errors every Marker is closed and every token is read.
LEMMA ParsedShape ==
  ASSUME IInv, WellParsed, Parsed, Clean'
  PROVE  Shape(events, <<>>) /\ Position > Len(tokens)
<1>1. /\ phase = "parse" /\ todo = <<>> /\ UNCHANGED tokens
      /\ errors' = IF Position <= Len(tokens) THEN errors + 1 ELSE errors
  BY DEF Parsed
<1>2. errors' = 0 /\ errors \in Nat
  BY DEF Clean, IInv, TypeOK
<1>3. ~(Position <= Len(tokens)) /\ errors = 0
  BY <1>1, <1>2
<1>4. Clean
  BY <1>1, <1>3 DEF Clean, GlobalFunctionFree, TokenAt
<1>5. Parsing
  BY <1>1, <1>4, HasParsed
<1>6. PICK st \in Markers : Plain(events, marks, st) /\ Leads(<<>>, st, <<>>)
  BY <1>1, <1>5 DEF Parsing, ToCome
<1>7. st = <<>>
  <2>1. <<>> \in Markers
    BY DEF Markers
  <2>2. QED BY <1>6, <2>1, LeadsNone
<1>8. marks = <<>>
  <2>1. Len(marks) = 0
    BY <1>6, <1>7 DEF Plain
  <2>2. marks \in Seq(1..Len(events))
    BY DEF IInv, TypeOK
  <2>3. QED BY <2>1, <2>2
<1>9. Position \in Nat /\ Len(tokens) \in Nat
  <2>1. tokens \in Seq(TokenKinds) /\ tokenIndex \in Nat
    BY DEF IInv, TypeOK
  <2>2. QED BY <2>1, SkipCommentTyped DEF Position
<1>10. QED BY <1>3, <1>5, <1>8, <1>9 DEF Parsing

-----------------------------------------------------------------------------
(* How the tree of a file without errors grows. *)

\* The nodes still to come have parents still to come, and none is met twice.
ParentsToCome ==
  /\ ParentsDiffer(events)
  /\ \A q \in next..Len(events) :
       IsLive(events[q]) /\ events[q].parent # 0 => events[events[q].parent].kind # "None"
  /\ parentPos # 0 =>
       /\ IsLive(events[parentPos])
       /\ \A q \in next..Len(events) : IsLive(events[q]) => events[q].parent # parentPos

\* As many nodes are open, or about to start, as end from here on, besides the File.
OpenAsManyEnd ==
  /\ next \in 1..(Len(events) + 1)
  /\ Enclosed(events)
  /\ Len(nodeStack) + Len(parents) = 1 + Surplus(events, next)

\* Nothing is in the tree yet but the File.
Empty == next = 1 /\ parents = <<>> /\ entries = <<>> /\ nodeStack = << 0 >>

\* The block of the file starts.
BlockStarts ==
  next = 2 /\ parents = <<"Block">> /\ parentPos = 0 /\ entries = <<>> /\ nodeStack = << 0 >>

BlockThere == Len(entries) > 0 /\ entries[1].kind = "Block" /\ entries[1].parent = 0

\* It is open.
BlockOpen == BlockThere /\ next > 1 /\ Len(nodeStack) >= 2 /\ nodeStack[1] = 0 /\ nodeStack[2] = 1

\* It has ended, and took all that was left.
BlockEnded ==
  BlockThere /\ next > Len(events) /\ parents = <<>> /\ nodeStack = << 0 >> /\ Commented = eaten

\* The first event starts the block of the file.
BlockFirst ==
  Len(events) > 0 /\ events[1].type = "NodeStart" /\ events[1].kind = "Block" /\ events[1].parent = 0

Staged == (Empty /\ BlockFirst) \/ BlockStarts \/ BlockOpen \/ BlockEnded

\* The entries are of real kinds, and hang below earlier ones.
Hangs(es) ==
  \A k \in 1..Len(es) : es[k].kind # "None" /\ (k > 1 => es[k].parent \in 1..(k - 1))

RealKinds == \A k \in 1..Len(parents) : parents[k] # "None"

\* No entry is between a later one and its parent but those below that parent, also where the
\* open nodes ns get more.
Nests(es, ns) ==
  /\ Increasing(ns)
  /\ \A j \in 1..Len(ns) : \A k \in 1..Len(es) : ns[j] <= es[k].parent \/ ns[j] >= k
  /\ \A k, m \in 1..Len(es) : k < m => es[m].parent <= es[k].parent \/ es[m].parent >= k

\* When no event reads a token any more, what the parser has not read is left to the tree.
RestLeft ==
  /\ ReadUpTo(events, tokenIndex)
  /\ (\A q \in next..Len(events) : ~Eats(events, q))
       => SkipComment(tokens, eaten + 1) = SkipComment(tokens, tokenIndex)

Growing ==
  /\ ParentsToCome /\ OpenAsManyEnd /\ Staged /\ RealKinds
  /\ RestLeft

Grown == BlockThere /\ eaten = Len(tokens)

WellGrown ==
  /\ phase = "parse" => entries = <<>> /\ nodeStack = << 0 >>
  /\ phase # "parse" /\ Clean =>
    /\ IF phase = "build" THEN Growing ELSE Grown
    /\ Hangs(entries) /\ Nests(entries, nodeStack)
    /\ Position > Len(tokens)

\* All that was added hangs below p.
Adds(es, new, p) ==
  /\ Len(new) >= Len(es)
  /\ \A k \in 1..Len(es) : new[k] = es[k]
  /\ \A k \in 1..Len(new) : k > Len(es) => new[k].parent = p /\ new[k].kind # "None"

\* What is added below the innermost open node.
LEMMA NestsMore ==
  ASSUME NEW es \in Seq(EntryRecord), NEW new \in Seq(EntryRecord),
         NEW ns \in Seq(0..Len(es)), ns # <<>>, Adds(es, new, Top(ns)), Nests(es, ns)
  PROVE  Nests(new, ns)
<1> DEFINE l == Len(es)
           n == Len(new)
           t == Len(ns)
<1>1. l \in Nat /\ n \in Nat /\ n >= l /\ t \in Nat /\ t \in 1..t
  <2>1. t # 0
    OBVIOUS
  <2>2. QED BY <2>1 DEF Adds
<1>2. \A k \in 1..n : k \in 1..l \/ k > l
  BY <1>1
<1>3. Top(ns) = ns[t] /\ ns[t] \in 0..l /\ \A j \in 1..t : ns[j] \in 0..l /\ ns[j] <= ns[t]
  <2>1. \A j \in 1..t : ns[j] \in 0..l
    OBVIOUS
  <2>2. ASSUME NEW j \in 1..t PROVE ns[j] <= ns[t]
    <3>1. j < t \/ j = t
      BY <1>1
    <3>2. QED BY <1>1, <2>1, <3>1 DEF Nests, Increasing
  <2>3. QED BY <1>1, <2>1, <2>2 DEF Top
<1>4. \A k \in 1..n : IF k \in 1..l THEN new[k] = es[k] ELSE new[k].parent = ns[t]
  BY <1>2, <1>3 DEF Adds
<1>5. \A k \in 1..n : new[k].parent \in Int
  <2>1. \A k \in 1..n : new[k] \in EntryRecord
    OBVIOUS
  <2>2. QED BY <2>1 DEF EntryRecord, Unlinked
<1> HIDE DEF l, n, t
<1>6. ASSUME NEW j \in 1..t, NEW k \in 1..n PROVE ns[j] <= new[k].parent \/ ns[j] >= k
  <2>1. CASE k \in 1..l
    BY <1>4, <2>1 DEF Nests, l, t
  <2>2. CASE k \notin 1..l
    BY <1>3, <1>4, <2>2
  <2>3. QED BY <2>1, <2>2
<1>7. ASSUME NEW k \in 1..n, NEW m \in 1..n, k < m
      PROVE  new[m].parent <= new[k].parent \/ new[m].parent >= k
  <2>1. CASE m \in 1..l
    <3>1. k \in 1..l
      BY <1>1, <1>7, <2>1
    <3>2. QED BY <1>4, <1>7, <2>1, <3>1 DEF Nests, l
  <2>2. CASE m \notin 1..l /\ k \in 1..l
    <3>1. ns[t] <= es[k].parent \/ ns[t] >= k
      BY <1>1, <2>2 DEF Nests, l, t
    <3>2. QED BY <1>4, <2>2, <3>1
  <2>3. CASE m \notin 1..l /\ k \notin 1..l
    BY <1>4, <1>5, <2>3
  <2>4. QED BY <2>1, <2>2, <2>3
<1>8. QED BY <1>6, <1>7 DEF Nests, n, t

\* The entry added last is opened.
LEMMA NestsOpened ==
  ASSUME NEW n \in Nat, NEW ns \in Seq(0..n), NEW es, Len(es) = n + 1, Nests(es, ns)
  PROVE  Nests(es, Append(ns, n + 1))
<1> DEFINE now == Append(ns, n + 1)
           t   == Len(ns)
<1>1. /\ t \in Nat /\ Len(now) = t + 1 /\ now[t + 1] = n + 1
      /\ \A j \in 1..t : now[j] = ns[j] /\ ns[j] \in 0..n
  OBVIOUS
<1> HIDE DEF now, t
<1>2. \A j \in 1..(t + 1) : j \in 1..t \/ j = t + 1
  BY <1>1
<1>3. Increasing(now)
  <2>1. ASSUME NEW j \in 1..(t + 1), NEW k \in 1..(t + 1), j < k PROVE now[j] < now[k]
    <3>1. j \in 1..t
      BY <1>1, <2>1
    <3>2. CASE k \in 1..t
      BY <1>1, <2>1, <3>1, <3>2 DEF Nests, Increasing, t
    <3>3. CASE k = t + 1
      BY <1>1, <3>1, <3>3
    <3>4. QED BY <1>2, <3>2, <3>3
  <2>2. QED BY <1>1, <2>1 DEF Increasing
<1>4. ASSUME NEW j \in 1..(t + 1), NEW k \in 1..(n + 1)
      PROVE  now[j] <= es[k].parent \/ now[j] >= k
  <2>1. CASE j \in 1..t
    BY <1>1, <2>1 DEF Nests, t
  <2>2. CASE j = t + 1
    BY <1>1, <2>2
  <2>3. QED BY <1>2, <2>1, <2>2
<1>5. Nests(es, now)
  BY <1>1, <1>3, <1>4 DEF Nests
<1>6. QED BY <1>5 DEF now

\* The innermost open node is closed.
LEMMA NestsClosed ==
  ASSUME NEW S, NEW ns \in Seq(S), ns # <<>>, NEW es, Nests(es, ns)
  PROVE  Nests(es, Pop(ns))
<1>1. /\ Len(ns) \in Nat /\ Len(Pop(ns)) = Len(ns) - 1
      /\ \A k \in 1..(Len(ns) - 1) : Pop(ns)[k] = ns[k]
  BY PopTyped
<1>2. \A k \in 1..(Len(ns) - 1) : k \in 1..Len(ns)
  BY <1>1
<1>3. QED BY <1>1, <1>2 DEF Nests, Increasing

\* What is added below an entry hangs below an earlier one.
LEMMA HangsMore ==
  ASSUME NEW es \in Seq(EntryRecord), NEW new \in Seq(EntryRecord), Hangs(es),
         NEW p \in 1..Len(es), Adds(es, new, p)
  PROVE  Hangs(new)
<1>1. Len(es) \in Nat /\ Len(new) \in Nat
  OBVIOUS
<1>2. ASSUME NEW k \in 1..Len(new)
      PROVE  new[k].kind # "None" /\ (k > 1 => new[k].parent \in 1..(k - 1))
  <2>1. CASE k \in 1..Len(es)
    BY <2>1 DEF Hangs, Adds
  <2>2. CASE k > Len(es)
    <3>1. p \in 1..(k - 1)
      BY <1>1, <2>2
    <3>2. QED BY <2>2, <3>1 DEF Adds
  <2>3. QED BY <1>1, <2>1, <2>2
<1>3. QED BY <1>2 DEF Hangs

\* The open nodes, where the block of the file is one of them.
LEMMA OpenNodeHangs ==
  ASSUME NEW n \in Nat, NEW ns \in Seq(0..n), Len(ns) >= 2, ns[2] = 1, Increasing(ns)
  PROVE  ns # <<>> /\ Top(ns) \in 1..n
<1>1. Len(ns) \in Nat /\ 2 \in 1..Len(ns) /\ Len(ns) \in 1..Len(ns)
  OBVIOUS
<1>2. ns[Len(ns)] \in 0..n /\ ns[Len(ns)] >= 1
  <2>1. CASE Len(ns) = 2
    BY <1>1, <2>1
  <2>2. CASE 2 < Len(ns)
    BY <1>1, <2>2 DEF Increasing
  <2>3. QED BY <1>1, <2>1, <2>2
<1>3. ns # <<>>
  <2>1. Len(<<>>) = 0
    OBVIOUS
  <2>2. QED BY <1>1, <2>1
<1>4. QED BY <1>1, <1>2, <1>3 DEF Top

\* Tokens are taken.
LEMMA TakenHang ==
  ASSUME IInv, nodeStack # <<>>, NEW n \in eaten..Len(tokens)
  PROVE  /\ entries \o Taken(n) \in Seq(EntryRecord)
         /\ Len(entries \o Taken(n)) = Len(entries) + (n - eaten)
         /\ Adds(entries, entries \o Taken(n), Top(nodeStack))
<1> DEFINE more == entries \o Taken(n)
<1>1. /\ more \in Seq(EntryRecord) /\ Len(more) = Len(entries) + (n - eaten)
      /\ \A k \in 1..Len(entries) : more[k] = entries[k]
  BY TakenAdds
<1>2. n \in Int /\ eaten \in Nat /\ Len(entries) \in Nat /\ n - eaten \in Nat
      /\ entries \in Seq(EntryRecord)
  BY WhileBuilding
<1>3. Taken(n) \in Seq(EntryRecord) /\ Len(Taken(n)) = n - eaten
  BY <1>2, TakenTyped
<1>4. \A k \in 1..(n - eaten) : more[Len(entries) + k] = Taken(n)[k]
  <2>1. \A k \in 1..Len(Taken(n)) : more[Len(entries) + k] = Taken(n)[k]
    BY <1>2, <1>3, ConcatElements
  <2>2. QED BY <1>3, <2>1
<1>5. \A k \in 1..(n - eaten) : Taken(n)[k].parent = Top(nodeStack) /\ Taken(n)[k].kind = "Token"
  BY <1>2 DEF Taken, TokenEntry, OpenNode
<1> HIDE DEF more
<1>6. ASSUME NEW k \in 1..Len(more), k > Len(entries)
      PROVE  more[k].parent = Top(nodeStack) /\ more[k].kind # "None"
  <2>1. k - Len(entries) \in 1..(n - eaten) /\ Len(entries) + (k - Len(entries)) = k
    BY <1>1, <1>2, <1>6
  <2>2. more[k] = Taken(n)[k - Len(entries)]
    BY <1>4, <2>1
  <2>3. QED BY <1>5, <2>1, <2>2
<1>7. Len(more) >= Len(entries)
  BY <1>1, <1>2
<1>8. Adds(entries, more, Top(nodeStack))
  BY <1>1, <1>6, <1>7 DEF Adds
<1>9. QED BY <1>1, <1>8 DEF more

\* What is left to the tree, when no token is read.
LEMMA RestStays ==
  ASSUME IInv, RestLeft, Keeps(events, events'), Len(events') = Len(events),
         tokens' = tokens, tokenIndex' = tokenIndex,
         SkipComment(tokens, eaten' + 1) = SkipComment(tokens, eaten + 1),
         next' = next \/ (next' = next + 1 /\ ~Eats(events, next))
  PROVE  RestLeft'
<1> USE WhileBuilding
<1>1. \A q \in 1..Len(events) : /\ Eats(events', q) <=> Eats(events, q)
                                /\ events'[q].index = events[q].index
  BY DEF Keeps, Eats
<1>2. ReadUpTo(events', tokenIndex')
  <2>1. \A q \in 1..Len(events) : \A r \in (q + 1)..Len(events) : r \in 1..Len(events)
    OBVIOUS
  <2>2. ReadUpTo(events, tokenIndex)
    BY DEF RestLeft
  <2>3. (\A q \in 1..Len(events) : ~Eats(events', q)) => tokenIndex = 1
    BY <1>1, <2>2 DEF ReadUpTo
  <2>4. ASSUME NEW q \in 1..Len(events), Eats(events', q),
               \A r \in (q + 1)..Len(events) : ~Eats(events', r)
        PROVE  tokenIndex = events'[q].index + 1
    <3>1. \A r \in (q + 1)..Len(events) : ~Eats(events, r)
      BY <1>1, <2>1, <2>4
    <3>2. QED BY <1>1, <2>2, <2>4, <3>1 DEF ReadUpTo
  <2>5. QED BY <2>3, <2>4 DEF ReadUpTo
<1>3. ASSUME \A q \in next'..Len(events) : ~Eats(events', q)
      PROVE  \A q \in next..Len(events) : ~Eats(events, q)
  <2>1. SUFFICES ASSUME NEW q \in next..Len(events) PROVE ~Eats(events, q)
    OBVIOUS
  <2>2. q \in 1..Len(events)
    OBVIOUS
  <2>3. CASE q \in next'..Len(events)
    BY <1>1, <1>3, <2>2, <2>3
  <2>4. CASE q \notin next'..Len(events)
    <3>1. q = next /\ next' = next + 1
      BY <2>4
    <3>2. QED BY <3>1
  <2>5. QED BY <2>3, <2>4
<1>4. QED BY <1>2, <1>3 DEF RestLeft

\* A token is taken.
LEMMA RestEaten ==
  ASSUME IInv, RestLeft, ReplayEat
  PROVE  RestLeft'
<1> USE WhileBuilding
<1>1. /\ phase = "build" /\ next <= Len(events) /\ events[next].type = "EatToken" /\ next' = next + 1
      /\ eaten' = Inlined(Commented + 1) /\ tokens' = tokens /\ events' = events
      /\ tokenIndex' = tokenIndex
  BY DEF ReplayEat, Replaying, parser
<1>2. next \in 1..Len(events) /\ Eats(events, next)
  BY <1>1 DEF Eats
<1>3. events[next].index = SkipComment(tokens, eaten + 1)
  <2>1. /\ next \in ((next - 1) + 1)..Len(events)
        /\ \A r \in ((next - 1) + 1)..(next - 1) : ~Eats(events, r)
    BY <1>2
  <2>2. QED BY <1>1, <1>2, <2>1 DEF Follows
<1>4. Commented \in Nat /\ Commented + 1 = events[next].index
  BY <1>3, CommentedSkips
<1>5. SkipComment(tokens, eaten' + 1) = SkipComment(tokens, events[next].index + 1)
  <2>1. Commented + 1 \in Nat /\ tokens \in Seq(TokenKinds)
    BY <1>4
  <2>2. QED BY <1>1, <1>4, <2>1, InlinedSkips
<1>6. ASSUME \A q \in (next + 1)..Len(events) : ~Eats(events, q)
      PROVE  SkipComment(tokens, eaten' + 1) = SkipComment(tokens, tokenIndex)
  <2>1. tokenIndex = events[next].index + 1
    BY <1>2, <1>6 DEF RestLeft, ReadUpTo
  <2>2. QED BY <1>5, <2>1
<1>7. ReadUpTo(events, tokenIndex)
  BY DEF RestLeft
<1>8. QED BY <1>1, <1>6, <1>7 DEF RestLeft

\* The events are as they were, and no parents are looked for.
LEMMA ParentsStay ==
  ASSUME IInv, ParentsToCome, events' = events, next' \in {next, next + 1}, parentPos' = parentPos
  PROVE  ParentsToCome'
<1> USE WhileBuilding
<1>1. \A q \in next'..Len(events) : q \in next..Len(events)
  OBVIOUS
<1>2. QED BY <1>1 DEF ParentsToCome

\* A node starts; its parent is looked for next.
LEMMA ParentsStart ==
  ASSUME IInv, ParentsToCome, ReplayStart
  PROVE  ParentsToCome'
<1> USE WhileBuilding
<1>1. /\ phase = "build" /\ next <= Len(events) /\ events[next].type = "NodeStart"
      /\ next' = next + 1 /\ events' = events /\ parents = <<>>
  BY DEF ReplayStart, Replaying, parser
<1>2. CASE events[next].kind = "None"
  <2>1. parentPos' = parentPos
    BY <1>2 DEF ReplayStart
  <2>2. QED BY <1>1, <2>1, ParentsStay
<1>3. CASE events[next].kind # "None"
  <2>1. parentPos' = events[next].parent
    BY <1>3 DEF ReplayStart
  <2>2. next \in 1..Len(events) /\ next \in next..Len(events) /\ IsLive(events[next])
    BY <1>1, <1>3 DEF IsLive
  <2>3. ASSUME parentPos' # 0
        PROVE  /\ IsLive(events[parentPos'])
               /\ \A q \in (next + 1)..Len(events) : events[q].parent # parentPos'
    <3>1. events[parentPos'].kind # "None" /\ events[parentPos'].type = "NodeStart"
      BY <2>1, <2>2, <2>3 DEF ParentsToCome, Linked
    <3>2. ASSUME NEW q \in (next + 1)..Len(events) PROVE events[q].parent # parentPos'
      <4>1. q \in 1..Len(events) /\ q # next
        OBVIOUS
      <4>2. QED BY <2>1, <2>2, <2>3, <4>1 DEF ParentsToCome, ParentsDiffer
    <3>3. QED BY <3>1, <3>2 DEF IsLive
  <2>4. \A q \in (next + 1)..Len(events) : q \in next..Len(events)
    OBVIOUS
  <2>5. QED BY <1>1, <2>3, <2>4 DEF ParentsToCome
<1>4. QED BY <1>2, <1>3

\* What Climb does where the parent is one.
LEMMA Climbs ==
  ASSUME IInv, ParentsToCome, Climb
  PROVE  /\ parentPos \in 1..Len(events) /\ parentPos \in next..Len(events)
         /\ IsLive(events[parentPos])
         /\ events' = WithKind(events, parentPos, "None")
         /\ parents' = Append(parents, events[parentPos].kind)
         /\ parentPos' = events[parentPos].parent
         /\ events' \in Seq(EventRecord) /\ Len(events') = Len(events) /\ Keeps(events, events')
         /\ \A q \in 1..Len(events) :
              /\ events'[q].type = events[q].type /\ events'[q].parent = events[q].parent
              /\ events'[q].kind = IF q = parentPos THEN "None" ELSE events[q].kind
<1> USE WhileBuilding
<1>1. parentPos # 0 /\ parentPos \in Nat
  BY DEF Climb
<1>2. parentPos \in 1..Len(events) /\ parentPos \in next..Len(events)
  BY <1>1
<1>3. IsLive(events[parentPos])
  BY <1>1 DEF ParentsToCome
<1>4. /\ events' = WithKind(events, parentPos, "None")
      /\ parents' = Append(parents, events[parentPos].kind)
      /\ parentPos' = events[parentPos].parent
  BY <1>3 DEF Climb, IsLive, WithKind
<1>5. "None" \in NodeKinds
  BY DEF NodeKinds
<1>5p. events \in Seq(EventRecord) /\ parentPos \in Nat
  OBVIOUS
<1> DEFINE new == WithKind(events, parentPos, "None")
<1>6p. /\ new \in Seq(EventRecord) /\ Len(new) = Len(events)
       /\ \A q \in 1..Len(events) : /\ new[q].type = events[q].type
                                    /\ new[q].index = events[q].index
                                    /\ new[q].parent = events[q].parent
  BY <1>5, <1>5p, KindSet
<1>7p. \A q \in 1..Len(events) : new[q].kind = IF q = parentPos THEN "None" ELSE events[q].kind
  BY <1>5, <1>5p, KindsSet
<1>4p. events' = new
  BY <1>4
<1> HIDE DEF new
<1>6. /\ events' \in Seq(EventRecord) /\ Len(events') = Len(events)
      /\ \A q \in 1..Len(events) : /\ events'[q].type = events[q].type
                                   /\ events'[q].index = events[q].index
                                   /\ events'[q].parent = events[q].parent
  BY <1>4p, <1>6p
<1>7. \A q \in 1..Len(events) :
        events'[q].kind = IF q = parentPos THEN "None" ELSE events[q].kind
  BY <1>4p, <1>7p
<1>8. Keeps(events, events')
  BY <1>6 DEF Keeps
<1>9. QED BY <1>2, <1>3, <1>4, <1>6, <1>7, <1>8

\* The next parent is looked for, and the one that was found is not met again.
LEMMA ParentsClimbed ==
  ASSUME IInv, ParentsToCome, Climb
  PROVE  ParentsToCome'
<1> USE WhileBuilding
<1> DEFINE p == parentPos
<1>1. /\ p \in 1..Len(events) /\ p \in next..Len(events) /\ IsLive(events[p])
      /\ parentPos' = events[p].parent /\ Len(events') = Len(events) /\ next' = next
      /\ \A q \in 1..Len(events) :
           /\ events'[q].type = events[q].type /\ events'[q].parent = events[q].parent
           /\ events'[q].kind = IF q = p THEN "None" ELSE events[q].kind
      /\ p # 0
  BY Climbs DEF Climb
<1>2. \A q \in next..Len(events) : q \in 1..Len(events)
  OBVIOUS
<1>3. \A q \in 1..Len(events) : IsLive(events'[q]) => IsLive(events[q]) /\ q # p
  BY <1>1 DEF IsLive
<1>4. ASSUME NEW q \in 1..Len(events), events[q].parent # 0
      PROVE  events[q].parent \in 1..Len(events) /\ events[q].parent > q
             /\ events[events[q].parent].type = "NodeStart"
  BY <1>4, SMTT(30) DEF Linked
<1>5. ParentsDiffer(events')
  BY <1>1 DEF ParentsToCome, ParentsDiffer
<1>6. ASSUME NEW q \in next..Len(events), IsLive(events'[q]), events[q].parent # 0
      PROVE  events'[events[q].parent].kind # "None"
  <2>1. q \in 1..Len(events) /\ IsLive(events[q])
    BY <1>2, <1>3, <1>6
  <2>2. events[events[q].parent].kind # "None" /\ events[q].parent # p
    BY <1>1, <1>6, <2>1 DEF ParentsToCome
  <2>3. QED BY <1>1, <1>4, <1>6, <2>1, <2>2
<1>7. ASSUME parentPos' # 0
      PROVE  /\ IsLive(events'[parentPos'])
             /\ \A q \in next..Len(events) : IsLive(events'[q]) => events'[q].parent # parentPos'
  <2>1. events[p].parent # 0
    BY <1>1, <1>7
  <2>2. events[p].parent \in 1..Len(events) /\ events[p].parent # p
        /\ events[events[p].parent].type = "NodeStart"
    BY <1>1, <1>4, <2>1
  <2>3. events[events[p].parent].kind # "None"
    BY <1>1, <2>1 DEF ParentsToCome
  <2>4. IsLive(events'[parentPos'])
    BY <1>1, <2>2, <2>3 DEF IsLive
  <2>5. ASSUME NEW q \in next..Len(events), IsLive(events'[q]) PROVE events'[q].parent # parentPos'
    <3>1. q \in 1..Len(events) /\ q # p
      BY <1>2, <1>3, <2>5
    <3>2. events[q].parent # events[p].parent
      BY <1>1, <2>1, <3>1 DEF ParentsToCome, ParentsDiffer
    <3>3. QED BY <1>1, <3>1, <3>2
  <2>6. QED BY <2>4, <2>5
<1>8. QED BY <1>1, <1>2, <1>5, <1>6, <1>7 DEF ParentsToCome

\* The nodes that end from the next event on.
LEMMA NextSurplus ==
  ASSUME IInv, OpenAsManyEnd, next <= Len(events)
  PROVE  /\ next \in 1..Len(events) /\ Surplus(events, next) \in Int
         /\ Surplus(events, next + 1) \in Nat
         /\ Surplus(events, next + 1) = 0 => next = Len(events)
         /\ Surplus(events, next) = Surplus(events, next + 1) + Counts(events[next])
<1> USE WhileBuilding
<1>1. next \in 1..Len(events) /\ next + 1 \in Nat
  OBVIOUS
<1>2. Surplus(events, next) \in Int /\ Surplus(events, next + 1) \in Int
  BY <1>1, CountsTyped
<1>3. Surplus(events, next) = Surplus(events, next + 1) + Counts(events[next])
  BY <1>1, SurplusNext
<1>4. CASE next = Len(events)
  <2>1. Surplus(events, Len(events) + 1) = 0
    BY SurplusNone
  <2>2. QED BY <1>1, <1>2, <1>3, <1>4, <2>1
<1>5. CASE next # Len(events)
  <2>1. next + 1 \in 2..Len(events)
    BY <1>1, <1>5
  <2>2. Surplus(events, next + 1) > 0
    BY <2>1 DEF OpenAsManyEnd, Enclosed
  <2>3. QED BY <1>1, <1>2, <1>3, <2>2
<1>6. QED BY <1>4, <1>5

\* The types of what is counted.
LEMMA LengthsTyped ==
  ASSUME IInv
  PROVE  Len(parents) \in Nat /\ Len(nodeStack) \in Nat
<1>1. parents \in Seq(NodeKinds) /\ nodeStack \in Seq(0..Len(entries))
  BY WhileBuilding
<1>2. QED BY <1>1

\* An event goes by.
LEMMA CountPassed ==
  ASSUME IInv, IInv', OpenAsManyEnd, next <= Len(events), events' = events, next' = next + 1,
         Len(nodeStack') + Len(parents')
           = Len(nodeStack) + Len(parents) - Counts(events[next])
  PROVE  OpenAsManyEnd'
<1>1. /\ next \in 1..Len(events) /\ Surplus(events, next) \in Int
      /\ Surplus(events, next + 1) \in Nat
      /\ Surplus(events, next) = Surplus(events, next + 1) + Counts(events[next])
  BY NextSurplus
<1>2. Len(events) \in Nat /\ Len(parents) \in Nat /\ Len(nodeStack) \in Nat
  BY WhileBuilding, LengthsTyped
<1>3. Counts(events[next]) \in Int
  BY DEF Counts
<1>4. next + 1 \in 1..(Len(events) + 1)
  BY <1>1, <1>2
<1>5. Len(nodeStack') + Len(parents') = 1 + Surplus(events, next + 1)
  <2>1. Len(nodeStack) + Len(parents) = 1 + Surplus(events, next)
    BY DEF OpenAsManyEnd
  <2>2. QED BY <1>1, <1>2, <1>3, <2>1, SMTT(30)
<1>6. Enclosed(events)
  BY DEF OpenAsManyEnd
<1>7. QED BY <1>4, <1>5, <1>6 DEF OpenAsManyEnd

\* A parent is found, which is no node of its own any more.
LEMMA CountClimbed ==
  ASSUME IInv, ParentsToCome, OpenAsManyEnd, Climb
  PROVE  OpenAsManyEnd'
<1> DEFINE p   == parentPos
           new == WithKind(events, p, "None")
<1>1. /\ p \in 1..Len(events) /\ p \in next..Len(events) /\ IsLive(events[p])
      /\ events' = new /\ parents' = Append(parents, events[p].kind)
      /\ Len(events') = Len(events)
  BY Climbs
<1>2. next' = next /\ nodeStack' = nodeStack
  BY DEF Climb
<1>3. /\ events \in Seq(EventRecord) /\ next \in Nat \ {0} /\ Len(events) \in Nat
      /\ Len(parents) \in Nat /\ Len(nodeStack) \in Nat /\ parents \in Seq(NodeKinds)
  BY WhileBuilding, LengthsTyped
<1> HIDE DEF p
<1>4. \A i \in Nat \ {0} :
        Surplus(new, i) = IF i <= p THEN Surplus(events, i) + 1 ELSE Surplus(events, i)
  BY <1>1, <1>3, SurplusClimbed
<1>5. \A i \in Nat : Surplus(events, i) \in Int
  BY <1>3, CountsTyped
<1> HIDE DEF new
<1>6. Surplus(events', next) = Surplus(events, next) + 1
  <2>1. next <= p
    BY <1>1, <1>3
  <2>2. QED BY <1>1, <1>3, <1>4, <2>1
<1>7. Len(parents') = Len(parents) + 1
  BY <1>1, <1>3
<1>8. Len(nodeStack) + Len(parents) = 1 + Surplus(events, next) /\ next \in 1..(Len(events) + 1)
  BY DEF OpenAsManyEnd
<1>9. Enclosed(events')
  <2>1. ASSUME NEW i \in 2..Len(events) PROVE Surplus(events', i) > 0
    <3>1. i \in Nat \ {0}
      OBVIOUS
    <3>2. Surplus(events, i) > 0
      BY DEF OpenAsManyEnd, Enclosed
    <3>3. QED BY <1>1, <1>4, <1>5, <3>1, <3>2
  <2>2. QED BY <1>1, <2>1 DEF Enclosed
<1>10. Len(nodeStack') + Len(parents') = 1 + Surplus(events', next')
  <2>1. Surplus(events, next) \in Int
    BY <1>3, <1>5
  <2>2. QED BY <1>2, <1>3, <1>6, <1>7, <1>8, <2>1
<1>11. QED BY <1>1, <1>2, <1>8, <1>9, <1>10 DEF OpenAsManyEnd

\* While no node starts, a block is open.
LEMMA BlockIsOpen ==
  ASSUME Staged, parents = <<>>, next <= Len(events), next \in Nat,  Len(events) \in Nat,
         events[next].type # "NodeStart"
  PROVE  BlockOpen
<1>1. <<"Block">> # <<>>
  <2>1. Len(<<"Block">>) = 1 /\ Len(<<>>) = 0
    OBVIOUS
  <2>2. QED BY <2>1
<1>2. ~(Empty /\ BlockFirst)
  BY DEF Empty, BlockFirst
<1>3. ~BlockStarts
  BY <1>1 DEF BlockStarts
<1>4. ~BlockEnded
  BY DEF BlockEnded
<1>5. QED BY <1>2, <1>3, <1>4 DEF Staged

\* The tree is as it was.
LEMMA BlockStaysOpen ==
  ASSUME BlockOpen, entries' = entries, nodeStack' = nodeStack, next \in Nat,
         next' \in {next, next + 1}
  PROVE  BlockOpen'
BY DEF BlockOpen, BlockThere

\* What is added below the innermost open node.
LEMMA BlockGrows ==
  ASSUME IInv, BlockOpen, Hangs(entries), Nests(entries, nodeStack),
         NEW new \in Seq(EntryRecord), Adds(entries, new, Top(nodeStack))
  PROVE  /\ nodeStack # <<>> /\ Hangs(new) /\ Nests(new, nodeStack)
         /\ Len(new) > 0 /\ new[1] = entries[1]
<1>1. /\ entries \in Seq(EntryRecord) /\ Len(entries) \in Nat
      /\ nodeStack \in Seq(0..Len(entries)) /\ Len(new) \in Nat
  BY WhileBuilding
<1>2. Len(nodeStack) >= 2 /\ nodeStack[2] = 1 /\ Increasing(nodeStack) /\ Len(entries) > 0
  BY DEF BlockOpen, BlockThere, Nests
<1>3. nodeStack # <<>> /\ Top(nodeStack) \in 1..Len(entries)
  BY <1>1, <1>2, OpenNodeHangs
<1>4. Hangs(new)
  BY <1>1, <1>3, HangsMore
<1>5. Nests(new, nodeStack)
  BY <1>1, <1>3, NestsMore
<1>6. Len(new) > 0 /\ new[1] = entries[1]
  BY <1>1, <1>2 DEF Adds
<1>7. QED BY <1>3, <1>4, <1>5, <1>6

\* The tree while it grows.
Grows == Growing /\ Hangs(entries) /\ Nests(entries, nodeStack)

\* A node is about to start.
LEMMA StartGrows ==
  ASSUME IInv, IInv', Grows, ReplayStart
  PROVE  Grows'
<1>1. /\ phase = "build" /\ parents = <<>> /\ next <= Len(events)
      /\ events[next].type = "NodeStart" /\ next' = next + 1
      /\ UNCHANGED <<parser, phase, entries, nodeStack, eaten>>
      /\ \/ events[next].kind = "None" /\ parents' = parents /\ parentPos' = parentPos
         \/ /\ events[next].kind # "None"
            /\ parents' = <<events[next].kind>> /\ parentPos' = events[next].parent
  BY DEF ReplayStart, Replaying
<1>2. events' = events /\ tokens' = tokens /\ tokenIndex' = tokenIndex
  BY <1>1 DEF parser
<1>3. /\ Len(events) \in Nat /\ next \in Nat \ {0} /\ parents \in Seq(NodeKinds)
      /\ Len(parents) = 0 /\ Len(nodeStack) \in Nat
      /\ parentPos # 0 => parents # <<>>
  BY <1>1, WhileBuilding, LengthsTyped
<1>4. ParentsToCome'
  BY ParentsStart DEF Grows, Growing
<1>5. OpenAsManyEnd'
  <2>1. Len(parents') = Len(parents) - Counts(events[next])
    <3>1. ~IsEnd(events[next]) /\ IsLive(events[next]) <=> events[next].kind # "None"
      BY <1>1 DEF IsEnd, IsLive
    <3>2. CASE events[next].kind = "None"
      <4>1. Counts(events[next]) = 0
        BY <1>1, <3>2 DEF Counts, IsEnd, IsLive
      <4>2. QED BY <1>1, <1>3, <3>2, <4>1
    <3>3. CASE events[next].kind # "None"
      <4>1. Counts(events[next]) = -1
        BY <1>1, <3>3 DEF Counts, IsEnd, IsLive
      <4>2. Len(parents') = 1
        BY <1>1, <3>3
      <4>3. QED BY <1>3, <4>1, <4>2
    <3>4. QED BY <3>2, <3>3
  <2>2. Counts(events[next]) \in Int
    BY DEF Counts
  <2>3. Len(nodeStack') + Len(parents') = Len(nodeStack) + Len(parents) - Counts(events[next])
    BY <1>1, <1>3, <2>1, <2>2
  <2>4. QED BY <1>1, <1>2, <2>3, CountPassed DEF Grows, Growing
<1>6. Staged'
  <2>1. CASE Empty /\ BlockFirst
    <3>1. next = 1 /\ events[1].kind = "Block" /\ events[1].parent = 0
      BY <2>1 DEF Empty, BlockFirst
    <3>2. parents' = <<"Block">> /\ parentPos' = 0 /\ next' = 2
      BY <1>1, <3>1
    <3>3. BlockStarts'
      BY <1>1, <2>1, <3>2 DEF Empty, BlockStarts
    <3>4. QED BY <3>3 DEF Staged
  <2>2. CASE BlockOpen
    <3>1. BlockOpen'
      BY <1>1, <1>3, <2>2, BlockStaysOpen
    <3>2. QED BY <3>1 DEF Staged
  <2>3. CASE BlockStarts
    <3>1. Len(parents) = 1
      BY <2>3 DEF BlockStarts
    <3>2. QED BY <1>3, <3>1
  <2>4. CASE BlockEnded
    BY <1>1, <1>3, <2>4 DEF BlockEnded
  <2>5. QED BY <2>1, <2>2, <2>3, <2>4 DEF Grows, Growing, Staged
<1>7. RealKinds'
  <2>1. CASE parents' = parents
    BY <2>1 DEF Grows, Growing, RealKinds
  <2>2. CASE events[next].kind # "None" /\ parents' = <<events[next].kind>>
    BY <2>2 DEF RealKinds
  <2>3. QED BY <1>1, <2>1, <2>2
<1>8. RestLeft'
  <2>1. Keeps(events, events') /\ ~Eats(events, next)
    BY <1>1, <1>2, <1>3 DEF Keeps, Eats
  <2>2. QED BY <1>1, <1>2, <2>1, RestStays DEF Grows, Growing
<1>9. QED BY <1>1, <1>4, <1>5, <1>6, <1>7, <1>8 DEF Grows, Growing

\* A parent is found.
LEMMA ClimbGrows ==
  ASSUME IInv, IInv', Grows, Climb
  PROVE  Grows'
<1>1. /\ parentPos > 0 /\ next' = next /\ entries' = entries /\ nodeStack' = nodeStack
      /\ eaten' = eaten /\ tokens' = tokens /\ tokenIndex' = tokenIndex
  BY DEF Climb
<1>2. /\ IsLive(events[parentPos]) /\ parents' = Append(parents, events[parentPos].kind)
      /\ Len(events') = Len(events) /\ Keeps(events, events')
  BY Climbs DEF Grows, Growing
<1>3. ParentsToCome' /\ OpenAsManyEnd'
  BY ParentsClimbed, CountClimbed DEF Grows, Growing
<1>4. /\ parents \in Seq(NodeKinds) /\ parents # <<>> /\ next \in Nat /\ Len(parents) \in Nat
  BY <1>1, WhileBuilding
<1>5. BlockOpen
  BY <1>1, <1>4 DEF Grows, Growing, Staged, Empty, BlockStarts, BlockEnded
<1>6. Staged'
  BY <1>1, <1>4, <1>5, BlockStaysOpen DEF Staged
<1>7. RealKinds'
  <2>1. /\ Len(parents') = Len(parents) + 1
        /\ parents'[Len(parents) + 1] = events[parentPos].kind
        /\ \A k \in 1..Len(parents) : parents'[k] = parents[k]
    BY <1>2, <1>4
  <2>2. \A k \in 1..(Len(parents) + 1) : k \in 1..Len(parents) \/ k = Len(parents) + 1
    BY <1>4
  <2>3. QED BY <1>2, <2>1, <2>2 DEF Grows, Growing, RealKinds, IsLive
<1>8. RestLeft'
  BY <1>1, <1>2, RestStays DEF Grows, Growing
<1>9. QED BY <1>1, <1>3, <1>6, <1>7, <1>8 DEF Grows, Growing

\* An error goes by.
LEMMA ErrorGrows ==
  ASSUME IInv, IInv', Grows, ReplayError
  PROVE  Grows'
<1>1. /\ phase = "build" /\ parents = <<>> /\ next <= Len(events)
      /\ events[next].type = "Error" /\ next' = next + 1
      /\ UNCHANGED <<parser, phase, parents, parentPos, entries, nodeStack, eaten>>
  BY DEF ReplayError, Replaying
<1>2. events' = events /\ tokens' = tokens /\ tokenIndex' = tokenIndex
  BY <1>1 DEF parser
<1>3. Len(events) \in Nat /\ next \in Nat \ {0} /\ Len(parents) \in Nat /\ Len(nodeStack) \in Nat
  BY <1>1, WhileBuilding, LengthsTyped
<1>4. ParentsToCome'
  BY <1>1, <1>2, ParentsStay DEF Grows, Growing
<1>5. OpenAsManyEnd'
  <2>1. Counts(events[next]) = 0
    BY <1>1 DEF Counts, IsEnd, IsLive
  <2>2. Len(nodeStack') + Len(parents') = Len(nodeStack) + Len(parents) - Counts(events[next])
    BY <1>1, <1>3, <2>1
  <2>3. QED BY <1>1, <1>2, <2>2, CountPassed DEF Grows, Growing
<1>6. BlockOpen
  BY <1>1, <1>3, BlockIsOpen DEF Grows, Growing
<1>7. Staged'
  BY <1>1, <1>3, <1>6, BlockStaysOpen DEF Staged
<1>8. RealKinds'
  BY <1>1 DEF Grows, Growing, RealKinds
<1>9. RestLeft'
  <2>1. Keeps(events, events') /\ ~Eats(events, next)
    BY <1>1, <1>2, <1>3 DEF Keeps, Eats
  <2>2. QED BY <1>1, <1>2, <2>1, RestStays DEF Grows, Growing
<1>10. QED BY <1>1, <1>4, <1>5, <1>7, <1>8, <1>9 DEF Grows, Growing

\* A token is taken.
LEMMA EatGrows ==
  ASSUME IInv, IInv', ReadsThere, TokensInOrder, Grows, ReplayEat
  PROVE  Grows'
<1> DEFINE upTo == Inlined(Commented + 1)
<1>1. /\ phase = "build" /\ parents = <<>> /\ next <= Len(events)
      /\ events[next].type = "EatToken" /\ next' = next + 1
      /\ entries' = entries \o Taken(upTo)
      /\ UNCHANGED <<parser, phase, parents, parentPos, nodeStack>>
      /\ Replaying("EatToken")
  BY DEF ReplayEat, Replaying
<1>2. events' = events /\ tokens' = tokens /\ tokenIndex' = tokenIndex
  BY <1>1 DEF parser
<1>3. /\ Len(events) \in Nat /\ next \in Nat \ {0} /\ Len(parents) \in Nat
      /\ Len(nodeStack) \in Nat /\ eaten \in Nat /\ Len(tokens) \in Nat /\ Commented \in Nat
  BY <1>1, WhileBuilding, LengthsTyped, CommentedSkips
<1>4. ParentsToCome'
  BY <1>1, <1>2, ParentsStay DEF Grows, Growing
<1>5. OpenAsManyEnd'
  <2>1. Counts(events[next]) = 0
    BY <1>1 DEF Counts, IsEnd, IsLive
  <2>2. Len(nodeStack') + Len(parents') = Len(nodeStack) + Len(parents) - Counts(events[next])
    BY <1>1, <1>3, <2>1
  <2>3. QED BY <1>1, <1>2, <2>2, CountPassed DEF Grows, Growing
<1>6. BlockOpen
  BY <1>1, <1>3, BlockIsOpen DEF Grows, Growing
<1>7. upTo \in eaten..Len(tokens)
  <2>1. Commented + 1 \in 0..Len(tokens)
    BY <1>1, EventSpeaksOf
  <2>2. upTo \in (Commented + 1)..Len(tokens) /\ eaten <= Commented
    BY <2>1, TakesUpTo
  <2>3. QED BY <1>3, <2>2
<1>8. nodeStack # <<>>
  <2>1. Len(nodeStack) >= 2 /\ Len(<<>>) = 0
    BY <1>6 DEF BlockOpen
  <2>2. QED BY <1>3, <2>1
<1> HIDE DEF upTo
<1>9. entries' \in Seq(EntryRecord) /\ Adds(entries, entries', Top(nodeStack))
  BY <1>1, <1>7, <1>8, TakenHang
<1>10. /\ Hangs(entries') /\ Nests(entries', nodeStack)
       /\ Len(entries') > 0 /\ entries'[1] = entries[1]
  BY <1>6, <1>9, BlockGrows DEF Grows
<1>11. BlockOpen'
  BY <1>1, <1>3, <1>6, <1>10 DEF BlockOpen, BlockThere
<1>12. RealKinds'
  BY <1>1 DEF Grows, Growing, RealKinds
<1>13. RestLeft'
  BY RestEaten DEF Grows, Growing
<1>14. QED BY <1>1, <1>4, <1>5, <1>10, <1>11, <1>12, <1>13 DEF Grows, Growing, Staged

\* The first node is the block of the file; nothing is there before it.
LEMMA FirstNodeGrows ==
  ASSUME IInv, BlockStarts, StartNode
  PROVE  /\ BlockOpen' /\ Hangs(entries') /\ Nests(entries', nodeStack')
         /\ parents' = <<>> /\ eaten' = eaten /\ Len(nodeStack') = 2
<1> DEFINE e == NodeEntry("Block")
<1>1. Top(parents) = "Block" /\ IsEatAllComment("Block") /\ Len(<<>>) = 0
  BY DEF BlockStarts, Top, IsEatAllComment
<1>2. /\ entries' = entries \o <<>> \o <<e>> /\ eaten' = eaten + 0
      /\ nodeStack' = Append(nodeStack, Len(entries) + 0 + 1)
      /\ parents' = Pop(parents) /\ next' = next
  BY <1>1 DEF StartNode, StartAfter
<1>3. entries = <<>> /\ nodeStack = << 0 >> /\ next = 2 /\ parents = <<"Block">>
  BY DEF BlockStarts
<1>4. OpenNode = 0
  <2>1. << 0 >> # <<>> /\ << 0 >>[Len(<< 0 >>)] = 0
    <3>1. Len(<< 0 >>) = 1 /\ Len(<<>>) = 0
      OBVIOUS
    <3>2. QED BY <3>1
  <2>2. QED BY <1>3, <2>1 DEF OpenNode, Top
<1>5. e.kind = "Block" /\ e.parent = 0
  BY <1>4 DEF NodeEntry
<1> HIDE DEF e
<1>6. entries' = <<e>>
  BY <1>2, <1>3
<1>7. Len(nodeStack') = 2 /\ nodeStack'[1] = 0 /\ nodeStack'[2] = 1
  <2>1. Len(entries) = 0
    BY <1>3
  <2>2. nodeStack' = Append(<< 0 >>, 1)
    BY <1>2, <1>3, <2>1
  <2>3. QED BY <2>2
<1>8. parents' = <<>>
  BY <1>2, <1>3 DEF Pop
<1>9. Len(<<e>>) = 1 /\ <<e>>[1] = e
  OBVIOUS
<1>10. BlockOpen'
  BY <1>2, <1>3, <1>5, <1>6, <1>7, <1>9 DEF BlockOpen, BlockThere
<1>11. Hangs(entries')
  BY <1>5, <1>6, <1>9 DEF Hangs
<1>12. Nests(entries', nodeStack')
  <2>1. \A j \in 1..2 : j = 1 \/ j = 2
    OBVIOUS
  <2>2. \A k \in 1..1 : k = 1
    OBVIOUS
  <2>3. Increasing(nodeStack')
    BY <1>7, <2>1 DEF Increasing
  <2>4. \A j \in 1..2 : \A k \in 1..1 : nodeStack'[j] <= <<e>>[k].parent \/ nodeStack'[j] >= k
    BY <1>5, <1>7, <1>9, <2>1, <2>2
  <2>5. \A k, m \in 1..1 : ~(k < m)
    OBVIOUS
  <2>6. QED BY <1>6, <1>7, <1>9, <2>3, <2>4, <2>5 DEF Nests
<1>13. eaten' = eaten
  BY <1>2, WhileBuilding
<1>14. QED BY <1>7, <1>8, <1>10, <1>11, <1>12, <1>13

\* Another node, after the comments before it.
LEMMA AnotherNodeGrows ==
  ASSUME IInv, TokensInOrder, BlockOpen, RealKinds, Hangs(entries), Nests(entries, nodeStack), StartNode
  PROVE  /\ BlockOpen' /\ Hangs(entries') /\ Nests(entries', nodeStack')
         /\ eaten' \in {eaten, Commented} /\ Len(nodeStack') = Len(nodeStack) + 1
<1> DEFINE kind == Top(parents)
           upTo == IF IsEatAllComment(kind) THEN eaten ELSE Commented
           mid  == entries \o Taken(upTo)
           l    == Len(mid)
<1>1. /\ parents # <<>> /\ next' = next
      /\ entries' = entries
           \o (IF IsEatAllComment(kind) THEN <<>> ELSE Taken(Commented)) \o <<NodeEntry(kind)>>
      /\ eaten' = eaten + Len(IF IsEatAllComment(kind) THEN <<>> ELSE Taken(Commented))
      /\ nodeStack' = Append(nodeStack, Len(entries)
           + Len(IF IsEatAllComment(kind) THEN <<>> ELSE Taken(Commented)) + 1)
  BY DEF StartNode, StartAfter
<1>2. /\ eaten \in Nat /\ Len(tokens) \in Nat /\ eaten <= Len(tokens) /\ Commented \in Nat
      /\ entries \in Seq(EntryRecord) /\ Len(entries) \in Nat
      /\ nodeStack \in Seq(0..Len(entries)) /\ parents \in Seq(NodeKinds)
  BY WhileBuilding, CommentedSkips DEF TokensInOrder
<1>3. upTo \in eaten..Len(tokens)
  BY <1>2, TakesUpTo
<1>4. kind # "None" /\ kind \in NodeKinds
  <2>1. Len(parents) \in 1..Len(parents)
    BY <1>1, <1>2
  <2>2. kind \in NodeKinds
    BY <1>1, <1>2, PopTyped
  <2>3. QED BY <2>1, <2>2 DEF RealKinds, Top
<1>5. nodeStack # <<>>
  <2>1. Len(nodeStack) >= 2 /\ Len(<<>>) = 0
    BY DEF BlockOpen
  <2>2. QED BY <1>2, <2>1
<1>6. /\ Taken(upTo) \in Seq(EntryRecord) /\ Len(Taken(upTo)) = upTo - eaten
      /\ upTo = eaten => Taken(upTo) = <<>>
  <2> DEFINE Gives(n) == /\ Taken(n) \in Seq(EntryRecord)
                         /\ Len(Taken(n)) = IF n >= eaten THEN n - eaten ELSE 0
  <2>1. \A n \in Int : Gives(n)
    BY TakenTyped
  <2> HIDE DEF upTo
  <2>2. upTo \in Int /\ upTo >= eaten
    BY <1>2, <1>3
  <2>3. Gives(upTo)
    <3> HIDE DEF Gives
    <3>1. QED BY <2>1, <2>2
  <2>4. QED BY <1>2, <2>2, <2>3
<1> DEFINE more == IF IsEatAllComment(kind) THEN <<>> ELSE Taken(Commented)
<1>7. more = Taken(upTo)
  <2>1. CASE IsEatAllComment(kind)
    BY <1>6, <2>1
  <2>2. CASE ~IsEatAllComment(kind)
    BY <2>2
  <2>3. QED BY <2>1, <2>2
<1>8. upTo \in {eaten, Commented}
  OBVIOUS
<1>9. /\ entries' = entries \o more \o <<NodeEntry(kind)>> /\ eaten' = eaten + Len(more)
      /\ nodeStack' = Append(nodeStack, Len(entries) + Len(more) + 1)
  BY <1>1
<1> HIDE DEF more, upTo, kind
<1>10. /\ mid \in Seq(EntryRecord) /\ l = Len(entries) + (upTo - eaten)
       /\ Adds(entries, mid, Top(nodeStack))
  BY <1>3, <1>5, TakenHang
<1>11. upTo \in Nat /\ upTo >= eaten
  BY <1>2, <1>3
<1>12. entries' = mid \o <<NodeEntry(kind)>> /\ eaten' = upTo /\ nodeStack' = Append(nodeStack, l + 1)
  BY <1>2, <1>6, <1>7, <1>9, <1>10, <1>11
<1>13. /\ NodeEntry(kind) \in EntryRecord /\ NodeEntry(kind).parent = Top(nodeStack)
       /\ NodeEntry(kind).kind = kind
  <2>1. OpenNode = Top(nodeStack) /\ OpenNode \in Nat \union {Unlinked}
    BY <1>2, <1>5, TakenTyped DEF OpenNode
  <2>2. QED BY <1>4, <2>1 DEF NodeEntry, EntryRecord
<1> HIDE DEF mid
<1>14. /\ entries' \in Seq(EntryRecord) /\ Len(entries') = l + 1 /\ entries'[l + 1] = NodeEntry(kind)
       /\ \A k \in 1..l : entries'[k] = mid[k]
  BY <1>10, <1>12, <1>13
<1>15. l \in Nat /\ l >= Len(entries)
  BY <1>2, <1>10, <1>11
<1> HIDE DEF l
<1>16. Adds(entries, entries', Top(nodeStack))
  <2>1. Len(mid) = l
    BY DEF l
  <2>2. \A k \in 1..Len(entries) : k \in 1..l
    BY <1>2, <1>15
  <2>3. \A k \in 1..(l + 1) : k \in 1..l \/ k = l + 1
    BY <1>15
  <2>4. Len(entries') >= Len(entries)
    BY <1>2, <1>14, <1>15
  <2>5. \A k \in 1..Len(entries) : entries'[k] = entries[k]
    BY <1>10, <1>14, <2>1, <2>2 DEF Adds
  <2>6. ASSUME NEW k \in 1..(l + 1), k > Len(entries)
        PROVE  entries'[k].parent = Top(nodeStack) /\ entries'[k].kind # "None"
    <3>1. CASE k \in 1..l
      BY <1>10, <1>14, <2>1, <2>6, <3>1 DEF Adds
    <3>2. CASE k = l + 1
      BY <1>4, <1>13, <1>14, <3>2
    <3>3. QED BY <2>3, <3>1, <3>2
  <2>7. QED BY <1>14, <2>4, <2>5, <2>6 DEF Adds
<1>17. /\ Hangs(entries') /\ Nests(entries', nodeStack)
       /\ Len(entries') > 0 /\ entries'[1] = entries[1]
  BY <1>14, <1>16, BlockGrows
<1>18. nodeStack \in Seq(0..l)
  <2>1. 0..Len(entries) \subseteq 0..l
    BY <1>2, <1>15
  <2>2. QED BY <1>2, <2>1, SeqWider
<1>19. Nests(entries', nodeStack')
  <2>1. Nests(entries', Append(nodeStack, l + 1))
    BY <1>14, <1>15, <1>17, <1>18, NestsOpened
  <2>2. QED BY <1>12, <2>1
<1>20. /\ Len(nodeStack') = Len(nodeStack) + 1
       /\ \A k \in 1..Len(nodeStack) : nodeStack'[k] = nodeStack[k]
  BY <1>12, <1>18
<1>21. BlockOpen'
  <2>1. /\ Len(nodeStack) >= 2 /\ nodeStack[1] = 0 /\ nodeStack[2] = 1 /\ next > 1
        /\ entries[1].kind = "Block" /\ entries[1].parent = 0
    BY DEF BlockOpen, BlockThere
  <2>2. Len(nodeStack) \in Nat
    BY <1>2
  <2>3. 1 \in 1..Len(nodeStack) /\ 2 \in 1..Len(nodeStack) /\ Len(nodeStack') >= 2
    BY <1>20, <2>1, <2>2
  <2>4. QED BY <1>1, <1>17, <1>20, <2>1, <2>3 DEF BlockOpen, BlockThere
<1>22. eaten' \in {eaten, Commented}
  BY <1>8, <1>12
<1>23. QED BY <1>17, <1>19, <1>20, <1>21, <1>22

\* A node starts.
LEMMA NodeGrows ==
  ASSUME IInv, IInv', TokensInOrder, Grows, StartNode
  PROVE  Grows'
<1>1. /\ phase = "build" /\ parents # <<>> /\ parents' = Pop(parents) /\ next' = next
      /\ parentPos' = parentPos /\ UNCHANGED parser
  BY DEF StartNode, StartAfter
<1>2. events' = events /\ tokens' = tokens /\ tokenIndex' = tokenIndex
  BY <1>1 DEF parser
<1>3. /\ Len(events) \in Nat /\ next \in Nat \ {0} /\ Len(parents) \in Nat
      /\ Len(nodeStack) \in Nat /\ parents \in Seq(NodeKinds)
  BY WhileBuilding, LengthsTyped
<1>4. /\ Len(parents') = Len(parents) - 1
      /\ \A k \in 1..(Len(parents) - 1) : parents'[k] = parents[k]
  BY <1>1, <1>3, PopTyped
<1>5. ParentsToCome'
  BY <1>1, <1>2, ParentsStay DEF Grows, Growing
<1>6. RealKinds'
  <2>1. \A k \in 1..(Len(parents) - 1) : k \in 1..Len(parents)
    BY <1>3
  <2>2. QED BY <1>4, <2>1 DEF Grows, Growing, RealKinds
<1>7. /\ BlockOpen' /\ Hangs(entries') /\ Nests(entries', nodeStack')
      /\ eaten' \in {eaten, Commented} /\ Len(nodeStack') = Len(nodeStack) + 1
  <2>1. CASE BlockStarts
    <3>1. /\ BlockOpen' /\ Hangs(entries') /\ Nests(entries', nodeStack')
          /\ eaten' = eaten /\ Len(nodeStack') = 2
      BY <2>1, FirstNodeGrows
    <3>2. Len(nodeStack) = 1
      BY <2>1 DEF BlockStarts
    <3>3. QED BY <3>1, <3>2
  <2>2. CASE BlockOpen
    BY <2>2, AnotherNodeGrows DEF Grows, Growing
  <2>3. QED BY <1>1, <2>1, <2>2 DEF Grows, Growing, Staged, Empty, BlockEnded
<1>8. OpenAsManyEnd'
  <2>1. Len(nodeStack') + Len(parents') = Len(nodeStack) + Len(parents)
    BY <1>3, <1>4, <1>7
  <2>2. QED BY <1>1, <1>2, <2>1 DEF Grows, Growing, OpenAsManyEnd
<1>9. RestLeft'
  <2>1. Keeps(events, events')
    BY <1>2, <1>3 DEF Keeps
  <2>2. SkipComment(tokens, eaten' + 1) = SkipComment(tokens, eaten + 1)
    BY <1>7, CommentedSkips
  <2>3. QED BY <1>1, <1>2, <2>1, <2>2, RestStays DEF Grows, Growing
<1>10. QED BY <1>5, <1>6, <1>7, <1>8, <1>9 DEF Grows, Growing, Staged

\* A node ends; where it is the block of the file, it takes what is left.
LEMMA EndGrows ==
  ASSUME IInv, IInv', TokensInOrder, Grows, ReplayEnd
  PROVE  Grows'
<1>1. /\ phase = "build" /\ parents = <<>> /\ next <= Len(events)
      /\ events[next].type = "NodeEnd" /\ next' = next + 1 /\ FinishNode
      /\ UNCHANGED <<parser, phase, parents, parentPos>>
  BY DEF ReplayEnd, Replaying
<1>2. events' = events /\ tokens' = tokens /\ tokenIndex' = tokenIndex
  BY <1>1 DEF parser
<1>3. /\ Len(events) \in Nat /\ next \in Nat \ {0} /\ Len(parents) = 0
      /\ Len(nodeStack) \in Nat /\ eaten \in Nat /\ Len(tokens) \in Nat /\ Commented \in Nat
      /\ nodeStack \in Seq(0..Len(entries)) /\ eaten <= Len(tokens)
  BY <1>1, WhileBuilding, LengthsTyped, CommentedSkips DEF TokensInOrder
<1>4. ParentsToCome'
  BY <1>1, <1>2, ParentsStay DEF Grows, Growing
<1>5. BlockOpen
  BY <1>1, <1>3, BlockIsOpen DEF Grows, Growing
<1>6. nodeStack # <<>> /\ Len(nodeStack) >= 2
  <2>1. Len(nodeStack) >= 2 /\ Len(<<>>) = 0
    BY <1>5 DEF BlockOpen
  <2>2. QED BY <1>3, <2>1
<1>7. /\ Len(nodeStack') = Len(nodeStack) - 1 /\ nodeStack' = Pop(nodeStack)
      /\ \A k \in 1..(Len(nodeStack) - 1) : nodeStack'[k] = nodeStack[k]
  <2>1. nodeStack' = Pop(nodeStack)
    BY <1>1, <1>6 DEF FinishNode
  <2>2. QED BY <1>3, <1>6, <2>1, PopTyped
<1>8. Counts(events[next]) = 1
  BY <1>1 DEF Counts, IsEnd
<1>9. OpenAsManyEnd'
  <2>1. Len(nodeStack') + Len(parents') = Len(nodeStack) + Len(parents) - Counts(events[next])
    BY <1>1, <1>3, <1>7, <1>8
  <2>2. QED BY <1>1, <1>2, <2>1, CountPassed DEF Grows, Growing
<1>10. PICK upTo \in {Commented, Inlined(eaten)} :
         /\ entries' = entries \o Taken(upTo) /\ eaten' = upTo
         /\ IsEatAllComment(KindOf(Top(nodeStack))) => upTo = Commented
  BY <1>1, <1>6 DEF FinishNode
<1>11. upTo \in eaten..Len(tokens)
  <2>1. eaten \in 0..Len(tokens)
    BY <1>3
  <2>2. QED BY <1>10, <2>1, TakesUpTo
<1>12. entries' \in Seq(EntryRecord) /\ Adds(entries, entries', Top(nodeStack))
  BY <1>6, <1>10, <1>11, TakenHang
<1>13. /\ Hangs(entries') /\ Nests(entries', nodeStack)
       /\ Len(entries') > 0 /\ entries'[1] = entries[1]
  BY <1>5, <1>12, BlockGrows DEF Grows
<1>14. Nests(entries', nodeStack')
  BY <1>3, <1>6, <1>7, <1>13, NestsClosed
<1>15. BlockThere'
  BY <1>5, <1>13 DEF BlockOpen, BlockThere
<1>16. ASSUME Len(nodeStack) > 2 PROVE BlockOpen'
  <2>1. 1 \in 1..(Len(nodeStack) - 1) /\ 2 \in 1..(Len(nodeStack) - 1) /\ Len(nodeStack') >= 2
    BY <1>3, <1>7, <1>16
  <2>2. nodeStack'[1] = 0 /\ nodeStack'[2] = 1
    BY <1>5, <1>7, <2>1 DEF BlockOpen
  <2>3. next' > 1
    BY <1>1, <1>3
  <2>4. QED BY <1>15, <2>1, <2>2, <2>3 DEF BlockOpen
<1>17. ASSUME Len(nodeStack) = 2 PROVE BlockEnded'
  <2>1. next = Len(events)
    <3>1. /\ Surplus(events, next) \in Int /\ Surplus(events, next + 1) \in Nat
          /\ Surplus(events, next + 1) = 0 => next = Len(events)
          /\ Surplus(events, next) = Surplus(events, next + 1) + Counts(events[next])
      BY <1>1, NextSurplus DEF Grows, Growing
    <3>2. Len(nodeStack) + Len(parents) = 1 + Surplus(events, next)
      BY DEF Grows, Growing, OpenAsManyEnd
    <3>3. QED BY <1>3, <1>8, <1>17, <3>1, <3>2
  <2>2. next' > Len(events')
    BY <1>1, <1>2, <1>3, <2>1
  <2>3. nodeStack' = << 0 >>
    <3>1. Len(nodeStack') = 1 /\ nodeStack'[1] = 0
      BY <1>3, <1>5, <1>7, <1>17 DEF BlockOpen
    <3>2. nodeStack' \in Seq(0..Len(entries))
      BY <1>3, <1>6, <1>7, PopTyped
    <3>3. QED BY <3>1, <3>2
  <2>4. upTo = Commented
    <3>1. Top(nodeStack) = 1
      BY <1>5, <1>17 DEF BlockOpen, Top
    <3>2. IsEatAllComment(KindOf(Top(nodeStack)))
      BY <1>5, <3>1 DEF BlockOpen, BlockThere, KindOf, IsEatAllComment
    <3>3. QED BY <1>10, <3>2
  <2>5. Commented' = eaten'
    <3>1. /\ SkipComment(tokens, Commented + 1) = SkipComment(tokens, eaten + 1)
          /\ Commented + 1 = SkipComment(tokens, eaten + 1)
      BY CommentedSkips
    <3>2. Commented' = SkipComment(tokens', eaten' + 1) - 1
      BY DEF Commented
    <3>3. SkipComment(tokens', eaten' + 1) = Commented + 1
      BY <1>2, <1>10, <2>4, <3>1
    <3>4. QED BY <1>3, <1>10, <2>4, <3>2, <3>3
  <2>6. QED BY <1>1, <1>15, <2>2, <2>3, <2>5 DEF BlockEnded
<1>18. Staged'
  <2>1. CASE Len(nodeStack) > 2
    BY <1>16, <2>1 DEF Staged
  <2>2. CASE Len(nodeStack) = 2
    BY <1>17, <2>2 DEF Staged
  <2> DEFINE n == Len(nodeStack)
  <2>3. n \in Nat /\ n >= 2
    BY <1>3, <1>6
  <2> HIDE DEF n
  <2>4. n = 2 \/ n > 2
    BY <2>3
  <2>5. QED BY <2>1, <2>2, <2>4, Zenon DEF n
<1>19. RealKinds'
  BY <1>1 DEF Grows, Growing, RealKinds
<1>20. RestLeft'
  <2>1. Keeps(events, events') /\ ~Eats(events, next)
    BY <1>1, <1>2, <1>3 DEF Keeps, Eats
  <2>2. SkipComment(tokens, eaten' + 1) = SkipComment(tokens, eaten + 1)
    BY <1>1, FinishNodeKeeps
  <2>3. QED BY <1>1, <1>2, <2>1, <2>2, RestStays DEF Grows, Growing
<1>21. QED BY <1>4, <1>9, <1>13, <1>14, <1>18, <1>19, <1>20 DEF Grows, Growing

\* The File ends; the block has taken all there is.
LEMMA BuiltGrows ==
  ASSUME IInv, TokensInOrder, Grows, Position > Len(tokens), Built
  PROVE  Grown' /\ Hangs(entries') /\ Nests(entries', nodeStack')
<1>1. phase = "build" /\ parents = <<>> /\ next > Len(events) /\ FinishNode /\ tokens' = tokens
  BY DEF Built, parser
<1>2. /\ Len(events) \in Nat /\ next \in Nat \ {0} /\ Len(parents) = 0
      /\ Len(nodeStack) \in Nat /\ eaten \in Nat /\ Len(tokens) \in Nat /\ Commented \in Nat
      /\ eaten <= Len(tokens) /\ entries \in Seq(EntryRecord)
      /\ events \in Seq(EventRecord) /\ nodeStack \in Seq(0..Len(entries))
  BY <1>1, WhileBuilding, LengthsTyped, CommentedSkips DEF TokensInOrder
<1>3. next = Len(events) + 1
  BY <1>1, <1>2 DEF Grows, Growing, OpenAsManyEnd
<1>4. Len(nodeStack) = 1
  <2>1. Surplus(events, next) = 0
    BY <1>2, <1>3, SurplusNone
  <2>2. QED BY <1>2, <2>1 DEF Grows, Growing, OpenAsManyEnd
<1>5. BlockEnded
  <2>1. ~(Empty /\ BlockFirst)
    BY <1>1, <1>2 DEF Empty, BlockFirst
  <2>2. ~BlockStarts
    <3>1. BlockStarts => Len(parents) = 1
      BY DEF BlockStarts
    <3>2. QED BY <1>2, <3>1
  <2>3. ~BlockOpen
    BY <1>4 DEF BlockOpen
  <2>4. QED BY <2>1, <2>2, <2>3 DEF Grows, Growing, Staged
<1>6. eaten = Len(tokens)
  <2>1. SkipComment(tokens, eaten + 1) = Position
    <3>1. \A q \in next..Len(events) : ~Eats(events, q)
      BY <1>2, <1>3
    <3>2. QED BY <3>1 DEF Grows, Growing, RestLeft, Position
  <2>2. Commented + 1 = Position /\ Commented = eaten
    BY <1>5, <2>1, CommentedSkips DEF BlockEnded
  <2>3. QED BY <1>2, <2>2
<1>7. nodeStack # <<>> /\ Top(nodeStack) = 0 /\ IsEatAllComment(KindOf(Top(nodeStack)))
  <2>1. Len(<< 0 >>) = 1 /\ Len(<<>>) = 0 /\ << 0 >>[1] = 0
    OBVIOUS
  <2>2. nodeStack # <<>> /\ Top(nodeStack) = 0
    BY <1>5, <2>1 DEF BlockEnded, Top
  <2>3. QED BY <2>2 DEF KindOf, IsEatAllComment
<1>8. /\ entries' = entries \o Taken(Commented) /\ eaten' = Commented
      /\ nodeStack' = Pop(nodeStack)
  BY <1>1, <1>7 DEF FinishNode
<1>9. entries' = entries
  <2> DEFINE Gives(n) == /\ Taken(n) \in Seq(EntryRecord)
                         /\ Len(Taken(n)) = IF n >= eaten THEN n - eaten ELSE 0
  <2>1. \A n \in Int : Gives(n)
    BY TakenTyped
  <2>2. Gives(Commented)
    <3>1. Commented \in Int
      BY <1>2
    <3> HIDE DEF Gives
    <3>2. QED BY <2>1, <3>1
  <2>3. Commented = eaten
    BY <1>5 DEF BlockEnded
  <2>4. Taken(Commented) = <<>>
    BY <1>2, <2>2, <2>3
  <2>5. QED BY <1>2, <1>8, <2>4
<1>10. BlockThere /\ Hangs(entries) /\ Nests(entries, nodeStack)
  BY <1>5 DEF BlockEnded, Grows
<1>11. Nests(entries, Pop(nodeStack))
  BY <1>2, <1>7, <1>10, NestsClosed
<1>12. eaten' = Len(tokens)
  BY <1>5, <1>6, <1>8 DEF BlockEnded
<1>13. Grown'
  BY <1>1, <1>9, <1>10, <1>12 DEF Grown, BlockThere
<1>14. QED BY <1>8, <1>9, <1>10, <1>11, <1>13

\* The events of a file without errors are there.
LEMMA ParsedGrows ==
  ASSUME IInv, WellParsed, Parsed, UNCHANGED tree, entries = <<>>, nodeStack = << 0 >>, Clean'
  PROVE  Grows' /\ (Position > Len(tokens))'
<1>1. Shape(events, <<>>) /\ Position > Len(tokens)
  BY ParsedShape
<1>2. /\ events' = events /\ tokens' = tokens /\ tokenIndex' = tokenIndex /\ phase = "parse"
      /\ next' = next /\ parents' = parents /\ parentPos' = parentPos /\ entries' = entries
      /\ nodeStack' = nodeStack /\ eaten' = eaten
  BY DEF Parsed, tree
<1>3. next = 1 /\ parents = <<>> /\ parentPos = 0 /\ eaten = 0
  BY <1>2 DEF IInv, Waiting
<1>4. Len(<<>>) = 0 /\ Len(<< 0 >>) = 1 /\ Len(events) \in Nat
  BY WhileBuilding
<1>5. ParentsToCome
  <2>1. \A q \in 1..Len(events) : events[q].parent # 0 => events[events[q].parent].kind # "None"
    BY <1>1, <1>4 DEF Shape, ParentsComplete
  <2>2. ParentsDiffer(events)
    BY <1>1 DEF Shape
  <2>3. QED BY <1>3, <2>1, <2>2 DEF ParentsToCome
<1>6. Begun(events, <<>>) /\ Balanced(events)
  BY <1>1 DEF Shape
<1>7. OpenAsManyEnd
  <2>1. Surplus(events, 1) = 0 /\ Enclosed(events)
    BY <1>6 DEF Begun, Balanced
  <2>2. QED BY <1>3, <1>4, <2>1 DEF OpenAsManyEnd
<1>8. Empty /\ BlockFirst
  BY <1>3, <1>6 DEF Empty, BlockFirst, Begun
<1>9. RealKinds /\ Hangs(entries)
  BY <1>3, <1>4 DEF RealKinds, Hangs
<1>10. Nests(entries, nodeStack)
  <2>1. \A j, k \in 1..1 : ~(j < k)
    OBVIOUS
  <2>2. \A k \in 1..0 : FALSE
    OBVIOUS
  <2>3. QED BY <1>4, <2>1, <2>2 DEF Nests, Increasing
<1>11. RestLeft
  <2>1. ReadUpTo(events, tokenIndex)
    BY <1>2 DEF IInv, ReadInOrder
  <2>2. QED BY <1>3, <2>1 DEF RestLeft, ReadUpTo
<1>12. Grows
  BY <1>5, <1>7, <1>8, <1>9, <1>10, <1>11 DEF Grows, Growing, Staged
<1>13. Grows'
  BY <1>2, <1>12
  DEF Grows, Growing, ParentsToCome, OpenAsManyEnd, Staged, Empty, BlockFirst, BlockStarts,
      BlockOpen, BlockThere, BlockEnded, Commented, RealKinds, RestLeft
<1>14. QED BY <1>1, <1>2, <1>13 DEF Position

\* At the start only the File is open.
LEMMA WellGrownInit == Init => WellGrown
BY DEF Init, ParserInit, WellGrown

\* Steps of the parser leave the tree alone; the last of them leaves it to BuildTree.
LEMMA ParsingGrows ==
  ASSUME IInv, WellParsed, WellGrown, Parse
  PROVE  WellGrown'
<1>1. phase = "parse" /\ UNCHANGED tree /\ (phase' = "parse" \/ Parsed)
  <2>1. ASSUME NEW ops, Runs(ops) PROVE phase = "parse"
    BY <2>1 DEF Runs
  <2>2. Lex \/ Throw => phase = "parse" /\ phase' = "parse"
    BY DEF Lex, Throw, Input
  <2>3. OpenMarker \/ CompleteMarker \/ UndoMarker \/ UndoCompleted
          => phase = "parse" /\ phase' = "parse"
    BY <2>1 DEF OpenMarker, CompleteMarker, UndoMarker, UndoCompleted, Input
  <2>4. PrecedeNode \/ EatCurrent \/ CheckAndNext \/ TestAndNext
          => phase = "parse" /\ phase' = "parse"
    BY <2>1 DEF PrecedeNode, PrecedeAs, EatCurrent, CheckAndNext, TestAndNext, Input
  <2>5. ExpectError \/ Call => phase = "parse" /\ phase' = "parse"
    BY <2>1 DEF ExpectError, Call, Input
  <2>6. Parsed => phase = "parse"
    BY DEF Parsed
  <2>7. QED BY <2>2, <2>3, <2>4, <2>5, <2>6 DEF Parse, ParserNext
<1>2. /\ entries = <<>> /\ nodeStack = << 0 >> /\ entries' = entries /\ nodeStack' = nodeStack
  BY <1>1 DEF WellGrown, tree
<1>3. CASE phase' = "parse"
  BY <1>2, <1>3 DEF WellGrown
<1>4. CASE Parsed
  <2>1. phase' = "build"
    BY <1>4 DEF Parsed
  <2>2. Clean' => Grows' /\ (Position > Len(tokens))'
    BY <1>1, <1>2, <1>4, ParsedGrows
  <2>3. QED BY <2>1, <2>2 DEF WellGrown, Grows
<1>5. QED BY <1>1, <1>3, <1>4

\* Every step.
LEMMA WellGrownNext ==
  ASSUME IInv, IInv', ReadsThere, TreeInOrder, WellParsed, WellGrown, [Next]_vars
  PROVE  WellGrown'
<1>1. CASE Parse
  BY <1>1, ParsingGrows
<1>2. CASE UNCHANGED vars
  <2>1. UNCHANGED <<source, tokens, ended, tokenIndex, events, todo, marks, completed, errors,
                    phase, next, parents, parentPos, entries, nodeStack, eaten>>
    BY <1>2 DEF vars, parser, tree
  <2>2. (phase' = "parse" => entries' = <<>> /\ nodeStack' = << 0 >>)
    BY <2>1 DEF WellGrown
  <2>3. ASSUME phase' # "parse", Clean' PROVE phase # "parse" /\ Clean
    BY <2>1, <2>3 DEF Clean, GlobalFunctionFree, TokenAt
  <2>4. Growing => Growing'
    BY <2>1
    DEF Growing, ParentsToCome, OpenAsManyEnd, Staged, Empty, BlockFirst, BlockStarts,
        BlockOpen, BlockThere, BlockEnded, Commented, RealKinds, RestLeft
  <2>5. Grown => Grown'
    BY <2>1 DEF Grown, BlockThere
  <2>6. Position' = Position
    BY <2>1 DEF Position
  <2>7. ASSUME phase # "parse", Clean
        PROVE  /\ IF phase' = "build" THEN Growing' ELSE Grown'
               /\ Hangs(entries') /\ Nests(entries', nodeStack') /\ Position' > Len(tokens')
    BY <2>1, <2>4, <2>5, <2>6, <2>7 DEF WellGrown
  <2>8. QED BY <2>2, <2>3, <2>7 DEF WellGrown
<1>3. ASSUME phase = "build", phase' = "build", tokens' = tokens, errors' = errors,
             tokenIndex' = tokenIndex, Grows => Grows'
      PROVE  WellGrown'
  <2>1. Clean' => Clean
    BY <1>3 DEF Clean, GlobalFunctionFree, TokenAt
  <2>2. Position' = Position
    BY <1>3 DEF Position
  <2>3. QED BY <1>3, <2>1, <2>2 DEF WellGrown, Grows
<1>4. TokensInOrder
  BY DEF TreeInOrder
<1>5. CASE ReplayStart
  <2>1. /\ phase = "build" /\ phase' = "build" /\ tokens' = tokens /\ errors' = errors
        /\ tokenIndex' = tokenIndex
    BY <1>5 DEF ReplayStart, Replaying, parser
  <2>2. QED BY <1>3, <1>5, <2>1, StartGrows
<1>6. CASE Climb
  <2>1. /\ phase = "build" /\ phase' = "build" /\ tokens' = tokens /\ errors' = errors
        /\ tokenIndex' = tokenIndex
    BY <1>6 DEF Climb
  <2>2. QED BY <1>3, <1>6, <2>1, ClimbGrows
<1>7. CASE StartNode
  <2>1. /\ phase = "build" /\ phase' = "build" /\ tokens' = tokens /\ errors' = errors
        /\ tokenIndex' = tokenIndex
    BY <1>7 DEF StartNode, StartAfter, parser
  <2>2. QED BY <1>3, <1>4, <1>7, <2>1, NodeGrows
<1>8. CASE ReplayEat
  <2>1. /\ phase = "build" /\ phase' = "build" /\ tokens' = tokens /\ errors' = errors
        /\ tokenIndex' = tokenIndex
    BY <1>8 DEF ReplayEat, Replaying, parser
  <2>2. QED BY <1>3, <1>4, <1>8, <2>1, EatGrows
<1>9. CASE ReplayEnd
  <2>1. /\ phase = "build" /\ phase' = "build" /\ tokens' = tokens /\ errors' = errors
        /\ tokenIndex' = tokenIndex
    BY <1>9 DEF ReplayEnd, Replaying, parser
  <2>2. QED BY <1>3, <1>4, <1>9, <2>1, EndGrows
<1>10. CASE ReplayError
  <2>1. /\ phase = "build" /\ phase' = "build" /\ tokens' = tokens /\ errors' = errors
        /\ tokenIndex' = tokenIndex
    BY <1>10 DEF ReplayError, Replaying, parser
  <2>2. QED BY <1>3, <1>10, <2>1, ErrorGrows
<1>11. CASE Built
  <2>1. /\ phase = "build" /\ phase' = "done" /\ tokens' = tokens /\ errors' = errors
        /\ tokenIndex' = tokenIndex
    BY <1>11 DEF Built, parser
  <2>2. Clean' => Clean
    BY <2>1 DEF Clean, GlobalFunctionFree, TokenAt
  <2>3. Position' = Position
    BY <2>1 DEF Position
  <2>4. ASSUME Clean PROVE Grown' /\ Hangs(entries') /\ Nests(entries', nodeStack')
    <3>1. Grows /\ Position > Len(tokens)
      BY <2>1, <2>4 DEF WellGrown, Grows
    <3>2. QED BY <1>4, <1>11, <3>1, BuiltGrows
  <2>5. Clean => Position > Len(tokens)
    BY <2>1 DEF WellGrown
  <2>6. QED BY <2>1, <2>2, <2>3, <2>4, <2>5 DEF WellGrown
<1>12. QED
  BY <1>1, <1>2, <1>5, <1>6, <1>7, <1>8, <1>9, <1>10, <1>11 DEF Next, Terminating

\* What is grown is the tree, and it holds the tokens.
LEMMA GrownIsKept ==
  ASSUME IInv, TreeInOrder, WellGrown, GlobalFunctionFree
  PROVE  TokensKept
<1> SUFFICES ASSUME Accepted
             PROVE  /\ Syntax!IsTree(Tree)
                    /\ entries[1].kind = "Block"
                    /\ \A n \in 1..Len(entries) : entries[n].kind # "None"
                    /\ LET kept == Ascending({k \in DOMAIN entries : entries[k].token # 0})
                       IN /\ Len(kept) = Len(tokens)
                          /\ \A k \in 1..Len(kept) : entries[kept[k]].token = k
  BY DEF TokensKept
<1>1. phase = "done" /\ Clean
  BY DEF Accepted, Clean
<1>2. Grown /\ Hangs(entries) /\ Nests(entries, nodeStack)
  BY <1>1 DEF WellGrown
<1>3. /\ entries \in Seq(EntryRecord) /\ Len(entries) \in Nat /\ Len(tokens) \in Nat
  BY WhileBuilding
<1> DEFINE size   == Len(entries)
           parent == [k \in 1..size |-> entries[k].parent]
<1>4. Forest(parent, size)
  <2>1. size \in Nat \ {0} /\ parent[1] = 0 /\ 1 \in 1..size
    BY <1>2, <1>3 DEF Grown, BlockThere
  <2>2. \A k \in 1..size : entries[k].parent \in Int
    <3>1. \A k \in 1..size : entries[k] \in EntryRecord
      BY <1>3
    <3>2. QED BY <3>1 DEF EntryRecord, Unlinked
  <2>3. parent \in [1..size -> Int]
    BY <2>2
  <2>4. ASSUME NEW k \in 2..size PROVE parent[k] \in 1..(k - 1)
    <3>1. k \in 1..size /\ k > 1
      BY <1>3
    <3>2. QED BY <1>2, <3>1 DEF Hangs
  <2>5. \A k, m \in 1..size : k < m => parent[m] <= parent[k] \/ parent[m] >= k
    BY <1>2 DEF Nests
  <2>6. QED BY <2>1, <2>3, <2>4, <2>5 DEF Forest
<1>5. \A k \in 1..size : entries[k].parent = parent[k]
  OBVIOUS
<1> HIDE DEF parent
<1>6. Syntax!IsTree(Tree)
  BY <1>3, <1>4, <1>5, ForestIsTree
<1>7. entries[1].kind = "Block" /\ \A n \in 1..Len(entries) : entries[n].kind # "None"
  BY <1>2 DEF Grown, BlockThere, Hangs
<1> DEFINE S    == {k \in DOMAIN entries : entries[k].token # 0}
           kept == Ascending(S)
<1>8. HoldsUpTo(entries, Len(tokens))
  BY <1>2 DEF Grown, TreeInOrder, TokensInOrder
<1>9. Len(kept) = Len(tokens) /\ \A k \in 1..Len(kept) : entries[kept[k]].token = k
  <2>1. S = {k \in DOMAIN entries : entries[k].token # 0} /\ kept = Ascending(S)
    OBVIOUS
  <2> HIDE DEF S, kept
  <2>2. QED BY <1>3, <1>8, <2>1, TokensListed
<1>10. QED BY <1>6, <1>7, <1>9

\* A file without errors, in which no `global` comes before a `function`, becomes one tree
\* below the Block of the file, which holds every token and comment, each once and in order:
\* whatever Markers were opened, undone and given parents, every node that starts ends, and
\* inside the node it started in; the last comments of the file are not lost.
THEOREM TreeKeepsTokens == Spec => [](GlobalFunctionFree => TokensKept)
<1>1. Init => IInv /\ ReadsThere /\ TreeInOrder /\ WellParsed /\ WellGrown
  BY InitInv, ReadsThereInit, TreeInOrderInit, WellParsedInit, WellGrownInit
<1>2. IInv /\ ReadsThere /\ TreeInOrder /\ WellParsed /\ WellGrown /\ [Next]_vars
        => (IInv /\ ReadsThere /\ TreeInOrder /\ WellParsed /\ WellGrown)'
  BY NextInv, ReadsThereNext, TreeInOrderNext, WellParsedNext, WellGrownNext
<1>3. IInv /\ TreeInOrder /\ WellGrown => (GlobalFunctionFree => TokensKept)
  BY GrownIsKept
<1>4. QED BY <1>1, <1>2, <1>3, PTL DEF Spec
=============================================================================
