----------------------------- MODULE LuaGrammar -----------------------------
(***************************************************************************)
(* The functions of LuaParser, each as the calls it makes.                 *)
(*                                                                         *)
(* A function that looks at no token before its first call is a sequence   *)
(* of instructions.  Where the code branches on the current token, or on   *)
(* the one after it, the sequence has an instruction Do(rule, arg), and    *)
(* Body says what the rule does when it is reached.  The instructions:     *)
(*   Mark        open a Marker                                             *)
(*   Complete    complete the innermost open Marker, as a node of a kind   *)
(*   Undo        undo the innermost open Marker                            *)
(*   UndoLast    undo the Marker that was completed last                   *)
(*   Precede     open a Marker that takes the last completed node as child *)
(*   Eat         LuaParser::Next                                           *)
(*   Check       CheckAndNext, or the error when another token comes       *)
(*   Test        TestAndNext, when its answer is not used                  *)
(*   Error       LuaExpectedError                                          *)
(* A token is its kind.  A name whose text matters is its text.            *)
(***************************************************************************)
EXTENDS Naturals, Sequences

\* LuaTokenKind; names are told apart where their text matters, strings and numbers are
\* not, and a comment is on a line of its own or "inline", on the line on which the token
\* before it ends.
TokenKinds ==
  {"name", "global", "const", "and", "break", "do", "else", "elseif", "end", "false",
   "for", "function", "goto", "if", "in", "local", "nil", "not", "or", "repeat",
   "return", "then", "true", "until", "while", "+", "-", "*", "/", "//", "%", "^", "#",
   "&", "~", "|", "<<", ">>", "..", "==", "~=", "<", "<=", ">", ">=", "=", "(", ")",
   "{", "}", "[", "]", "::", ";", ":", ",", ".", "...", "number", "string", "comment",
   "inline"}

\* LuaSyntaxNodeKind.
NodeKinds ==
  {"None", "AssignStatement", "Attribute", "BinaryExpression", "Block",
   "BreakStatement", "CallExpression", "ClosureExpression", "DoStatement",
   "EmptyStatement", "ExpressionList", "ExpressionStatement", "ForBody", "ForList",
   "ForNumber", "ForStatement", "FunctionBody", "FunctionNameExpression",
   "FunctionStatement", "GlobalStatement", "GotoStatement", "IfStatement",
   "IndexExpression", "LabelStatement", "LiteralExpression", "LocalFunctionStatement",
   "LocalStatement", "NameDefList", "NameExpression", "ParExpression", "ParamList",
   "RepeatStatement", "ReturnStatement", "StringLiteralExpression",
   "SuffixedExpression", "TableExpression", "TableField", "TableFieldList",
   "TableFieldSep", "UnaryExpression", "VarList", "WhileStatement"}

Names == {"name", "global", "const"}

\* What Current answers when there are no more tokens.
Eof == "eof"

\* As Is, for a check that lets the end of the file pass.
IsOrEnd(token, kind) == token = kind \/ token = Eof

Is(token, kind) == token = kind \/ (kind = "name" /\ token \in Names)

Instruction(o, w, n) == <<[op |-> o, what |-> w, arg |-> n]>>

Mark           == Instruction("Mark", "none", 0)
Complete(kind) == Instruction("Complete", kind, 0)
Undo           == Instruction("Undo", "none", 0)
UndoLast       == Instruction("UndoLast", "none", 0)
Precede        == Instruction("Precede", "none", 0)
Eat            == Instruction("Eat", "none", 0)
Check(kind)    == Instruction("Check", kind, 0)
Test(kind)     == Instruction("Test", kind, 0)
Error          == Instruction("Error", "none", 0)
Do(rule)       == Instruction("Do", rule, 0)
DoWith(rule, n) == Instruction("Do", rule, n)

\* The instructions that begin with a call of Current.
Looking == {"Eat", "Check", "Test", "Do"}

-----------------------------------------------------------------------------
(* Operators. *)

Unary == {"not", "-", "~", "#"}

UNARY_PRIORITY == 12

\* The priorities of a binary operator towards its left and its right.
Priority(left, right) == [left |-> left, right |-> right]

\* GetBinaryOperator.
Binary ==
  {"+", "-", "*", "%", "^", "/", "//", "&", "|", "~", "<<", ">>", "..",
   "~=", "==", "<", "<=", ">", ">=", "and", "or"}

Priorities(concat) ==
  [op \in Binary |->
     CASE op \in {"+", "-"}                         -> Priority(10, 10)
       [] op \in {"*", "%", "/", "//"}              -> Priority(11, 11)
       [] op = "^"                                  -> Priority(14, 13)
       [] op = "&"                                  -> Priority(6, 6)
       [] op = "|"                                  -> Priority(4, 4)
       [] op = "~"                                  -> Priority(5, 5)
       [] op \in {"<<", ">>"}                       -> Priority(7, 7)
       [] op = ".."                                 -> concat
       [] op \in {"==", "<", "<=", "~=", ">", ">="} -> Priority(3, 3)
       [] op = "and"                                -> Priority(2, 2)
       [] OTHER                                     -> Priority(1, 1)]

\* As priority, with an operator that takes its own kind on the left.
priorityLeft == Priorities(Priority(9, 9))

priority == Priorities(Priority(9, 8))

-----------------------------------------------------------------------------
(* Expressions. *)

Literals == {"number", "nil", "true", "false", "..."}

Strings == {"string"}

Subexpression(limit) == DoWith("Subexpression", limit)

Expression == Subexpression(0)

\* A stop token of ")" is passed as 1.
ExpressionListUntil(stop) ==
  Mark \o Expression \o DoWith("MoreExpressions", stop) \o Complete("ExpressionList")

ExpressionList == ExpressionListUntil(0)

CheckName == Check("name")

LocalAttribute == Mark \o Do("Attribute")

Block == Mark \o Do("StatementList") \o Complete("Block")

SuffixedExpression == Mark \o Mark \o Do("PrimaryExpression") \o DoWith("Suffixes", 0)

StringLiteral == Mark \o Eat \o Complete("StringLiteralExpression")

TableConstructor ==
  Mark \o Check("{")
       \o Mark \o DoWith("FieldList", 0) \o Complete("TableFieldList")
       \o Check("}") \o Complete("TableExpression")

FunctionBody ==
  Mark \o Check("(")
       \o Mark \o Do("ParamList") \o Complete("ParamList")
       \o Check(")") \o Block \o Check("end") \o Complete("FunctionBody")

FieldSel == Mark \o Eat \o Check("name") \o Complete("IndexExpression")

YIndex == Mark \o Check("[") \o Expression \o Check("]") \o Complete("IndexExpression")

FunctionCallArgs == Mark \o Do("CallArgs") \o Complete("CallExpression")

SimpleExpression(token) ==
  CASE token \in Literals   -> Mark \o Eat \o Complete("LiteralExpression")
    [] token \in Strings    -> StringLiteral
    [] token = "{"          -> TableConstructor
    [] token = "function"   -> Mark \o Eat \o FunctionBody \o Complete("ClosureExpression")
    [] OTHER                -> SuffixedExpression

\* The field that begins with `token`; a "=" after a name makes it a record field.
Field(token, ahead) ==
  LET value == Check("=") \o Expression
  IN Mark \o (IF token \in Names /\ ahead = "=" THEN Eat \o value
              ELSE IF token = "[" THEN YIndex \o value
              ELSE Expression)
          \o Do("FieldSep") \o Complete("TableField")

\* What a rule of the expressions does at the token `token`.
ExpressionBody(rule, arg, token, ahead) ==
  CASE rule = "Subexpression" ->
         (IF token \in Unary
          THEN Mark \o Eat \o Subexpression(UNARY_PRIORITY) \o Complete("UnaryExpression")
          ELSE SimpleExpression(token))
         \o DoWith("BinaryOperators", arg)
    [] rule = "BinaryOperators" ->
         IF token \in Binary /\ priority[token].left > arg
         THEN Precede \o Eat \o Subexpression(priority[token].right)
              \o Complete("BinaryExpression") \o DoWith("BinaryOperators", arg)
         ELSE <<>>
    [] rule = "MoreExpressions" ->
         IF token = "," THEN Eat \o DoWith("NextExpression", arg) ELSE <<>>
    [] rule = "NextExpression" ->
         IF arg = 1 /\ token = ")" THEN <<>>
         ELSE Expression \o DoWith("MoreExpressions", arg)
    [] rule = "PrimaryExpression" ->
         IF token = "(" THEN Eat \o Expression \o Check(")") \o Complete("ParExpression")
         ELSE IF token \in Names THEN Eat \o Complete("NameExpression")
         ELSE Error \o Complete("None")
    [] rule = "Suffixes" ->     \* arg: a suffix was read
         IF token = "." THEN FieldSel \o DoWith("Suffixes", 1)
         ELSE IF token = "[" THEN YIndex \o DoWith("Suffixes", 1)
         ELSE IF token = ":" THEN FieldSel \o FunctionCallArgs \o DoWith("Suffixes", 1)
         ELSE IF token \in {"(", "{"} \union Strings
              THEN FunctionCallArgs \o DoWith("Suffixes", 1)
         ELSE IF arg = 1 THEN Complete("SuffixedExpression") ELSE Undo
    [] rule = "CallArgs" ->
         IF token = "(" THEN Eat \o Do("Arguments") \o Check(")")
         ELSE IF token = "{" THEN TableConstructor
         ELSE IF token \in Strings THEN StringLiteral
         ELSE Error
    [] rule = "Arguments" ->
         IF token = ")" THEN <<>> ELSE ExpressionListUntil(1)
    [] rule = "FieldList" ->    \* arg: a field was read
         IF token = "}" \/ (arg = 1 /\ token = Eof) THEN <<>>
         ELSE Field(token, ahead) \o DoWith("FieldList", 1)
    [] rule = "FieldSep" ->
         IF token \in {",", ";"} THEN Mark \o Eat \o Complete("TableFieldSep") ELSE <<>>
    [] rule = "ParamList" ->
         IF token \in Names THEN Eat \o Do("MoreParams")
         ELSE IF token = "..." THEN Eat \o Do("VarargName")
         ELSE IF token = ")" THEN <<>>
         ELSE Error
    [] rule = "MoreParams" ->
         IF token = "," THEN Eat \o Do("ParamList") ELSE <<>>
    [] rule = "VarargName" ->
         IF token \in Names THEN Eat ELSE <<>>

ExpressionRules ==
  {"Subexpression", "BinaryOperators", "MoreExpressions", "NextExpression",
   "PrimaryExpression", "Suffixes", "CallArgs", "Arguments", "FieldList", "FieldSep",
   "ParamList", "MoreParams", "VarargName"}

-----------------------------------------------------------------------------
(* Statements. *)

\* Whether a token ends a block; ")" does when rightbrace holds.
BlockFollow(token, rightbrace) ==
  \/ token \in {"else", "elseif", "end", "until", Eof}
  \/ rightbrace /\ token = ")"

IfStatement ==
  Mark \o Do("TestThenBlock") \o Do("Alternatives") \o Check("end") \o Test(";")
       \o Complete("IfStatement")

WhileStatement ==
  Mark \o Check("while") \o Expression \o Check("do") \o Block \o Check("end") \o Test(";")
       \o Complete("WhileStatement")

DoStatement ==
  Mark \o Check("do") \o Block \o Check("end") \o Test(";") \o Complete("DoStatement")

ForStatement ==
  Mark \o Check("for") \o Do("ForHead") \o Test(";") \o Complete("ForStatement")

ForBody == Mark \o Check("do") \o Block \o Check("end") \o Complete("ForBody")

ForNumber ==
  Mark \o CheckName \o Check("=") \o Expression \o Check(",") \o Expression
       \o Do("ForStep") \o ForBody \o Complete("ForNumber")

ForList ==
  Mark \o Mark \o Check("name") \o Do("MoreNames") \o Complete("NameDefList")
       \o Check("in") \o ExpressionList \o ForBody \o Complete("ForList")

RepeatStatement ==
  Mark \o Check("repeat") \o Block \o Check("until") \o Expression \o Test(";")
       \o Complete("RepeatStatement")

FunctionStatement ==
  Mark \o Check("function")
       \o Mark \o Check("name") \o Do("FunctionName") \o Complete("FunctionNameExpression")
       \o FunctionBody \o Test(";") \o Complete("FunctionStatement")

LocalFunctionStatement ==
  Mark \o Check("local") \o Check("function") \o CheckName \o FunctionBody \o Test(";")
       \o Complete("LocalFunctionStatement")

LocalStatement ==
  Mark \o Check("local")
       \o Mark \o CheckName \o LocalAttribute \o Do("MoreLocals") \o Complete("NameDefList")
       \o Do("Initializer") \o Test(";") \o Complete("LocalStatement")

LabelStatement ==
  Mark \o Check("::") \o CheckName \o Check("::") \o Complete("LabelStatement")

ReturnStatement ==
  Mark \o Check("return") \o Do("Returned") \o Test(";") \o Complete("ReturnStatement")

BreakStatement == Mark \o Check("break") \o Test(";") \o Complete("BreakStatement")

GotoStatement == Mark \o Check("goto") \o CheckName \o Test(";") \o Complete("GotoStatement")

AssignmentOrCall == Mark \o SuffixedExpression \o Do("Assignment")

GlobalNameList == CheckName \o LocalAttribute \o Do("MoreGlobals")

\* With `global` as the current token and `ahead` after it.  Where TryGlobalStatement
\* answers false, ExpressionStatement reads an expression.
TryGlobalStatement(ahead) ==
  Mark \o
  CASE ahead = "*"        -> Eat \o Eat \o Test(";") \o Complete("GlobalStatement")
    [] ahead = "<"        -> Eat \o LocalAttribute \o Do("AttributedGlobals") \o Test(";")
                             \o Complete("GlobalStatement")
    [] ahead = "function" -> Eat \o Eat \o CheckName \o FunctionBody \o Test(";")
                             \o Complete("FunctionStatement") \o UndoLast
                             \o AssignmentOrCall
    [] ahead \in Names    -> Eat \o GlobalNameList \o Test(";") \o Complete("GlobalStatement")
    [] OTHER              -> Undo \o AssignmentOrCall

ExpressionStatement(token, ahead) ==
  IF token = "global" THEN TryGlobalStatement(ahead) ELSE AssignmentOrCall

Statement(token, ahead) ==
  CASE token = ";"        -> Mark \o Eat \o Complete("EmptyStatement")
    [] token = "if"       -> IfStatement
    [] token = "while"    -> WhileStatement
    [] token = "do"       -> DoStatement
    [] token = "for"      -> ForStatement
    [] token = "repeat"   -> RepeatStatement
    [] token = "function" -> FunctionStatement
    [] token = "local"    -> IF ahead = "function" THEN LocalFunctionStatement
                                                   ELSE LocalStatement
    [] token = "::"       -> LabelStatement
    [] token = "return"   -> ReturnStatement
    [] token = "break"    -> BreakStatement
    [] token = "goto"     -> GotoStatement
    [] OTHER              -> ExpressionStatement(token, ahead)

\* What a rule of the statements does at the token `token`.
StatementBody(rule, token, ahead) ==
  CASE rule = "StatementList" ->
         IF BlockFollow(token, TRUE) THEN <<>>
         ELSE Statement(token, ahead) \o Do("StatementList")
    [] rule = "TestThenBlock" ->
         (IF token \in {"if", "elseif"} THEN Eat ELSE <<>>)
         \o Expression \o Check("then") \o Block
    [] rule = "Alternatives" ->
         IF token = "elseif" THEN Do("TestThenBlock") \o Do("Alternatives")
         ELSE IF token = "else" THEN Eat \o Block ELSE <<>>
    [] rule = "ForHead" ->
         (IF token \in Names THEN <<>> ELSE Error)
         \o (IF ahead = "=" THEN ForNumber
             ELSE IF ahead \in {",", "in"} THEN ForList ELSE Error)
    [] rule = "ForStep" ->
         IF token = "," THEN Eat \o Expression ELSE <<>>
    [] rule = "MoreNames" ->
         IF token = "," THEN Eat \o Check("name") \o Do("MoreNames") ELSE <<>>
    [] rule = "FunctionName" ->
         IF token = "." THEN FieldSel \o Do("FunctionName")
         ELSE IF token = ":" THEN FieldSel ELSE <<>>
    [] rule = "MoreLocals" ->
         IF token = "," THEN Eat \o CheckName \o LocalAttribute \o Do("MoreLocals") ELSE <<>>
    [] rule = "Initializer" ->
         IF token = "=" THEN Eat \o ExpressionList ELSE <<>>
    [] rule = "MoreGlobals" ->
         IF token = "," THEN Eat \o GlobalNameList ELSE
         IF token = "=" THEN Eat \o ExpressionList ELSE <<>>
    [] rule = "AttributedGlobals" ->
         IF token \in Names THEN GlobalNameList
         ELSE IF token = "*" THEN Eat ELSE <<>>
    [] rule = "Returned" ->
         IF BlockFollow(token, FALSE) \/ token = ";" THEN <<>> ELSE ExpressionList
    [] rule = "Assignment" ->
         IF token \in {"=", ","}
         THEN Do("MoreTargets") \o Complete("VarList") \o Precede
              \o Check("=") \o ExpressionList \o Test(";") \o Complete("AssignStatement")
         ELSE Test(";") \o Complete("ExpressionStatement")
    [] rule = "MoreTargets" ->
         IF token = "," THEN Eat \o SuffixedExpression \o Do("MoreTargets") ELSE <<>>
    [] rule = "Attribute" ->
         IF token = "<" THEN Eat \o Do("AttributeName") ELSE Undo
    [] rule = "AttributeName" ->
         (IF token \in Names THEN Eat ELSE Error) \o Check(">")
         \o (IF token = "const" THEN <<>> ELSE Error) \o Complete("Attribute")

StatementRules ==
  {"StatementList", "TestThenBlock", "Alternatives", "ForHead", "ForStep", "MoreNames",
   "FunctionName", "MoreLocals", "Initializer", "MoreGlobals", "AttributedGlobals",
   "Returned", "Assignment", "MoreTargets", "Attribute", "AttributeName"}

\* The instructions there are.
Instructions ==
  [op : {"Mark", "Undo", "UndoLast", "Precede", "Eat", "Error"}, what : {"none"}, arg : {0}]
  \union [op : {"Complete"}, what : NodeKinds, arg : {0}]
  \union [op : {"Check", "Test"}, what : TokenKinds, arg : {0}]
  \union [op : {"Do"}, what : ExpressionRules \union StatementRules, arg : Nat]

Body(rule, arg, token, ahead) ==
  IF rule \in ExpressionRules THEN ExpressionBody(rule, arg, token, ahead)
  ELSE StatementBody(rule, token, ahead)

\* The rules whose body depends on the token after the current one.
LookingAhead(rule, token) ==
  \/ rule = "StatementList" /\ token \in {"local", "global"}
  \/ rule = "ForHead"
  \/ rule = "FieldList" /\ token \in Names
=============================================================================
