----------------------------- MODULE SourceTree -----------------------------
(***************************************************************************)
(* What the analyzers of the formatter read: the tree that the parser made *)
(* of a file, with the spelling and the lines that the parser does not     *)
(* look at, and the style.                                                 *)
(*                                                                         *)
(* A look is one way in which a file may have been typed:                  *)
(*   strings   whether its strings are "string" or "long string"           *)
(*   comments  whether its comments are "long comment" or "short comment"  *)
(*   line      the line of every token; no token spans several             *)
(***************************************************************************)
EXTENDS BuildTree

\* LineSpace: what to do with the line breaks in the source.
Fixed(n) == [type |-> "Fixed", space |-> n]

AtMost(n) == [type |-> "Max", space |-> n]

AtLeast(n) == [type |-> "Min", space |-> n]

Keep == [type |-> "Keep", space |-> 0]

\* LuaStyle, as far as tokens, spaces and line breaks depend on it, with its default values.
LuaStyle ==
  [table_separator_style                        |-> "Comma",
   trailing_table_separator                     |-> "Keep",
   call_arg_parentheses                         |-> "Keep",
   space_around_table_field_list                |-> TRUE,
   space_before_attribute                       |-> TRUE,
   space_before_function_open_parenthesis       |-> FALSE,
   space_before_function_call_open_parenthesis  |-> FALSE,
   space_before_closure_open_parenthesis        |-> FALSE,
   space_before_function_call_single_arg        |-> [string |-> "Always", table |-> "Always"],
   space_before_open_square_bracket             |-> FALSE,
   space_inside_function_call_parentheses       |-> FALSE,
   space_inside_function_param_list_parentheses |-> FALSE,
   space_inside_square_brackets                 |-> FALSE,
   space_around_table_append_operator           |-> FALSE,
   ignore_spaces_inside_function_call           |-> FALSE,
   space_before_inline_comment                  |-> [style |-> "Fixed", space |-> 1],
   space_around_math_operator                   |-> [other |-> TRUE, exponent |-> TRUE],
   space_after_comma                            |-> TRUE,
   space_after_comma_in_for_statement           |-> TRUE,
   space_around_concat_operator                 |-> "Always",
   space_around_logical_operator                |-> TRUE,
   space_around_assign_operator                 |-> "Always",
   line_space_after_if_statement                |-> Keep,
   line_space_after_do_statement                |-> Keep,
   line_space_after_while_statement             |-> Keep,
   line_space_after_repeat_statement            |-> Keep,
   line_space_after_for_statement               |-> Keep,
   line_space_after_local_or_assign_statement   |-> Keep,
   line_space_after_function_statement          |-> Fixed(2),
   line_space_after_expression_statement        |-> Keep,
   line_space_after_comment                     |-> Keep,
   line_space_around_block                      |-> Fixed(1),
   break_all_list_when_line_exceed              |-> FALSE,
   auto_collapse_lines                          |-> FALSE,
   break_before_braces                          |-> FALSE,
   break_table_list                             |-> "Smart",
   ignore_space_after_colon                     |-> FALSE,
   remove_call_expression_list_finish_comma     |-> FALSE,
   end_statement_with_semicolon                 |-> "Keep"]

\* Its options that are a LineSpace.
LineSpaceOptions ==
  {"line_space_after_if_statement", "line_space_after_do_statement",
   "line_space_after_while_statement", "line_space_after_repeat_statement",
   "line_space_after_for_statement", "line_space_after_local_or_assign_statement",
   "line_space_after_function_statement", "line_space_after_expression_statement",
   "line_space_after_comment", "line_space_around_block"}

-----------------------------------------------------------------------------
(* The tree of an accepted file. *)

\* The kind of token n.
Spelled(n, look) ==
  CASE tokens[n] = "string"    -> look.strings
    [] tokens[n] \in Comments -> look.comments
    [] OTHER                   -> tokens[n]

\* What the links of the tree tell apart.
Abstract(n) == IF entries[n].token = 0 THEN "node" ELSE "word"

SourceTree(look) ==
  LET t       == Tree
      Line(n) == IF entries[n].token = 0 THEN 0 ELSE look.line[entries[n].token]
      lines   == [n \in 1..t.size |-> Line(n)]
  IN [size |-> t.size, children |-> t.children, last |-> t.last, parent |-> t.parent,
      next |-> t.next, start |-> lines, end |-> lines,
      kind   |-> [n \in 1..t.size |-> Abstract(n)],
      syntax |-> [n \in 0..t.size |-> KindOf(n)],
      token  |-> [n \in 0..t.size |->
                    IF n = 0 \/ entries[n].token = 0 THEN "None"
                    ELSE Spelled(entries[n].token, look)]]

CommentSpelling == {"long comment", "short comment"}

Quotes == {"string", "long string"}

IsComment(t, i) == t.token[i] \in CommentSpelling

Parent(t, i) == t.syntax[Syntax!GetParent(t, i)]

TokenBefore(t, i) == t.token[Syntax!GetPrevToken(t, i)]

TokenAfter(t, i) == t.token[Syntax!GetNextToken(t, i)]

GetChildren(t, i) == IF i = 0 THEN <<>> ELSE t.children[i]

FirstOf(s) == IF s = <<>> THEN 0 ELSE Head(s)

GetChildTokens(t, i, kind) == SelectSeq(GetChildren(t, i), LAMBDA c : t.token[c] = kind)

GetChildToken(t, i, kind) == FirstOf(GetChildTokens(t, i, kind))

GetChildSyntaxNodes(t, i, kinds) ==
  SelectSeq(GetChildren(t, i), LAMBDA c : t.syntax[c] \in kinds)

GetChildSyntaxNode(t, i, kind) == FirstOf(GetChildSyntaxNodes(t, i, {kind}))

\* LuaSyntaxMultiKind::Expression.
Expressions ==
  {"SuffixedExpression", "ParExpression", "LiteralExpression", "StringLiteralExpression",
   "ClosureExpression", "UnaryExpression", "BinaryExpression", "TableExpression",
   "CallExpression", "IndexExpression", "NameExpression", "FunctionNameExpression"}

\* LuaSyntaxMultiKind::Statement; a GlobalStatement is none.
Statements ==
  {"EmptyStatement", "LocalStatement", "LocalFunctionStatement", "IfStatement",
   "WhileStatement", "DoStatement", "ForStatement", "RepeatStatement", "FunctionStatement",
   "LabelStatement", "BreakStatement", "ReturnStatement", "GotoStatement",
   "ExpressionStatement", "AssignStatement"}

GetExpressions(t, i) == GetChildSyntaxNodes(t, i, Expressions)

IsSingleLineNode(t, i) == i # 0 /\ Syntax!GetStartLine(t, i) = Syntax!GetEndLine(t, i)

\* The first token after i that is no comment, 0 when there is none.
GetNextTokenSkipComment(t, i) ==
  LET from  == Syntax!GetNextToken(t, i)
      after == {k \in Syntax!Tokens(t) : k >= from /\ ~IsComment(t, k)}
  IN IF from = 0 \/ after = {} THEN 0 ELSE Syntax!Least(after)

\* Whether the token after i begins on a later line.
BreaksAfter(t, i) ==
  LET after == Syntax!GetNextToken(t, i)
  IN after # 0 /\ Syntax!GetStartLine(t, after) > Syntax!GetEndLine(t, i)
=============================================================================
