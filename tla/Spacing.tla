------------------------------ MODULE Spacing -------------------------------
(***************************************************************************)
(* How many spaces the formatter writes between two tokens on one line     *)
(* (SpaceAnalyzer).  The analyzers write into one map, space to the right  *)
(* of a token, in several passes: over the tokens, over the arguments of   *)
(* calls, over the nodes, over the blocks.  A later write replaces an      *)
(* earlier one unless that had a higher priority.  What nobody decides     *)
(* stays as it is in the source.                                           *)
(***************************************************************************)
EXTENDS TokenAnalyzer

CONSTANT Styles

LOCAL INSTANCE SequencesExt

-----------------------------------------------------------------------------
(* What the analyzers write. *)

Bit(option) == IF option THEN 1 ELSE 0

Write(i, space) == <<[at |-> i, space |-> space, first |-> FALSE]>>

SpaceLeft(t, i, space) == Write(Syntax!GetPrevToken(t, i), space)

SpaceRight(t, i, space) == Write(Syntax!GetLastToken(t, i), space)

SpaceAround(t, i, space) == SpaceLeft(t, i, space) \o SpaceRight(t, i, space)

SpaceInside(t, open, close, space) == SpaceRight(t, open, space) \o SpaceLeft(t, close, space)

\* Mutant: nothing is special in front of the operator.
StyledOperatorBare(t, i, style, guarded) ==
  SpaceAround(t, i, Bit(style = "Always"))

\* An operator whose style is one of three; after the tokens `guarded` none is one.
StyledOperator(t, i, style, guarded) ==
  LET apart == Bit(TokenBefore(t, i) = guarded)
  IN CASE style = "Always"      -> SpaceAround(t, i, 1)
       [] style = "None"        -> SpaceAround(t, i, apart)
       [] style = "NoSpaceAsym" -> SpaceLeft(t, i, apart) \o SpaceRight(t, i, 0)

BeforeComment(t, s, i, gap) ==
  LET option == s.space_before_inline_comment
  IN [at    |-> Syntax!GetPrevToken(t, i),
      space |-> IF option.style = "Fixed" THEN option.space ELSE gap,
      first |-> TRUE]

\* Analyze, at token i; `gap` is the space that is left of it in the source.
TokenWrites(t, s, i, gap) ==
  LET kind   == t.token[i]
      binary == Parent(t, i) = "BinaryExpression"
      math   == Bit(s.space_around_math_operator.other)
      logic  == Bit(s.space_around_logical_operator)
  IN CASE kind \in {"+", "*", "/", "%", "&", "<<", ">>", "//"} -> SpaceAround(t, i, math)
       [] kind \in {"-", "~"} ->
            IF binary THEN SpaceAround(t, i, math)
            ELSE SpaceRight(t, i, Bit(t.syntax[Syntax!GetNextSibling(t, i)] = "UnaryExpression"))
       [] kind = "^" -> SpaceAround(t, i, Bit(s.space_around_math_operator.exponent))
       [] kind = ".." -> StyledOperator(t, i, s.space_around_concat_operator, "number")
       [] kind = "=" -> StyledOperator(t, i, s.space_around_assign_operator, ">")
       [] kind \in {">=", "<=", "~=", "=="} -> SpaceAround(t, i, logic)
       [] kind \in {"<", ">"} ->
            IF binary THEN SpaceAround(t, i, logic)
            ELSE IF kind = "<" THEN SpaceRight(t, i, 0) ELSE SpaceLeft(t, i, 0)
       [] kind = ")" -> SpaceLeft(t, i, 0)
       [] kind \in {"and", "or", "in", "then", "do", "until", "while"} -> SpaceAround(t, i, 1)
       [] kind \in {"not", "if", "local", "elseif", "return", "goto", "for", "else",
                    "function", "end"} -> SpaceRight(t, i, 1)
       [] kind = "," ->
            SpaceLeft(t, i, 0) \o SpaceRight(t, i, Bit(s.space_after_comma))
       [] kind = ";" -> SpaceLeft(t, i, 0) \o SpaceRight(t, i, 1)
       [] kind \in {".", ":", "]"} -> SpaceAround(t, i, 0)
       [] kind = "[" ->
            IF TokenBefore(t, i) \in {",", ";"} THEN SpaceRight(t, i, 0) ELSE SpaceAround(t, i, 0)
       [] kind = "(" -> SpaceRight(t, i, 0)
       [] kind \in CommentSpelling -> <<BeforeComment(t, s, i, gap)>> \o SpaceRight(t, i, 1)
       [] kind = "..." /\ TokenAfter(t, i) \in Names -> SpaceRight(t, i, 0)
       [] OTHER -> <<>>

\* The style of a call whose only argument is a string or a table without parentheses.
SingleArgStyle(t, s, i) ==
  IF t.token[Syntax!GetFirstToken(t, i)] \in Quotes
  THEN s.space_before_function_call_single_arg.string
  ELSE s.space_before_function_call_single_arg.table

FunctionCallSingleArgSpace(t, s, i) ==
  LET first == Syntax!GetFirstToken(t, i)
  IN CASE SingleArgStyle(t, s, i) = "None"   -> SpaceLeft(t, first, 0)
       [] SingleArgStyle(t, s, i) = "Always" -> SpaceLeft(t, first, 1)
       [] SingleArgStyle(t, s, i) = "Keep"   -> <<>>

\* Parentheses with something between them, when the style has spaces inside.
Padded(t, i, open, option) ==
  IF option /\ TokenAfter(t, open) # ")"
  THEN SpaceInside(t, open, GetChildToken(t, i, ")"), 1) ELSE <<>>

\* A call to which TokenAnalyzer adds no parentheses: it takes them away or keeps them.
AddsNone(t, s, i) ==
  /\ t.syntax[i] = "CallExpression" /\ s.call_arg_parentheses # "Keep"
  /\ SingleArg(t, i) # 0 /\ ~AddsParentheses(t, s, i)

\* What TokenAnalyzer writes for a call.
ArgumentWrites(t, s, i) ==
  LET first == Syntax!GetFirstToken(t, SingleArg(t, i))
  IN IF AddsNone(t, s, i) THEN FunctionCallSingleArgSpace(t, s, i)
     ELSE IF t.syntax[i] = "CallExpression" /\ AddsParentheses(t, s, i)
     THEN <<[at |-> Syntax!GetPrevToken(t, first), space |-> 0, first |-> TRUE]>>
     ELSE <<>>

CallWrites(t, s, i) ==
  LET open  == GetChildToken(t, i, "(")
      apart == \/ TokenBefore(t, open) \in {"string", "}"}
               \/ s.space_before_function_call_open_parenthesis
  IN IF open = 0 THEN FunctionCallSingleArgSpace(t, s, i)
     ELSE Padded(t, i, open, s.space_inside_function_call_parentheses)
            \o (IF RemovesParentheses(t, s, i) /\ ~apart THEN <<>>
                ELSE SpaceLeft(t, open, Bit(apart)))

TableWrites(t, s, i) ==
  LET open == GetChildToken(t, i, "{")
  IN SpaceInside(t, open, GetChildToken(t, i, "}"),
                 Bit(TokenAfter(t, open) # "}" /\ s.space_around_table_field_list))

\* The plus of t[#t + 1], 0 when index i is no such expression.
AppendOperator(t, i) ==
  LET sum   == GetChildSyntaxNode(t, i, "BinaryExpression")
      exprs == GetExpressions(t, sum)
  IN IF /\ Len(exprs) = 2
        /\ t.syntax[exprs[1]] = "UnaryExpression" /\ GetChildToken(t, exprs[1], "#") # 0
        /\ t.syntax[exprs[2]] = "LiteralExpression"
        /\ t.token[Syntax!GetFirstToken(t, exprs[2])] = "number"
     THEN GetChildToken(t, sum, "+") ELSE 0

IndexWrites(t, s, i) ==
  LET open  == GetChildToken(t, i, "[")
      close == GetChildToken(t, i, "]")
      apart == \/ s.space_inside_square_brackets
               \/ {TokenAfter(t, open), TokenBefore(t, close)} \cap {"long string", "long comment"} # {}
  IN IF open = 0 \/ close = 0 THEN <<>>
     ELSE (IF s.space_before_open_square_bracket THEN SpaceLeft(t, open, 1) ELSE <<>>)
            \o (IF apart THEN SpaceInside(t, open, close, 1) ELSE <<>>)
            \o (IF s.space_around_table_append_operator
                THEN SpaceAround(t, AppendOperator(t, i), 0) ELSE <<>>)

FunctionBodyWrites(t, s, i) ==
  LET open == GetChildToken(t, i, "(")
  IN SpaceLeft(t, open,
               Bit(IF Parent(t, i) = "ClosureExpression"
                   THEN s.space_before_closure_open_parenthesis
                   ELSE s.space_before_function_open_parenthesis))
       \o Padded(t, i, open, s.space_inside_function_param_list_parentheses)

\* The commas of a for statement: its own, or those of its two lists.
ForCommas(t, i) ==
  IF t.syntax[i] = "ForNumber" THEN GetChildTokens(t, i, ",")
  ELSE GetChildTokens(t, GetChildSyntaxNode(t, i, "NameDefList"), ",")
         \o GetChildTokens(t, GetChildSyntaxNode(t, i, "ExpressionList"), ",")

ForWrites(t, s, i) ==
  IF s.space_after_comma_in_for_statement THEN <<>>
  ELSE [k \in DOMAIN ForCommas(t, i) |-> SpaceRight(t, ForCommas(t, i)[k], 0)[1]]

\* ComplexAnalyze, at node i.
NodeWrites(t, s, i) ==
  LET kind == t.syntax[i]
  IN CASE kind = "CallExpression"  -> CallWrites(t, s, i)
       [] kind = "TableExpression" -> TableWrites(t, s, i)
       [] kind = "IndexExpression" -> IndexWrites(t, s, i)
       [] kind = "Attribute"       -> SpaceLeft(t, i, Bit(s.space_before_attribute))
       [] kind = "GlobalStatement" ->
            IF Len(t.children[i]) > 1 /\ t.syntax[t.children[i][2]] = "Attribute"
            THEN SpaceRight(t, t.children[i][2], 1) ELSE <<>>
       [] kind = "FunctionBody"    -> FunctionBodyWrites(t, s, i)
       [] kind \in {"ForNumber", "ForList"} -> ForWrites(t, s, i)
       [] OTHER -> <<>>

\* LineBreakAnalyzer on a block of at most one statement, on one line with its parent.
BlockWrites(t, i) ==
  IF /\ t.syntax[i] = "Block" /\ Len(t.children[i]) <= 1
     /\ IsSingleLineNode(t, Syntax!GetParent(t, i))
  THEN SpaceAround(t, i, 1) ELSE <<>>

\* The tokens whose right side is left as it is.  A call whose argument has parentheses
\* keeps that of the parenthesis, when TokenAnalyzer comes to it.
IgnoredOfCall(t, s, i) ==
  LET bare == GetChildToken(t, i, "(") = 0
      kept == (bare \/ AddsNone(t, s, i)) /\ SingleArgStyle(t, s, i) = "Keep"
  IN (IF kept THEN {Syntax!GetFirstToken(t, i)} ELSE {})
       \union (IF ~bare /\ s.ignore_spaces_inside_function_call
               THEN ToSet(GetChildTokens(t, GetChildSyntaxNode(t, i, "ExpressionList"), ","))
               ELSE {})

Ignored(t, s, i) ==
  CASE t.syntax[i] = "CallExpression" -> IgnoredOfCall(t, s, i)
    [] t.syntax[i] = "IndexExpression" ->
         IF s.ignore_space_after_colon THEN ToSet(GetChildTokens(t, i, ":")) ELSE {}
    [] OTHER -> {}

-----------------------------------------------------------------------------
(* What the lexer makes of two tokens with nothing between them. *)

IsWord(kind) ==
  kind \in Names \union {"and", "break", "do", "else", "elseif", "end", "false", "for",
                         "function", "goto", "if", "in", "local", "nil", "not", "or",
                         "repeat", "return", "then", "true", "until", "while", "number"}

\* The lexer reads on past the end of a token while what follows makes a longer one.  A
\* number may begin or end with a dot, and a short comment goes on to the end of its line.
Fuses(left, right) ==
  \/ IsWord(left) /\ IsWord(right)
  \/ left = "number" /\ right \in {".", "..", "..."}
  \/ left \in {".", ".."} /\ right \in {".", "..", "...", "number"}
  \/ left = "short comment"
  \/ left = "-" /\ right \in {"-"} \union CommentSpelling
  \/ left = "[" /\ right \in {"[", "=", "==", "long string"}
  \/ left \in {"=", "<", ">", "~"} /\ right \in {"=", "=="}
  \/ left = "<" /\ right \in {"<", "<<", "<="}
  \/ left = ">" /\ right \in {">", ">>", ">="}
  \/ left = "/" /\ right \in {"/", "//"}
  \/ left = ":" /\ right \in {":", "::"}

\* The narrowest source: a space only where there must be one, or the end of a line.
SourceGap(t, i) == Bit(Fuses(t.token[i], TokenAfter(t, i)) \/ BreaksAfter(t, i))

AllWrites(t, s) ==
  LET Each(Writes(_)) == FlattenSeq([i \in 1..t.size |-> Writes(i)])
  IN Each(LAMBDA i : TokenWrites(t, s, i, SourceGap(t, Syntax!GetPrevToken(t, i))))
       \o Each(LAMBDA i : ArgumentWrites(t, s, i))
       \o Each(LAMBDA i : NodeWrites(t, s, i))
       \o Each(LAMBDA i : BlockWrites(t, i))

\* ProcessSpace: of the writes for token i the last of those with the highest priority.
RightSpace(t, s, i, writes, ignored) ==
  LET mine   == {k \in DOMAIN writes : writes[k].at = i}
      urgent == {k \in mine : writes[k].first}
      last   == Syntax!Greatest(IF urgent = {} THEN mine ELSE urgent)
  IN IF i \in ignored \/ mine = {} THEN SourceGap(t, i) ELSE writes[last].space

Glued(t, s) ==
  LET writes  == AllWrites(t, s)
      ignored == UNION {Ignored(t, s, i) : i \in 1..t.size}
  IN {i \in 1..t.size :
        /\ t.token[i] # "None" /\ Fuses(t.token[i], TokenAfter(t, i))
        /\ RightSpace(t, s, i, writes, ignored) = 0}

-----------------------------------------------------------------------------
(* Properties. *)

OneLine(strings) ==
  [strings |-> strings, comments |-> "long comment", line |-> [k \in DOMAIN tokens |-> 0]]

\* In every style of Styles, two tokens that would run together to other tokens are written
\* with a space between them: the formatter changes the blanks of a program and not its
\* meaning.  Styles without spaces around arithmetic operators do not have this property.
TokensApart ==
  Accepted =>
    \A strings \in Quotes :
      LET t == SourceTree(OneLine(strings)) IN \A s \in Styles : Glued(t, s) = {}
=============================================================================
