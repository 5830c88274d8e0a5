--------------------------- MODULE TokenAnalyzer ----------------------------
(***************************************************************************)
(* Which tokens the formatter writes otherwise than they are in the source *)
(* (TokenAnalyzer): the separators of table fields and the parentheses     *)
(* around the only argument of a call, where that is a string or a table.  *)
(* A mark says what is written before a token, instead of it or after it;  *)
(* of two marks for the same place the later one stays.                    *)
(***************************************************************************)
EXTENDS SourceTree

LOCAL INSTANCE SequencesExt

MarkAs(place, i, as) == <<[place |-> place, at |-> i, as |-> as]>>

MarkPrev(i, as) == MarkAs("before", i, as)

MarkToken(i, as) == MarkAs("token", i, as)

MarkNext(i, as) == MarkAs("after", i, as)

Nothing == "nothing"

-----------------------------------------------------------------------------
(* Tables. *)

FieldSep(t, field) == GetChildSyntaxNode(t, field, "TableFieldSep")

\* The separator that a field without one is given, whatever comment ends the field.
TableFieldAddSep(t, s, field) ==
  LET end   == Syntax!GetLastToken(t, field)
      last  == IF IsComment(t, end) THEN Syntax!GetPrevToken(t, end) ELSE end
      keyed == GetChildToken(t, field, "=") # 0
  IN IF FieldSep(t, field) # 0 THEN <<>>
     ELSE MarkNext(last, IF \/ s.table_separator_style = "Semicolon"
                            \/ s.table_separator_style = "OnlyKVColon" /\ keyed
                         THEN ";" ELSE ",")

\* The separator of a field, replaced by the one that the style asks for.
SeparatorStyle(t, s, field) ==
  LET comma     == GetChildToken(t, FieldSep(t, field), ",")
      semicolon == GetChildToken(t, FieldSep(t, field), ";")
      keyed     == GetChildToken(t, field, "=") # 0
      AsComma   == IF semicolon = 0 THEN <<>> ELSE MarkToken(semicolon, ",")
      AsColon   == IF comma = 0 THEN <<>> ELSE MarkToken(comma, ";")
  IN CASE s.table_separator_style = "Semicolon"   -> AsColon
       [] s.table_separator_style = "Comma"       -> AsComma
       [] s.table_separator_style = "OnlyKVColon" -> IF keyed THEN AsColon ELSE AsComma
       [] OTHER                                   -> <<>>

\* The separator of the last field.
TrailingSeparator(t, s, field) ==
  LET close   == GetNextTokenSkipComment(t, field)
      Without == MarkToken(Syntax!GetFirstToken(t, FieldSep(t, field)), Nothing)
      closed  == Syntax!GetEndLine(t, Syntax!GetParent(t, field)) = Syntax!GetStartLine(t, close)
  IN IF t.token[close] # "}" THEN <<>>
     ELSE CASE s.trailing_table_separator = "Never"  -> Without
            [] s.trailing_table_separator = "Always" -> TableFieldAddSep(t, s, field)
            [] s.trailing_table_separator = "Smart"  ->
                 IF closed THEN Without ELSE TableFieldAddSep(t, s, field)
            [] OTHER -> <<>>

AnalyzeTableField(t, s, field) == SeparatorStyle(t, s, field) \o TrailingSeparator(t, s, field)

-----------------------------------------------------------------------------
(* Calls. *)

\* The string or table that is the only argument of a call, 0 when there is none.
SingleArg(t, call) ==
  LET bare   == GetChildSyntaxNodes(t, call, {"StringLiteralExpression", "TableExpression"})
      listed == GetExpressions(t, GetChildSyntaxNode(t, call, "ExpressionList"))
  IN IF bare # <<>> THEN Head(bare)
     ELSE IF /\ Len(listed) = 1
             /\ t.syntax[listed[1]] \in {"StringLiteralExpression", "TableExpression"}
     THEN listed[1] ELSE 0

\* Whether the style takes the parentheses of a call away.
RemovesParentheses(t, s, call) ==
  LET arg == t.syntax[SingleArg(t, call)]
  IN /\ SingleArg(t, call) # 0 /\ GetChildToken(t, call, "(") # 0
     /\ \/ s.call_arg_parentheses = "Remove"
        \/ s.call_arg_parentheses = "RemoveStringOnly" /\ arg = "StringLiteralExpression"
        \/ s.call_arg_parentheses = "RemoveTableOnly" /\ arg = "TableExpression"

\* Whether the style puts parentheses around the argument of a call.
AddsParentheses(t, s, call) ==
  /\ s.call_arg_parentheses = "Always"
  /\ SingleArg(t, call) # 0 /\ GetChildToken(t, call, "(") = 0

\* As AnalyzeCallExpression, with the closing parenthesis left where it is.
AnalyzeCallExpressionHalf(t, s, call) ==
  IF RemovesParentheses(t, s, call) THEN MarkToken(GetChildToken(t, call, "("), Nothing)
  ELSE <<>>

AnalyzeCallExpression(t, s, call) ==
  CASE RemovesParentheses(t, s, call) ->
         MarkToken(GetChildToken(t, call, "("), Nothing)
           \o MarkToken(GetChildToken(t, call, ")"), Nothing)
    [] AddsParentheses(t, s, call) ->
         LET arg   == SingleArg(t, call)
             first == Syntax!GetFirstToken(t, arg)
             last  == IF t.syntax[arg] = "TableExpression" THEN Syntax!GetLastToken(t, arg)
                      ELSE first
         IN MarkPrev(first, "(") \o MarkNext(last, ")")
    [] OTHER -> <<>>

\* The comma after the last argument.
FinishComma(t, s, call) ==
  LET list == GetChildren(t, GetChildSyntaxNode(t, call, "ExpressionList"))
  IN IF /\ s.remove_call_expression_list_finish_comma
        /\ list # <<>> /\ t.token[list[Len(list)]] = ","
     THEN MarkToken(list[Len(list)], Nothing) ELSE <<>>

-----------------------------------------------------------------------------

Marks(t, s) ==
  FlattenSeq([i \in 1..t.size |->
    CASE t.syntax[i] = "TableField"     -> AnalyzeTableField(t, s, i)
      [] t.syntax[i] = "CallExpression" -> AnalyzeCallExpression(t, s, i) \o FinishComma(t, s, i)
      [] OTHER                          -> <<>>])

\* What is written at a place of token i, `as` when nothing is marked.
Marked(made, place, i, as) ==
  LET mine == {k \in DOMAIN made : made[k].place = place /\ made[k].at = i}
  IN IF mine = {} THEN as ELSE made[Syntax!Greatest(mine)].as
=============================================================================
