----------------------------- MODULE LineBreaks -----------------------------
(***************************************************************************)
(* Where the formatter breaks lines (LineBreakAnalyzer).  It writes into   *)
(* one map, what follows a token, first in a pass over the tokens and then *)
(* in one over the nodes.  A later write replaces an earlier one; a mark   *)
(* not to break, of a list that is collapsed, does not.  Where nothing is  *)
(* written, a line break in the source stays.                              *)
(*                                                                         *)
(* No line reaches max_line_length, so that the breaks made only when a    *)
(* line may exceed it never happen.                                        *)
(***************************************************************************)
EXTENDS SourceTree

LOCAL INSTANCE SequencesExt

NotBreak == [type |-> "NotBreak", space |-> 0]

BreakAt(i, line, weak) == IF i = 0 THEN <<>> ELSE <<[at |-> i, line |-> line, weak |-> weak]>>

BreakAfter(t, i, line) == BreakAt(Syntax!GetLastToken(t, i), line, FALSE)

BreakBefore(t, i, line) == BreakAt(Syntax!GetPrevToken(t, i), line, FALSE)

MarkNotBreak(t, i) == BreakAt(Syntax!GetPrevToken(t, i), NotBreak, TRUE)

CancelBreakAfter(t, i) == BreakAfter(t, i, NotBreak)

\* Analyze, at token i.
TokenBreaks(t, s, i) ==
  CASE t.token[i] = "short comment" -> BreakAfter(t, i, Keep)
    [] /\ t.token[i] \in {"{", "}"} /\ s.break_before_braces
       /\ Parent(t, i) = "TableExpression"
       /\ ~IsSingleLineNode(t, Syntax!GetParent(t, i)) -> BreakBefore(t, i, Keep)
    [] OTHER -> <<>>

-----------------------------------------------------------------------------
(* Blocks. *)

AfterStatement(s, kind) ==
  CASE kind \in {"LocalStatement", "AssignStatement"} ->
                                       s.line_space_after_local_or_assign_statement
    [] kind = "IfStatement"         -> s.line_space_after_if_statement
    [] kind = "DoStatement"         -> s.line_space_after_do_statement
    [] kind = "WhileStatement"      -> s.line_space_after_while_statement
    [] kind = "RepeatStatement"     -> s.line_space_after_repeat_statement
    [] kind = "ForStatement"        -> s.line_space_after_for_statement
    [] kind = "FunctionStatement"   -> s.line_space_after_function_statement
    [] kind = "ExpressionStatement" -> s.line_space_after_expression_statement
    [] OTHER                        -> Keep

\* As StatementBreaks, whatever stands between the statement and the next one.
StatementBreaksLoose(t, s, i) ==
  BreakAfter(t, i, AfterStatement(s, t.syntax[i])) \o CancelBreakAfter(t, i)

\* Two statements with a semicolon between them may stay on one line.
StatementBreaks(t, s, i) ==
  LET sibling == Syntax!GetNextSibling(t, i)
  IN BreakAfter(t, i, AfterStatement(s, t.syntax[i]))
       \o (IF /\ GetChildToken(t, i, ";") # 0
              /\ Syntax!GetStartLine(t, sibling) = Syntax!GetEndLine(t, i)
           THEN CancelBreakAfter(t, i) ELSE <<>>)

\* After a comment or another token of a block.
LooseTokenBreaks(t, s, i) ==
  CASE t.token[i] = "long comment" /\ TokenAfter(t, i) = "short comment" -> <<>>
    [] IsComment(t, i) -> BreakAfter(t, i, s.line_space_after_comment)
    [] OTHER           -> BreakAfter(t, i, Fixed(1))

BlockBreaks(t, s, i) ==
  LET children == t.children[i]
      parent   == Syntax!GetParent(t, i)
      single   == IsSingleLineNode(t, parent)
      Within(c) == IF t.syntax[c] = "Token" THEN LooseTokenBreaks(t, s, c)
                   ELSE StatementBreaks(t, s, c)
  IN CASE single /\ Len(children) <= 1  -> <<>>
       [] ~single /\ Len(children) = 0 ->
            BreakBefore(t, GetChildToken(t, parent, "end"), AtMost(2))
       [] OTHER ->
            FlattenSeq([k \in DOMAIN children |-> Within(children[k])])
              \o BreakBefore(t, i, s.line_space_around_block)
              \o BreakAfter(t, i, s.line_space_around_block)

-----------------------------------------------------------------------------
(* Lists of parameters and tables. *)

\* The list has no comment of its own; that its text fits on a line is assumed.
CanCollapseLines(t, list) ==
  /\ Syntax!GetPrevToken(t, list) # 0
  /\ \A k \in DOMAIN GetChildren(t, list) : ~IsComment(t, GetChildren(t, list)[k])

CanBreakAll(t, list) == ~IsSingleLineNode(t, list)

ParamBreaks(t, s, list) ==
  LET names == SelectSeq(GetChildren(t, list), LAMBDA c : t.token[c] \in Names)
  IN CASE s.auto_collapse_lines /\ CanCollapseLines(t, list) ->
            FlattenSeq([k \in DOMAIN names |-> MarkNotBreak(t, names[k])])
       [] /\ s.break_all_list_when_line_exceed /\ CanBreakAll(t, list)
          /\ ~(s.auto_collapse_lines /\ CanCollapseLines(t, list)) ->
            FlattenSeq([k \in DOMAIN names |-> BreakBefore(t, names[k], Fixed(1))])
       [] OTHER -> <<>>

FieldList(t, table) == GetChildSyntaxNode(t, table, "TableFieldList")

Fields(t, table) == GetChildSyntaxNodes(t, FieldList(t, table), {"TableField"})

CollapsesTable(t, s, table) ==
  s.auto_collapse_lines /\ CanCollapseLines(t, FieldList(t, table))

\* A table with keys that is not on one line has every field on a line of its own.
BreaksTable(t, s, table) ==
  /\ s.break_table_list # "Never"
  /\ ~IsSingleLineNode(t, FieldList(t, table))
  /\ \/ s.break_all_list_when_line_exceed
     \/ /\ s.break_table_list = "Smart"
        /\ \E k \in DOMAIN Fields(t, table) : GetChildToken(t, Fields(t, table)[k], "=") # 0

\* AnalyzeTableExpr, without the tables in its fields.
TableBreaks(t, s, table) ==
  LET fields == Fields(t, table)
      open   == GetChildToken(t, table, "{")
      inside == Syntax!GetNextSibling(t, open)
      first  == IF IsComment(t, inside) THEN inside ELSE open
  IN CASE CollapsesTable(t, s, table) ->
            FlattenSeq([k \in DOMAIN fields |-> MarkNotBreak(t, fields[k])])
              \o MarkNotBreak(t, Syntax!GetNextToken(t, FieldList(t, table)))
       [] BreaksTable(t, s, table) /\ ~CollapsesTable(t, s, table) ->
            BreakAfter(t, first, Keep)
              \o FlattenSeq([k \in DOMAIN fields |-> BreakAfter(t, fields[k], Keep)])
       [] OTHER -> <<>>

\* The fields of a table whose expressions are analyzed too.
DescendsInto(t, s, table) ==
  /\ ~CollapsesTable(t, s, table)
  /\ s.break_table_list # "Never"
  /\ ~ /\ s.break_table_list = "Smart" /\ IsSingleLineNode(t, table)
       /\ Parent(t, Syntax!GetParent(t, table)) = "TableFieldList"

\* AnalyzeExpr: the tables that are met on the way down from expression i.
TablesIn(t, s, i) ==
  LET Below(list) == {list[k] : k \in DOMAIN list}
      Steps(n) ==
        CASE t.syntax[n] = "BinaryExpression" ->
               IF Len(GetExpressions(t, n)) = 2 THEN Below(GetExpressions(t, n)) ELSE {}
          [] t.syntax[n] = "UnaryExpression"    -> {FirstOf(GetExpressions(t, n))} \ {0}
          [] t.syntax[n] = "CallExpression"     ->
               Below(GetExpressions(t, GetChildSyntaxNode(t, n, "ExpressionList")))
          [] t.syntax[n] = "SuffixedExpression" -> Below(GetChildren(t, n))
          [] t.syntax[n] = "TableExpression" /\ DescendsInto(t, s, n) ->
               UNION {Below(GetExpressions(t, f)) : f \in Below(Fields(t, n))}
          [] OTHER -> {}
      Down[n \in 1..t.size] ==
        (IF t.syntax[n] = "TableExpression" THEN {n} ELSE {})
          \union UNION {Down[m] : m \in Steps(n)}
  IN Down[i]

\* The expressions of a statement that are analyzed.
Analyzed(t, i) ==
  CASE t.syntax[i] \in {"LocalStatement", "AssignStatement", "ReturnStatement"} ->
         GetExpressions(t, GetChildSyntaxNode(t, i, "ExpressionList"))
    [] t.syntax[i] = "ExpressionStatement" ->
         GetChildSyntaxNodes(t, i, {"SuffixedExpression"})
    [] OTHER -> <<>>

\* The tables are analyzed from the outermost one and the first one on.
ExpressionBreaks(t, s, i) ==
  LET tables == UNION {TablesIn(t, s, Analyzed(t, i)[k]) : k \in DOMAIN Analyzed(t, i)}
  IN FlattenSeq([n \in 1..t.size |-> IF n \in tables THEN TableBreaks(t, s, n) ELSE <<>>])

-----------------------------------------------------------------------------

\* ComplexAnalyze, at node i.
NodeBreaks(t, s, i) ==
  CASE t.syntax[i] = "Block"        -> BlockBreaks(t, s, i)
    [] t.syntax[i] = "FunctionBody" -> ParamBreaks(t, s, GetChildSyntaxNode(t, i, "ParamList"))
    [] Analyzed(t, i) # <<>>        -> ExpressionBreaks(t, s, i)
    [] OTHER                        -> <<>>

AllBreaks(t, s) ==
  FlattenSeq([i \in 1..t.size |-> TokenBreaks(t, s, i)])
    \o FlattenSeq([i \in 1..t.size |-> NodeBreaks(t, s, i)])

\* Query, when nothing but spaces was decided: the break after token i, "None" without one.
LineBreak(t, i, breaks) ==
  LET mine   == {k \in DOMAIN breaks : breaks[k].at = i}
      stands == {k \in mine : ~breaks[k].weak \/ \A m \in mine : m >= k}
      line   == breaks[Syntax!Greatest(stands)].line
      after  == Syntax!GetNextToken(t, i)
  IN CASE mine # {}         -> line
       [] BreaksAfter(t, i) -> Fixed(Syntax!GetStartLine(t, after) - Syntax!GetEndLine(t, i))
       [] OTHER             -> [type |-> "None", space |-> 0]
=============================================================================
