----------------------------- MODULE Semicolons -----------------------------
(***************************************************************************)
(* The semicolons at the ends of statements (SemicolonAnalyzer).  It goes  *)
(* over the statements and notes for a token that a semicolon is written   *)
(* after it, that it is left out, or that a line is begun before it; the   *)
(* last note for a token stays.                                            *)
(***************************************************************************)
EXTENDS SourceTree

LOCAL INSTANCE SequencesExt

Note(i, do) == IF i = 0 THEN <<>> ELSE <<[at |-> i, do |-> do]>>

GetLastNonCommentToken(t, i) ==
  LET last == Syntax!GetLastToken(t, i)
  IN IF IsComment(t, last) THEN Syntax!GetPrevToken(t, last) ELSE last

EndsWithSemicolon(t, i) == t.token[GetLastNonCommentToken(t, i)] = ";"

ContainsSemicolon(t, i) == GetChildToken(t, i, ";") # 0

AddSemicolon(t, i) == Note(GetLastNonCommentToken(t, i), "Add")

RemoveSemicolon(t, i) == Note(GetLastNonCommentToken(t, i), "Remove")

InsertNewLineBeforeNextNode(t, i) ==
  LET after == GetNextTokenSkipComment(t, i)
  IN IF after # 0 /\ Syntax!GetStartLine(t, after) = Syntax!GetEndLine(t, i)
     THEN Note(after, "InsertNewLine") ELSE <<>>

IsLastStmtOfLine(t, i) ==
  LET after == Syntax!GetNextToken(t, i)
  IN after # 0 => Syntax!GetEndLine(t, i) # Syntax!GetStartLine(t, after)

\* As CanCorrectRemoveSemicolon, without regard to what comes next.
CanRemoveSemicolonBlindly(t, i) == EndsWithSemicolon(t, i)

\* Not when the next token is on the same line or might continue the statement.
CanCorrectRemoveSemicolon(t, i) ==
  LET after == Syntax!GetNextToken(t, GetLastNonCommentToken(t, i))
  IN /\ EndsWithSemicolon(t, i)
     /\ Syntax!GetEndLine(t, i) # Syntax!GetStartLine(t, after)
     /\ t.token[after] \notin {"{", "("}

Notes(t, s, i) ==
  LET option == s.end_statement_with_semicolon
  IN CASE option = "Always" /\ t.syntax[i] # "LabelStatement" /\ ~EndsWithSemicolon(t, i) ->
            AddSemicolon(t, i)
       [] option = "ReplaceWithNewline" /\ ContainsSemicolon(t, i) /\ EndsWithSemicolon(t, i) ->
            RemoveSemicolon(t, i) \o InsertNewLineBeforeNextNode(t, i)
       [] option = "SameLine" /\ EndsWithSemicolon(t, i) /\ IsLastStmtOfLine(t, i) ->
            RemoveSemicolon(t, i)
       [] option = "Never" /\ CanCorrectRemoveSemicolon(t, i) -> RemoveSemicolon(t, i)
       [] OTHER -> <<>>

AllNotes(t, s) ==
  FlattenSeq([i \in 1..t.size |-> IF t.syntax[i] \in Statements THEN Notes(t, s, i) ELSE <<>>])

\* What is noted for token i.
Noted(notes, i) ==
  LET mine == {k \in DOMAIN notes : notes[k].at = i}
  IN IF mine = {} THEN "None" ELSE notes[Syntax!Greatest(mine)].do
=============================================================================
