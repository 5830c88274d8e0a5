----------------------------- MODULE FormatDoc ------------------------------
(***************************************************************************)
(* FormatDocAnalyze: the ranges of a tree that the comments                *)
(* ---@format disable, disable-next and disable-next-line exempt from      *)
(* formatting.  The text of a comment is abstracted to the action it       *)
(* names (its kind), one action to a comment.                              *)
(***************************************************************************)
EXTENDS SyntaxTree

\* The next sibling of i that is not itself a short comment.
SkipShortComments(t, i) ==
  LET Skip[n \in 0..t.size] ==
        IF n # 0 /\ t.kind[n] \in ShortComment THEN Skip[GetNextSibling(t, n)] ELSE n
  IN Skip[GetNextSibling(t, i)]

\* disable: from the comment to the last token of the block that holds it.
DisableEnd(t, i) == GetLastToken(t, GetParent(t, i))

\* disable-next: to the end of the next sibling, if that is an inner node.
DisableNextEnd(t, i) == GetLastToken(t, SkipShortComments(t, i))

\* disable-next-line: walk along the siblings that start on the line after the comment,
\* and down into the last of them when it goes on to later lines.
NextLineEnd(t, i) ==
  LET line      == GetStartLine(t, i) + 1
      OnLine(n) == n # 0 /\ GetStartLine(t, n) = line
      Walk[n \in 0..t.size] ==
        IF ~OnLine(n) THEN n
        ELSE IF GetEndLine(t, n) > line THEN Walk[GetFirstChild(t, n)]
        ELSE IF OnLine(GetNextSibling(t, n)) THEN Walk[GetNextSibling(t, n)]
        ELSE n
  IN Walk[GetNextSibling(t, i)]

\* The comments for which AnalyzeDocFormat reaches AddIgnoreRange.
IgnoreStarts(t) ==
  {i \in Indexes(t) :
     \/ t.kind[i] = "disable"
     \/ t.kind[i] = "disable-next" /\ IsNode(t, SkipShortComments(t, i))
     \/ t.kind[i] = "disable-next-line" /\ NextLineEnd(t, i) # 0}

IgnoreEnd(t, i) ==
  CASE t.kind[i] = "disable"           -> DisableEnd(t, i)
    [] t.kind[i] = "disable-next"      -> DisableNextEnd(t, i)
    [] t.kind[i] = "disable-next-line" -> GetLastToken(t, NextLineEnd(t, i))

\* _ignores: the ignored range that starts at each of those comments.
Ignores(t) == [i \in IgnoreStarts(t) |-> [start |-> i, end |-> IgnoreEnd(t, i)]]

\* Ranges I of the tree t that hold their comment and lie apart from one another.  The
\* analysis does not see to it: a disable-next inside a disabled block breaks it.
RangesApart(t, I) ==
  /\ DOMAIN I \subseteq Indexes(t)
  /\ \A i \in DOMAIN I : I[i] \in [start : {i}, end : i..t.size]
  /\ \A i, j \in DOMAIN I : i < j => I[i].end < j
=============================================================================
