------------------------------- MODULE Layout -------------------------------
(***************************************************************************)
(* What the formatter writes for a whole file (FormatBuilder), from what   *)
(* the analyzers decide for each token: what stands before it, instead of  *)
(* it and after it, and the spaces or the line break that follow.  Each    *)
(* analyzer decides on its own; the writer puts their decisions together.  *)
(*                                                                         *)
(* The text is a sequence of pieces: tokens, each with the token of the    *)
(* source that it stands for, 0 for one that was added, and white space,   *)
(* line breaks with their number.  Indentation, alignment and the number   *)
(* of blanks only widen white space and are left out; no file has a format *)
(* comment.                                                                *)
(***************************************************************************)
EXTENDS Spacing, LineBreaks, Semicolons

CONSTANTS
  LaidOut,        \* the kinds of files, of Sources, that are typed on several lines
  LayoutStyles    \* the styles in which those are written

LOCAL INSTANCE SequencesExt

ASSUME LaidOutAssumption == LaidOut \subseteq Sources

Blank == {"space", "newline"}

Piece(kind, from) == <<[kind |-> kind, from |-> from]>>

WriteSpace(space) == IF space = 0 THEN <<>> ELSE Piece("space", 0)

WriteLine(lines) == IF lines = 0 THEN <<>> ELSE Piece("newline", lines)

\* As Lines, but with the lines of both tokens counted where a break is kept.
LinesOfBoth(t, i, line) ==
  LET after == Syntax!GetNextToken(t, i)
      gap   == Syntax!GetStartLine(t, after) - Syntax!GetEndLine(t, i) + 1
  IN CASE line.type = "Fixed"  -> line.space
       [] after = 0            -> 0
       [] ~BreaksAfter(t, i)   -> 1
       [] line.type = "Max"    -> IF gap > line.space THEN line.space ELSE gap
       [] OTHER                -> gap

\* The number of line breaks written after token i for a LineSpace.
Lines(t, i, line) ==
  LET after == Syntax!GetNextToken(t, i)
      gap   == Syntax!GetStartLine(t, after) - Syntax!GetEndLine(t, i)
  IN CASE line.type = "Fixed"   -> line.space
       [] after = 0             -> 0
       [] ~BreaksAfter(t, i)    -> 1
       [] line.type = "Max"     -> IF gap > line.space THEN line.space ELSE gap
       [] line.type = "Min"     -> IF gap < line.space THEN line.space ELSE gap
       [] OTHER                 -> gap

-----------------------------------------------------------------------------
(* DoResolve. *)

\* The decisions of all analyzers.
Decided(t, s) ==
  [marks   |-> Marks(t, s),
   spaces  |-> AllWrites(t, s),
   ignored |-> UNION {Ignored(t, s, i) : i \in 1..t.size},
   breaks  |-> AllBreaks(t, s),
   notes   |-> AllNotes(t, s)]

\* A semicolon that is added takes the place of what the tokens analysis adds.
After(d, i) ==
  IF Noted(d.notes, i) = "Add" THEN ";" ELSE Marked(d.marks, "after", i, Nothing)

Written(t, d, i) ==
  CASE Noted(d.notes, i) = "Remove"        -> Nothing
    [] Noted(d.notes, i) = "InsertNewLine" -> t.token[i]
    [] OTHER                               -> Marked(d.marks, "token", i, t.token[i])

OrNothing(kind, from) == IF kind = Nothing THEN <<>> ELSE Piece(kind, from)

Separator(t, s, d, i) ==
  LET line == LineBreak(t, i, d.breaks)
  IN IF line.type \in {"None", "NotBreak"}
     THEN WriteSpace(RightSpace(t, s, i, d.spaces, d.ignored))
     ELSE WriteLine(Lines(t, i, line))

DoResolve(t, s, d, i) ==
  OrNothing(Marked(d.marks, "before", i, Nothing), 0)
    \o (IF Noted(d.notes, i) = "InsertNewLine" THEN WriteLine(1) ELSE <<>>)
    \o OrNothing(Written(t, d, i), i)
    \o OrNothing(After(d, i), 0)
    \o Separator(t, s, d, i)

\* GetFormatResult: the text of the file, in the order of the tree.
GetFormatResult(t, s) ==
  LET d == Decided(t, s)
  IN FlattenSeq([i \in 1..t.size |->
       IF t.token[i] = "None" THEN <<>> ELSE DoResolve(t, s, d, i)])

-----------------------------------------------------------------------------
(* Ways to type a file. *)

\* Where a line must begin, and where it cannot.
Forced(comments) ==
  {k \in 2..Len(tokens) : \/ tokens[k] = "comment"
                          \/ comments = "short comment" /\ tokens[k - 1] \in Comments}

Joined == {k \in 2..Len(tokens) : tokens[k] = "inline"}

\* All on one line, every token on its own, or one break; lines are next to each other or
\* far apart.
Looks ==
  LET Breaks == {{}, 2..Len(tokens)} \union {{k} : k \in 2..Len(tokens)}
      Look(comments, begins, gap) ==
        [strings |-> "string", comments |-> comments,
         line |-> [k \in DOMAIN tokens |->
                     gap * Cardinality({b \in begins : b <= k})]]
      Begins(comments, breaks) == (breaks \union Forced(comments)) \ Joined
      Spellings == IF \E k \in DOMAIN tokens : tokens[k] \in Comments
                   THEN CommentSpelling ELSE {"long comment"}
  IN {Look(c, Begins(c, b), gap) :
        c \in {x \in Spellings : Forced(x) \cap Joined = {}}, b \in Breaks, gap \in {1, 3}}

-----------------------------------------------------------------------------
(* Properties. *)

Bare(text) == SelectSeq(text, LAMBDA p : p.kind \notin Blank \union CommentSpelling)

\* Every file of LaidOut in every look, with what is written for it in every style.
ForEveryText(Good(_, _, _)) ==
  Accepted /\ source \in LaidOut =>
    \A look \in Looks :
      LET t == SourceTree(look)
      IN \A s \in LayoutStyles : Good(t, s, GetFormatResult(t, s))

ReadsBack(t, s, text) ==
  \A k \in 1..(Len(text) - 1) :
    IF text[k].kind = "short comment"
    THEN \/ text[k + 1].kind = "newline"
         \/ k + 2 <= Len(text) /\ text[k + 1].kind = "space" /\ text[k + 2].kind = "newline"
    ELSE ~Fuses(text[k].kind, text[k + 1].kind)

\* The lexer finds in the text the tokens that were written: none runs together with the
\* next one, however white space, line breaks, marks and semicolons were decided, and
\* nothing is written behind a short comment on its line.
LayoutReadsBack == ForEveryText(ReadsBack)

Separators == {",", ";"}

\* The parentheses opened before position k of a text and not closed.
Depth(text, k) ==
  Cardinality({j \in 1..(k - 1) : text[j].kind = "("})
    - Cardinality({j \in 1..(k - 1) : text[j].kind = ")"})

KeepsCode(t, s, text) ==
  LET bare == Bare(text)
      Stays(i, kinds) == \E k \in DOMAIN text : text[k].from = i /\ text[k].kind \in kinds
      between == {i \in Syntax!Tokens(t) :
                    t.token[i] = "," \/ (t.token[i] = ";" /\ Parent(t, i) = "TableFieldSep")}
  IN /\ \A i \in Syntax!Tokens(t) :
          t.token[i] \notin Separators \union {"(", ")"} => Stays(i, {t.token[i]})
     /\ \A k \in 1..(Len(text) + 1) : Depth(text, k) >= 0
     /\ Depth(text, Len(text) + 1) = 0
     /\ \A i \in between :
          \/ Stays(i, Separators)
          \/ t.token[GetNextTokenSkipComment(t, i)] \in {"}", ")"}
     /\ \A k \in 1..(Len(bare) - 1) :
          bare[k].kind \in Separators /\ bare[k].from = 0
            => bare[k + 1].kind \notin Separators \union {")"}

\* Whatever is added, replaced or left out, the text has every other token and comment of
\* the file, its parentheses pair, no separator is missing between two fields or arguments,
\* and none is added in front of another one or of a closing parenthesis.
LayoutKeepsCode == ForEveryText(KeepsCode)

\* The tokens that may end an expression which a parenthesis would call.
CallableEnd == Names \union Quotes \union {")", "]", "}"}

\* The code token of the source before token i.
SourceBefore(t, i) ==
  LET before == {k \in Syntax!Tokens(t) : k < i /\ ~IsComment(t, k)}
  IN IF before = {} THEN "None" ELSE t.token[Syntax!Greatest(before)]

KeepsStatements(t, s, text) ==
  LET bare == Bare(text)
  IN s.end_statement_with_semicolon \notin {"SameLine", "ReplaceWithNewline"} =>
       \A k \in 2..Len(bare) :
         /\ bare[k].kind = "(" /\ bare[k].from # 0
         /\ bare[k - 1].kind \in CallableEnd
         => SourceBefore(t, bare[k].from) \in CallableEnd

\* A statement that begins with a parenthesis does not become the arguments of a call by
\* the statement before it: the semicolon between them is not left out by `never`.
LayoutKeepsStatements == ForEveryText(KeepsStatements)

\* The minimum of a LineSpace is applied only where the line already ended in the source.
UsesMinimum(s) == \E option \in LineSpaceOptions : s[option].type = "Min"

\* The text has the tokens of the file, each as it was, and no other.
SameTokens(t, text) ==
  /\ \A k \in DOMAIN text :
       text[k].kind \notin Blank => text[k].from # 0 /\ text[k].kind = t.token[text[k].from]
  /\ \A i \in Syntax!Tokens(t) : \E k \in DOMAIN text :
       text[k].kind \notin Blank /\ text[k].from = i

\* The line of the text on which each token of the file is.
LinesIn(t, text) ==
  LET Before[k \in 1..Len(text)] ==
        IF k = 1 THEN 0
        ELSE Before[k - 1] + (IF text[k - 1].kind = "newline" THEN text[k - 1].from ELSE 0)
      At(i) == {k \in DOMAIN text : text[k].kind \notin Blank /\ text[k].from = i}
  IN [i \in {k \in 1..t.size : At(k) # {}} |-> Before[Syntax!Least(At(i))]]

Settles(t, s, text) ==
  SameTokens(t, text) /\ ~UsesMinimum(s) =>
    LET lines == LinesIn(t, text)
        typed == [i \in 1..t.size |-> IF i \in DOMAIN lines THEN lines[i] ELSE 0]
        again == LinesIn(t, GetFormatResult([t EXCEPT !.start = typed, !.end = typed], s))
    IN \A i \in DOMAIN again : again[i] = lines[i]

\* A text that has been formatted has the lines that formatting gives it: where the style
\* leaves the tokens alone, a second pass moves none of them to another line, although the
\* rules ask what is on one line in the source and the first pass has changed that.
LayoutSettles == ForEveryText(Settles)
=============================================================================
