----------------------------- MODULE LuaSource ------------------------------
(***************************************************************************)
(* The text of a file and the table of its lines (LuaSource, TextReader).  *)
(* The lexer fills the table while it reads; GetLine looks an offset up by *)
(* halving it.  Offsets and lines count from 0, as in the code.            *)
(*                                                                         *)
(* A text is a sequence of characters.  Bytes from 0x80 on are one         *)
(* character: those of UTF-8 are letters to the lexer, all alike.          *)
(***************************************************************************)
EXTENDS Integers, Sequences

CONSTANT Files   \* records [text, nonStandard, cLike]: a text and the options of its lexer

EOZ == "end of text"

ASSUME FilesAssumption ==
  \A f \in Files :
    f.text \in Seq(STRING \ {EOZ}) /\ f.nonStandard \in BOOLEAN /\ f.cLike \in BOOLEAN

VARIABLES
  file,        \* the file that is read
  lines,       \* _lineOffsetVec: where the lines begin
  linenumber,  \* _linenumber, of the source and of its lexer
  lineState,   \* _lineState: which line breaks were met
  search       \* the local variables of GetLine

lineVars == <<lines, linenumber, lineState>>

text == file.text

Size == Len(text)

CharAt(p) == IF p < Size THEN text[p + 1] ELSE EOZ

LineOffset(l) == lines[l + 1]

NewLines == {"\n", "\r"}

\* LuaSource::SetEndOfLineState.
EndOfLineAfter(endOfLine) ==
  IF lineState \in {"UNKNOWN", endOfLine} THEN endOfLine ELSE "MIX"

-----------------------------------------------------------------------------

(***************************************************************************)
(* What a reader does: where it is, and what of the text it has saved      *)
(* since Lex began; `end` is the last character saved.                     *)
(***************************************************************************)
StartOfText == [pos |-> 0, saved |-> FALSE, start |-> 0, end |-> 0]

\* As ResetBuffer, with what was saved kept.
ResetNothing(r) == r

ResetBuffer(r) == [StartOfText EXCEPT !.pos = r.pos]

Current(r) == CharAt(r.pos)

NextChar(r) == [r EXCEPT !.pos = @ + 1]

\* SaveAndNext until the reader is at q.
SaveTo(r, q) ==
  IF q = r.pos THEN r
  ELSE [pos |-> q, saved |-> TRUE, start |-> IF r.saved THEN r.start ELSE r.pos, end |-> q - 1]

SaveAndNext(r) == SaveTo(r, r.pos + 1)

Save(r) == [SaveAndNext(r) EXCEPT !.pos = r.pos]

\* Where the characters of a set that are at p end.
RunEnd(p, chars) ==
  CHOOSE q \in p..Size :
    (\A k \in p..(q - 1) : CharAt(k) \in chars) /\ CharAt(q) \notin chars

Eat(r, chars) == SaveTo(r, RunEnd(r.pos, chars))

CheckNext1(r, ch) == IF Current(r) = ch THEN SaveAndNext(r) ELSE r

-----------------------------------------------------------------------------

\* A line feed and a carriage return next to each other are one line break.
IsPair(p) == CharAt(p + 1) \in NewLines /\ CharAt(p + 1) # CharAt(p)

\* As AfterBreak, without the other half of a pair.
AfterHalf(r) == [r EXCEPT !.pos = @ + 1]

AfterBreak(r) == [r EXCEPT !.pos = @ + (IF IsPair(r.pos) THEN 2 ELSE 1)]

\* LuaLexer::IncLinenumber with the reader at a line break, and LuaSource::PushLine.
IncLinenumber(r) ==
  /\ linenumber' = linenumber + 1
  /\ lines' = Append(lines, AfterBreak(r).pos)
  /\ lineState' = EndOfLineAfter(IF IsPair(r.pos) THEN "CRLF"
                                 ELSE IF Current(r) = "\n" THEN "LF" ELSE "CR")

-----------------------------------------------------------------------------

\* LuaSource::GetLine: the line of an offset is one from lower to upper, and `target` is tried.
NoSearch == [offset |-> 0, target |-> 0, upper |-> 0, lower |-> 0, found |-> FALSE]

GetLine(offset) ==
  LET maxLine == Len(lines) - 1
  IN search' = [offset |-> offset, target |-> maxLine, upper |-> maxLine, lower |-> 0,
                found |-> FALSE]

\* The line begins behind the offset.
SearchDown ==
  LET middle == (search.target + search.lower) \div 2
  IN /\ LineOffset(search.target) > search.offset
     /\ search' = [search EXCEPT !.upper = search.target, !.target = middle,
                                 !.found = (middle = 0)]

\* As SearchUp, with lines next to each other told apart once more.
SearchUpAgain ==
  /\ LineOffset(search.target) <= search.offset
  /\ search' = IF search.upper - search.target < 1
               THEN [search EXCEPT !.found = TRUE]
               ELSE [search EXCEPT !.lower = search.target,
                                   !.target = (search.upper + search.target) \div 2]

\* As SearchUp, with a line between the two left out.
SearchUpEarly ==
  /\ LineOffset(search.target) <= search.offset
  /\ search' = IF search.upper - search.target <= 2
               THEN [search EXCEPT !.found = TRUE]
               ELSE [search EXCEPT !.lower = search.target,
                                   !.target = (search.upper + search.target) \div 2]

SearchUp ==
  /\ LineOffset(search.target) <= search.offset
  /\ search' = IF search.upper - search.target <= 1
               THEN [search EXCEPT !.found = TRUE]
               ELSE [search EXCEPT !.lower = search.target,
                                   !.target = (search.upper + search.target) \div 2]
=============================================================================
