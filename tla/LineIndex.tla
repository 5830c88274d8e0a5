------------------------------ MODULE LineIndex ------------------------------
(***************************************************************************)
(* LineIndex and LineTypes: from positions (line and column, in            *)
(* characters) to offsets (in bytes) and back.  The index of a text is a   *)
(* sequence of lines; a line keeps the runs of characters of the same      *)
(* width it consists of, not the characters.                               *)
(*                                                                         *)
(* A byte is a line feed "nl", another ASCII byte "a", the first byte of a *)
(* character of two or of three bytes, "e" or "w", or a byte "cont" that   *)
(* continues one.  Lines, columns and offsets count from 0.                *)
(***************************************************************************)
EXTENDS Naturals, Sequences

Byte == {"a", "nl", "e", "w", "cont"}

Utf8OneCharLen(b) == CASE b = "e" -> 2 [] b = "w" -> 3 [] OTHER -> 1

\* LineOffset::Push and UnitChars::Increment.
Push(runs, unit) ==
  IF runs = <<>> \/ runs[Len(runs)].unit # unit
  THEN Append(runs, [total |-> unit, chars |-> 1, unit |-> unit])
  ELSE [runs EXCEPT ![Len(runs)] =
          [total |-> @.total + unit, chars |-> @.chars + 1, unit |-> unit]]

\* A character goes to the last line, and a line feed at offset i begins another one.
PushChar(lines, b, i) ==
  LET pushed == [lines EXCEPT ![Len(lines)].runs = Push(@, Utf8OneCharLen(b))]
  IN IF b = "nl" THEN Append(pushed, [start |-> i + 1, runs |-> <<>>]) ELSE pushed

\* The loop of Parse up to every offset; it leaves out the bytes that continue a character.
ParseLoop(text) ==
  LET At[i \in 0..Len(text)] ==
        IF i = 0 THEN [lines |-> <<[start |-> 0, runs |-> <<>>]>>, skip |-> 0]
        ELSE LET so == At[i - 1]
             IN IF so.skip > 0 THEN [so EXCEPT !.skip = @ - 1]
                ELSE [lines |-> PushChar(so.lines, text[i], i - 1),
                      skip  |-> Utf8OneCharLen(text[i]) - 1]
  IN At

Parse(text) == ParseLoop(text)[Len(text)].lines

\* The loop of LineOffset::GetOffset after every run: whole runs while the column is behind
\* them, then the rest of it.
OffsetLoop(runs, col) ==
  LET At[j \in 0..Len(runs)] ==
        IF j = 0 THEN [num |-> col, offset |-> 0, found |-> FALSE]
        ELSE LET so == At[j - 1]
             IN IF so.found THEN so
                ELSE IF so.num > runs[j].chars
                THEN [num |-> so.num - runs[j].chars, offset |-> so.offset + runs[j].total,
                      found |-> FALSE]
                ELSE [num |-> so.num, offset |-> so.offset + so.num * runs[j].unit,
                      found |-> TRUE]
  IN At

OffsetInLine(line, col) == line.start + OffsetLoop(line.runs, col)[Len(line.runs)].offset

\* A line behind the last one is at offset 0.
GetOffset(index, pos) ==
  IF pos.line < Len(index) THEN OffsetInLine(index[pos.line + 1], pos.col) ELSE 0

\* As ColumnLoop, with the width of the first run for the rest.
ColumnLoopFirstUnit(runs, offset) ==
  LET At[j \in 0..Len(runs)] ==
        IF j = 0 THEN [offset |-> offset, col |-> 0, found |-> FALSE]
        ELSE LET so == At[j - 1]
             IN IF so.found THEN so
                ELSE IF so.offset > runs[j].total
                THEN [offset |-> so.offset - runs[j].total, col |-> so.col + runs[j].chars,
                      found |-> FALSE]
                ELSE [offset |-> so.offset, col |-> so.col + (so.offset \div runs[1].unit),
                      found |-> TRUE]
  IN At

\* The loop of LineOffset::GetCol.
ColumnLoop(runs, offset) ==
  LET At[j \in 0..Len(runs)] ==
        IF j = 0 THEN [offset |-> offset, col |-> 0, found |-> FALSE]
        ELSE LET so == At[j - 1]
             IN IF so.found THEN so
                ELSE IF so.offset > runs[j].total
                THEN [offset |-> so.offset - runs[j].total, col |-> so.col + runs[j].chars,
                      found |-> FALSE]
                ELSE [offset |-> so.offset, col |-> so.col + (so.offset \div runs[j].unit),
                      found |-> TRUE]
  IN At

ColInLine(line, offset) == ColumnLoop(line.runs, offset)[Len(line.runs)].col

\* The last line that does not begin behind the offset.
GetLineCol(index, offset) ==
  LET n == CHOOSE n \in DOMAIN index :
             /\ index[n].start <= offset
             /\ n < Len(index) => index[n + 1].start > offset
  IN [line |-> n - 1, col |-> ColInLine(index[n], offset - index[n].start)]

GetTotalLine(index) == Len(index)
=============================================================================
