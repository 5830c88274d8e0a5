----------------------------- MODULE RangeFormat ----------------------------
(***************************************************************************)
(* Formatting some lines of a file (RangeFormatBuilder).  The walk of      *)
(* FormatState goes over the file from its beginning; CheckRange watches   *)
(* the slices it hands out, lets the writer write from the first one that  *)
(* ends on a requested line, and stops the walk behind the last one.  A    *)
(* token that crosses the border of the requested lines moves the border.  *)
(* The client then replaces the lines of the range by the text.            *)
(*                                                                         *)
(* The column at which the replaced text begins is 0 or that of a token,   *)
(* and is modelled as 0 or that token.  The text is the sequence of slices *)
(* that are written; it ends with a line break, as the replaced lines do.  *)
(***************************************************************************)
EXTENDS FormatState

CONSTANTS
  Requests,   \* the lines a client may ask for, records [first, last]
  Client      \* "format": the handlers of the server, "command": reformat, command line

ASSUME RequestsAssumption ==
  /\ \A q \in Requests : q.first \in Nat /\ q.last \in Nat /\ q.first <= q.last
  /\ Client \in {"format", "command"}

\* The tokens of a tree are in the order of their lines.
LinesInOrder(t) ==
  /\ t.start \in [1..t.size -> Nat]
  /\ t.end \in [1..t.size -> Nat]
  /\ \A i \in Tokens(t) : t.start[i] <= t.end[i]
  /\ \A i, j \in Tokens(t) : i < j => t.end[i] <= t.start[j]

ASSUME RangeTreesAssumption ==
  \A t \in Trees :
    /\ LinesInOrder(t)
    /\ RangesApart(t, Ignores(t))
    /\ \A i \in DOMAIN Ignores(t) : {i, Ignores(t)[i].end} \subseteq Tokens(t)

VARIABLES
  request,      \* the lines that were asked for
  range,        \* _range: its first and last line, and where in the first line it begins
  validRange,   \* _validRange
  written,      \* the slices in _formattedText
  pc            \* where GetFormatResult is

rangeVars == <<vars, request, range, validRange, written, pc>>

RangeInit ==
  /\ Init
  /\ request \in Requests
  /\ range = [start |-> request.first, from |-> 0, end |-> request.last]
  /\ validRange = "Init"
  /\ written = <<>>
  /\ pc = "start"

-----------------------------------------------------------------------------

\* Lines on which a slice begins and ends.
FirstLine(slice) == tree.start[slice.start]

LastLine(slice) == tree.end[slice.end]

\* Some of the requested lines are exempt from formatting.
IgnoresLines ==
  \E i \in DOMAIN ignores :
    \/ range.start \in FirstLine(ignores[i])..LastLine(ignores[i])
    \/ range.start < FirstLine(ignores[i]) /\ FirstLine(ignores[i]) <= range.end

Refuse ==
  /\ pc = "start"
  /\ IgnoresLines
  /\ pc' = "done"
  /\ UNCHANGED <<vars, request, range, validRange, written>>

Start ==
  /\ pc = "start"
  /\ ~IgnoresLines
  /\ pc' = "walk"
  /\ UNCHANGED <<vars, request, range, validRange, written>>

\* As Reaches, with the line on which the slice begins.
ReachesFirst(slice) == FirstLine(slice) \in range.start..range.end

\* The slice ends on a line of the range.
Reaches(slice) == LastLine(slice) \in range.start..range.end

\* The first slice that reaches the range; it may begin before the range.
Begin(slice) ==
  /\ validRange = "Init"
  /\ Reaches(slice)
  /\ validRange' = "Process"
  /\ range' = IF FirstLine(slice) < range.start
              THEN [start |-> FirstLine(slice), from |-> slice.start, end |-> range.end]
              ELSE range
  /\ going'

Wait(slice) ==
  /\ validRange = "Init"
  /\ ~Reaches(slice)
  /\ going'
  /\ UNCHANGED <<validRange, range>>

\* As Grow, for a token that is on one line.
GrowNot(slice) ==
  /\ validRange = "Process"
  /\ FirstLine(slice) <= range.end
  /\ going'
  /\ UNCHANGED <<validRange, range>>

\* As Grow, before the test whether the slice is behind the range.
GrowFirst(slice) ==
  /\ validRange = "Process"
  /\ range' = [range EXCEPT !.end = IF LastLine(slice) > @ THEN LastLine(slice) ELSE @]
  /\ going'
  /\ UNCHANGED validRange

Grow(slice) ==
  /\ validRange = "Process"
  /\ FirstLine(slice) <= range.end
  /\ range' = [range EXCEPT !.end = IF LastLine(slice) > @ THEN LastLine(slice) ELSE @]
  /\ going'
  /\ UNCHANGED validRange

Stop(slice) ==
  /\ validRange = "Process"
  /\ FirstLine(slice) > range.end
  /\ validRange' = "Finish"
  /\ ~going'
  /\ UNCHANGED range

CheckRange(slice) == Begin(slice) \/ Wait(slice) \/ Grow(slice) \/ Stop(slice)

\* DoResolve, as far as a range is concerned: Process alone writes.
Write(slice) ==
  written' = IF validRange' = "Process" THEN Append(written, slice) ELSE written

\* The walk enters a node; enterHandle is called unless the node is being ignored.
Visit(r) ==
  /\ pc = "walk"
  /\ Enter(r)
  /\ LET n == Top(traverseStack).node
     IN IF ~IsToken(tree, n) \/ Ignored(n, QueryIgnore(n))
        THEN going' /\ UNCHANGED <<range, validRange, written>>
        ELSE CheckRange(Slice(n)) /\ Write(Slice(n))
  /\ UNCHANGED <<request, pc>>

Leave ==
  /\ pc = "walk"
  /\ Exit
  /\ UNCHANGED <<request, range, validRange, written, pc>>

Return ==
  /\ pc = "walk"
  /\ ~going \/ Done
  /\ pc' = "done"
  /\ UNCHANGED <<vars, request, range, validRange, written>>

RangeNext ==
  Refuse \/ Start \/ (\E r \in IndentChoices : Visit(r)) \/ Leave \/ Return

RangeSpec == RangeInit /\ [][RangeNext]_rangeVars

-----------------------------------------------------------------------------

\* The client makes an edit; the handlers of the server answer an empty text with none.
Edits == pc = "done" /\ (written # <<>> \/ Client = "command")

\* What stays: the tokens that end before the replaced text, and those that begin after it.
StaysBefore(i) == tree.end[i] < range.start \/ (range.from # 0 /\ i < range.from)

StaysAfter(i) == tree.start[i] > range.end

\* Nothing of the token is outside of the replaced text.
Inside(i) ==
  /\ range.from = 0 => range.start <= tree.start[i]
  /\ tree.end[i] <= range.end

IsWritten(i) ==
  \E k \in DOMAIN written : written[k].start <= i /\ i <= written[k].end

\* Formatting a range changes the white space of some lines: the text that takes the place
\* of the lines holds, in order, the tokens that were in them, and no token is cut in two
\* where the replaced text begins or ends.
EditKeepsTokens ==
  Edits =>
    /\ \A i \in Tokens(tree) : IsWritten(i) <=> ~(StaysBefore(i) \/ StaysAfter(i))
    /\ \A i \in Tokens(tree) : IsWritten(i) => Inside(i)
    /\ \A j, k \in DOMAIN written : j < k => written[j].end < written[k].start

\* Line l goes on to the next one in the middle of a token, or of an exempt part.
Crossed(l) ==
  \E j \in DOMAIN handled :
    /\ IsToken(tree, handled[j].start)
    /\ FirstLine(handled[j]) <= l /\ l < LastLine(handled[j])

\* Lines that nobody asked for are rewritten only where a token that must not be cut leads
\* from one to the next.
GrowsOnlyForTokens ==
  /\ \A l \in range.start..(request.first - 1) : Crossed(l)
  /\ \A l \in request.last..(range.end - 1) : Crossed(l)

\* A request is not answered in part: if anything is written, all that is on the requested
\* lines is, and if nothing is, no token ends on them or they are exempt.
AllOrNothing ==
  pc = "done" =>
    IF written # <<>>
    THEN \A i \in Tokens(tree) :
           tree.start[i] <= request.last /\ tree.end[i] >= request.first => IsWritten(i)
    ELSE \/ IgnoresLines
         \/ \A i \in Tokens(tree) : tree.end[i] \notin request.first..request.last
=============================================================================
