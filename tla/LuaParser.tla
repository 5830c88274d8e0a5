----------------------------- MODULE LuaParser ------------------------------
(***************************************************************************)
(* The parser (LuaParser, Marker, CompleteMarker).  It reads tokens and    *)
(* leaves a list of events from which the tree is built: a node starts, a  *)
(* token is eaten, a node ends.  Where a node starts is fixed when its     *)
(* Marker is opened; its kind is filled in when the Marker is completed,   *)
(* stays "None" when it is undone, and a node that began too late is given *)
(* a parent that was opened after it (Precede).                            *)
(*                                                                         *)
(* The call stack is `todo`, the instructions of LuaGrammar that are still *)
(* to run; the Markers its functions hold are `marks`.  Any tokens may     *)
(* come: one is chosen when the parser is about to look at it.             *)
(***************************************************************************)
EXTENDS LuaGrammar

CONSTANTS
  Sources,    \* the kinds of files: what each of their tokens may be, as far as they go
  MaxErrors   \* with more errors than these, the parser gives up (5 in the code)

ASSUME SourcesAssumption ==
  Sources \subseteq Seq(SUBSET TokenKinds)

ASSUME ErrorsAssumption == MaxErrors \in Nat

VARIABLES
  source,       \* the kind of file
  tokens,       \* the tokens of the file, as far as they matter yet
  ended,        \* whether these are all
  tokenIndex,   \* the next token to read
  events,
  todo,         \* the instructions still to run
  marks,        \* the positions of the open Markers
  completed,    \* the Start of the CompleteMarker returned last
  errors,       \* the number of errors
  phase         \* "parse", then "build" while the tree is built, then "done"

parser == <<source, tokens, ended, tokenIndex, events, todo, marks, completed, errors>>

Comments == {"comment", "inline"}

-----------------------------------------------------------------------------
(* Tokens. *)

\* From token i of the file on, j is the first that is no comment.
Skips(file, i, j) ==
  /\ j \in 1..Len(file) /\ i <= j
  /\ file[j] \notin Comments
  /\ \A k \in i..(j - 1) : file[k] \in Comments

SkipComment(file, i) ==
  IF \E j \in 1..Len(file) : Skips(file, i, j)
  THEN CHOOSE j \in 1..Len(file) : Skips(file, i, j)
  ELSE Len(file) + 1

TokenAt(j) == IF j <= Len(tokens) THEN tokens[j] ELSE Eof

Position == SkipComment(tokens, tokenIndex)

Current == TokenAt(Position)

LookAhead == TokenAt(SkipComment(tokens, Position + 1))

Top(s) == s[Len(s)]

Instr == Head(todo)

Runs(op) == phase = "parse" /\ todo # <<>> /\ Instr.op = op

\* Whether the tokens the next instruction looks at are known.
Ready ==
  \/ ended
  \/ Instr.op \notin Looking
  \/ /\ Position <= Len(tokens)
     /\ Instr.op = "Do" /\ LookingAhead(Instr.what, Current)
          => SkipComment(tokens, Position + 1) <= Len(tokens)

Lex ==
  /\ phase = "parse" /\ todo # <<>> /\ ~Ready
  /\ \/ /\ Len(tokens) < Len(source)
        /\ \E k \in source[Len(tokens) + 1] : tokens' = Append(tokens, k)
        /\ UNCHANGED ended
     \/ ended' = TRUE /\ UNCHANGED tokens
  /\ UNCHANGED <<source, tokenIndex, events, todo, marks, completed, errors, phase>>

-----------------------------------------------------------------------------
(* Events. *)

Event(t, k, n) == [type |-> t, kind |-> k, parent |-> 0, index |-> n]

NodeStart == Event("NodeStart", "None", 0)

NodeEnd == Event("NodeEnd", "None", 0)

ErrorEvent == Event("Error", "None", 0)

EatToken(n) == Event("EatToken", "None", n)

\* What a step that does not read tokens leaves alone.
Input == <<source, tokens, ended, phase>>

Pop(s) == SubSeq(s, 1, Len(s) - 1)

\* As OpenMarker, with the position taken after the event is added.
OpenMarkerLate ==
  /\ Runs("Mark")
  /\ events' = Append(events, NodeStart)
  /\ marks' = Append(marks, Len(events) + 2)
  /\ todo' = Tail(todo)
  /\ UNCHANGED <<Input, tokenIndex, completed, errors>>

\* LuaParser::Mark.
OpenMarker ==
  /\ Runs("Mark")
  /\ events' = Append(events, NodeStart)
  /\ marks' = Append(marks, Len(events) + 1)
  /\ todo' = Tail(todo)
  /\ UNCHANGED <<Input, tokenIndex, completed, errors>>

\* Marker::Complete, of a Marker that some caller holds.
CompleteAs(kind) ==
  /\ marks # <<>>
  /\ events' = Append([events EXCEPT ![Top(marks)].kind = kind], NodeEnd)
  /\ completed' = Top(marks)
  /\ marks' = Pop(marks)

CompleteMarker ==
  /\ Runs("Complete")
  /\ CompleteAs(Instr.what)
  /\ todo' = Tail(todo)
  /\ UNCHANGED <<Input, tokenIndex, errors>>

UndoMarker ==
  /\ Runs("Undo")
  /\ marks # <<>>
  /\ events' = [events EXCEPT ![Top(marks)].kind = "None"]
  /\ marks' = Pop(marks)
  /\ todo' = Tail(todo)
  /\ UNCHANGED <<Input, tokenIndex, completed, errors>>

UndoCompleted ==
  /\ Runs("UndoLast")
  /\ events' = [events EXCEPT ![completed].kind = "None"]
  /\ todo' = Tail(todo)
  /\ UNCHANGED <<Input, tokenIndex, marks, completed, errors>>

PrecedeAs(parent) ==
  /\ Runs("Precede")
  /\ events' = Append(IF events[completed].type = "NodeStart"
                      THEN [events EXCEPT ![completed].parent = parent]
                      ELSE events,
                      NodeStart)
  /\ marks' = Append(marks, Len(events) + 1)
  /\ todo' = Tail(todo)
  /\ UNCHANGED <<Input, tokenIndex, completed, errors>>

\* As PrecedeNode, with the event before the new one as the parent.
PrecedeNodeEarly == PrecedeAs(Len(events))

PrecedeNode == PrecedeAs(Len(events) + 1)

TooManyErrors == errors > MaxErrors

\* As Advance, with the index read before the comments are skipped.
AdvanceUnskipped ==
  /\ events' = Append(events, EatToken(tokenIndex))
  /\ tokenIndex' = Position + 1
  /\ UNCHANGED errors

\* LuaParser::Next: at the end of the file it records a token that is not there.
Advance ==
  /\ events' = Append(events, EatToken(Position))
  /\ tokenIndex' = Position + 1
  /\ UNCHANGED errors

LuaExpectedError ==
  /\ events' = Append(events, ErrorEvent)
  /\ errors' = errors + 1
  /\ UNCHANGED tokenIndex

EatCurrent ==
  /\ Runs("Eat") /\ Ready /\ ~TooManyErrors
  /\ Advance
  /\ todo' = Tail(todo)
  /\ UNCHANGED <<Input, marks, completed>>

CheckAndNext ==
  /\ Runs("Check") /\ Ready /\ ~TooManyErrors
  /\ IF Is(Current, Instr.what) THEN Advance ELSE LuaExpectedError
  /\ todo' = Tail(todo)
  /\ UNCHANGED <<Input, marks, completed>>

TestAndNext ==
  /\ Runs("Test") /\ Ready /\ ~TooManyErrors
  /\ IF Is(Current, Instr.what) THEN Advance ELSE UNCHANGED <<events, tokenIndex, errors>>
  /\ todo' = Tail(todo)
  /\ UNCHANGED <<Input, marks, completed>>

ExpectError ==
  /\ Runs("Error")
  /\ LuaExpectedError
  /\ todo' = Tail(todo)
  /\ UNCHANGED <<Input, marks, completed>>

Call ==
  /\ Runs("Do") /\ Ready /\ ~TooManyErrors
  /\ todo' = Body(Instr.what, Instr.arg, Current, LookAhead) \o Tail(todo)
  /\ UNCHANGED <<Input, tokenIndex, events, marks, completed, errors>>

\* Current throws, and Parse catches it.
Throw ==
  /\ phase = "parse" /\ todo # <<>> /\ Instr.op \in Looking /\ Ready /\ TooManyErrors
  /\ todo' = <<>> /\ marks' = <<>>
  /\ errors' = errors + 1
  /\ UNCHANGED <<Input, tokenIndex, events, completed>>

\* The end of Parse.
Parsed ==
  /\ phase = "parse" /\ todo = <<>>
  /\ errors' = IF Position <= Len(tokens) THEN errors + 1 ELSE errors
  /\ phase' = "build"
  /\ UNCHANGED <<source, tokens, ended, tokenIndex, events, todo, marks, completed>>

ParserInit ==
  /\ source \in Sources
  /\ tokens = <<>> /\ ended = FALSE
  /\ tokenIndex = 1
  /\ events = <<>>
  /\ todo = Block
  /\ marks = <<>> /\ completed = 1
  /\ errors = 0
  /\ phase = "parse"

ParserNext ==
  \/ Lex
  \/ OpenMarker \/ CompleteMarker \/ UndoMarker \/ UndoCompleted \/ PrecedeNode
  \/ EatCurrent \/ CheckAndNext \/ TestAndNext \/ ExpectError \/ Call
  \/ Throw \/ Parsed
=============================================================================
