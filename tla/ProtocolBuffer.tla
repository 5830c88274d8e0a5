--------------------------- MODULE ProtocolBuffer ---------------------------
(***************************************************************************)
(* The reader thread of a session (SocketIOSession::Run and                *)
(* StandardIOSession::Run) and the ProtocolBuffer it cuts the frames of    *)
(* the language server protocol out of.                                    *)
(*                                                                         *)
(* A byte stream is a sequence of symbols [class, value].  A header name,  *)
(* the digits of a number and a byte of a body are one symbol each: the    *)
(* code looks for colons and line ends only, so a read that ends inside a  *)
(* name or a number is seen as one that ends before it.                    *)
(*                                                                         *)
(* The written part of _textProtocol is the part of the stream from base   *)
(* on; positions in it count from 0, as in the code.  Every iteration of   *)
(* the loop of TryParseHead is a step of its own.                          *)
(***************************************************************************)
EXTENDS Naturals, Sequences

CONSTANTS
  Streams,        \* what clients may send
  NormalCapacity  \* _normalCapacity

ASSUME CapacityAssumption == NormalCapacity \in Nat \ {0}

Class == {"Content-Length", "name", "colon", "number", "CR", "LF", "other"}

Symbol == [class : Class, value : Nat]

(***************************************************************************)
(* A stream w of whole frames.  Frame f covers the positions w.start[f] to *)
(* w.start[f + 1] - 1 of w.symbols, counted from 0: w.lines[f] header      *)
(* lines of five symbols, an empty line, and the body w.bodies[f].  One of *)
(* the lines is the Content-Length, and no body is empty: it is JSON.      *)
(***************************************************************************)
Frames(w) == 1..Len(w.bodies)

HeadLength(w, f) == 5 * w.lines[f] + 2

IsStream(w) ==
  /\ w.symbols \in Seq(Symbol)
  /\ w.bodies \in Seq(Seq(Symbol))
  /\ w.lines \in [Frames(w) -> Nat \ {0}]
  /\ w.start \in [1..(Len(w.bodies) + 1) -> Nat]
  /\ w.start[1] = 0
  /\ w.start[Len(w.bodies) + 1] = Len(w.symbols)
  /\ \A f \in Frames(w) :
       LET At(p) == w.symbols[w.start[f] + p + 1]
           body  == w.bodies[f]
           h     == 5 * w.lines[f]
       IN /\ body # <<>>
          /\ w.start[f + 1] = w.start[f] + HeadLength(w, f) + Len(body)
          /\ \A l \in 0..(w.lines[f] - 1) :
               /\ At(5 * l).class \in {"Content-Length", "name"}
               /\ At(5 * l + 1).class = "colon"
               /\ At(5 * l + 2).class \in {"number", "other"}
               /\ At(5 * l + 3).class = "CR"
               /\ At(5 * l + 4).class = "LF"
               /\ At(5 * l).class = "Content-Length" =>
                    At(5 * l + 2) = [class |-> "number", value |-> Len(body)]
          /\ \E l \in 0..(w.lines[f] - 1) : At(5 * l).class = "Content-Length"
          /\ At(h).class = "CR" /\ At(h + 1).class = "LF"
          /\ body = SubSeq(w.symbols, w.start[f] + h + 3, w.start[f + 1])

ASSUME StreamsAssumption == \A w \in Streams : IsStream(w)

\* No client sends a header as long as the buffer, 65535 bytes.
ASSUME HeadersAssumption ==
  \A w \in Streams : \A f \in Frames(w) : HeadLength(w, f) < NormalCapacity

VARIABLES
  stream,          \* what the client sends, fixed
  base,            \* how much of it was handed on and dropped
  writeIndex,      \* _writeIndex
  size,            \* _textProtocol.size()
  contentLength,   \* _contentLength
  bodyStartIndex,  \* _bodyStartIndex
  index,           \* the position of TryParseHead
  pc,              \* where the reader thread is
  loop,            \* the loop of Run it is in: "reading" or "handingOn" frames
  received         \* the bodies handed to ProtocolParser::Parse

vars == <<stream, base, writeIndex, size, contentLength, bodyStartIndex, index, pc,
          loop, received>>

buffer == <<base, writeIndex, size>>

Text(p) == stream.symbols[base + p + 1]

Init ==
  /\ stream \in Streams
  /\ base = 0
  /\ writeIndex = 0
  /\ size = NormalCapacity
  /\ contentLength = 0
  /\ bodyStartIndex = 0
  /\ index = 0
  /\ pc = "read"
  /\ loop = "reading"
  /\ received = <<>>

-----------------------------------------------------------------------------

\* As GetRestCapacity, forgetting what is already written.
WholeCapacity == size

GetRestCapacity == size - writeIndex

\* The bytes the client sent and the reader has not fetched.
Pending == Len(stream.symbols) - base - writeIndex

\* read_some waits for at least one byte and takes what fits; only without any room does
\* it return at once, with none.
ReadSome ==
  /\ pc = "read"
  /\ \E n \in 0..GetRestCapacity :
       /\ n <= Pending
       /\ n = 0 => GetRestCapacity = 0
       /\ writeIndex' = writeIndex + n
  /\ loop' = "reading"
  /\ pc' = "canRead"
  /\ UNCHANGED <<stream, base, size, contentLength, bodyStartIndex, index, received>>

\* The client closed the stream or the read failed: Run returns.
EndOfStream ==
  /\ pc = "read"
  /\ pc' = "ended"
  /\ UNCHANGED <<stream, buffer, contentLength, bodyStartIndex, index, loop, received>>

\* CanReadOneProtocol fails: the second loop of Run ends, the first one goes on.
NotYet == pc' = IF loop = "handingOn" THEN "read" ELSE "fit"

CanReadOneProtocol ==
  /\ pc = "canRead"
  /\ IF writeIndex = 0 THEN NotYet ELSE pc' = "HeadStart"
  /\ index' = 0
  /\ UNCHANGED <<stream, buffer, contentLength, bodyStartIndex, loop, received>>

\* find_first_of: the first position of one of these classes, writeIndex if there is none.
FirstOf(classes, from) ==
  LET found == {p \in from..(writeIndex - 1) : Text(p).class \in classes}
  IN IF found = {} THEN writeIndex
     ELSE CHOOSE p \in found : \A q \in found : p <= q

\* As HeadStart, taking the value of any header line for the length.
HeadStartAnyName ==
  /\ pc = "HeadStart"
  /\ LET colon == FirstOf({"colon"}, index)
         end   == FirstOf({"CR", "LF"}, colon)
     IN IF index >= writeIndex \/ colon = writeIndex \/ end = writeIndex
        THEN NotYet /\ UNCHANGED <<contentLength, bodyStartIndex, index>>
        ELSE /\ contentLength' = Text(colon + 1).value
             /\ index' = end + 2
             /\ bodyStartIndex' = end + 4
             /\ pc' = "CRLF"
  /\ UNCHANGED <<stream, buffer, loop, received>>

HeadStart ==
  /\ pc = "HeadStart"
  /\ LET colon == FirstOf({"colon"}, index)
         end   == FirstOf({"CR", "LF"}, colon)
     IN IF index >= writeIndex \/ colon = writeIndex \/ end = writeIndex
        THEN NotYet /\ UNCHANGED <<contentLength, bodyStartIndex, index>>
        ELSE /\ contentLength' =
                  IF colon = index + 1 /\ Text(index).class = "Content-Length"
                  THEN Text(colon + 1).value ELSE contentLength
             /\ index' = end + 2
             /\ bodyStartIndex' = end + 4
             /\ pc' = "CRLF"
  /\ UNCHANGED <<stream, buffer, loop, received>>

CRLF ==
  /\ pc = "CRLF"
  /\ IF index >= writeIndex THEN NotYet /\ UNCHANGED index
     ELSE IF writeIndex - 1 > index /\ Text(index).class = "CR" /\ Text(index + 1).class = "LF"
     THEN index' = index + 2 /\ pc' = "CRLF_CRLF"
     ELSE index' = index /\ pc' = "HeadStart"
  /\ UNCHANGED <<stream, buffer, contentLength, bodyStartIndex, loop, received>>

CRLF_CRLF ==
  /\ pc = "CRLF_CRLF"
  /\ IF index >= writeIndex THEN NotYet /\ UNCHANGED bodyStartIndex
     ELSE /\ bodyStartIndex' = index
          /\ IF contentLength + index <= writeIndex THEN pc' = "handOn" ELSE NotYet
  /\ UNCHANGED <<stream, buffer, contentLength, index, loop, received>>

\* As FitCapacity, but the buffer never grows.
FitNothing ==
  /\ pc = "fit"
  /\ pc' = "read"
  /\ UNCHANGED <<stream, buffer, contentLength, bodyStartIndex, index, loop, received>>

FitCapacity ==
  /\ pc = "fit"
  /\ LET one == contentLength + bodyStartIndex
     IN size' = IF one > NormalCapacity /\ one > size THEN one ELSE size
  /\ pc' = "read"
  /\ UNCHANGED <<stream, base, writeIndex, contentLength, bodyStartIndex, index, loop,
                 received>>

\* As ReadOneProtocol, one byte early.
ReadFromLineEnd ==
  IF contentLength # 0 /\ bodyStartIndex # 0
  THEN SubSeq(stream.symbols, base + bodyStartIndex, base + bodyStartIndex + contentLength - 1)
  ELSE <<>>

ReadOneProtocol ==
  IF contentLength # 0 /\ bodyStartIndex # 0
  THEN SubSeq(stream.symbols, base + bodyStartIndex + 1, base + bodyStartIndex + contentLength)
  ELSE <<>>

\* As Reset, but it drops what follows the frame.
ResetDropsRest ==
  /\ writeIndex' = 0
  /\ base' = base + writeIndex
  /\ size' = NormalCapacity
  /\ contentLength' = 0
  /\ bodyStartIndex' = 0

\* Reset: what is left over moves to the front of a buffer of the normal size.
Reset ==
  LET done == contentLength + bodyStartIndex
      rest == writeIndex - done
  IN /\ IF writeIndex > done
        THEN /\ writeIndex' = rest
             /\ base' = base + done
             /\ size' = IF rest > NormalCapacity THEN rest ELSE NormalCapacity
        ELSE /\ writeIndex' = 0
             /\ base' = base + writeIndex
             /\ size' = IF size > NormalCapacity THEN NormalCapacity ELSE size
     /\ contentLength' = 0
     /\ bodyStartIndex' = 0

\* The body is parsed and its handling posted to the logic thread.
HandOn ==
  /\ pc = "handOn"
  /\ received' = Append(received, ReadOneProtocol)
  /\ Reset
  /\ loop' = "handingOn"
  /\ pc' = "canRead"
  /\ UNCHANGED <<stream, index>>

Step ==
  \/ ReadSome \/ CanReadOneProtocol \/ HeadStart \/ CRLF \/ CRLF_CRLF
  \/ FitCapacity \/ HandOn

Next == Step \/ EndOfStream

\* The thread runs, and read_some returns when there is something to read; the stream
\* need not end.
Spec == Init /\ [][Next]_vars /\ WF_vars(Step)

-----------------------------------------------------------------------------

TypeOK ==
  /\ IsStream(stream)
  /\ base \in 0..Len(stream.symbols)
  /\ writeIndex \in Nat
  /\ size \in Nat
  /\ contentLength \in Nat
  /\ bodyStartIndex \in Nat
  /\ index \in Nat
  /\ pc \in {"read", "ended", "canRead", "HeadStart", "CRLF", "CRLF_CRLF", "fit", "handOn"}
  /\ loop \in {"reading", "handingOn"}
  /\ received \in Seq(Seq(Symbol))

\* Nothing is written behind the end of _textProtocol, nor left there when it shrinks.
WrittenFits == base + writeIndex <= Len(stream.symbols) /\ writeIndex <= size

\* While headers are shorter than the buffer the reader never asks for zero bytes: it
\* would spin on a full buffer, and never see the frame that filled it.
NeverSpins == pc = "read" => GetRestCapacity > 0

\* Once a frame is handed on the buffer is back to its normal size, whatever followed the
\* frame: the branch of Reset that keeps a larger one is never needed.
ShrinksBack == pc = "canRead" /\ loop = "handingOn" => size = NormalCapacity

\* A frame is handed on when, and only when, its last byte is in.
HandsOnWhole ==
  pc = "handOn" =>
    /\ base = stream.start[Len(received) + 1]
    /\ base + bodyStartIndex + contentLength = stream.start[Len(received) + 2]

\* What the client sends arrives, frame by frame.
Client == INSTANCE Channel WITH sent <- stream.bodies

Delivers == Client!Spec

\* And all of it, unless the stream breaks.
AllArrive == <>(received = stream.bodies \/ pc = "ended")
=============================================================================
