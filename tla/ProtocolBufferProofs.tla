------------------------ MODULE ProtocolBufferProofs ------------------------
(***************************************************************************)
(* Proofs about the reader thread, for every stream of frames, every way   *)
(* the reads cut it up and every size of the buffer.                       *)
(***************************************************************************)
EXTENDS ProtocolBuffer, TLAPS

\* The frame that is being read, and its measures.
Frame == Len(received) + 1

HasFrame == Frame <= Len(stream.bodies)

Lines == stream.lines[Frame]

Header == 5 * Lines + 2

Body == Len(stream.bodies[Frame])

PC == {"read", "ended", "canRead", "HeadStart", "CRLF", "CRLF_CRLF", "fit", "handOn"}

BufferTypeOK ==
  /\ IsStream(stream)
  /\ base \in Nat
  /\ writeIndex \in Nat
  /\ size \in Nat
  /\ contentLength \in Nat
  /\ bodyStartIndex \in Nat
  /\ index \in Nat
  /\ pc \in PC
  /\ loop \in {"reading", "handingOn"}
  /\ received \in Seq(Seq(Symbol))

\* The buffer begins where the current frame does, and all before it was handed on.
Aligned ==
  /\ Len(received) <= Len(stream.bodies)
  /\ \A k \in 1..Len(received) : received[k] = stream.bodies[k]
  /\ base = stream.start[Frame]
  /\ base + writeIndex <= Len(stream.symbols)

\* The buffer is larger than normal only as far as the current frame needs.
Sized ==
  /\ NormalCapacity <= size
  /\ writeIndex <= size
  /\ loop = "handingOn" => size = NormalCapacity /\ writeIndex < NormalCapacity
  /\ HasFrame => size = NormalCapacity \/ size <= Header + Body
  /\ pc = "read" => writeIndex < size

\* After j lines of the header the length is known if one of them gave it.
Parsed(j) ==
  (\E l \in 0..(j - 1) : Text(5 * l).class = "Content-Length") => contentLength = Body

\* What TryParseHead knows of the current frame at each of its steps.
Parsing ==
  /\ HasFrame => contentLength \in {0, Body} /\ bodyStartIndex <= Header
  /\ pc = "canRead" /\ loop = "reading" => HasFrame
  /\ pc = "HeadStart" =>
       /\ HasFrame
       /\ \E j \in 0..Lines : index = 5 * j /\ Parsed(j) /\ (j = Lines => writeIndex <= index + 1)
  /\ pc = "CRLF" =>
       /\ HasFrame
       /\ \E j \in 1..Lines : index = 5 * j /\ Parsed(j)
  /\ pc = "CRLF_CRLF" => HasFrame /\ index = Header /\ contentLength = Body
  /\ pc = "handOn" =>
       /\ HasFrame
       /\ contentLength = Body
       /\ bodyStartIndex = Header
       /\ Header + Body <= writeIndex
  /\ pc = "fit" =>
       /\ HasFrame
       /\ loop = "reading"
       /\ \/ writeIndex <= Header
          \/ contentLength = Body /\ bodyStartIndex = Header /\ writeIndex < Header + Body

HeadersFit == \A f \in Frames(stream) : HeadLength(stream, f) < NormalCapacity

BufferInv == BufferTypeOK /\ Aligned /\ Sized /\ Parsing /\ HeadersFit

-----------------------------------------------------------------------------

LEMMA Numbers ==
  ASSUME BufferTypeOK
  PROVE  /\ base \in Nat /\ writeIndex \in Nat /\ size \in Nat
         /\ contentLength \in Nat /\ bodyStartIndex \in Nat /\ index \in Nat
         /\ Len(received) \in Nat /\ Frame \in Nat /\ Frame = Len(received) + 1
         /\ Len(stream.bodies) \in Nat /\ Len(stream.symbols) \in Nat
         /\ stream.start[Len(stream.bodies) + 1] = Len(stream.symbols)
<1>1. Len(received) \in Nat
  BY DEF BufferTypeOK
<1>2. stream.symbols \in Seq(Symbol) /\ stream.bodies \in Seq(Seq(Symbol))
  BY DEF BufferTypeOK, IsStream
<1>3. Len(stream.bodies) \in Nat /\ Len(stream.symbols) \in Nat
  BY <1>2
<1>4. stream.start[Len(stream.bodies) + 1] = Len(stream.symbols)
  BY DEF BufferTypeOK, IsStream
<1>5. Frame \in Nat /\ Frame = Len(received) + 1
  BY <1>1 DEF Frame
<1>6. QED
  BY <1>1, <1>3, <1>4, <1>5 DEF BufferTypeOK

\* The current frame, seen through the positions of the buffer.
LEMMA FrameShape ==
  ASSUME BufferInv, HasFrame
  PROVE  /\ Frame \in Frames(stream) /\ Frame \in Nat
         /\ Lines \in Nat /\ Lines > 0
         /\ Body \in Nat /\ Body > 0
         /\ Header \in Nat /\ Header < NormalCapacity
         /\ stream.start[Frame + 1] = base + Header + Body
         /\ stream.bodies[Frame] = SubSeq(stream.symbols, base + Header + 1, base + Header + Body)
         /\ \A l \in 0..(Lines - 1) :
              /\ Text(5 * l).class \in {"Content-Length", "name"}
              /\ Text(5 * l + 1).class = "colon"
              /\ Text(5 * l + 2).class \in {"number", "other"}
              /\ Text(5 * l + 3).class = "CR"
              /\ Text(5 * l + 4).class = "LF"
              /\ Text(5 * l).class = "Content-Length" => Text(5 * l + 2).value = Body
         /\ \E l \in 0..(Lines - 1) : Text(5 * l).class = "Content-Length"
         /\ Text(5 * Lines).class = "CR" /\ Text(5 * Lines + 1).class = "LF"
<1> DEFINE w == stream
           f == Frame
<1>1. IsStream(w) /\ base = w.start[f] /\ base \in Nat
  BY DEF BufferInv, BufferTypeOK, Aligned
<1>2. f \in Nat /\ f \in Frames(w)
  <2>1. Len(received) \in Nat /\ Len(w.bodies) \in Nat /\ f = Len(received) + 1
    BY Numbers DEF BufferInv
  <2>2. QED
    BY <2>1 DEF HasFrame, Frames
<1>3. Lines \in Nat /\ Lines > 0 /\ Header \in Nat /\ HeadLength(w, f) = Header
  BY <1>1, <1>2 DEF IsStream, Lines, Header, HeadLength
<1>4. Header < NormalCapacity
  BY <1>2, <1>3 DEF BufferInv, HeadersFit
<1>5. Body \in Nat /\ w.bodies[f] \in Seq(Symbol)
  <2>1. w.bodies \in Seq(Seq(Symbol))
    BY <1>1 DEF IsStream
  <2>2. w.bodies[f] \in Seq(Symbol)
    BY <1>2, <2>1 DEF Frames
  <2>3. QED
    BY <2>2 DEF Body
<1> HIDE DEF w, f
<1>6. LET At(p) == w.symbols[w.start[f] + p + 1]
          body  == w.bodies[f]
          h     == 5 * w.lines[f]
      IN /\ body # <<>>
         /\ w.start[f + 1] = w.start[f] + HeadLength(w, f) + Len(body)
         /\ \A l \in 0..(w.lines[f] - 1) :
              /\ At(5 * l).class \in {"Content-Length", "name"}
              /\ At(5 * l + 1).class = "colon"
              /\ At(5 * l + 2).class \in {"number", "other"}
              /\ At(5 * l + 3).class = "CR"
              /\ At(5 * l + 4).class = "LF"
              /\ At(5 * l).class = "Content-Length" =>
                   At(5 * l + 2) = [class |-> "number", value |-> Len(body)]
         /\ \E l \in 0..(w.lines[f] - 1) : At(5 * l).class = "Content-Length"
         /\ At(h).class = "CR" /\ At(h + 1).class = "LF"
         /\ body = SubSeq(w.symbols, w.start[f] + h + 3, w.start[f + 1])
  BY <1>1, <1>2 DEF IsStream
<1>7. \A p : Text(p) = w.symbols[w.start[f] + p + 1]
  BY <1>1 DEF Text, w
<1>8. Lines = w.lines[f] /\ Body = Len(w.bodies[f])
  BY DEF Lines, Body, w, f
<1>9. Body > 0
  BY <1>5, <1>6, <1>8
<1>10. w.start[f + 1] = base + Header + Body
  BY <1>1, <1>3, <1>6, <1>8
<1>11. w.bodies[f] = SubSeq(w.symbols, base + Header + 1, base + Header + Body)
  <2>1. w.start[f] + 5 * w.lines[f] + 3 = base + Header + 1
    BY <1>1, <1>3, <1>8 DEF Header
  <2>2. QED
    BY <1>6, <1>10, <2>1
<1>12. \A l \in 0..(Lines - 1) :
         /\ Text(5 * l).class \in {"Content-Length", "name"}
         /\ Text(5 * l + 1).class = "colon"
         /\ Text(5 * l + 2).class \in {"number", "other"}
         /\ Text(5 * l + 3).class = "CR"
         /\ Text(5 * l + 4).class = "LF"
         /\ Text(5 * l).class = "Content-Length" => Text(5 * l + 2).value = Body
  <2> SUFFICES ASSUME NEW l \in 0..(w.lines[f] - 1)
               PROVE  /\ Text(5 * l).class \in {"Content-Length", "name"}
                      /\ Text(5 * l + 1).class = "colon"
                      /\ Text(5 * l + 2).class \in {"number", "other"}
                      /\ Text(5 * l + 3).class = "CR"
                      /\ Text(5 * l + 4).class = "LF"
                      /\ Text(5 * l).class = "Content-Length" => Text(5 * l + 2).value = Body
    BY <1>8, Zenon
  <2>1. /\ Text(5 * l).class \in {"Content-Length", "name"}
        /\ Text(5 * l + 1).class = "colon"
        /\ Text(5 * l + 2).class \in {"number", "other"}
        /\ Text(5 * l + 3).class = "CR"
        /\ Text(5 * l + 4).class = "LF"
        /\ Text(5 * l).class = "Content-Length" =>
             Text(5 * l + 2) = [class |-> "number", value |-> Len(w.bodies[f])]
    BY <1>6, <1>7, Zenon
  <2>2. QED
    BY <1>8, <2>1
<1>13. \E l \in 0..(Lines - 1) : Text(5 * l).class = "Content-Length"
  BY <1>6, <1>7, <1>8
<1>14. Text(5 * Lines).class = "CR" /\ Text(5 * Lines + 1).class = "LF"
  BY <1>6, <1>7, <1>8
<1>15. QED
  BY <1>2, <1>3, <1>4, <1>5, <1>9, <1>10, <1>11, <1>12, <1>13, <1>14 DEF w, f

\* Behind the last frame nothing is left to read.
LEMMA NoFrame ==
  ASSUME BufferInv, writeIndex > 0
  PROVE  HasFrame
<1>1. /\ Len(received) \in Nat /\ Len(stream.bodies) \in Nat /\ Len(stream.symbols) \in Nat
      /\ writeIndex \in Nat /\ base \in Nat /\ Frame = Len(received) + 1
      /\ stream.start[Len(stream.bodies) + 1] = Len(stream.symbols)
  BY Numbers DEF BufferInv
<1>2. /\ Len(received) <= Len(stream.bodies)
      /\ base = stream.start[Frame] /\ base + writeIndex <= Len(stream.symbols)
  BY DEF BufferInv, Aligned
<1>3. SUFFICES ASSUME ~HasFrame PROVE FALSE
  OBVIOUS
<1>4. Frame = Len(stream.bodies) + 1
  BY <1>1, <1>2, <1>3 DEF HasFrame
<1>5. QED
  BY <1>1, <1>2, <1>4

LEMMA FirstOfIs ==
  ASSUME NEW C, NEW from \in Nat, NEW p \in Nat, writeIndex \in Nat,
         from <= p, p < writeIndex, Text(p).class \in C,
         \A q \in from..(p - 1) : Text(q).class \notin C
  PROVE  FirstOf(C, from) = p
<1> DEFINE found == {q \in from..(writeIndex - 1) : Text(q).class \in C}
<1>1. p \in found
  OBVIOUS
<1>2. \A q \in found : p <= q
  OBVIOUS
<1>3. \A q \in found : (\A r \in found : q <= r) => q = p
  BY <1>1, <1>2
<1>4. FirstOf(C, from) = CHOOSE q \in found : \A r \in found : q <= r
  BY <1>1 DEF FirstOf
<1> HIDE DEF found
<1>5. QED
  BY <1>1, <1>2, <1>3, <1>4

LEMMA FirstOfNone ==
  ASSUME NEW C, NEW from \in Nat, writeIndex \in Nat,
         \A q \in from..(writeIndex - 1) : Text(q).class \notin C
  PROVE  FirstOf(C, from) = writeIndex
<1>1. {q \in from..(writeIndex - 1) : Text(q).class \in C} = {}
  OBVIOUS
<1>2. QED
  BY <1>1 DEF FirstOf

-----------------------------------------------------------------------------

LEMMA BufferInit == Init => BufferInv
<1> SUFFICES ASSUME Init PROVE BufferInv
  OBVIOUS
<1>1. /\ stream \in Streams /\ base = 0 /\ writeIndex = 0 /\ size = NormalCapacity
      /\ contentLength = 0 /\ bodyStartIndex = 0 /\ index = 0 /\ pc = "read"
      /\ loop = "reading" /\ received = <<>>
  BY DEF Init
<1>2. IsStream(stream) /\ HeadersFit
  BY <1>1, StreamsAssumption, HeadersAssumption DEF HeadersFit
<1>3. NormalCapacity \in Nat /\ NormalCapacity > 0
  BY CapacityAssumption
<1>4. BufferTypeOK
  BY <1>1, <1>2, <1>3 DEF BufferTypeOK, PC
<1>5. Len(received) = 0 /\ Frame = 1
  BY <1>1 DEF Frame
<1>6. Aligned
  BY <1>1, <1>2, <1>5 DEF Aligned, IsStream
<1>7. Sized
  BY <1>1, <1>3 DEF Sized
<1>8. Parsing
  <2>1. ASSUME HasFrame PROVE Header \in Nat
    <3>1. Len(stream.bodies) \in Nat
      BY <1>4, Numbers
    <3>2. 1 \in Frames(stream)
      BY <1>5, <2>1, <3>1 DEF HasFrame, Frames
    <3>3. stream.lines[1] \in Nat
      BY <1>2, <3>2 DEF IsStream
    <3>4. QED
      BY <1>5, <3>3 DEF Header, Lines
  <2>2. QED
    BY <1>1, <2>1 DEF Parsing
<1>9. QED
  BY <1>2, <1>4, <1>6, <1>7, <1>8 DEF BufferInv

\* The steps that neither read nor hand on stay at the same frame.
LEMMA SameFrame ==
  ASSUME BufferInv, UNCHANGED <<stream, base, received>>
  PROVE  /\ Frame' = Frame /\ HasFrame' = HasFrame /\ Lines' = Lines
         /\ Header' = Header /\ Body' = Body
         /\ \A p : Text(p)' = Text(p)
         /\ HeadersFit' /\ IsStream(stream)'
<1>1. stream' = stream /\ base' = base /\ received' = received
  OBVIOUS
<1>2. Frame' = Frame /\ HasFrame' = HasFrame /\ Lines' = Lines
  BY <1>1 DEF Frame, HasFrame, Lines
<1>3. Header' = Header /\ Body' = Body
  BY <1>1, <1>2 DEF Header, Body
<1>4. \A p : Text(p)' = Text(p)
  BY <1>1 DEF Text
<1>5. HeadersFit' /\ IsStream(stream)'
  <2>1. HeadersFit /\ IsStream(stream)
    BY DEF BufferInv, BufferTypeOK
  <2>2. HeadersFit'
    BY <1>1, <2>1 DEF HeadersFit
  <2>3. IsStream(stream)'
    BY <1>1, <2>1
  <2>4. QED
    BY <2>2, <2>3
<1>6. QED
  BY <1>2, <1>3, <1>4, <1>5

LEMMA ReadSomeInv ==
  ASSUME BufferInv, ReadSome
  PROVE  BufferInv'
<1>1. PICK n \in 0..GetRestCapacity :
        /\ n <= Pending
        /\ n = 0 => GetRestCapacity = 0
        /\ writeIndex' = writeIndex + n
  BY DEF ReadSome
<1>2. /\ pc = "read" /\ loop' = "reading" /\ pc' = "canRead"
      /\ UNCHANGED <<stream, base, size, contentLength, bodyStartIndex, index, received>>
  BY DEF ReadSome
<1>3. /\ writeIndex \in Nat /\ size \in Nat /\ base \in Nat /\ Len(stream.symbols) \in Nat
      /\ writeIndex < size
  BY <1>2, Numbers DEF BufferInv, Sized
<1>4. n \in Nat /\ n > 0 /\ writeIndex + n <= size /\ base + writeIndex + n <= Len(stream.symbols)
  BY <1>1, <1>3 DEF GetRestCapacity, Pending
<1>5. /\ Frame' = Frame /\ HasFrame' = HasFrame /\ Lines' = Lines
      /\ Header' = Header /\ Body' = Body /\ HeadersFit' /\ IsStream(stream)'
  BY <1>2, SameFrame
<1>6. BufferTypeOK'
  BY <1>1, <1>2, <1>3, <1>4, <1>5 DEF BufferInv, BufferTypeOK, PC
<1>7. Aligned'
  BY <1>1, <1>2, <1>3, <1>4, <1>5 DEF BufferInv, Aligned
<1>8. Sized'
  BY <1>1, <1>2, <1>3, <1>4, <1>5 DEF BufferInv, Sized
<1>9. HasFrame
  <2>1. /\ Len(received) \in Nat /\ Len(stream.bodies) \in Nat
        /\ Frame = Len(received) + 1
        /\ stream.start[Len(stream.bodies) + 1] = Len(stream.symbols)
        /\ Len(received) <= Len(stream.bodies)
        /\ base = stream.start[Frame]
    BY Numbers DEF BufferInv, Aligned
  <2>2. ~HasFrame => Frame = Len(stream.bodies) + 1
    BY <2>1 DEF HasFrame
  <2>3. QED
    BY <1>3, <1>4, <2>1, <2>2
<1>10. Parsing'
  BY <1>2, <1>5, <1>9 DEF BufferInv, Parsing
<1>11. QED
  BY <1>5, <1>6, <1>7, <1>8, <1>10 DEF BufferInv

\* The steps of TryParseHead that leave the buffer as it is: what remains to be shown is
\* what they learn of the header.
LEMMA ParsingStep ==
  ASSUME BufferInv,
         UNCHANGED <<stream, base, received, writeIndex, size, loop>>,
         contentLength' \in Nat, bodyStartIndex' \in Nat, index' \in Nat, pc' \in PC,
         pc' = "read" => loop = "handingOn",
         Parsing'
  PROVE  BufferInv'
<1>1. /\ Frame' = Frame /\ HasFrame' = HasFrame /\ Lines' = Lines
      /\ Header' = Header /\ Body' = Body /\ HeadersFit' /\ IsStream(stream)'
  BY SameFrame
<1>2. BufferTypeOK'
  BY <1>1 DEF BufferInv, BufferTypeOK
<1>3. Aligned'
  BY <1>1 DEF BufferInv, Aligned
<1>4. Sized'
  BY <1>1 DEF BufferInv, Sized
<1>5. QED
  BY <1>1, <1>2, <1>3, <1>4 DEF BufferInv

\* Giving up on the current frame is safe while its header is not all there, or its body.
LEMMA NotYetInv ==
  ASSUME BufferInv, HasFrame,
         UNCHANGED <<stream, base, received, writeIndex, size, loop>>, NotYet,
         contentLength' \in {0, Body}, bodyStartIndex' \in Nat, bodyStartIndex' <= Header,
         index' \in Nat,
         \/ writeIndex <= Header
         \/ contentLength' = Body /\ bodyStartIndex' = Header /\ writeIndex < Header + Body
  PROVE  BufferInv'
<1>1. /\ Frame' = Frame /\ HasFrame' = HasFrame /\ Lines' = Lines
      /\ Header' = Header /\ Body' = Body
  BY SameFrame
<1>2. pc' = IF loop = "handingOn" THEN "read" ELSE "fit"
  BY DEF NotYet
<1>3. loop \in {"reading", "handingOn"} /\ loop' = loop /\ writeIndex' = writeIndex
  BY DEF BufferInv, BufferTypeOK
<1>4. Parsing'
  BY <1>1, <1>2, <1>3 DEF Parsing
<1>5. contentLength' \in Nat
  BY FrameShape
<1>6. QED
  BY <1>2, <1>3, <1>4, <1>5, ParsingStep DEF PC

LEMMA CanReadInv ==
  ASSUME BufferInv, CanReadOneProtocol
  PROVE  BufferInv'
<1>1. /\ pc = "canRead" /\ index' = 0
      /\ UNCHANGED <<stream, base, writeIndex, size, contentLength, bodyStartIndex, loop, received>>
  BY DEF CanReadOneProtocol, buffer
<1>2. writeIndex \in Nat /\ contentLength \in Nat /\ bodyStartIndex \in Nat /\ loop \in {"reading", "handingOn"}
  BY DEF BufferInv, BufferTypeOK
<1>3. /\ Frame' = Frame /\ HasFrame' = HasFrame /\ Lines' = Lines
      /\ Header' = Header /\ Body' = Body /\ \A p : Text(p)' = Text(p)
  BY <1>1, SameFrame
<1>4. CASE writeIndex = 0 /\ HasFrame
  <2>1. NotYet /\ writeIndex <= Header
    <3>1. Header \in Nat
      BY <1>4, FrameShape
    <3>2. QED
      BY <1>4, <3>1 DEF CanReadOneProtocol
  <2>2. contentLength' \in {0, Body} /\ bodyStartIndex' <= Header
    BY <1>1, <1>4 DEF BufferInv, Parsing
  <2>3. QED
    BY <1>1, <1>2, <1>4, <2>1, <2>2, NotYetInv
<1>5. CASE writeIndex = 0 /\ ~HasFrame
  <2>1. loop = "handingOn" /\ pc' = "read"
    BY <1>1, <1>2, <1>5 DEF BufferInv, Parsing, CanReadOneProtocol, NotYet
  <2>2. Parsing'
    BY <1>1, <1>3, <1>5, <2>1 DEF Parsing
  <2>3. QED
    BY <1>1, <1>2, <2>1, <2>2, ParsingStep DEF PC
<1>6. CASE writeIndex # 0
  <2>1. pc' = "HeadStart"
    BY <1>6 DEF CanReadOneProtocol
  <2>2. HasFrame
    <3>1. writeIndex > 0
      BY <1>2, <1>6
    <3>2. QED
      BY <3>1, NoFrame
  <2>3. 0 \in 0..Lines /\ Lines # 0
    BY <2>2, FrameShape
  <2>4. Parsed(0)'
    <3>1. 0..(0 - 1) = {}
      OBVIOUS
    <3>2. QED
      BY <3>1 DEF Parsed
  <2>5. index' = 5 * 0
    <3>1. 5 * 0 = 0
      OBVIOUS
    <3>2. QED
      BY <1>1, <3>1
  <2>6. \E j \in 0..Lines : index' = 5 * j /\ Parsed(j)' /\ (j = Lines => writeIndex' <= index' + 1)
    BY <2>3, <2>4, <2>5
  <2>7. Parsing'
    BY <1>1, <1>3, <2>1, <2>2, <2>6 DEF BufferInv, Parsing
  <2>8. QED
    BY <1>1, <1>2, <2>1, <2>7, ParsingStep DEF PC
<1>7. QED
  BY <1>4, <1>5, <1>6

\* One line of the header: its colon and its end are where the frame has them, or the
\* line is not all there.
LEMMA HeadStartInv ==
  ASSUME BufferInv, HeadStart
  PROVE  BufferInv'
<1> DEFINE colon == FirstOf({"colon"}, index)
           end   == FirstOf({"CR", "LF"}, colon)
<1>1. /\ pc = "HeadStart" /\ UNCHANGED <<stream, base, writeIndex, size, loop, received>>
      /\ IF index >= writeIndex \/ colon = writeIndex \/ end = writeIndex
         THEN NotYet /\ UNCHANGED <<contentLength, bodyStartIndex, index>>
         ELSE /\ contentLength' =
                   IF colon = index + 1 /\ Text(index).class = "Content-Length"
                   THEN Text(colon + 1).value ELSE contentLength
              /\ index' = end + 2
              /\ bodyStartIndex' = end + 4
              /\ pc' = "CRLF"
  BY DEF HeadStart, buffer
<1>2. HasFrame
  BY <1>1 DEF BufferInv, Parsing
<1>3. PICK j \in 0..Lines : index = 5 * j /\ Parsed(j) /\ (j = Lines => writeIndex <= index + 1)
  BY <1>1 DEF BufferInv, Parsing
<1>4. /\ writeIndex \in Nat /\ index \in Nat /\ contentLength \in Nat /\ bodyStartIndex \in Nat
  BY Numbers DEF BufferInv
<1>5. Lines \in Nat /\ Lines > 0 /\ Header = 5 * Lines + 2 /\ Body \in Nat /\ j \in Nat
  BY <1>2, FrameShape DEF Header
<1>6. contentLength \in {0, Body} /\ bodyStartIndex <= Header
  BY <1>2 DEF BufferInv, Parsing
<1>7. /\ Frame' = Frame /\ HasFrame' = HasFrame /\ Lines' = Lines
      /\ Header' = Header /\ Body' = Body /\ \A p : Text(p)' = Text(p)
  BY <1>1, SameFrame
\* The header is not all there.
<1>8. CASE writeIndex <= Header /\ (index >= writeIndex \/ colon = writeIndex \/ end = writeIndex)
  <2>1. NotYet /\ UNCHANGED <<contentLength, bodyStartIndex, index>>
    BY <1>1, <1>8
  <2>2. QED
    BY <1>1, <1>2, <1>4, <1>6, <1>8, <2>1, NotYetInv
<1>9. CASE j = Lines
  <2>1. writeIndex <= Header
    BY <1>3, <1>4, <1>5, <1>9
  <2>2. \A q \in index..(writeIndex - 1) : Text(q).class \notin {"colon"}
    <3>1. Text(5 * Lines).class = "CR"
      BY <1>2, FrameShape
    <3>2. \A q \in index..(writeIndex - 1) : q = 5 * Lines
      BY <1>3, <1>4, <1>5, <1>9
    <3>3. QED
      BY <3>1, <3>2
  <2>3. colon = writeIndex
    BY <1>4, <2>2, FirstOfNone
  <2>4. QED
    BY <1>8, <2>1, <2>3
<1>10. CASE j # Lines
  <2>1. j \in 0..(Lines - 1)
    BY <1>3, <1>5, <1>10
  <2>2. /\ Text(5 * j).class \in {"Content-Length", "name"}
        /\ Text(5 * j + 1).class = "colon"
        /\ Text(5 * j + 2).class \in {"number", "other"}
        /\ Text(5 * j + 3).class = "CR"
        /\ Text(5 * j).class = "Content-Length" => Text(5 * j + 2).value = Body
    BY <1>2, <2>1, FrameShape
  <2>3. 5 * j + 5 <= Header
    BY <1>5, <2>1
  <2> DEFINE i == 5 * j
  <2>4. i \in Nat /\ index = i /\ i + 5 <= Header
    BY <1>3, <1>4, <2>3
  <2> HIDE DEF i
  <2>5. CASE writeIndex <= i + 1
    <3>1. \A q \in i..(writeIndex - 1) : q = i
      BY <1>4, <2>4, <2>5
    <3>2. \A q \in i..(writeIndex - 1) : Text(q).class \notin {"colon"}
      BY <2>2, <3>1 DEF i
    <3>3. colon = writeIndex
      BY <1>4, <2>4, <3>2, FirstOfNone
    <3>4. writeIndex <= Header
      BY <1>4, <1>5, <2>4, <2>5
    <3>5. QED
      BY <1>8, <3>3, <3>4
  <2>6. CASE writeIndex > i + 1
    <3>1. colon = i + 1
      <4>1. \A q \in i..((i + 1) - 1) : Text(q).class \notin {"colon"}
        <5>1. \A q \in i..((i + 1) - 1) : q = i
          BY <2>4
        <5>2. QED
          BY <2>2, <5>1 DEF i
      <4>2. Text(i + 1).class \in {"colon"}
        BY <2>2 DEF i
      <4>3. i + 1 \in Nat /\ i <= i + 1
        BY <2>4
      <4>4. QED
        BY <1>4, <2>4, <2>6, <4>1, <4>2, <4>3, FirstOfIs
    <3>2. CASE writeIndex <= i + 3
      <4>1. \A q \in (i + 1)..(writeIndex - 1) : q = i + 1 \/ q = i + 2
        BY <1>4, <2>4, <3>2
      <4>2. \A q \in (i + 1)..(writeIndex - 1) : Text(q).class \notin {"CR", "LF"}
        BY <2>2, <4>1 DEF i
      <4>3. end = writeIndex
        BY <1>4, <2>4, <3>1, <4>2, FirstOfNone
      <4>4. writeIndex <= Header
        BY <1>4, <1>5, <2>4, <3>2
      <4>5. QED
        BY <1>8, <4>3, <4>4
    <3>3. CASE writeIndex > i + 3
      <4>1. end = i + 3
        <5>1. \A q \in (i + 1)..((i + 3) - 1) : Text(q).class \notin {"CR", "LF"}
          <6>1. \A q \in (i + 1)..((i + 3) - 1) : q = i + 1 \/ q = i + 2
            BY <2>4
          <6>2. QED
            BY <2>2, <6>1 DEF i
        <5>2. Text(i + 3).class \in {"CR", "LF"}
          BY <2>2 DEF i
        <5>3. i + 1 \in Nat /\ i + 3 \in Nat /\ i + 1 <= i + 3
          BY <2>4
        <5>4. QED
          BY <1>4, <2>4, <3>1, <3>3, <5>1, <5>2, <5>3, FirstOfIs
      <4>2. ~(index >= writeIndex \/ colon = writeIndex \/ end = writeIndex)
        BY <1>4, <2>4, <3>1, <3>3, <4>1
      <4>3. /\ contentLength' =
                 IF Text(i).class = "Content-Length" THEN Text(i + 2).value ELSE contentLength
            /\ index' = i + 5 /\ bodyStartIndex' = i + 7 /\ pc' = "CRLF"
        <5>1. (i + 1) + 1 = i + 2 /\ (i + 3) + 2 = i + 5 /\ (i + 3) + 4 = i + 7
          BY <2>4
        <5>2. /\ contentLength' =
                   IF colon = index + 1 /\ Text(index).class = "Content-Length"
                   THEN Text(colon + 1).value ELSE contentLength
              /\ index' = end + 2 /\ bodyStartIndex' = end + 4 /\ pc' = "CRLF"
          BY <1>1, <4>2, Zenon
        <5> HIDE DEF colon, end
        <5>3. QED
          BY <2>4, <3>1, <4>1, <5>1, <5>2
      <4>4. contentLength' \in {0, Body} /\ contentLength' \in Nat
        BY <1>4, <1>5, <1>6, <2>2, <4>3 DEF i
      <4>5. Parsed(j + 1)'
        <5>1. SUFFICES ASSUME NEW l \in 0..((j + 1) - 1), Text(5 * l).class = "Content-Length"
                       PROVE  contentLength' = Body
          BY <1>7 DEF Parsed
        <5>2. CASE l = j
          BY <2>2, <4>3, <5>1, <5>2 DEF i
        <5>3. CASE l # j
          <6>1. l \in 0..(j - 1)
            BY <1>5, <5>1, <5>3
          <6>2. contentLength = Body
            BY <1>3, <5>1, <6>1 DEF Parsed
          <6>3. QED
            BY <2>2, <4>3, <6>2 DEF i
        <5>4. QED
          BY <5>2, <5>3
      <4>6. j + 1 \in 1..Lines /\ index' = 5 * (j + 1) /\ bodyStartIndex' <= Header
        BY <1>5, <2>1, <4>3 DEF i
      <4>7. Parsing'
        BY <1>1, <1>2, <1>7, <4>3, <4>4, <4>5, <4>6 DEF Parsing
      <4>8. QED
        BY <1>1, <2>4, <4>3, <4>4, <4>7, ParsingStep DEF PC
    <3>4. QED
      BY <1>4, <2>4, <3>2, <3>3
  <2>7. QED
    BY <1>4, <2>4, <2>5, <2>6
<1>11. QED
  BY <1>9, <1>10

LEMMA CRLFInv ==
  ASSUME BufferInv, CRLF
  PROVE  BufferInv'
<1>1. /\ pc = "CRLF"
      /\ UNCHANGED <<stream, base, writeIndex, size, contentLength, bodyStartIndex, loop, received>>
      /\ IF index >= writeIndex THEN NotYet /\ UNCHANGED index
         ELSE IF writeIndex - 1 > index /\ Text(index).class = "CR" /\ Text(index + 1).class = "LF"
         THEN index' = index + 2 /\ pc' = "CRLF_CRLF"
         ELSE index' = index /\ pc' = "HeadStart"
  BY DEF CRLF, buffer
<1>2. HasFrame
  BY <1>1 DEF BufferInv, Parsing
<1>3. PICK j \in 1..Lines : index = 5 * j /\ Parsed(j)
  BY <1>1 DEF BufferInv, Parsing
<1>4. writeIndex \in Nat /\ index \in Nat /\ contentLength \in Nat /\ bodyStartIndex \in Nat
  BY Numbers DEF BufferInv
<1>5. Lines \in Nat /\ Lines > 0 /\ Header = 5 * Lines + 2 /\ Body \in Nat /\ j \in Nat
  BY <1>2, FrameShape DEF Header
<1>6. contentLength \in {0, Body} /\ bodyStartIndex <= Header
  BY <1>2 DEF BufferInv, Parsing
<1>7. /\ Frame' = Frame /\ HasFrame' = HasFrame /\ Lines' = Lines
      /\ Header' = Header /\ Body' = Body /\ \A p : Text(p)' = Text(p)
  BY <1>1, SameFrame
<1>8. CASE index >= writeIndex
  <2>1. writeIndex <= Header
    BY <1>3, <1>4, <1>5, <1>8
  <2>2. NotYet /\ UNCHANGED index
    BY <1>1, <1>8
  <2>3. QED
    BY <1>1, <1>2, <1>4, <1>6, <2>1, <2>2, NotYetInv
<1>9. CASE ~(index >= writeIndex) /\ writeIndex - 1 > index /\ Text(index).class = "CR"
           /\ Text(index + 1).class = "LF"
  <2>1. j = Lines
    <3>1. SUFFICES ASSUME j # Lines PROVE FALSE
      OBVIOUS
    <3>2. j \in 0..(Lines - 1)
      BY <1>3, <1>5, <3>1
    <3>3. Text(5 * j).class \in {"Content-Length", "name"}
      BY <1>2, <3>2, FrameShape
    <3>4. QED
      BY <1>3, <1>9, <3>3
  <2>2. index' = index + 2 /\ pc' = "CRLF_CRLF"
    BY <1>1, <1>9
  <2>3. index' = Header
    BY <1>3, <1>5, <2>1, <2>2
  <2>4. contentLength = Body
    <3>1. \E l \in 0..(Lines - 1) : Text(5 * l).class = "Content-Length"
      BY <1>2, FrameShape
    <3>2. QED
      BY <1>3, <2>1, <3>1 DEF Parsed
  <2>5. Parsing'
    BY <1>1, <1>2, <1>6, <1>7, <2>2, <2>3, <2>4 DEF Parsing
  <2>6. index' \in Nat
    BY <1>5, <2>3
  <2>7. QED
    BY <1>1, <1>4, <2>2, <2>5, <2>6, ParsingStep DEF PC
<1>10. CASE ~(index >= writeIndex) /\ ~(writeIndex - 1 > index /\ Text(index).class = "CR"
             /\ Text(index + 1).class = "LF")
  <2>1. index' = index /\ pc' = "HeadStart"
    BY <1>1, <1>10
  <2>2. j = Lines => writeIndex <= index + 1
    <3>1. SUFFICES ASSUME j = Lines, writeIndex > index + 1 PROVE FALSE
      BY <1>4
    <3>2. writeIndex - 1 > index
      BY <1>4, <3>1
    <3>3. Text(5 * Lines).class = "CR" /\ Text(5 * Lines + 1).class = "LF"
      BY <1>2, FrameShape
    <3>4. QED
      BY <1>3, <1>10, <3>1, <3>2, <3>3
  <2>3. Parsed(j)'
    BY <1>1, <1>3, <1>7 DEF Parsed
  <2>4. j \in 0..Lines
    BY <1>3, <1>5
  <2>5. \E k \in 0..Lines : index' = 5 * k /\ Parsed(k)' /\ (k = Lines => writeIndex' <= index' + 1)
    BY <1>1, <1>3, <2>1, <2>2, <2>3, <2>4
  <2>6. Parsing'
    BY <1>1, <1>2, <1>6, <1>7, <2>1, <2>5 DEF Parsing
  <2>7. QED
    BY <1>1, <1>4, <2>1, <2>6, ParsingStep DEF PC
<1>11. QED
  BY <1>8, <1>9, <1>10

LEMMA CRLF_CRLFInv ==
  ASSUME BufferInv, CRLF_CRLF
  PROVE  BufferInv'
<1>1. /\ pc = "CRLF_CRLF"
      /\ UNCHANGED <<stream, base, writeIndex, size, contentLength, index, loop, received>>
      /\ IF index >= writeIndex THEN NotYet /\ UNCHANGED bodyStartIndex
         ELSE /\ bodyStartIndex' = index
              /\ IF contentLength + index <= writeIndex THEN pc' = "handOn" ELSE NotYet
  BY DEF CRLF_CRLF, buffer
<1>2. HasFrame /\ index = Header /\ contentLength = Body
  BY <1>1 DEF BufferInv, Parsing
<1>3. /\ writeIndex \in Nat /\ index \in Nat /\ contentLength \in Nat /\ bodyStartIndex \in Nat
  BY Numbers DEF BufferInv
<1>4. bodyStartIndex <= Header /\ Header \in Nat /\ Body \in Nat
  BY <1>2, FrameShape DEF BufferInv, Parsing
<1>5. /\ Frame' = Frame /\ HasFrame' = HasFrame /\ Lines' = Lines
      /\ Header' = Header /\ Body' = Body
  BY <1>1, SameFrame
<1>6. CASE index >= writeIndex
  <2>1. NotYet /\ UNCHANGED bodyStartIndex /\ writeIndex <= Header
    BY <1>1, <1>2, <1>3, <1>6
  <2>2. QED
    BY <1>1, <1>2, <1>3, <1>4, <2>1, NotYetInv
<1>7. CASE ~(index >= writeIndex) /\ contentLength + index <= writeIndex
  <2>1. bodyStartIndex' = Header /\ pc' = "handOn" /\ Header + Body <= writeIndex
    BY <1>1, <1>2, <1>3, <1>4, <1>7
  <2>2. Parsing'
    BY <1>1, <1>2, <1>4, <1>5, <2>1 DEF Parsing
  <2>3. QED
    BY <1>1, <1>3, <1>4, <2>1, <2>2, ParsingStep DEF PC
<1>8. CASE ~(index >= writeIndex) /\ ~(contentLength + index <= writeIndex)
  <2>1. bodyStartIndex' = Header /\ NotYet /\ writeIndex < Header + Body
    BY <1>1, <1>2, <1>3, <1>4, <1>8
  <2>2. QED
    BY <1>1, <1>2, <1>3, <1>4, <2>1, NotYetInv
<1>9. QED
  BY <1>6, <1>7, <1>8

LEMMA FitInv ==
  ASSUME BufferInv, FitCapacity
  PROVE  BufferInv'
<1> DEFINE one == contentLength + bodyStartIndex
<1>1. /\ pc = "fit" /\ pc' = "read"
      /\ UNCHANGED <<stream, base, writeIndex, contentLength, bodyStartIndex, index, loop, received>>
      /\ size' = IF one > NormalCapacity /\ one > size THEN one ELSE size
  BY DEF FitCapacity
<1>2. /\ HasFrame /\ loop = "reading"
      /\ \/ writeIndex <= Header
         \/ contentLength = Body /\ bodyStartIndex = Header /\ writeIndex < Header + Body
  BY <1>1 DEF BufferInv, Parsing
<1>3. /\ writeIndex \in Nat /\ size \in Nat /\ contentLength \in Nat /\ bodyStartIndex \in Nat
  BY Numbers DEF BufferInv
<1>4. /\ Header \in Nat /\ Body \in Nat /\ Header < NormalCapacity /\ NormalCapacity \in Nat
      /\ contentLength \in {0, Body} /\ bodyStartIndex <= Header
  BY <1>2, FrameShape, CapacityAssumption DEF BufferInv, Parsing
<1>5. /\ NormalCapacity <= size /\ writeIndex <= size
      /\ size = NormalCapacity \/ size <= Header + Body
  BY <1>2 DEF BufferInv, Sized
<1>6. /\ Frame' = Frame /\ HasFrame' = HasFrame /\ Lines' = Lines
      /\ Header' = Header /\ Body' = Body /\ HeadersFit' /\ IsStream(stream)'
  BY <1>1, SameFrame
<1>7. one \in Nat /\ one <= Header + Body
  BY <1>3, <1>4
<1> HIDE DEF one
<1>8. size' \in Nat /\ size <= size' /\ (size' = NormalCapacity \/ size' <= Header + Body)
  BY <1>1, <1>3, <1>4, <1>5, <1>7
<1>9. writeIndex < size'
  <2>1. CASE writeIndex <= Header
    BY <1>3, <1>4, <1>5, <1>8, <2>1
  <2>2. CASE contentLength = Body /\ bodyStartIndex = Header /\ writeIndex < Header + Body
    <3>1. one = Header + Body
      BY <1>4, <2>2 DEF one
    <3>2. QED
      BY <1>1, <1>3, <1>4, <1>5, <1>7, <2>2, <3>1
  <2>3. QED
    BY <1>2, <2>1, <2>2
<1>10. BufferTypeOK'
  BY <1>1, <1>6, <1>8 DEF BufferInv, BufferTypeOK, PC
<1>11. Aligned'
  BY <1>1, <1>6 DEF BufferInv, Aligned
<1>12. Sized'
  BY <1>1, <1>2, <1>3, <1>4, <1>5, <1>6, <1>8, <1>9 DEF Sized
<1>13. Parsing'
  BY <1>1, <1>4, <1>6 DEF Parsing
<1>14. QED
  BY <1>6, <1>10, <1>11, <1>12, <1>13 DEF BufferInv

LEMMA HandOnShape ==
  ASSUME BufferInv, HandOn
  PROVE  /\ HasFrame
         /\ received' = Append(received, stream.bodies[Frame])
         /\ base' = stream.start[Frame + 1]
         /\ base' + writeIndex' = base + writeIndex
         /\ writeIndex' \in Nat /\ writeIndex' < NormalCapacity /\ base' \in Nat
         /\ size' = NormalCapacity
<1> DEFINE done == contentLength + bodyStartIndex
           rest == writeIndex - done
<1>1. /\ pc = "handOn" /\ received' = Append(received, ReadOneProtocol) /\ Reset
  BY DEF HandOn
<1>2. /\ HasFrame /\ contentLength = Body /\ bodyStartIndex = Header
      /\ Header + Body <= writeIndex
  BY <1>1 DEF BufferInv, Parsing
<1>3. /\ base \in Nat /\ writeIndex \in Nat /\ size \in Nat
  BY Numbers DEF BufferInv
<1>4. /\ Header \in Nat /\ Header > 0 /\ Body \in Nat /\ Body > 0
      /\ stream.start[Frame + 1] = base + Header + Body
      /\ stream.bodies[Frame] = SubSeq(stream.symbols, base + Header + 1, base + Header + Body)
  <2>1. /\ Header \in Nat /\ Body \in Nat /\ Body > 0 /\ Lines \in Nat
        /\ stream.start[Frame + 1] = base + Header + Body
        /\ stream.bodies[Frame] = SubSeq(stream.symbols, base + Header + 1, base + Header + Body)
    BY <1>2, FrameShape
  <2>2. Header > 0
    BY <2>1 DEF Header
  <2>3. QED
    BY <2>1, <2>2
<1>5. /\ NormalCapacity \in Nat /\ NormalCapacity > 0
      /\ NormalCapacity <= size /\ writeIndex <= size
      /\ size = NormalCapacity \/ size <= Header + Body
  BY <1>2, CapacityAssumption DEF BufferInv, Sized
<1>6. ReadOneProtocol = stream.bodies[Frame]
  <2>1. contentLength # 0 /\ bodyStartIndex # 0
    BY <1>2, <1>4
  <2>2. base + bodyStartIndex + 1 = base + Header + 1
        /\ base + bodyStartIndex + contentLength = base + Header + Body
    BY <1>2
  <2>3. QED
    BY <1>4, <2>1, <2>2 DEF ReadOneProtocol
<1>7. done = Header + Body /\ done \in Nat /\ done > 0 /\ done <= writeIndex
  BY <1>2, <1>4
<1>8. /\ IF writeIndex > done
         THEN /\ writeIndex' = rest
              /\ base' = base + done
              /\ size' = IF rest > NormalCapacity THEN rest ELSE NormalCapacity
         ELSE /\ writeIndex' = 0
              /\ base' = base + writeIndex
              /\ size' = IF size > NormalCapacity THEN NormalCapacity ELSE size
  BY <1>1 DEF Reset
<1> HIDE DEF done
<1>9. CASE writeIndex > done
  <2>1. size = NormalCapacity /\ rest \in Nat /\ rest < NormalCapacity
    BY <1>3, <1>5, <1>7, <1>9
  <2>2. writeIndex' = rest /\ base' = base + done /\ size' = NormalCapacity
    BY <1>5, <1>8, <1>9, <2>1
  <2>3. base' + writeIndex' = base + writeIndex /\ base' = base + Header + Body /\ base' \in Nat
    <3>1. base' = base + (Header + Body) /\ writeIndex' = writeIndex - (Header + Body)
      BY <1>7, <2>2
    <3>2. QED
      BY <1>3, <1>4, <3>1
  <2>4. QED
    BY <1>1, <1>2, <1>4, <1>6, <2>1, <2>2, <2>3
<1>10. CASE ~(writeIndex > done)
  <2>1. writeIndex = done
    BY <1>3, <1>7, <1>10
  <2>2. writeIndex' = 0 /\ base' = base + writeIndex /\ size' = NormalCapacity
    BY <1>3, <1>5, <1>8, <1>10
  <2>3. base' + writeIndex' = base + writeIndex /\ base' = base + Header + Body /\ base' \in Nat
    BY <1>3, <1>4, <1>7, <2>1, <2>2
  <2>4. QED
    BY <1>1, <1>2, <1>4, <1>5, <1>6, <2>2, <2>3
<1>11. QED
  BY <1>9, <1>10

LEMMA HandOnInv ==
  ASSUME BufferInv, HandOn
  PROVE  BufferInv'
<1>1. /\ pc' = "canRead" /\ loop' = "handingOn" /\ UNCHANGED <<stream, index>>
      /\ contentLength' = 0 /\ bodyStartIndex' = 0
  BY DEF HandOn, Reset
<1>2. /\ HasFrame
      /\ received' = Append(received, stream.bodies[Frame])
      /\ base' = stream.start[Frame + 1]
      /\ base' + writeIndex' = base + writeIndex
      /\ writeIndex' \in Nat /\ writeIndex' < NormalCapacity /\ base' \in Nat
      /\ size' = NormalCapacity
  BY HandOnShape
<1>3. received \in Seq(Seq(Symbol)) /\ stream.bodies \in Seq(Seq(Symbol))
  BY DEF BufferInv, BufferTypeOK, IsStream
<1>4. Len(received) \in Nat /\ Len(stream.bodies) \in Nat /\ Frame = Len(received) + 1 /\ Frame \in Nat
  BY Numbers DEF BufferInv
<1>5. Frame <= Len(stream.bodies) /\ stream.bodies[Frame] \in Seq(Symbol)
  BY <1>2, <1>3, <1>4 DEF HasFrame
<1>6. /\ received' \in Seq(Seq(Symbol)) /\ Len(received') = Frame
      /\ received'[Frame] = stream.bodies[Frame]
      /\ \A k \in 1..Len(received) : received'[k] = received[k]
  BY <1>2, <1>3, <1>4, <1>5
<1>7. Frame' = Frame + 1
  BY <1>6 DEF Frame
<1>8. index \in Nat /\ IsStream(stream) /\ HeadersFit /\ NormalCapacity \in Nat
  BY CapacityAssumption DEF BufferInv, BufferTypeOK
<1>9. IsStream(stream)' /\ HeadersFit'
  BY <1>1, <1>8 DEF HeadersFit
<1>10. BufferTypeOK'
  BY <1>1, <1>2, <1>6, <1>8, <1>9 DEF BufferTypeOK, PC
<1>11. Aligned'
  <2>1. \A k \in 1..Len(received) : received[k] = stream.bodies[k]
    BY DEF BufferInv, Aligned
  <2>2. \A k \in 1..Len(received') : received'[k] = stream.bodies[k]
    <3>1. SUFFICES ASSUME NEW k \in 1..Len(received') PROVE received'[k] = stream.bodies[k]
      OBVIOUS
    <3>2. k = Frame \/ k \in 1..Len(received)
      BY <1>4, <1>6, <3>1
    <3>3. QED
      BY <1>6, <2>1, <3>2
  <2>3. base + writeIndex <= Len(stream.symbols)
    BY DEF BufferInv, Aligned
  <2>4. QED
    BY <1>1, <1>2, <1>5, <1>6, <1>7, <2>2, <2>3 DEF Aligned
<1>12. Sized'
  BY <1>1, <1>2, <1>8 DEF Sized
<1>13. ASSUME HasFrame' PROVE Header' \in Nat
  <2>1. Frame' \in Frames(stream')
    BY <1>1, <1>4, <1>7, <1>13 DEF HasFrame, Frames
  <2>2. Lines' \in Nat
    BY <1>9, <2>1 DEF IsStream, Lines
  <2>3. Header' = 5 * Lines' + 2
    BY DEF Header
  <2>4. \A n \in Nat : 5 * n + 2 \in Nat
    OBVIOUS
  <2>5. QED
    BY <2>2, <2>3, <2>4, Zenon
<1>14. Parsing'
  BY <1>1, <1>13 DEF Parsing
<1>15. QED
  BY <1>9, <1>10, <1>11, <1>12, <1>14 DEF BufferInv

LEMMA BufferNext == BufferInv /\ [Next]_vars => BufferInv'
<1> SUFFICES ASSUME BufferInv, [Next]_vars PROVE BufferInv'
  OBVIOUS
<1>1. CASE EndOfStream
  <2>1. /\ pc' = "ended" /\ pc = "read"
        /\ UNCHANGED <<stream, base, writeIndex, size, contentLength, bodyStartIndex, index, loop, received>>
    BY <1>1 DEF EndOfStream, buffer
  <2>2. /\ Frame' = Frame /\ HasFrame' = HasFrame /\ Lines' = Lines
        /\ Header' = Header /\ Body' = Body
    BY <2>1, SameFrame
  <2>3. Parsing'
    BY <2>1, <2>2 DEF BufferInv, Parsing
  <2>4. contentLength \in Nat /\ bodyStartIndex \in Nat /\ index \in Nat
    BY Numbers DEF BufferInv
  <2>5. QED
    BY <2>1, <2>3, <2>4, ParsingStep DEF PC
<1>2. CASE UNCHANGED vars
  <2>1. UNCHANGED <<stream, base, writeIndex, size, contentLength, bodyStartIndex, index, pc, loop, received>>
    BY <1>2 DEF vars
  <2>2. /\ Frame' = Frame /\ HasFrame' = HasFrame /\ Lines' = Lines
        /\ Header' = Header /\ Body' = Body /\ \A p : Text(p)' = Text(p)
        /\ HeadersFit' /\ IsStream(stream)'
    BY <2>1, SameFrame
  <2>3. Parsing'
    BY <2>1, <2>2 DEF BufferInv, Parsing, Parsed
  <2>4. BufferTypeOK' /\ Aligned' /\ Sized'
    BY <2>1, <2>2 DEF BufferInv, BufferTypeOK, Aligned, Sized
  <2>5. QED
    BY <2>2, <2>3, <2>4 DEF BufferInv
<1>3. QED
  BY <1>1, <1>2, ReadSomeInv, CanReadInv, HeadStartInv, CRLFInv, CRLF_CRLFInv, FitInv,
     HandOnInv DEF Next, Step

THEOREM BufferCorrect == Spec => []BufferInv
<1>1. QED
  BY BufferInit, BufferNext, PTL DEF Spec

\* The bytes read never leave _textProtocol, whatever size Reset and FitCapacity give it.
THEOREM WritesFit == Spec => []WrittenFits
<1>1. BufferInv => WrittenFits
  BY DEF BufferInv, Aligned, Sized, WrittenFits
<1>2. QED
  BY <1>1, BufferCorrect, PTL

\* The reader thread never reads into a full buffer.
THEOREM ReaderNeverSpins == Spec => []NeverSpins
<1>1. BufferInv => NeverSpins
  <2> SUFFICES ASSUME BufferInv, pc = "read" PROVE size - writeIndex > 0
    BY DEF NeverSpins, GetRestCapacity
  <2>1. writeIndex \in Nat /\ size \in Nat /\ writeIndex < size
    BY Numbers DEF BufferInv, Sized
  <2>2. QED
    BY <2>1
<1>2. QED
  BY <1>1, BufferCorrect, PTL

\* A long frame does not leave a long buffer behind.
THEOREM BufferShrinksBack == Spec => []ShrinksBack
<1>1. BufferInv => ShrinksBack
  BY DEF BufferInv, Sized, ShrinksBack
<1>2. QED
  BY <1>1, BufferCorrect, PTL

\* A frame is handed on exactly when it is all there.
THEOREM FramesAreWhole == Spec => []HandsOnWhole
<1>1. BufferInv => HandsOnWhole
  <2> SUFFICES ASSUME BufferInv, pc = "handOn"
               PROVE  /\ base = stream.start[Len(received) + 1]
                      /\ base + bodyStartIndex + contentLength = stream.start[Len(received) + 2]
    BY DEF HandsOnWhole
  <2>1. HasFrame /\ contentLength = Body /\ bodyStartIndex = Header
    BY DEF BufferInv, Parsing
  <2>2. base = stream.start[Frame] /\ Frame = Len(received) + 1 /\ Len(received) \in Nat
    BY Numbers DEF BufferInv, Aligned
  <2>3. stream.start[Frame + 1] = base + Header + Body
    BY <2>1, FrameShape
  <2>4. Frame + 1 = Len(received) + 2
    BY <2>2
  <2>5. QED
    BY <2>1, <2>2, <2>3, <2>4
<1>2. QED
  BY <1>1, BufferCorrect, PTL

\* The reader thread implements the channel: the bodies come out whole, in the order they
\* were sent, none twice, however the reads cut up the stream.
THEOREM BufferImplementsChannel == Spec => Delivers
<1>1. Init => Client!Init
  BY DEF Init, Client!Init
<1>2. BufferInv /\ [Next]_vars => [Client!Receive]_<<stream.bodies, received>>
  <2> SUFFICES ASSUME BufferInv, [Next]_vars
               PROVE  Client!Receive \/ UNCHANGED <<stream.bodies, received>>
    OBVIOUS
  <2>1. CASE HandOn
    <3>1. stream' = stream
      BY <2>1 DEF HandOn
    <3>2. HasFrame /\ received' = Append(received, stream.bodies[Frame])
      BY <2>1, HandOnShape
    <3>3. /\ Len(received) \in Nat /\ Frame = Len(received) + 1 /\ Len(stream.bodies) \in Nat
      BY Numbers DEF BufferInv
    <3>4. Len(received) < Len(stream.bodies)
      BY <3>2, <3>3 DEF HasFrame
    <3>5. QED
      BY <3>1, <3>2, <3>3, <3>4 DEF Client!Receive
  <2>2. CASE ~HandOn
    BY <2>2 DEF Next, Step, vars, ReadSome, CanReadOneProtocol, HeadStart, CRLF, CRLF_CRLF,
                FitCapacity, EndOfStream
  <2>3. QED
    BY <2>1, <2>2
<1>3. QED
  BY <1>1, <1>2, BufferCorrect, PTL DEF Spec, Delivers, Client!Spec
=============================================================================
