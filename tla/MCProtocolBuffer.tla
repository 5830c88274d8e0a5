-------------------------- MODULE MCProtocolBuffer --------------------------
(***************************************************************************)
(* Clients that send up to MaxFrames frames, with or without a header line *)
(* beside the Content-Length, and with bodies of the lengths Lengths.      *)
(***************************************************************************)
EXTENDS ProtocolBuffer

CONSTANTS MaxFrames, Lengths, Heads

Sym(c) == [class |-> c, value |-> 0]

Line(name, value) == <<Sym(name), Sym("colon"), value, Sym("CR"), Sym("LF")>>

LengthLine(n) == Line("Content-Length", [class |-> "number", value |-> n])

OtherLine == Line("name", Sym("other"))

HeadOf(kind, n) ==
  (CASE kind = "plain"  -> LengthLine(n)
     [] kind = "before" -> OtherLine \o LengthLine(n)
     [] kind = "after"  -> LengthLine(n) \o OtherLine)
  \o <<Sym("CR"), Sym("LF")>>

\* A body begins with what a header line could begin with.
Body(n) ==
  [i \in 1..n |-> CASE i = 1 -> Sym("Content-Length")
                    [] i = 2 -> Sym("colon")
                    [] i = 3 -> [class |-> "number", value |-> 1]
                    [] i = 4 -> Sym("CR")
                    [] OTHER -> Sym("other")]

Empty == [symbols |-> <<>>, bodies |-> <<>>, lines |-> <<>>, start |-> <<0>>]

AddFrame(w, kind, n) ==
  LET symbols == w.symbols \o HeadOf(kind, n) \o Body(n)
  IN [symbols |-> symbols,
      bodies  |-> Append(w.bodies, Body(n)),
      lines   |-> Append(w.lines, IF kind = "plain" THEN 1 ELSE 2),
      start   |-> Append(w.start, Len(symbols))]

RECURSIVE StreamsOf(_)
StreamsOf(n) ==
  IF n = 0 THEN {Empty}
  ELSE LET shorter == StreamsOf(n - 1)
       IN shorter \union {AddFrame(w, k, l) : w \in {v \in shorter : Len(v.bodies) = n - 1},
                                              k \in Heads, l \in Lengths}

MCStreams == StreamsOf(MaxFrames)
=============================================================================
