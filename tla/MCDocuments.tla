---------------------------- MODULE MCDocuments -----------------------------
(***************************************************************************)
(* Documents of at most MaxLength characters, and a few longer lines.      *)
(***************************************************************************)
EXTENDS Documents

CONSTANTS MaxLength, Alphabet

LongLines == {<<"a", "e", "nl">>, <<"e", "a", "e">>, <<"e", "w", "a">>, <<"a", "nl", "e">>}

MCTexts ==
  UNION {[1..n -> Alphabet] : n \in 0..MaxLength} \union LongLines

MCNewTexts == UNION {[1..n -> Alphabet] : n \in 0..1} \union {<<"e", "nl">>}
=============================================================================
