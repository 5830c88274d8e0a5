------------------------------ MODULE LuaLexer ------------------------------
(***************************************************************************)
(* The lexer (LuaLexer): one call of Lex after another until the text ends *)
(* or is in error.  A loop that may cross a line break is a mode, of which *)
(* every iteration is a step; what cannot is part of the step it is in.    *)
(*                                                                         *)
(* When the lexer is done, somebody asks in which line an offset is.       *)
(***************************************************************************)
EXTENDS LuaSource

Blanks == {" ", "\t"}

Digits == {"0", "1"}

\* Letters on which something depends, and another one; a byte above 0x7F is part of a
\* name, but std::isalpha does not know it.
AsciiLetters == {"a", "e", "p", "x", "z", "g"}

HexDigits == Digits \union {"a", "e"}

Alpha == AsciiLetters \union {"_", "utf8"}

Alnum == Alpha \union Digits

\* The backtick is a third one, and not different.
Quotes == {"\"", "'"}

\* Everything in this text but its line breaks.
Others == {text[k] : k \in 1..Size} \ NewLines

\* The texts of the symbols, each of them with its beginnings: Lex takes the longest one.
Symbols ==
  {<<"=", "=">>, <<"<", "=">>, <<"<", "<">>, <<">", "=">>, <<">", ">">>, <<"~", "=">>,
   <<":", ":">>, <<".", ".">>, <<".", ".", ".">>}
  \union
  (IF ~file.nonStandard THEN {<<"/", "/">>}
   ELSE {<<ch, "=">> : ch \in {"-", "+", "*", "/", "^", "|", "&", "%", "!"}}
        \union {<<"<", "<", "=">>, <<">", ">", "=">>, <<"/", "/">>, <<"/", "/", "=">>,
                <<"|", "|">>, <<"&", "&">>, <<"?", ".">>, <<"?", ":">>, <<"?", "[">>})

VARIABLES
  reader,      \* _reader
  tokens,      \* _tokens, records [kind, start, end]
  errors,      \* the offsets in _errors
  loop         \* the loop the lexer is in, and what that loop remembers

lexVars == <<reader, tokens, errors, loop>>

vars == <<file, lineVars, search, lexVars>>

\* A loop: what it returns, the length of a bracket and the quote that end it.
Loop(name) == [name |-> name, kind |-> "", sep |-> 0, del |-> ""]

Lexing == Loop("lex")

Long(k, n) == [Loop("long") EXCEPT !.kind = k, !.sep = n]

Quoted(name, d) == [Loop(name) EXCEPT !.del = d]

Init ==
  /\ file \in Files
  /\ lines = <<0>> /\ linenumber = 0 /\ lineState = "UNKNOWN"
  /\ search = NoSearch
  /\ reader = StartOfText
  /\ tokens = <<>> /\ errors = <<>>
  /\ loop = Lexing

-----------------------------------------------------------------------------

Token(r, k) == [kind |-> k, start |-> r.start, end |-> r.end]

\* Lex returns to Parse, which calls it again.
Return(r, k) ==
  /\ tokens' = Append(tokens, Token(r, k))
  /\ reader' = ResetBuffer(r)
  /\ loop' = Lexing
  /\ UNCHANGED <<file, lineVars, search, errors>>

\* TokenError, and Lex returns: Parse stops, and counts the lines that are left.
Fail(r, k) ==
  /\ errors' = Append(errors, r.pos)
  /\ tokens' = Append(tokens, Token(r, k))
  /\ lines' = SubSeq(lines, 1, linenumber + 1)
  /\ reader' = [StartOfText EXCEPT !.pos = LineOffset(linenumber)]
  /\ loop' = Loop("update")
  /\ UNCHANGED <<file, linenumber, lineState, search>>

\* The lexer is in a loop.
Continue(r, l) ==
  /\ reader' = r
  /\ loop' = l
  /\ UNCHANGED <<file, lineVars, search, tokens, errors>>

\* It is behind a line break there.
CrossLine(r, l) ==
  /\ IncLinenumber(r)
  /\ reader' = AfterBreak(r)
  /\ loop' = l
  /\ UNCHANGED <<file, search, tokens, errors>>

\* The line break that may follow the beginning of a long string.
SkipLine(r, l) == IF Current(r) \in NewLines THEN CrossLine(r, l) ELSE Continue(r, l)

\* A bracket, some = and perhaps a second one: their number plus 2 if it is there, 1 if
\* nothing follows the first, else 0.
SkipSep(r) ==
  LET opened == SaveAndNext(r)
      s      == Eat(opened, {"="})
  IN [reader |-> s,
      sep    |-> IF Current(s) = Current(r) THEN s.pos - opened.pos + 2
                 ELSE IF s.pos = opened.pos THEN 1 ELSE 0]

-----------------------------------------------------------------------------

(***************************************************************************)
(* Lex, by the character it is at.                                         *)
(***************************************************************************)
At(s) == \A k \in DOMAIN s : CharAt(reader.pos + k - 1) = s[k]

LexBlank ==
  /\ Current(reader) \in Blanks
  /\ Continue(NextChar(reader), Lexing)

LexLine ==
  /\ Current(reader) \in NewLines
  /\ CrossLine(reader, Lexing)

\* ReadLongString up to its loop.
ReadLongString(bracket, k) ==
  SkipLine(SaveAndNext(bracket.reader), Long(k, bracket.sep))

LexComment ==
  LET opened  == SaveTo(reader, reader.pos + 2)
      bracket == SkipSep(opened)
  IN /\ At(<<"-", "-">>)
     /\ IF Current(opened) = "[" /\ bracket.sep >= 2
        THEN ReadLongString(bracket, "long comment")
        ELSE Return(Eat(opened, Others), "short comment")

LexBracket ==
  LET bracket == SkipSep(reader)
  IN /\ Current(reader) = "["
     /\ \/ bracket.sep >= 2 /\ ReadLongString(bracket, "long string")
        \/ bracket.sep = 1 /\ Return(bracket.reader, "symbol")
        \/ bracket.sep = 0 /\ Fail(bracket.reader, "long string")

LexString ==
  /\ Current(reader) \in Quotes
  /\ Continue(SaveAndNext(reader), Quoted("string", Current(reader)))

AtNumeral ==
  \/ Current(reader) \in Digits
  \/ Current(reader) = "." /\ CharAt(reader.pos + 1) \in Digits

\* ReadNumeral up to its loop.
LexNumeral ==
  LET digit == CheckNext1(reader, ".")
      next  == SaveAndNext(digit)
  IN /\ AtNumeral
     /\ IF Current(digit) = "0" /\ Current(next) = "x"
        THEN Continue(SaveAndNext(next), Loop("hexadecimal"))
        ELSE Continue(next, Loop("decimal"))

\* A name or a reserved word.
LexName ==
  /\ Current(reader) \in Alpha
  /\ Return(Eat(reader, Alnum), "word")

AtShebang == Current(reader) = "#" /\ linenumber = 0 /\ tokens = <<>>

LexShebang ==
  /\ AtShebang
  /\ Return(Eat(reader, Others), "shebang")

AtBlockComment == file.nonStandard /\ At(<<"/", "*">>)

\* ReadLongCLikeComment up to its loop.
LexBlockComment ==
  /\ AtBlockComment
  /\ SkipLine(SaveTo(reader, reader.pos + 2), Loop("block"))

AtLineComment == file.nonStandard /\ file.cLike /\ At(<<"/", "/">>)

LexLineComment ==
  /\ AtLineComment
  /\ Return(Eat(reader, Others), "short comment")

AtTemplate == file.nonStandard /\ At(<<"{", "@">>)

\* A name written {@...}, see issue 119.  Where char is signed a byte above 0x7F is looked up in
\* front of LuaCharType, and may be taken or not.
LexTemplate ==
  LET opened == SaveTo(reader, reader.pos + 2)
      q      == RunEnd(opened.pos, Alnum)
  IN /\ AtTemplate
     /\ \E p \in opened.pos..q :
          /\ p = q \/ CharAt(p) = "utf8"
          /\ LET name == SaveTo(opened, p)
             IN IF Current(name) = "}" THEN Return(SaveAndNext(name), "word")
                ELSE Return(name, "error")

\* Whether the character begins something else than a symbol.
AtOther ==
  \/ Current(reader) \in {EOZ, "["} \union NewLines \union Blanks \union Quotes \union Alpha
  \/ At(<<"-", "-">>) \/ AtNumeral \/ AtShebang
  \/ AtBlockComment \/ AtLineComment \/ AtTemplate

\* The longest symbol, or a character of its own.
LexSymbol ==
  LET lengths == {1} \union {Len(s) : s \in {t \in Symbols : At(t)}}
      longest == CHOOSE n \in lengths : \A m \in lengths : m <= n
  IN /\ ~AtOther
     /\ Return(SaveTo(reader, reader.pos + longest), "symbol")

LexEnd ==
  /\ Current(reader) = EOZ
  /\ Continue(reader, Loop("parsed"))

Lex ==
  /\ loop = Lexing
  /\ \/ LexBlank \/ LexLine \/ LexComment \/ LexBracket \/ LexString \/ LexNumeral \/ LexName
     \/ LexShebang \/ LexBlockComment \/ LexLineComment \/ LexTemplate \/ LexSymbol \/ LexEnd

-----------------------------------------------------------------------------

(***************************************************************************)
(* The loops.                                                              *)
(***************************************************************************)

\* Of ReadLongString.
LongString ==
  LET bracket == SkipSep(reader)
  IN /\ loop.name = "long"
     /\ \/ Current(reader) = EOZ /\ Fail(reader, loop.kind)
        \/ /\ Current(reader) = "]"
           /\ IF bracket.sep = loop.sep THEN Return(SaveAndNext(bracket.reader), loop.kind)
              ELSE Continue(bracket.reader, loop)
        \/ Current(reader) \in NewLines /\ CrossLine(Save(reader), loop)
        \/ /\ Current(reader) \notin {EOZ, "]"} \union NewLines
           /\ Continue(SaveAndNext(reader), loop)

\* Of ReadLongCLikeComment.
BlockComment ==
  LET star == SaveAndNext(reader)
  IN /\ loop.name = "block"
     /\ \/ Current(reader) = EOZ /\ Fail(reader, "long comment")
        \/ /\ Current(reader) = "*"
           /\ IF Current(star) = "/" THEN Return(SaveAndNext(star), "long comment")
              ELSE Continue(star, loop)
        \/ Current(reader) \in NewLines /\ CrossLine(Save(reader), loop)
        \/ /\ Current(reader) \notin {EOZ, "*"} \union NewLines
           /\ Continue(SaveAndNext(reader), loop)

\* Of ReadString.
String ==
  LET escaped == SaveAndNext(reader)
  IN /\ loop.name = "string"
     /\ \/ Current(reader) = loop.del /\ Return(SaveAndNext(reader), "string")
        \/ Current(reader) \in {EOZ} \union NewLines /\ Fail(reader, "string")
        \/ /\ Current(reader) = "\\"
           /\ \/ Current(escaped) = EOZ /\ Fail(escaped, "string")
              \/ Current(escaped) = "z" /\ Continue(SaveAndNext(escaped), Quoted("spaces", loop.del))
              \/ Current(escaped) \in NewLines /\ CrossLine(escaped, loop)
              \/ /\ Current(escaped) \notin {EOZ, "z"} \union NewLines
                 /\ Continue(SaveAndNext(escaped), loop)
        \/ /\ Current(reader) \notin {loop.del, EOZ, "\\"} \union NewLines
           /\ Continue(SaveAndNext(reader), loop)

\* Of ReadString, behind \z.
Spaces ==
  /\ loop.name = "spaces"
  /\ \/ Current(reader) \in NewLines /\ CrossLine(reader, loop)
     \/ Current(reader) \in Blanks /\ Continue(SaveAndNext(reader), loop)
     \/ /\ Current(reader) \notin NewLines \union Blanks
        /\ Continue(reader, Quoted("string", loop.del))

Exponent == IF loop.name = "hexadecimal" THEN "p" ELSE "e"

\* Of ReadNumeral, and the letters that touch the numeral.
Numeral ==
  LET marked == SaveAndNext(reader)
  IN /\ loop.name \in {"decimal", "hexadecimal"}
     /\ \/ /\ Current(reader) = Exponent
           /\ Continue(IF Current(marked) \in {"-", "+"} THEN SaveAndNext(marked) ELSE marked, loop)
        \/ /\ Current(reader) \in (HexDigits \union {"."}) \ {Exponent}
           /\ Continue(marked, loop)
        \/ /\ Current(reader) \notin HexDigits \union {".", Exponent}
           /\ Return(Eat(reader, AsciiLetters), "number")

\* Of LuaSource::UpdateLineInfo.
UpdateLineInfo ==
  /\ loop.name = "update"
  /\ IF reader.pos < Size
     THEN /\ lines' = IF Current(reader) = "\n" THEN Append(lines, reader.pos + 1) ELSE lines
          /\ reader' = NextChar(reader)
          /\ UNCHANGED loop
     ELSE loop' = Loop("parsed") /\ UNCHANGED <<lines, reader>>
  /\ UNCHANGED <<file, linenumber, lineState, search, tokens, errors>>

-----------------------------------------------------------------------------

\* Somebody wants the line of an offset in the text, or of its end.
Ask ==
  /\ loop = Loop("parsed")
  /\ \E offset \in 0..Size : GetLine(offset)
  /\ loop' = Loop("search")
  /\ UNCHANGED <<file, lineVars, reader, tokens, errors>>

Search ==
  /\ loop.name = "search"
  /\ ~search.found
  /\ SearchDown \/ SearchUp
  /\ UNCHANGED <<file, lineVars, lexVars>>

Next ==
  Lex \/ LongString \/ BlockComment \/ String \/ Spaces \/ Numeral \/ UpdateLineInfo
  \/ Ask \/ Search

Spec == Init /\ [][Next]_vars /\ WF_vars(Next)

-----------------------------------------------------------------------------

Names == {"lex", "long", "block", "string", "spaces", "decimal", "hexadecimal", "update",
          "parsed", "search"}

Kinds == {"word", "number", "string", "long string", "symbol", "short comment", "long comment",
          "shebang", "error"}

TypeOK ==
  /\ text \in Seq(STRING \ {EOZ})
  /\ lines \in Seq(Nat) /\ linenumber \in Nat
  /\ lineState \in {"UNKNOWN", "LF", "CR", "CRLF", "MIX"}
  /\ search \in [offset : Nat, target : Nat, upper : Nat, lower : Nat, found : BOOLEAN]
  /\ reader \in [pos : 0..Size, saved : BOOLEAN, start : Nat, end : Nat]
  /\ tokens \in Seq([kind : Kinds, start : Nat, end : Nat])
  /\ errors \in Seq(Nat)
  /\ loop \in [name : Names, kind : Kinds \union {""}, sep : Nat, del : Quotes \union {""}]

Within(p, token) == token.start <= p /\ p <= token.end

\* How far the lexer has read.
Read == IF errors = <<>> THEN reader.pos ELSE errors[1]

\* The tokens are the text: each is a part of it behind the one before, and what is in none of
\* them, nor in the one that is being read, is blank.  Only strings and long comments go
\* over more than a line, and a short comment over all of the rest of its line: the
\* formatter breaks lines on the strength of both.
TokensCover ==
  /\ \A j \in DOMAIN tokens :
       /\ tokens[j].start <= tokens[j].end /\ tokens[j].end < Read
       /\ \A k \in DOMAIN tokens : j < k => tokens[j].end < tokens[k].start
  /\ \A p \in 0..(Read - 1) :
       \/ CharAt(p) \in Blanks \union NewLines
       \/ reader.saved /\ reader.start <= p
       \/ \E j \in DOMAIN tokens : Within(p, tokens[j])
  /\ \A j \in DOMAIN tokens :
       /\ tokens[j].kind \notin {"string", "long string", "long comment"} =>
            \A p \in tokens[j].start..tokens[j].end : CharAt(p) \notin NewLines
       /\ tokens[j].kind = "short comment" => CharAt(tokens[j].end + 1) \in {EOZ} \union NewLines

\* From a line to the next there is one line break, at the end.
IsLine(from, to) ==
  \E p \in from..(to - 1) :
    /\ CharAt(p) \in NewLines
    /\ \A q \in from..(p - 1) : CharAt(q) \notin NewLines
    /\ to = p + (IF IsPair(p) THEN 2 ELSE 1)

\* Every loop of the lexer that crosses line breaks counts them, and counts them once: the
\* table has the lines up to where the lexer is, or up to the error that stopped it.  The lines
\* behind an error are behind it.
LinesFound ==
  /\ linenumber < Len(lines) /\ LineOffset(0) = 0
  /\ \A l \in 1..linenumber : IsLine(LineOffset(l - 1), LineOffset(l))
  /\ LineOffset(linenumber) <= Read
  /\ \A p \in LineOffset(linenumber)..(Read - 1) : CharAt(p) \notin NewLines
  /\ \A l \in (linenumber + 1)..(Len(lines) - 1) : LineOffset(l) > Read

\* GetLine, which halves an interval with one branch that returns early and another that keeps
\* its lower bound, finds the last line that does not begin behind the offset.
LineIsRight ==
  search.found =>
    /\ search.target < Len(lines)
    /\ LineOffset(search.target) <= search.offset
    /\ \A l \in (search.target + 1)..(Len(lines) - 1) : LineOffset(l) > search.offset

\* The lexer comes to the end of every text, also inside what is never closed, and so does
\* the search.
Ends == <>search.found
=============================================================================
