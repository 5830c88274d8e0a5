--------------------------- MODULE LuaLexerProofs ---------------------------
(***************************************************************************)
(* Proofs about the lexer, for every text: its tokens cover the text, its  *)
(* table of lines is that of the text, and GetLine finds the line of every *)
(* offset.                                                                 *)
(***************************************************************************)
EXTENDS LuaLexer, FiniteSetTheorems, TLAPS

Inner == {"long", "block", "string", "spaces", "decimal", "hexadecimal"}

Reading == Inner \union {"lex"}

Multi == {"string", "long string", "long comment"}

IsText == text \in Seq(STRING \ {EOZ})

Reader == [pos : 0..Size, saved : BOOLEAN, start : Nat, end : Nat]

LoopType == [name : Names, kind : Kinds \union {""}, sep : Nat, del : Quotes \union {""}]

\* No line break from one offset to another.
Clean(from, to) == \A p \in from..(to - 1) : CharAt(p) \notin NewLines

\* What was saved is behind the reader; only line breaks are between them.
SavedBehind(r) ==
  r.saved => /\ r.start <= r.end /\ r.end < r.pos
             /\ \A p \in (r.end + 1)..(r.pos - 1) : CharAt(p) \in NewLines

\* s is r after it saved some characters of the same line, or none.
Follows(r, s) ==
  /\ s \in Reader /\ SavedBehind(s)
  /\ r.pos <= s.pos /\ Clean(r.pos, s.pos)
  /\ s.pos = r.pos => s = r
  /\ s.pos # r.pos => /\ s.saved /\ s.end = s.pos - 1
                      /\ s.start = IF r.saved THEN r.start ELSE r.pos

-----------------------------------------------------------------------------

\* Behind the text, and nowhere else, is its end.
LEMMA Characters ==
  ASSUME IsText
  PROVE  /\ Size \in Nat
         /\ \A p \in Nat : CharAt(p) = EOZ <=> Size <= p
         /\ EOZ \notin NewLines /\ EOZ \notin Others /\ Others \cap NewLines = {}
<1>1. Size \in Nat /\ \A k \in 1..Size : text[k] # EOZ
  BY DEF IsText, Size
<1>2. \A p \in Nat : p < Size => p + 1 \in 1..Size
  BY <1>1
<1>3. \A p \in Nat : CharAt(p) = EOZ <=> Size <= p
  BY <1>1, <1>2 DEF CharAt
<1>4. EOZ \notin NewLines
  BY DEF NewLines, EOZ
<1>5. EOZ \notin Others /\ Others \cap NewLines = {}
  BY <1>1 DEF Others
<1>6. QED
  BY <1>1, <1>3, <1>4, <1>5

\* A set of natural numbers has a least one: of the intervals from 0 to one of its members,
\* one contains no other.
LEMMA LeastMember ==
  ASSUME NEW S \in SUBSET Nat, S # {}
  PROVE  \E n \in S : \A m \in S : n <= m
<1> DEFINE T == {0..n : n \in S}
<1>1. T \subseteq FiniteSubsetsOf(Nat) /\ T # {}
  <2>1. \A n \in S : IsFiniteSet(0..n) /\ 0..n \subseteq Nat
    BY FS_Interval
  <2>2. QED
    BY <2>1 DEF FiniteSubsetsOf
<1>2. IsWellFoundedOn(StrictSubsetOrdering(Nat), FiniteSubsetsOf(Nat))
  BY FS_StrictSubsetOrderingWellFounded
<1>3. PICK x \in T : \A y \in T : <<y, x>> \notin StrictSubsetOrdering(Nat)
  <2> HIDE DEF T
  <2>1. QED
    BY <1>1, <1>2, WFMin, Zenon
<1>4. PICK n \in S : x = 0..n
  BY <1>3
<1>5. SUFFICES ASSUME NEW m \in S, m < n
               PROVE  FALSE
  BY Z3
<1>6. 0..m \in T /\ 0..m \subseteq 0..n /\ 0..m # 0..n /\ 0..n \subseteq Nat /\ 0..m \subseteq Nat
  BY <1>5
<1>7. <<0..m, 0..n>> \in StrictSubsetOrdering(Nat)
  BY <1>6 DEF StrictSubsetOrdering
<1>8. QED
  BY <1>3, <1>4, <1>6, <1>7

LEMMA RunEnds ==
  ASSUME IsText, NEW p \in 0..Size, NEW chars, EOZ \notin chars
  PROVE  /\ RunEnd(p, chars) \in p..Size
         /\ \A k \in p..(RunEnd(p, chars) - 1) : CharAt(k) \in chars
         /\ CharAt(RunEnd(p, chars)) \notin chars
<1> DEFINE S == {q \in p..Size : CharAt(q) \notin chars}
<1>1. Size \in Nat /\ Size \in S
  BY Characters
<1>2. PICK n \in S : \A m \in S : n <= m
  <2>1. S \in SUBSET Nat /\ S # {}
    BY <1>1
  <2>2. QED
    BY <2>1, LeastMember
<1>3. n \in p..Size /\ CharAt(n) \notin chars /\ \A k \in p..(n - 1) : CharAt(k) \in chars
  BY <1>1, <1>2
<1>4. QED
  BY <1>3 DEF RunEnd

-----------------------------------------------------------------------------

(***************************************************************************)
(* The reader.                                                             *)
(***************************************************************************)
LEMMA FollowsSelf ==
  ASSUME IsText, NEW r \in Reader, SavedBehind(r)
  PROVE  Follows(r, r)
BY Characters DEF Follows, Clean, Reader

LEMMA FollowsTwice ==
  ASSUME IsText, NEW r \in Reader, NEW s \in Reader, NEW t \in Reader,
         Follows(r, s), Follows(s, t)
  PROVE  Follows(r, t)
<1>1. Clean(r.pos, t.pos)
  BY Characters DEF Follows, Clean, Reader
<1>2. QED
  BY <1>1, Characters DEF Follows, Reader

LEMMA SaveToIs ==
  ASSUME NEW r \in Reader, NEW q \in Nat, r.pos < q, Size \in Nat
  PROVE  /\ SaveTo(r, q).pos = q /\ SaveTo(r, q).saved /\ SaveTo(r, q).end = q - 1
         /\ SaveTo(r, q).start = IF r.saved THEN r.start ELSE r.pos
         /\ [SaveTo(r, q) EXCEPT !.pos = r.pos] \in Reader
<1> DEFINE s == [pos |-> q, saved |-> TRUE,
                 start |-> IF r.saved THEN r.start ELSE r.pos, end |-> q - 1]
<1>1. SaveTo(r, q) = s
  <2>1. q # r.pos
    BY DEF Reader
  <2>2. QED
    BY <2>1 DEF SaveTo
<1>2. s.start \in Nat /\ s.end \in Nat
  BY DEF Reader
<1>3. [s EXCEPT !.pos = r.pos] \in Reader
  BY <1>2 DEF Reader
<1>4. QED
  BY <1>1, <1>3

LEMMA AfterBreakIs ==
  ASSUME NEW r \in Reader
  PROVE  /\ AfterBreak(r).pos = r.pos + (IF IsPair(r.pos) THEN 2 ELSE 1)
         /\ AfterBreak(r).saved = r.saved
         /\ AfterBreak(r).start = r.start /\ AfterBreak(r).end = r.end
         /\ AfterBreak(r).pos \in 0..Size => AfterBreak(r) \in Reader
<1>1. AfterBreak(r) = [pos |-> r.pos + (IF IsPair(r.pos) THEN 2 ELSE 1),
                       saved |-> r.saved, start |-> r.start, end |-> r.end]
  BY DEF AfterBreak, Reader
<1>2. QED
  BY <1>1 DEF Reader

LEMMA SaveToFollows ==
  ASSUME IsText, NEW r \in Reader, SavedBehind(r), NEW q \in r.pos..Size, Clean(r.pos, q)
  PROVE  /\ SaveTo(r, q) \in Reader /\ Follows(r, SaveTo(r, q)) /\ SaveTo(r, q).pos = q
         /\ q # r.pos => SaveTo(r, q).saved /\ SaveTo(r, q).end = q - 1
<1>1. Size \in Nat /\ r.pos \in 0..Size /\ q \in Nat /\ r.pos <= q
  BY Characters DEF Reader
<1>2. CASE q = r.pos
  BY <1>2, FollowsSelf DEF SaveTo
<1>3. CASE q # r.pos
  <2> DEFINE s == [pos |-> q, saved |-> TRUE,
                   start |-> IF r.saved THEN r.start ELSE r.pos, end |-> q - 1]
  <2>1. SaveTo(r, q) = s
    BY <1>3 DEF SaveTo
  <2>2. s.start \in Nat /\ q - 1 \in Nat /\ s.start <= q - 1
    BY <1>1, <1>3 DEF Reader, SavedBehind
  <2>3. s \in Reader /\ SavedBehind(s)
    BY <1>1, <2>2 DEF Reader, SavedBehind
  <2>4. Follows(r, s)
    BY <1>1, <1>3, <2>3 DEF Follows
  <2>5. QED
    BY <1>3, <2>1, <2>3, <2>4
<1>4. QED
  BY <1>2, <1>3

LEMMA NextFollows ==
  ASSUME IsText, NEW r \in Reader, SavedBehind(r), Current(r) \notin {EOZ} \union NewLines
  PROVE  /\ SaveAndNext(r) \in Reader /\ Follows(r, SaveAndNext(r))
         /\ SaveAndNext(r).pos = r.pos + 1 /\ SaveAndNext(r).saved
         /\ SaveAndNext(r).end = r.pos
<1>1. Size \in Nat /\ r.pos \in 0..Size /\ CharAt(r.pos) # EOZ
  BY Characters DEF Reader, Current
<1>2. r.pos + 1 \in r.pos..Size /\ r.pos + 1 # r.pos
  BY <1>1, Characters
<1>3. Clean(r.pos, r.pos + 1)
  <2>1. \A p \in r.pos..((r.pos + 1) - 1) : p = r.pos
    BY <1>1
  <2>2. QED
    BY <2>1 DEF Clean, Current
<1>4. QED
  BY <1>1, <1>2, <1>3, SaveToFollows DEF SaveAndNext

LEMMA EatFollows ==
  ASSUME IsText, NEW r \in Reader, SavedBehind(r), NEW chars, EOZ \notin chars, chars \cap NewLines = {}
  PROVE  /\ Eat(r, chars) \in Reader /\ Follows(r, Eat(r, chars))
         /\ Eat(r, chars).pos = RunEnd(r.pos, chars)
         /\ RunEnd(r.pos, chars) # r.pos => Eat(r, chars).saved
         /\ Current(Eat(r, chars)) \notin chars
<1>1. r.pos \in 0..Size
  BY DEF Reader
<1>2. RunEnd(r.pos, chars) \in r.pos..Size /\ CharAt(RunEnd(r.pos, chars)) \notin chars
      /\ Clean(r.pos, RunEnd(r.pos, chars))
  BY <1>1, RunEnds DEF Clean
<1>3. QED
  BY <1>2, SaveToFollows DEF Eat, Current

LEMMA SkipSepFollows ==
  ASSUME IsText, NEW r \in Reader, SavedBehind(r), Current(r) \in {"[", "]"}
  PROVE  LET s == SkipSep(r)
         IN /\ s.reader \in Reader /\ Follows(r, s.reader) /\ s.reader.saved
            /\ s.sep \in Nat
            /\ s.sep >= 2 => Current(s.reader) = Current(r)
<1> DEFINE a == SaveAndNext(r)
           b == Eat(a, {"="})
<1>1. a \in Reader /\ Follows(r, a) /\ a.saved /\ SavedBehind(a)
  BY NextFollows DEF NewLines, EOZ, Follows
<1>2. b \in Reader /\ Follows(a, b)
  BY <1>1, EatFollows DEF NewLines, EOZ
<1>3. b.saved /\ Follows(r, b) /\ a.pos <= b.pos /\ a.pos \in Nat /\ b.pos \in Nat
  BY <1>1, <1>2, FollowsTwice, Characters DEF Follows, Reader
<1>4. QED
  BY <1>2, <1>3 DEF SkipSep

-----------------------------------------------------------------------------

(***************************************************************************)
(* The inductive invariant.                                                *)
(***************************************************************************)

\* What a loop knows of what the reader has saved.
Fits(r, l) ==
  /\ l \in LoopType
  /\ l.name \in Inner <=> r.saved
  /\ l.name = "long" => l.kind \in Multi /\ l.sep >= 2
  /\ l.name \in {"string", "spaces"} => l.del \in Quotes
  /\ l.name \in {"decimal", "hexadecimal"} => Clean(r.start, r.pos)

ShapeAt(r, l, es) ==
  /\ SavedBehind(r)
  /\ Fits(r, l)
  /\ l.name \in Reading => es = <<>>
  /\ l.name = "update" => es # <<>>

Shape == ShapeAt(reader, loop, errors)

\* TokensCover of a reader that has come to n.
CoverAt(ts, r, n) ==
  /\ \A j \in DOMAIN ts :
       /\ ts[j].start <= ts[j].end /\ ts[j].end < n
       /\ \A k \in DOMAIN ts : j < k => ts[j].end < ts[k].start
  /\ \A p \in 0..(n - 1) :
       \/ CharAt(p) \in Blanks \union NewLines
       \/ r.saved /\ r.start <= p
       \/ \E j \in DOMAIN ts : Within(p, ts[j])
  /\ \A j \in DOMAIN ts :
       /\ ts[j].kind \notin Multi =>
            \A p \in ts[j].start..ts[j].end : CharAt(p) \notin NewLines
       /\ ts[j].kind = "short comment" => CharAt(ts[j].end + 1) \in {EOZ} \union NewLines

\* What is being saved is behind the tokens.
Ahead(ts, r) == r.saved => \A j \in DOMAIN ts : ts[j].end < r.start

Covered == CoverAt(tokens, reader, Read) /\ Ahead(tokens, reader)

\* LinesFound of a reader that has come to n.
LinesAt(ls, number, n) ==
  /\ number < Len(ls) /\ ls[1] = 0
  /\ \A l \in 1..number : IsLine(ls[l], ls[l + 1])
  /\ ls[number + 1] <= n
  /\ Clean(ls[number + 1], n)
  /\ \A l \in (number + 1)..(Len(ls) - 1) : ls[l + 1] > n

Sorted(ls) == \A i, j \in DOMAIN ls : i < j => ls[i] < ls[j]

TableAt(ls, number, n, l, p) ==
  /\ LinesAt(ls, number, n)
  /\ Sorted(ls)
  /\ l.name \in Reading => Len(ls) = number + 1
  /\ l.name = "update" => \A i \in DOMAIN ls : ls[i] <= p

Table == TableAt(lines, linenumber, Read, loop, reader.pos)

\* The line is between lower and upper, and `target` is one of those.
Halving ==
  /\ loop.name # "search" => ~search.found
  /\ loop.name = "search" =>
       /\ search.lower <= search.target /\ search.target <= search.upper
       /\ search.upper < Len(lines)
       /\ LineOffset(search.lower) <= search.offset
       /\ \/ LineOffset(search.upper) > search.offset
          \/ search.target = search.upper /\ search.upper = Len(lines) - 1
  /\ LineIsRight

IInv == TypeOK /\ Shape /\ Covered /\ Table /\ Halving

-----------------------------------------------------------------------------

(***************************************************************************)
(* What a step of Lex or of a loop comes to.                               *)
(***************************************************************************)

\* t is r, farther on: what is in between is saved, or blank.
Grows(r, t) ==
  /\ t \in Reader /\ SavedBehind(t)
  /\ r.pos <= t.pos
  /\ t.saved => t.start = IF r.saved THEN r.start ELSE r.pos
  /\ r.saved => t.saved
  /\ ~t.saved => \A p \in r.pos..(t.pos - 1) : CharAt(p) \in Blanks \union NewLines

\* The reader goes on, in the line.
Moves ==
  \E t, l :
    /\ Grows(reader, t) /\ Clean(reader.pos, t.pos)
    /\ Fits(t, l) /\ l.name \in Reading \union {"parsed"}
    /\ Continue(t, l)

\* It goes over a line break, the first one that it meets.
Crosses ==
  \E s, l :
    /\ s \in Reader
    /\ s.pos \in reader.pos..(Size - 1) /\ Clean(reader.pos, s.pos)
    /\ CharAt(s.pos) \in NewLines
    /\ Grows(reader, AfterBreak(s))
    /\ Fits(AfterBreak(s), l) /\ l.name \in Reading
    /\ CrossLine(s, l)

\* What is true of a token, and of nothing else.
TokenFits(r, k) ==
  /\ k \notin Multi => Clean(r.start, r.pos)
  /\ k = "short comment" => r.end = r.pos - 1 /\ CharAt(r.pos) \in {EOZ} \union NewLines

\* It has read a token.
Returns ==
  \E s, k :
    /\ Follows(reader, s) /\ s.saved /\ k \in Kinds /\ TokenFits(s, k)
    /\ Return(s, k)

\* It has met an error.
Fails == \E s, k : Follows(reader, s) /\ s.saved /\ k \in Multi /\ Fail(s, k)

Effect == Moves \/ Crosses \/ Returns \/ Fails

LEMMA FollowsGrows ==
  ASSUME IsText, NEW r \in Reader, NEW s, Follows(r, s)
  PROVE  s \in Reader /\ SavedBehind(s) /\ Grows(r, s) /\ Clean(r.pos, s.pos) /\ (r.saved => s.saved)
<1>1. s \in Reader /\ SavedBehind(s) /\ r.pos <= s.pos /\ Clean(r.pos, s.pos)
  BY DEF Follows
<1>2. CASE s.pos = r.pos
  <2>1. s = r
    BY <1>2 DEF Follows
  <2>2. \A p \in r.pos..(r.pos - 1) : FALSE
    BY Characters DEF Reader
  <2>3. QED
    BY <1>1, <2>1, <2>2 DEF Grows
<1>3. CASE s.pos # r.pos
  BY <1>1, <1>3 DEF Follows, Grows
<1>4. QED
  BY <1>2, <1>3

\* Over the line break that s has come to.
LEMMA BreakGrows ==
  ASSUME IsText, NEW r \in Reader, NEW s, Follows(r, s), CharAt(s.pos) \in NewLines,
         s.pos # r.pos \/ r.saved \/ s = r
  PROVE  /\ s.pos \in r.pos..(Size - 1) /\ Clean(r.pos, s.pos)
         /\ Grows(r, AfterBreak(s)) /\ AfterBreak(s).saved = s.saved
<1>1. s \in Reader /\ SavedBehind(s) /\ Grows(r, s) /\ Clean(r.pos, s.pos)
  BY FollowsGrows
<1>2. Size \in Nat /\ s.pos \in Nat /\ r.pos \in Nat /\ s.pos < Size /\ r.pos <= s.pos
      /\ s.pos + 1 \in Nat
  BY <1>1, Characters DEF Reader, Grows
<1>3. IsPair(s.pos) => s.pos + 1 < Size /\ CharAt(s.pos + 1) \in NewLines
  BY <1>2, Characters DEF IsPair
<1> DEFINE t == AfterBreak(s)
           n == IF IsPair(s.pos) THEN 2 ELSE 1
<1>4. /\ t.pos = s.pos + n /\ t.saved = s.saved /\ t.start = s.start /\ t.end = s.end
      /\ t.pos \in 0..Size => t \in Reader
  BY <1>1, AfterBreakIs
<1>5. n \in {1, 2} /\ s.pos + n <= Size /\ \A p \in s.pos..(s.pos + n - 1) : CharAt(p) \in NewLines
  BY <1>2, <1>3
<1> HIDE DEF t, n
<1>6. t \in Reader /\ t.pos = s.pos + n /\ t.saved = s.saved /\ t.start = s.start /\ t.end = s.end
  BY <1>1, <1>2, <1>4, <1>5 DEF Reader
<1>7. SavedBehind(t)
  <2> SUFFICES ASSUME t.saved
               PROVE  /\ t.start <= t.end /\ t.end < t.pos
                      /\ \A p \in (t.end + 1)..(t.pos - 1) : CharAt(p) \in NewLines
    BY DEF SavedBehind
  <2>1. s.start <= s.end /\ s.end < s.pos
        /\ \A p \in (s.end + 1)..(s.pos - 1) : CharAt(p) \in NewLines
    BY <1>1, <1>6 DEF SavedBehind
  <2>2. QED
    BY <1>1, <1>2, <1>5, <1>6, <2>1 DEF Reader
<1>8. ~t.saved => \A p \in r.pos..(t.pos - 1) : CharAt(p) \in Blanks \union NewLines
  BY <1>1, <1>2, <1>5, <1>6 DEF Grows
<1>9. Grows(r, t)
  BY <1>1, <1>2, <1>5, <1>6, <1>7, <1>8 DEF Grows
<1>10. QED
  BY <1>1, <1>2, <1>6, <1>9 DEF t

\* Over the line break it is at, which is saved.
LEMMA SavedBreakGrows ==
  ASSUME IsText, NEW r \in Reader, SavedBehind(r), r.saved, Current(r) \in NewLines
  PROVE  /\ Save(r) \in Reader /\ Save(r).pos = r.pos /\ r.pos \in r.pos..(Size - 1) /\ Clean(r.pos, r.pos)
         /\ Grows(r, AfterBreak(Save(r))) /\ AfterBreak(Save(r)).saved
<1>1. Size \in Nat /\ r.pos \in Nat /\ r.pos < Size /\ r.pos + 1 \in Nat
  BY Characters DEF Reader, Current
<1>2. /\ Save(r) \in Reader /\ Save(r).pos = r.pos /\ Save(r).saved
      /\ Save(r).start = r.start /\ Save(r).end = r.pos
  <2> DEFINE a == SaveTo(r, r.pos + 1)
  <2>1. a.saved /\ a.start = r.start /\ a.end = r.pos /\ [a EXCEPT !.pos = r.pos] \in Reader
    <3>1. r.pos < r.pos + 1 /\ r.pos + 1 - 1 = r.pos
      BY <1>1
    <3>2. QED
      BY <1>1, <3>1, SaveToIs
  <2>2. Save(r) = [a EXCEPT !.pos = r.pos]
    BY DEF Save, SaveAndNext
  <2> HIDE DEF a
  <2>3. QED
    BY <1>1, <2>1, <2>2 DEF Reader
<1>3. IsPair(r.pos) => r.pos + 1 < Size /\ CharAt(r.pos + 1) \in NewLines
  BY <1>1, Characters DEF IsPair
<1> DEFINE n == IF IsPair(r.pos) THEN 2 ELSE 1
           t == AfterBreak(Save(r))
<1>4. /\ t.pos = r.pos + n /\ t.saved = Save(r).saved /\ t.start = r.start /\ t.end = r.pos
      /\ t.pos \in 0..Size => t \in Reader
  BY <1>2, AfterBreakIs
<1>5. n \in {1, 2} /\ r.pos + n <= Size /\ (n = 2 => CharAt(r.pos + 1) \in NewLines)
  BY <1>1, <1>3
<1> HIDE DEF n, t
<1>6. t \in Reader
  BY <1>1, <1>2, <1>4, <1>5 DEF Reader
<1>7. SavedBehind(t)
  BY <1>1, <1>2, <1>4, <1>5 DEF Reader, SavedBehind
<1>8. Grows(r, t)
  BY <1>1, <1>2, <1>4, <1>5, <1>6, <1>7 DEF Grows
<1>9. QED
  BY <1>1, <1>2, <1>4, <1>8 DEF Clean, t

-----------------------------------------------------------------------------

LEMMA ShapeOf ==
  ASSUME TypeOK, Shape
  PROVE  /\ IsText /\ reader \in Reader /\ SavedBehind(reader)
         /\ loop \in LoopType /\ Fits(reader, loop)
BY DEF TypeOK, Shape, ShapeAt, IsText, Reader, LoopType

LEMMA LoopsFit ==
  ASSUME NEW r \in Reader
  PROVE  /\ \A l \in {Lexing, Loop("parsed")} : ~r.saved => Fits(r, l)
         /\ r.saved => Fits(r, Loop("block"))
         /\ \A k \in Multi, n \in Nat : r.saved /\ n >= 2 => Fits(r, Long(k, n))
         /\ \A name \in {"string", "spaces"}, d \in Quotes : r.saved => Fits(r, Quoted(name, d))
         /\ \A name \in {"decimal", "hexadecimal"} :
              r.saved /\ Clean(r.start, r.pos) => Fits(r, Loop(name))
<1>1. \A name \in Names : Loop(name) \in LoopType /\ Loop(name).name = name
  BY DEF Loop, LoopType
<1>2. \A k \in Multi, n \in Nat :
        Long(k, n) \in LoopType /\ Long(k, n).name = "long" /\ Long(k, n).kind = k
        /\ Long(k, n).sep = n
  BY DEF Long, Loop, LoopType, Multi, Kinds, Names
<1>3. \A name \in {"string", "spaces"}, d \in Quotes :
        Quoted(name, d) \in LoopType /\ Quoted(name, d).name = name /\ Quoted(name, d).del = d
  BY DEF Quoted, Loop, LoopType, Names
<1>4. \A l \in {Lexing, Loop("parsed")} : ~r.saved => Fits(r, l)
  BY <1>1 DEF Lexing, Fits, Names, Inner
<1>5. r.saved => Fits(r, Loop("block"))
  BY <1>1 DEF Fits, Names, Inner
<1>6. \A k \in Multi, n \in Nat : r.saved /\ n >= 2 => Fits(r, Long(k, n))
  BY <1>2 DEF Fits, Inner
<1>7. \A name \in {"string", "spaces"}, d \in Quotes : r.saved => Fits(r, Quoted(name, d))
  BY <1>3 DEF Fits, Inner
<1>8. \A name \in {"decimal", "hexadecimal"} :
        r.saved /\ Clean(r.start, r.pos) => Fits(r, Loop(name))
  BY <1>1 DEF Fits, Names, Inner
<1>9. QED
  BY <1>4, <1>5, <1>6, <1>7, <1>8

LEMMA LoopNames ==
  /\ Lexing.name = "lex" /\ \A name \in Names : Loop(name).name = name
  /\ \A k, n : Long(k, n).name = "long"
  /\ \A name \in Names : \A d : Quoted(name, d).name = name
BY DEF Lexing, Loop, Long, Quoted

LEMMA StillFits ==
  ASSUME NEW r \in Reader, NEW l, Fits(r, l), NEW t \in Reader,
         l.name \in {"long", "block", "string", "spaces"}, t.saved
  PROVE  Fits(t, l)
BY DEF Fits, Inner

-----------------------------------------------------------------------------

LEMMA MovesOn ==
  ASSUME IsText, reader \in Reader, NEW s, Follows(reader, s),
         NEW l, Fits(s, l), l.name \in Reading, Continue(s, l)
  PROVE  Moves
BY FollowsGrows DEF Moves

LEMMA CrossesOver ==
  ASSUME IsText, reader \in Reader, NEW s, Follows(reader, s), CharAt(s.pos) \in NewLines,
         s.pos # reader.pos \/ reader.saved \/ s = reader,
         NEW l, Fits(AfterBreak(s), l), l.name \in Reading, CrossLine(s, l)
  PROVE  Crosses
BY BreakGrows, FollowsGrows DEF Crosses

LEMMA CrossesSaved ==
  ASSUME IsText, reader \in Reader, SavedBehind(reader), reader.saved, Current(reader) \in NewLines,
         NEW l, Fits(AfterBreak(Save(reader)), l), l.name \in Reading,
         CrossLine(Save(reader), l)
  PROVE  Crosses
<1> DEFINE s == Save(reader)
<1>1. /\ s \in Reader /\ s.pos = reader.pos /\ reader.pos \in reader.pos..(Size - 1)
      /\ Clean(reader.pos, reader.pos) /\ Grows(reader, AfterBreak(s))
  BY SavedBreakGrows
<1>2. CharAt(s.pos) \in NewLines
  BY <1>1 DEF Current
<1> HIDE DEF s
<1>3. QED
  BY <1>1, <1>2 DEF Crosses, s

\* What a loop that is entered may skip before.
LEMMA SkipsLine ==
  ASSUME IsText, reader \in Reader, NEW s, Follows(reader, s), s.pos # reader.pos,
         NEW l, \A t \in Reader : t.saved => Fits(t, l), l.name \in Reading, SkipLine(s, l)
  PROVE  Moves \/ Crosses
<1>1. s \in Reader /\ s.saved
  BY FollowsGrows DEF Follows
<1>2. CASE Current(s) \in NewLines
  <2>1. CrossLine(s, l) /\ CharAt(s.pos) \in NewLines
    BY <1>2 DEF SkipLine, Current
  <2>2. AfterBreak(s) \in Reader /\ AfterBreak(s).saved
    BY <1>1, <2>1, BreakGrows DEF Grows
  <2>3. QED
    BY <2>1, <2>2, CrossesOver
<1>3. CASE Current(s) \notin NewLines
  BY <1>1, <1>3, MovesOn DEF SkipLine
<1>4. QED
  BY <1>2, <1>3

-----------------------------------------------------------------------------

LEMMA AtTwo ==
  ASSUME reader.pos \in Nat, NEW a, NEW b, At(<<a, b>>)
  PROVE  CharAt(reader.pos) = a /\ CharAt(reader.pos + 1) = b
<1>1. 1 \in DOMAIN <<a, b>> /\ 2 \in DOMAIN <<a, b>> /\ <<a, b>>[1] = a /\ <<a, b>>[2] = b
  OBVIOUS
<1>2. reader.pos + 1 - 1 = reader.pos /\ reader.pos + 2 - 1 = reader.pos + 1
  OBVIOUS
<1>3. QED
  BY <1>1, <1>2 DEF At

LEMMA TwoFollow ==
  ASSUME IsText, NEW r \in Reader, SavedBehind(r),
         CharAt(r.pos) \notin {EOZ} \union NewLines, CharAt(r.pos + 1) \notin {EOZ} \union NewLines
  PROVE  /\ Follows(r, SaveTo(r, r.pos + 2)) /\ SaveTo(r, r.pos + 2) \in Reader
         /\ SaveTo(r, r.pos + 2).pos = r.pos + 2
<1>1. Size \in Nat /\ r.pos \in Nat /\ r.pos + 1 < Size
  BY Characters DEF Reader
<1>2. Clean(r.pos, r.pos + 2)
  <2>1. SUFFICES ASSUME NEW p \in r.pos..((r.pos + 2) - 1)
                 PROVE  CharAt(p) \notin NewLines
    BY DEF Clean
  <2>2. p = r.pos \/ p = r.pos + 1
    BY <1>1, <2>1
  <2>3. QED
    BY <2>2
<1>3. r.pos + 2 \in r.pos..Size
  BY <1>1
<1>4. QED
  BY <1>2, <1>3, SaveToFollows

\* What is not of the rest of a line ends it.
LEMMA LineEnds ==
  ASSUME IsText, NEW p \in 0..Size, CharAt(p) \notin Others
  PROVE  CharAt(p) \in {EOZ} \union NewLines
BY Characters DEF CharAt, Others

LEMMA EatSome ==
  ASSUME IsText, NEW r \in Reader, SavedBehind(r), NEW chars, EOZ \notin chars, chars \cap NewLines = {},
         Current(r) \in chars
  PROVE  Follows(r, Eat(r, chars)) /\ Eat(r, chars).saved /\ Eat(r, chars).pos # r.pos
<1>1. Follows(r, Eat(r, chars)) /\ Current(Eat(r, chars)) \notin chars
  BY EatFollows
<1>2. QED
  BY <1>1 DEF Follows

\* A token that Lex reads at once is in one line.
LEMMA ReturnsToken ==
  ASSUME IsText, reader \in Reader, NEW s, Follows(reader, s), s.saved, NEW k \in Kinds,
         k \in Multi \/ ~reader.saved,
         k = "short comment" => ~reader.saved /\ CharAt(s.pos) \in {EOZ} \union NewLines,
         Return(s, k)
  PROVE  Returns
<1>1. ~reader.saved => s.pos # reader.pos /\ s.start = reader.pos /\ s.end = s.pos - 1
  BY DEF Follows
<1>2. k \notin Multi => Clean(s.start, s.pos)
  BY <1>1 DEF Follows
<1>3. k = "short comment" => s.end = s.pos - 1
  BY <1>1
<1>4. QED
  BY <1>2, <1>3 DEF Returns, TokenFits

-----------------------------------------------------------------------------

LEMMA LexBlankMoves ==
  ASSUME TypeOK, Shape, loop = Lexing, LexBlank
  PROVE  Effect
<1>1. IsText /\ reader \in Reader /\ ~reader.saved /\ Size \in Nat /\ CharAt(reader.pos) \in Blanks
  BY ShapeOf, LoopNames, Characters DEF LexBlank, Fits, Inner, Current
<1> DEFINE t == NextChar(reader)
<1>2. t = [pos |-> reader.pos + 1, saved |-> reader.saved, start |-> reader.start,
           end |-> reader.end]
  BY <1>1 DEF NextChar, Reader
<1>3. reader.pos \in Nat /\ reader.pos < Size /\ CharAt(reader.pos) \notin NewLines
  <2>1. CharAt(reader.pos) # EOZ /\ CharAt(reader.pos) \notin NewLines
    BY <1>1 DEF Blanks, NewLines, EOZ
  <2>2. QED
    BY <1>1, <2>1, Characters DEF Reader
<1>4. t \in Reader /\ ~t.saved /\ t.pos = reader.pos + 1
  BY <1>1, <1>2, <1>3 DEF Reader
<1>5. Continue(t, Lexing)
  BY DEF LexBlank
<1> HIDE DEF t
<1>6. \A p \in reader.pos..(t.pos - 1) : p = reader.pos
  BY <1>3, <1>4
<1>7. Clean(reader.pos, t.pos) /\ \A p \in reader.pos..(t.pos - 1) : CharAt(p) \in Blanks \union NewLines
  BY <1>1, <1>3, <1>6 DEF Clean
<1>8. Grows(reader, t)
  BY <1>1, <1>3, <1>4, <1>7 DEF Grows, SavedBehind
<1>9. Fits(t, Lexing) /\ Lexing.name \in Reading
  BY <1>4, LoopsFit, LoopNames DEF Reading
<1>10. QED
  BY <1>5, <1>7, <1>8, <1>9 DEF Effect, Moves

LEMMA LexLineCrosses ==
  ASSUME TypeOK, Shape, loop = Lexing, LexLine
  PROVE  Effect
<1>1. IsText /\ reader \in Reader /\ SavedBehind(reader) /\ ~reader.saved
  BY ShapeOf, LoopNames DEF Fits, Inner
<1>2. Follows(reader, reader) /\ CharAt(reader.pos) \in NewLines /\ CrossLine(reader, Lexing)
  BY <1>1, FollowsSelf DEF LexLine, Current
<1>3. AfterBreak(reader) \in Reader /\ ~AfterBreak(reader).saved
  BY <1>1, <1>2, BreakGrows DEF Grows
<1>4. Fits(AfterBreak(reader), Lexing) /\ Lexing.name \in Reading
  BY <1>3, LoopsFit, LoopNames DEF Reading
<1>5. QED
  BY <1>1, <1>2, <1>4, CrossesOver DEF Effect

\* Of ReadLongString, behind a bracket that begins a long string.
LEMMA LongStringEffect ==
  ASSUME IsText, reader \in Reader, NEW r \in Reader, Follows(reader, r), Current(r) = "[",
         SkipSep(r).sep >= 2, NEW k \in Multi, ReadLongString(SkipSep(r), k)
  PROVE  Effect
<1> DEFINE b == SkipSep(r)
           s == SaveAndNext(b.reader)
           l == Long(k, b.sep)
<1>1. b.reader \in Reader /\ Follows(r, b.reader) /\ b.reader.saved
      /\ b.sep \in Nat /\ Current(b.reader) = "["
  BY FollowsGrows, SkipSepFollows DEF Follows
<1>2. s \in Reader /\ Follows(b.reader, s) /\ s.pos = b.reader.pos + 1
  <2>1. SavedBehind(b.reader) /\ Current(b.reader) \notin {EOZ} \union NewLines
    BY <1>1 DEF Follows, NewLines, EOZ
  <2>2. QED
    BY <1>1, <2>1, NextFollows
<1>3. Follows(reader, b.reader) /\ Follows(reader, s)
  BY <1>1, <1>2, FollowsTwice
<1>4. s.pos # reader.pos
  BY <1>1, <1>2, <1>3, Characters DEF Follows, Reader
<1>5. /\ \A t \in Reader : t.saved => Fits(t, l)
      /\ l.name \in Reading
  BY <1>1, LoopsFit, LoopNames DEF Reading, Inner
<1>6. SkipLine(s, l)
  BY DEF ReadLongString
<1> HIDE DEF s, l, b
<1>7. QED
  BY <1>3, <1>4, <1>5, <1>6, SkipsLine DEF Effect

LEMMA LexCommentEffect ==
  ASSUME TypeOK, Shape, loop = Lexing, LexComment
  PROVE  Effect
<1>1. IsText /\ reader \in Reader /\ SavedBehind(reader) /\ ~reader.saved
  BY ShapeOf, LoopNames DEF Fits, Inner
<1> DEFINE opened == SaveTo(reader, reader.pos + 2)
           s      == Eat(opened, Others)
<1>2. CharAt(reader.pos) = "-" /\ CharAt(reader.pos + 1) = "-" /\ reader.pos \in Nat
  <2>1. At(<<"-", "-">>)
    BY DEF LexComment
  <2>2. reader.pos \in Nat
    BY <1>1, Characters DEF Reader
  <2>3. QED
    BY <2>1, <2>2, AtTwo
<1>3. opened \in Reader /\ Follows(reader, opened) /\ opened.pos = reader.pos + 2
  BY <1>1, <1>2, TwoFollow DEF NewLines, EOZ
<1>4. opened.saved /\ SavedBehind(opened)
  BY <1>2, <1>3 DEF Follows
<1>5. CASE Current(opened) = "[" /\ SkipSep(opened).sep >= 2
  <2>1. ReadLongString(SkipSep(opened), "long comment")
    BY <1>5 DEF LexComment
  <2> HIDE DEF opened
  <2>2. QED
    BY <1>1, <1>3, <1>5, <2>1, LongStringEffect DEF Multi
<1>6. CASE ~(Current(opened) = "[" /\ SkipSep(opened).sep >= 2)
  <2>1. Return(s, "short comment")
    BY <1>6 DEF LexComment
  <2> HIDE DEF opened
  <2>2. s \in Reader /\ Follows(opened, s) /\ Current(s) \notin Others
    BY <1>1, <1>3, <1>4, EatFollows, Characters
  <2>3. Follows(reader, s) /\ s.saved
    BY <1>1, <1>3, <1>4, <2>2, FollowsTwice, FollowsGrows
  <2>4. CharAt(s.pos) \in {EOZ} \union NewLines
    BY <1>1, <2>2, LineEnds DEF Current, Reader
  <2> HIDE DEF s
  <2>5. QED
    BY <1>1, <2>1, <2>3, <2>4, ReturnsToken DEF Effect, Kinds
<1>7. QED
  BY <1>5, <1>6

LEMMA LexBracketEffect ==
  ASSUME TypeOK, Shape, loop = Lexing, LexBracket
  PROVE  Effect
<1>1. IsText /\ reader \in Reader /\ SavedBehind(reader) /\ ~reader.saved /\ Current(reader) = "["
  BY ShapeOf, LoopNames DEF Fits, Inner, LexBracket
<1> DEFINE b == SkipSep(reader)
<1>2. Follows(reader, reader) /\ Follows(reader, b.reader) /\ b.reader.saved
  BY <1>1, FollowsSelf, SkipSepFollows
<1>3. CASE b.sep >= 2 /\ ReadLongString(b, "long string")
  BY <1>1, <1>2, <1>3, LongStringEffect DEF Multi
<1>4. CASE Return(b.reader, "symbol")
  BY <1>1, <1>2, <1>4, ReturnsToken DEF Effect, Kinds
<1>5. CASE Fail(b.reader, "long string")
  BY <1>2, <1>5 DEF Effect, Fails, Multi
<1>6. QED
  BY <1>3, <1>4, <1>5 DEF LexBracket

LEMMA LexStringEffect ==
  ASSUME TypeOK, Shape, loop = Lexing, LexString
  PROVE  Effect
<1>1. IsText /\ reader \in Reader /\ SavedBehind(reader)
  BY ShapeOf
<1> DEFINE s == SaveAndNext(reader)
           l == Quoted("string", Current(reader))
<1>2. Current(reader) \in Quotes /\ Continue(s, l)
  BY DEF LexString
<1>3. Follows(reader, s) /\ s \in Reader /\ s.saved
  <2>1. Current(reader) \notin {EOZ} \union NewLines
    BY <1>2 DEF Quotes, NewLines, EOZ
  <2>2. QED
    BY <1>1, <2>1, NextFollows
<1>4. Fits(s, l) /\ l.name \in Reading
  <2>1. l.name = "string"
    BY DEF Quoted, Loop
  <2>2. Fits(s, l)
    BY <1>2, <1>3, LoopsFit
  <2>3. QED
    BY <2>1, <2>2 DEF Reading, Inner
<1> HIDE DEF s, l
<1>5. QED
  BY <1>1, <1>2, <1>3, <1>4, MovesOn DEF Effect

LEMMA LexNumeralEffect ==
  ASSUME TypeOK, Shape, loop = Lexing, LexNumeral
  PROVE  Effect
<1>1. IsText /\ reader \in Reader /\ SavedBehind(reader) /\ ~reader.saved
  BY ShapeOf, LoopNames DEF Fits, Inner
<1> DEFINE digit == CheckNext1(reader, ".")
           next  == SaveAndNext(digit)
           last  == SaveAndNext(next)
<1>2. Follows(reader, digit) /\ digit \in Reader /\ Current(digit) \in Digits
  <2>1. CASE Current(reader) \in Digits
    <3>1. digit = reader
      BY <2>1 DEF CheckNext1, Digits
    <3>2. QED
      BY <1>1, <2>1, <3>1, FollowsSelf
  <2>2. CASE Current(reader) = "." /\ CharAt(reader.pos + 1) \in Digits
    <3>1. digit = SaveAndNext(reader)
      BY <2>2 DEF CheckNext1
    <3>2. Current(reader) \notin {EOZ} \union NewLines
      BY <2>2 DEF EOZ, NewLines
    <3>3. Follows(reader, digit) /\ digit \in Reader /\ digit.pos = reader.pos + 1
      BY <1>1, <3>1, <3>2, NextFollows
    <3>4. QED
      BY <2>2, <3>3 DEF Current
  <2>3. QED
    BY <2>1, <2>2 DEF LexNumeral, AtNumeral
<1> HIDE DEF digit
<1>3. Follows(reader, next) /\ next \in Reader /\ next.saved
  <2>1. Current(digit) \notin {EOZ} \union NewLines /\ SavedBehind(digit)
    BY <1>2 DEF Digits, EOZ, NewLines, Follows
  <2>2. Follows(digit, next) /\ next \in Reader /\ next.saved
    BY <1>1, <1>2, <2>1, NextFollows
  <2>3. QED
    BY <1>1, <1>2, <2>2, FollowsTwice
<1>4. ASSUME NEW s \in Reader, Follows(reader, s), s.saved,
             NEW name \in {"decimal", "hexadecimal"}, Continue(s, Loop(name))
      PROVE  Effect
  <2>1. s.pos # reader.pos
    BY <1>1, <1>4 DEF Follows
  <2>2. Clean(s.start, s.pos)
    BY <1>1, <1>4, <2>1 DEF Follows
  <2>3. Fits(s, Loop(name)) /\ Loop(name).name \in Reading
    BY <1>4, <2>2, LoopsFit, LoopNames DEF Reading, Inner, Names
  <2>4. QED
    BY <1>1, <1>4, <2>3, MovesOn DEF Effect
<1>5. CASE Current(digit) = "0" /\ Current(next) = "x"
  <2>1. Continue(last, Loop("hexadecimal"))
    BY <1>5 DEF LexNumeral, digit
  <2> HIDE DEF next
  <2>2. Current(next) \notin {EOZ} \union NewLines /\ SavedBehind(next)
    BY <1>3, <1>5 DEF EOZ, NewLines, Follows
  <2>3. Follows(next, last) /\ last \in Reader /\ last.saved
    BY <1>1, <1>3, <2>2, NextFollows
  <2> HIDE DEF last
  <2>4. Follows(reader, last)
    BY <1>1, <1>3, <2>3, FollowsTwice
  <2>5. QED
    BY <1>4, <2>1, <2>3, <2>4
<1>6. CASE ~(Current(digit) = "0" /\ Current(next) = "x")
  <2>1. Continue(next, Loop("decimal"))
    BY <1>6 DEF LexNumeral, digit
  <2> HIDE DEF next
  <2>2. QED
    BY <1>3, <1>4, <2>1
<1>7. QED
  BY <1>5, <1>6

\* A run of characters that is a token.
LEMMA LexRunReturns ==
  ASSUME TypeOK, Shape, loop = Lexing, NEW chars, EOZ \notin chars, chars \cap NewLines = {},
         Current(reader) \in chars, NEW k \in Kinds \ {"short comment"},
         Return(Eat(reader, chars), k)
  PROVE  Effect
<1>1. IsText /\ reader \in Reader /\ SavedBehind(reader) /\ ~reader.saved
  BY ShapeOf, LoopNames DEF Fits, Inner
<1>2. Follows(reader, Eat(reader, chars)) /\ Eat(reader, chars).saved
  BY <1>1, EatSome
<1>3. QED
  BY <1>1, <1>2, ReturnsToken DEF Effect

LEMMA LexNameReturns ==
  ASSUME TypeOK, Shape, loop = Lexing, LexName
  PROVE  Effect
<1>1. EOZ \notin Alnum /\ Alnum \cap NewLines = {} /\ Alpha \subseteq Alnum
  BY DEF Alnum, Alpha, Digits, AsciiLetters, EOZ, NewLines
<1>2. QED
  BY <1>1, LexRunReturns DEF LexName, Kinds

LEMMA LexShebangReturns ==
  ASSUME TypeOK, Shape, loop = Lexing, LexShebang
  PROVE  Effect
<1>1. IsText /\ reader \in Reader /\ Current(reader) = "#"
  BY ShapeOf DEF LexShebang, AtShebang
<1>2. EOZ \notin Others /\ Others \cap NewLines = {}
  BY <1>1, Characters
<1>3. Current(reader) \in Others
  <2>1. Current(reader) \notin {EOZ} \union NewLines
    BY <1>1 DEF EOZ, NewLines
  <2>2. QED
    BY <1>1, <2>1, LineEnds DEF Current, Reader
<1>4. QED
  BY <1>2, <1>3, LexRunReturns DEF LexShebang, Kinds

LEMMA LexLineCommentReturns ==
  ASSUME TypeOK, Shape, loop = Lexing, LexLineComment
  PROVE  Effect
<1>1. IsText /\ reader \in Reader /\ SavedBehind(reader) /\ ~reader.saved
  BY ShapeOf, LoopNames DEF Fits, Inner
<1> DEFINE s == Eat(reader, Others)
<1>2. CharAt(reader.pos) = "/" /\ Return(s, "short comment")
  <2>1. At(<<"/", "/">>)
    BY DEF LexLineComment, AtLineComment
  <2>2. reader.pos \in Nat
    BY <1>1, Characters DEF Reader
  <2>3. QED
    BY <2>1, <2>2, AtTwo DEF LexLineComment
<1>3. EOZ \notin Others /\ Others \cap NewLines = {}
  BY <1>1, Characters
<1>4. Current(reader) \in Others
  <2>1. CharAt(reader.pos) \notin {EOZ} \union NewLines
    BY <1>2 DEF EOZ, NewLines
  <2>2. QED
    BY <1>1, <2>1, LineEnds DEF Current, Reader
<1>5. Follows(reader, s) /\ s.saved /\ s \in Reader /\ Current(s) \notin Others
  BY <1>1, <1>3, <1>4, EatSome, EatFollows
<1>6. CharAt(s.pos) \in {EOZ} \union NewLines
  BY <1>1, <1>5, LineEnds DEF Current, Reader
<1> HIDE DEF s
<1>7. QED
  BY <1>1, <1>2, <1>5, <1>6, ReturnsToken DEF Effect, Kinds

LEMMA LexBlockCommentEffect ==
  ASSUME TypeOK, Shape, loop = Lexing, LexBlockComment
  PROVE  Effect
<1>1. IsText /\ reader \in Reader /\ SavedBehind(reader) /\ reader.pos \in Nat
  BY ShapeOf, Characters DEF Reader
<1> DEFINE s == SaveTo(reader, reader.pos + 2)
<1>2. SkipLine(s, Loop("block")) /\ CharAt(reader.pos) = "/" /\ CharAt(reader.pos + 1) = "*"
  <2>1. At(<<"/", "*">>)
    BY DEF LexBlockComment, AtBlockComment
  <2>2. QED
    BY <1>1, <2>1, AtTwo DEF LexBlockComment
<1>3. Follows(reader, s) /\ s.pos = reader.pos + 2
  <2>1. CharAt(reader.pos) \notin {EOZ} \union NewLines /\ CharAt(reader.pos + 1) \notin {EOZ} \union NewLines
    BY <1>2 DEF EOZ, NewLines
  <2>2. QED
    BY <1>1, <2>1, TwoFollow
<1> HIDE DEF s
<1>4. s.pos # reader.pos
  BY <1>1, <1>3
<1>5. /\ \A t \in Reader : t.saved => Fits(t, Loop("block"))
      /\ Loop("block").name \in Reading
  BY LoopsFit, LoopNames DEF Reading, Inner, Names
<1>6. QED
  BY <1>1, <1>2, <1>3, <1>4, <1>5, SkipsLine DEF Effect

LEMMA LexTemplateReturns ==
  ASSUME TypeOK, Shape, loop = Lexing, LexTemplate
  PROVE  Effect
<1>1. IsText /\ reader \in Reader /\ SavedBehind(reader) /\ ~reader.saved /\ reader.pos \in Nat
  BY ShapeOf, LoopNames, Characters DEF Fits, Inner, Reader
<1> DEFINE s    == SaveTo(reader, reader.pos + 2)
           q    == RunEnd(s.pos, Alnum)
<1>2. CharAt(reader.pos) = "{" /\ CharAt(reader.pos + 1) = "@"
  <2>1. At(<<"{", "@">>)
    BY DEF LexTemplate, AtTemplate
  <2>2. QED
    BY <1>1, <2>1, AtTwo
<1>3. PICK p \in s.pos..q :
        IF Current(SaveTo(s, p)) = "}" THEN Return(SaveAndNext(SaveTo(s, p)), "word")
        ELSE Return(SaveTo(s, p), "error")
  BY DEF LexTemplate
<1> DEFINE name == SaveTo(s, p)
           last == SaveAndNext(name)
<1>4. Follows(reader, s) /\ s \in Reader /\ s.saved /\ SavedBehind(s)
  <2>1. CharAt(reader.pos) \notin {EOZ} \union NewLines /\ CharAt(reader.pos + 1) \notin {EOZ} \union NewLines
    BY <1>2 DEF EOZ, NewLines
  <2>2. Follows(reader, s) /\ s \in Reader /\ s.pos = reader.pos + 2
    BY <1>1, <2>1, TwoFollow
  <2>3. QED
    BY <1>1, <2>2 DEF Follows
<1> HIDE DEF s
<1>5. Follows(s, name) /\ name \in Reader
  <2>1. EOZ \notin Alnum /\ Alnum \cap NewLines = {}
    BY DEF Alnum, Alpha, Digits, AsciiLetters, EOZ, NewLines
  <2>2. s.pos \in 0..Size /\ Size \in Nat
    BY <1>1, <1>4, Characters DEF Reader
  <2>3. q \in s.pos..Size /\ \A k \in s.pos..(q - 1) : CharAt(k) \in Alnum
    BY <1>1, <2>1, <2>2, RunEnds
  <2> HIDE DEF q
  <2>4. p \in s.pos..Size /\ \A k \in s.pos..(p - 1) : CharAt(k) \notin NewLines
    <3>1. p \in s.pos..Size /\ \A k \in s.pos..(p - 1) : k \in s.pos..(q - 1)
      BY <2>2, <2>3
    <3>2. QED
      BY <2>1, <2>3, <3>1
  <2>5. QED
    BY <1>1, <1>4, <2>4, SaveToFollows DEF Clean
<1>5a. IF Current(name) = "}" THEN Return(last, "word") ELSE Return(name, "error")
  BY <1>3
<1> HIDE DEF name
<1>6. Follows(reader, name) /\ name.saved /\ SavedBehind(name)
  BY <1>1, <1>4, <1>5, FollowsTwice, FollowsGrows
<1>7. CASE Current(name) = "}"
  <2>1. Current(name) \notin {EOZ} \union NewLines
    BY <1>7 DEF EOZ, NewLines
  <2>2. Follows(name, last) /\ last \in Reader /\ last.saved
    BY <1>1, <1>5, <1>6, <2>1, NextFollows
  <2>3. Follows(reader, last) /\ Return(last, "word")
    BY <1>1, <1>5a, <1>5, <1>6, <1>7, <2>2, FollowsTwice
  <2> HIDE DEF last
  <2>4. QED
    BY <1>1, <2>2, <2>3, ReturnsToken DEF Effect, Kinds
<1>8. CASE Current(name) # "}"
  BY <1>1, <1>5a, <1>6, <1>8, ReturnsToken DEF Effect, Kinds
<1>9. QED
  BY <1>7, <1>8

\* No symbol is longer than three characters, and none has a line break.
LEMMA SymbolsShort ==
  ASSUME NEW s \in Symbols
  PROVE  Len(s) \in {2, 3} /\ \A k \in 1..Len(s) : k \in DOMAIN s /\ s[k] \notin {EOZ} \union NewLines
<1> DEFINE Chars == {"=", "<", ">", "~", ":", ".", "/", "-", "+", "*", "^", "|", "&", "%", "!", "?", "["}
<1>1. Chars \cap ({EOZ} \union NewLines) = {}
  BY DEF EOZ, NewLines
<1>2. \/ \E a, b \in Chars : s = <<a, b>>
      \/ \E a, b, c \in Chars : s = <<a, b, c>>
  <2>1. CASE s \in {<<"=", "=">>, <<"<", "=">>, <<"<", "<">>, <<">", "=">>, <<">", ">">>,
                    <<"~", "=">>, <<":", ":">>, <<".", ".">>, <<".", ".", ".">>, <<"/", "/">>}
    BY <2>1, ZenonT(40)
  <2>2. CASE s \in {<<ch, "=">> : ch \in {"-", "+", "*", "/", "^", "|", "&", "%", "!"}}
    BY <2>2
  <2>3. CASE s \in {<<"<", "<", "=">>, <<">", ">", "=">>, <<"/", "/">>, <<"/", "/", "=">>,
                    <<"|", "|">>, <<"&", "&">>, <<"?", ".">>, <<"?", ":">>, <<"?", "[">>}
    BY <2>3, ZenonT(40)
  <2>4. QED
    BY <2>1, <2>2, <2>3 DEF Symbols
<1> HIDE DEF Chars
<1>3. CASE \E a, b \in Chars : s = <<a, b>>
  <2>1. PICK a \in Chars, b \in Chars : s = <<a, b>>
    BY <1>3
  <2>2. Len(s) = 2 /\ DOMAIN s = 1..2 /\ s[1] = a /\ s[2] = b
    BY <2>1
  <2>3. QED
    BY <1>1, <2>2
<1>4. CASE \E a, b, c \in Chars : s = <<a, b, c>>
  <2>1. PICK a \in Chars, b \in Chars, c \in Chars : s = <<a, b, c>>
    BY <1>4
  <2>2. Len(s) = 3 /\ DOMAIN s = 1..3 /\ s[1] = a /\ s[2] = b /\ s[3] = c
    BY <2>1
  <2>3. QED
    BY <1>1, <2>2
<1>5. QED
  BY <1>2, <1>3, <1>4

LEMMA LexSymbolReturns ==
  ASSUME TypeOK, Shape, loop = Lexing, LexSymbol
  PROVE  Effect
<1>1. IsText /\ reader \in Reader /\ SavedBehind(reader) /\ ~reader.saved /\ reader.pos \in Nat /\ Size \in Nat
  BY ShapeOf, LoopNames, Characters DEF Fits, Inner, Reader
<1> DEFINE lengths == {1} \union {Len(s) : s \in {t \in Symbols : At(t)}}
           n       == CHOOSE l \in lengths : \A m \in lengths : m <= l
           s       == SaveTo(reader, reader.pos + n)
<1>2. Return(s, "symbol")
  BY DEF LexSymbol
<1>3. lengths \subseteq {1, 2, 3} /\ 1 \in lengths
  BY SymbolsShort
<1>4. ASSUME NEW l \in lengths
      PROVE  \A p \in reader.pos..((reader.pos + l) - 1) : CharAt(p) \notin {EOZ} \union NewLines
  <2>1. SUFFICES ASSUME NEW p \in reader.pos..((reader.pos + l) - 1)
                 PROVE  CharAt(p) \notin {EOZ} \union NewLines
    OBVIOUS
  <2>2. CASE l = 1
    <3>1. p = reader.pos
      BY <1>1, <2>1, <2>2
    <3>2. Current(reader) \notin {EOZ} \union NewLines
      BY DEF LexSymbol, AtOther
    <3>3. QED
      BY <3>1, <3>2 DEF Current
  <2>3. CASE l # 1
    <3>1. PICK t \in Symbols : At(t) /\ Len(t) = l
      BY <1>4, <2>3
    <3>2. (p - reader.pos) + 1 \in 1..Len(t) /\ reader.pos + ((p - reader.pos) + 1) - 1 = p
      BY <1>1, <1>3, <2>1, <3>1
    <3>3. (p - reader.pos) + 1 \in DOMAIN t /\ t[(p - reader.pos) + 1] \notin {EOZ} \union NewLines
      BY <3>2, SymbolsShort
    <3>4. CharAt(reader.pos + ((p - reader.pos) + 1) - 1) = t[(p - reader.pos) + 1]
      BY <3>1, <3>3 DEF At
    <3>5. QED
      BY <3>2, <3>3, <3>4
  <2>4. QED
    BY <2>2, <2>3
<1>5. n \in lengths
  <2> HIDE DEF lengths
  <2>1. \E l \in lengths : \A m \in lengths : m <= l
    <3>1. CASE 3 \in lengths
      BY <1>3, <3>1
    <3>2. CASE 3 \notin lengths /\ 2 \in lengths
      BY <1>3, <3>2
    <3>3. CASE 3 \notin lengths /\ 2 \notin lengths
      BY <1>3, <3>3
    <3>4. QED
      BY <3>1, <3>2, <3>3
  <2>2. QED
    BY <2>1
<1> HIDE DEF n, lengths
<1>6. n \in {1, 2, 3}
  BY <1>3, <1>5
<1>7. \A p \in reader.pos..((reader.pos + n) - 1) : CharAt(p) \notin {EOZ} \union NewLines
  BY <1>4, <1>5
<1>8. reader.pos + n \in reader.pos..Size
  <2>1. (reader.pos + n) - 1 \in reader.pos..((reader.pos + n) - 1) /\ (reader.pos + n) - 1 \in Nat
    BY <1>1, <1>6
  <2>2. ~(Size <= (reader.pos + n) - 1)
    BY <1>1, <1>7, <2>1, Characters
  <2>3. QED
    BY <1>1, <1>6, <2>2
<1>9. Follows(reader, s) /\ s \in Reader /\ s.saved
  <2>1. Clean(reader.pos, reader.pos + n)
    BY <1>7 DEF Clean
  <2>2. reader.pos + n # reader.pos
    BY <1>1, <1>6
  <2>3. QED
    BY <1>1, <1>8, <2>1, <2>2, SaveToFollows
<1> HIDE DEF s
<1>10. QED
  BY <1>1, <1>2, <1>9, ReturnsToken DEF Effect, Kinds

LEMMA LexEndMoves ==
  ASSUME TypeOK, Shape, loop = Lexing, LexEnd
  PROVE  Effect
<1>1. IsText /\ reader \in Reader /\ SavedBehind(reader) /\ ~reader.saved
  BY ShapeOf, LoopNames DEF Fits, Inner
<1>2. Grows(reader, reader) /\ Clean(reader.pos, reader.pos)
  BY <1>1, FollowsSelf, FollowsGrows
<1>3. Fits(reader, Loop("parsed")) /\ Loop("parsed").name = "parsed"
  BY <1>1, LoopsFit, LoopNames DEF Names
<1>4. QED
  BY <1>2, <1>3 DEF LexEnd, Effect, Moves

LEMMA LexEffect ==
  ASSUME TypeOK, Shape, Lex
  PROVE  Effect
BY LexBlankMoves, LexLineCrosses, LexCommentEffect, LexBracketEffect, LexStringEffect,
   LexNumeralEffect, LexNameReturns, LexShebangReturns, LexBlockCommentEffect,
   LexLineCommentReturns, LexTemplateReturns, LexSymbolReturns, LexEndMoves
   DEF Lex

-----------------------------------------------------------------------------

\* A loop goes on with the reader at s, a character saved or nothing.
LEMMA LoopMoves ==
  ASSUME TypeOK, Shape, loop.name \in {"long", "block", "string", "spaces"},
         NEW s, Follows(reader, s),
         NEW l, Continue(s, l), l = loop \/ \E d \in Quotes : l \in {Quoted("string", d), Quoted("spaces", d)}
  PROVE  Effect
<1>1. IsText /\ reader \in Reader /\ SavedBehind(reader) /\ reader.saved /\ Fits(reader, loop)
  BY ShapeOf DEF Fits, Inner
<1>2. s \in Reader /\ s.saved
  BY <1>1, FollowsGrows
<1>3. CASE l = loop
  <2>1. Fits(s, l) /\ l.name \in Reading
    BY <1>1, <1>2, <1>3, StillFits DEF Reading, Inner
  <2>2. QED
    BY <1>1, <2>1, MovesOn DEF Effect
<1>4. CASE \E d \in Quotes : l \in {Quoted("string", d), Quoted("spaces", d)}
  <2>1. Fits(s, l)
    BY <1>2, <1>4, LoopsFit
  <2>2. l.name \in Reading
    BY <1>4, LoopNames DEF Reading, Inner, Names
  <2>3. QED
    BY <1>1, <2>1, <2>2, MovesOn DEF Effect
<1>5. QED
  BY <1>3, <1>4

LEMMA LoopCrosses ==
  ASSUME TypeOK, Shape, loop.name \in {"long", "block", "string", "spaces"},
         NEW s, Follows(reader, s), Current(s) \in NewLines, CrossLine(s, loop)
  PROVE  Effect
<1>1. IsText /\ reader \in Reader /\ reader.saved /\ Fits(reader, loop)
  BY ShapeOf DEF Fits, Inner
<1>2. s.saved /\ CharAt(s.pos) \in NewLines
  BY <1>1, FollowsGrows DEF Current
<1>3. AfterBreak(s) \in Reader /\ AfterBreak(s).saved
  BY <1>1, <1>2, BreakGrows DEF Grows
<1>4. Fits(AfterBreak(s), loop) /\ loop.name \in Reading
  BY <1>1, <1>3, StillFits DEF Reading, Inner
<1>5. QED
  BY <1>1, <1>2, <1>4, CrossesOver DEF Effect

LEMMA LoopCrossesSaved ==
  ASSUME TypeOK, Shape, loop.name \in {"long", "block"}, Current(reader) \in NewLines,
         CrossLine(Save(reader), loop)
  PROVE  Effect
<1>1. IsText /\ reader \in Reader /\ SavedBehind(reader) /\ reader.saved /\ Fits(reader, loop)
  BY ShapeOf DEF Fits, Inner
<1>2. AfterBreak(Save(reader)) \in Reader /\ AfterBreak(Save(reader)).saved
  BY <1>1, SavedBreakGrows DEF Grows
<1>3. Fits(AfterBreak(Save(reader)), loop) /\ loop.name \in Reading
  BY <1>1, <1>2, StillFits DEF Reading, Inner
<1>4. QED
  BY <1>1, <1>3, CrossesSaved DEF Effect

LEMMA LoopReturns ==
  ASSUME TypeOK, Shape, loop.name \in {"long", "block", "string"},
         NEW s, Follows(reader, s), NEW k \in Multi, Return(s, k) \/ Fail(s, k)
  PROVE  Effect
<1>1. IsText /\ reader \in Reader /\ reader.saved
  BY ShapeOf DEF Fits, Inner
<1>2. s.saved /\ k \in Kinds
  BY <1>1, FollowsGrows DEF Multi, Kinds
<1>3. CASE Return(s, k)
  <2>1. k # "short comment"
    BY DEF Multi
  <2>2. QED
    BY <1>1, <1>2, <1>3, <2>1, ReturnsToken DEF Effect
<1>4. CASE Fail(s, k)
  BY <1>2, <1>4 DEF Effect, Fails
<1>5. QED
  BY <1>3, <1>4

LEMMA LongStringSteps ==
  ASSUME TypeOK, Shape, LongString
  PROVE  Effect
<1>1. IsText /\ reader \in Reader /\ SavedBehind(reader) /\ loop.name = "long"
      /\ loop.kind \in Multi /\ loop.sep >= 2
  BY ShapeOf DEF LongString, Fits
<1>2. Follows(reader, reader)
  BY <1>1, FollowsSelf
<1> DEFINE b == SkipSep(reader)
<1>3. CASE Fail(reader, loop.kind)
  BY <1>1, <1>2, <1>3, LoopReturns
<1>4. CASE /\ Current(reader) = "]"
           /\ IF b.sep = loop.sep THEN Return(SaveAndNext(b.reader), loop.kind)
              ELSE Continue(b.reader, loop)
  <2>1. b.reader \in Reader /\ Follows(reader, b.reader) /\ SavedBehind(b.reader)
        /\ (b.sep >= 2 => Current(b.reader) = "]")
    BY <1>1, <1>4, SkipSepFollows, FollowsGrows
  <2>2. CASE b.sep = loop.sep
    <3>1. Current(b.reader) \notin {EOZ} \union NewLines
      BY <1>1, <2>1, <2>2 DEF EOZ, NewLines
    <3>2. Return(SaveAndNext(b.reader), loop.kind)
      BY <1>4, <2>2
    <3> HIDE DEF b
    <3>3. Follows(reader, SaveAndNext(b.reader))
      BY <1>1, <2>1, <3>1, NextFollows, FollowsTwice
    <3>4. QED
      BY <1>1, <3>2, <3>3, LoopReturns
  <2>3. CASE b.sep # loop.sep
    <3>1. Continue(b.reader, loop)
      BY <1>4, <2>3
    <3> HIDE DEF b
    <3>2. QED
      BY <1>1, <2>1, <3>1, LoopMoves
  <2>4. QED
    BY <2>2, <2>3
<1>5. CASE Current(reader) \in NewLines /\ CrossLine(Save(reader), loop)
  BY <1>1, <1>5, LoopCrossesSaved
<1>6. CASE Current(reader) \notin {EOZ, "]"} \union NewLines /\ Continue(SaveAndNext(reader), loop)
  <2>1. Follows(reader, SaveAndNext(reader))
    BY <1>1, <1>6, NextFollows
  <2>2. QED
    BY <1>1, <1>6, <2>1, LoopMoves
<1>7. QED
  BY <1>3, <1>4, <1>5, <1>6 DEF LongString

LEMMA BlockCommentSteps ==
  ASSUME TypeOK, Shape, BlockComment
  PROVE  Effect
<1>1. IsText /\ reader \in Reader /\ SavedBehind(reader) /\ loop.name = "block"
  BY ShapeOf DEF BlockComment
<1>2. Follows(reader, reader)
  BY <1>1, FollowsSelf
<1> DEFINE star == SaveAndNext(reader)
<1>3. CASE Fail(reader, "long comment")
  BY <1>1, <1>2, <1>3, LoopReturns DEF Multi
<1>4. CASE /\ Current(reader) = "*"
           /\ IF Current(star) = "/" THEN Return(SaveAndNext(star), "long comment")
              ELSE Continue(star, loop)
  <2>1. Current(reader) \notin {EOZ} \union NewLines
    BY <1>4 DEF EOZ, NewLines
  <2>2. star \in Reader /\ Follows(reader, star) /\ SavedBehind(star)
    BY <1>1, <2>1, NextFollows, FollowsGrows
  <2>3. CASE Current(star) = "/"
    <3>1. Return(SaveAndNext(star), "long comment")
      BY <1>4, <2>3
    <3> HIDE DEF star
    <3>2. Current(star) \notin {EOZ} \union NewLines
      BY <2>3 DEF EOZ, NewLines
    <3>3. Follows(reader, SaveAndNext(star))
      BY <1>1, <2>2, <3>2, NextFollows, FollowsTwice
    <3>4. QED
      BY <1>1, <3>1, <3>3, LoopReturns DEF Multi
  <2>4. CASE Current(star) # "/"
    <3>1. Continue(star, loop)
      BY <1>4, <2>4
    <3> HIDE DEF star
    <3>2. QED
      BY <1>1, <2>2, <3>1, LoopMoves
  <2>5. QED
    BY <2>3, <2>4
<1>5. CASE Current(reader) \in NewLines /\ CrossLine(Save(reader), loop)
  BY <1>1, <1>5, LoopCrossesSaved
<1>6. CASE Current(reader) \notin {EOZ, "*"} \union NewLines /\ Continue(SaveAndNext(reader), loop)
  <2>1. Follows(reader, SaveAndNext(reader))
    BY <1>1, <1>6, NextFollows
  <2>2. QED
    BY <1>1, <1>6, <2>1, LoopMoves
<1>7. QED
  BY <1>3, <1>4, <1>5, <1>6 DEF BlockComment

LEMMA StringSteps ==
  ASSUME TypeOK, Shape, String
  PROVE  Effect
<1>1. IsText /\ reader \in Reader /\ SavedBehind(reader) /\ loop.name = "string" /\ loop.del \in Quotes
  <2>1. IsText /\ reader \in Reader /\ SavedBehind(reader) /\ loop.name = "string"
    BY ShapeOf DEF String
  <2>2. loop.del \in Quotes
    BY <2>1 DEF Shape, ShapeAt, Fits
  <2>3. QED
    BY <2>1, <2>2
<1>2. Follows(reader, reader)
  BY <1>1, FollowsSelf
<1> DEFINE next == SaveAndNext(reader)
<1>3. ASSUME Current(reader) \notin {EOZ} \union NewLines
      PROVE  next \in Reader /\ Follows(reader, next) /\ SavedBehind(next)
  BY <1>1, <1>3, NextFollows, FollowsGrows
<1>4. CASE Current(reader) = loop.del /\ Return(next, "string")
  <2>1. Current(reader) \notin {EOZ} \union NewLines
    BY <1>1, <1>4 DEF EOZ, NewLines, Quotes
  <2>2. QED
    BY <1>1, <1>3, <1>4, <2>1, LoopReturns DEF Multi
<1>5. CASE Fail(reader, "string")
  BY <1>1, <1>2, <1>5, LoopReturns DEF Multi
<1>6. CASE /\ Current(reader) = "\\"
           /\ \/ Current(next) = EOZ /\ Fail(next, "string")
              \/ Current(next) = "z" /\ Continue(SaveAndNext(next), Quoted("spaces", loop.del))
              \/ Current(next) \in NewLines /\ CrossLine(next, loop)
              \/ /\ Current(next) \notin {EOZ, "z"} \union NewLines
                 /\ Continue(SaveAndNext(next), loop)
  <2>1. Current(reader) \notin {EOZ} \union NewLines
    BY <1>6 DEF EOZ, NewLines
  <2>2. next \in Reader /\ Follows(reader, next) /\ SavedBehind(next)
    BY <1>3, <2>1
  <2>3. ASSUME Current(next) \notin {EOZ} \union NewLines
        PROVE  Follows(reader, SaveAndNext(next))
    <3> HIDE DEF next
    <3>1. QED
      BY <1>1, <2>2, <2>3, NextFollows, FollowsTwice
  <2>4. CASE Fail(next, "string")
    BY <1>1, <2>2, <2>4, LoopReturns DEF Multi
  <2>5. CASE Current(next) = "z" /\ Continue(SaveAndNext(next), Quoted("spaces", loop.del))
    <3>1. Current(next) \notin {EOZ} \union NewLines
      BY <2>5 DEF EOZ, NewLines
    <3> HIDE DEF next
    <3>2. QED
      BY <1>1, <2>3, <2>5, <3>1, LoopMoves
  <2>6. CASE Current(next) \in NewLines /\ CrossLine(next, loop)
    BY <1>1, <2>2, <2>6, LoopCrosses
  <2>7. CASE Current(next) \notin {EOZ, "z"} \union NewLines /\ Continue(SaveAndNext(next), loop)
    <3> HIDE DEF next
    <3>1. QED
      BY <1>1, <2>3, <2>7, LoopMoves
  <2>8. QED
    BY <1>6, <2>4, <2>5, <2>6, <2>7
<1>7. CASE Current(reader) \notin {loop.del, EOZ, "\\"} \union NewLines /\ Continue(next, loop)
  BY <1>1, <1>3, <1>7, LoopMoves
<1>8. QED
  BY <1>4, <1>5, <1>6, <1>7 DEF String

LEMMA SpacesSteps ==
  ASSUME TypeOK, Shape, Spaces
  PROVE  Effect
<1>1. IsText /\ reader \in Reader /\ SavedBehind(reader) /\ loop.name = "spaces" /\ loop.del \in Quotes
  <2>1. IsText /\ reader \in Reader /\ SavedBehind(reader) /\ loop.name = "spaces"
    BY ShapeOf DEF Spaces
  <2>2. loop.del \in Quotes
    BY <2>1 DEF Shape, ShapeAt, Fits
  <2>3. QED
    BY <2>1, <2>2
<1>2. Follows(reader, reader)
  BY <1>1, FollowsSelf
<1>3. CASE Current(reader) \in NewLines /\ CrossLine(reader, loop)
  BY <1>1, <1>2, <1>3, LoopCrosses
<1>4. CASE Current(reader) \in Blanks /\ Continue(SaveAndNext(reader), loop)
  <2>1. Current(reader) \notin {EOZ} \union NewLines
    BY <1>4 DEF Blanks, EOZ, NewLines
  <2>2. Follows(reader, SaveAndNext(reader))
    BY <1>1, <2>1, NextFollows
  <2>3. QED
    BY <1>1, <1>4, <2>2, LoopMoves
<1>5. CASE Continue(reader, Quoted("string", loop.del))
  BY <1>1, <1>2, <1>5, LoopMoves
<1>6. QED
  BY <1>3, <1>4, <1>5 DEF Spaces

LEMMA NumeralSteps ==
  ASSUME TypeOK, Shape, Numeral
  PROVE  Effect
<1>1. IsText /\ reader \in Reader /\ SavedBehind(reader) /\ loop.name \in {"decimal", "hexadecimal"}
      /\ reader.saved /\ Clean(reader.start, reader.pos) /\ Fits(reader, loop)
  BY ShapeOf DEF Numeral, Fits, Inner
<1>2. ASSUME NEW s, Follows(reader, s)
      PROVE  s \in Reader /\ s.saved /\ SavedBehind(s) /\ Clean(s.start, s.pos) /\ Fits(s, loop)
  <2>1. s \in Reader /\ s.saved /\ SavedBehind(s) /\ s.start = reader.start /\ Clean(reader.pos, s.pos)
        /\ reader.pos <= s.pos
    BY <1>1, <1>2, FollowsGrows DEF Grows
  <2>2. Clean(s.start, s.pos)
    BY <1>1, <2>1, Characters DEF Clean, Reader
  <2>3. QED
    BY <1>1, <2>1, <2>2 DEF Fits
<1>3. ASSUME NEW s, Follows(reader, s), Continue(s, loop)
      PROVE  Effect
  BY <1>1, <1>2, <1>3, MovesOn DEF Effect, Reading, Inner
<1> DEFINE marked == SaveAndNext(reader)
<1>4. ASSUME Current(reader) \notin {EOZ} \union NewLines
      PROVE  Follows(reader, marked)
  BY <1>1, <1>4, NextFollows
<1>5. CASE /\ Current(reader) = Exponent
           /\ Continue(IF Current(marked) \in {"-", "+"} THEN SaveAndNext(marked) ELSE marked, loop)
  <2>1. Current(reader) \notin {EOZ} \union NewLines
    BY <1>5 DEF Exponent, EOZ, NewLines
  <2>2. Follows(reader, marked) /\ marked \in Reader /\ SavedBehind(marked)
    BY <1>2, <1>4, <2>1
  <2> HIDE DEF marked
  <2>3. CASE Current(marked) \in {"-", "+"}
    <3>1. Current(marked) \notin {EOZ} \union NewLines
      BY <2>3 DEF EOZ, NewLines
    <3>2. Follows(reader, SaveAndNext(marked))
      BY <1>1, <2>2, <3>1, NextFollows, FollowsTwice
    <3>3. QED
      BY <1>3, <1>5, <2>3, <3>2
  <2>4. CASE Current(marked) \notin {"-", "+"}
    BY <1>3, <1>5, <2>2, <2>4
  <2>5. QED
    BY <2>3, <2>4
<1>6. CASE Current(reader) \in (HexDigits \union {"."}) \ {Exponent} /\ Continue(marked, loop)
  <2>1. Current(reader) \notin {EOZ} \union NewLines
    BY <1>6 DEF HexDigits, Digits, EOZ, NewLines
  <2>2. QED
    BY <1>3, <1>4, <1>6, <2>1
<1>7. CASE Return(Eat(reader, AsciiLetters), "number")
  <2> DEFINE s == Eat(reader, AsciiLetters)
  <2>1. Follows(reader, s)
    <3>1. EOZ \notin AsciiLetters /\ AsciiLetters \cap NewLines = {}
      BY DEF AsciiLetters, EOZ, NewLines
    <3>2. QED
      BY <1>1, <3>1, EatFollows
  <2> HIDE DEF s
  <2>2. s.saved /\ Clean(s.start, s.pos)
    BY <1>2, <2>1
  <2>3. QED
    BY <1>7, <2>1, <2>2 DEF Effect, Returns, TokenFits, Kinds, s
<1>8. QED
  BY <1>5, <1>6, <1>7 DEF Numeral

LEMMA ReadingEffect ==
  ASSUME TypeOK, Shape, Lex \/ LongString \/ BlockComment \/ String \/ Spaces \/ Numeral
  PROVE  loop.name \in Reading /\ Effect
<1>1. loop.name \in Reading
  BY LoopNames DEF Lex, LongString, BlockComment, String, Spaces, Numeral, Reading, Inner
<1>2. QED
  BY <1>1, LexEffect, LongStringSteps, BlockCommentSteps, StringSteps, SpacesSteps, NumeralSteps

-----------------------------------------------------------------------------

(***************************************************************************)
(* Each effect keeps the invariant.                                        *)
(***************************************************************************)

\* The parts of the invariant behind a step that leaves the text alone.
LEMMA SameText ==
  ASSUME file' = file
  PROVE  /\ text' = text /\ Size' = Size
         /\ ShapeAt(reader', loop', errors') => Shape'
         /\ CoverAt(tokens', reader', Read') /\ Ahead(tokens', reader') => Covered'
         /\ TableAt(lines', linenumber', Read', loop', reader'.pos) => Table'
<1>1. text' = text /\ Size' = Size
  BY DEF text, Size
<1>2. ShapeAt(reader', loop', errors') => Shape'
  BY DEF Shape, ShapeAt, SavedBehind, Fits, Clean, CharAt, Size, text, LoopType
<1>3. CoverAt(tokens', reader', Read') /\ Ahead(tokens', reader') => Covered'
  BY DEF Covered, CoverAt, Ahead, CharAt, Size, text
<1>4. TableAt(lines', linenumber', Read', loop', reader'.pos) => Table'
  BY DEF Table, TableAt, LinesAt, IsLine, IsPair, Clean, CharAt, Size, text
<1>5. QED
  BY <1>1, <1>2, <1>3, <1>4

TokenType == [kind : Kinds, start : Nat, end : Nat]

Tokens == Seq(TokenType)

LEMMA CoverGrows ==
  ASSUME IsText, NEW r \in Reader, SavedBehind(r), NEW t \in Reader, Grows(r, t), NEW ts \in Tokens,
         CoverAt(ts, r, r.pos), Ahead(ts, r)
  PROVE  CoverAt(ts, t, t.pos) /\ Ahead(ts, t)
<1>1. r.pos \in Nat /\ t.pos \in Nat /\ r.pos <= t.pos /\ r.start \in Nat /\ r.end \in Nat
      /\ t.start \in Nat
  BY Characters DEF Grows, Reader
<1>2. \A j \in DOMAIN ts : ts[j].start \in Nat /\ ts[j].end \in Nat
  <2>1. \A j \in DOMAIN ts : ts[j] \in TokenType
    BY DEF Tokens
  <2>2. QED
    BY <2>1 DEF TokenType
<1>3. t.saved => t.start = IF r.saved THEN r.start ELSE r.pos
  BY DEF Grows
<1>4. r.saved => r.start <= r.end /\ r.end < r.pos
  BY DEF SavedBehind
<1>5. \A j \in DOMAIN ts :
        /\ ts[j].start <= ts[j].end /\ ts[j].end < t.pos
        /\ \A k \in DOMAIN ts : j < k => ts[j].end < ts[k].start
  <2>1. \A j \in DOMAIN ts :
          /\ ts[j].start <= ts[j].end /\ ts[j].end < r.pos
          /\ \A k \in DOMAIN ts : j < k => ts[j].end < ts[k].start
    BY DEF CoverAt
  <2>2. QED
    BY <1>1, <1>2, <2>1
<1>6. ASSUME NEW p \in 0..(t.pos - 1)
      PROVE  \/ CharAt(p) \in Blanks \union NewLines
             \/ t.saved /\ t.start <= p
             \/ \E j \in DOMAIN ts : Within(p, ts[j])
  <2>1. CASE p < r.pos
    <3>1. \/ CharAt(p) \in Blanks \union NewLines
          \/ r.saved /\ r.start <= p
          \/ \E j \in DOMAIN ts : Within(p, ts[j])
      <4>1. p \in 0..(r.pos - 1)
        BY <1>1, <2>1
      <4>2. QED
        BY <4>1 DEF CoverAt
    <3>2. r.saved => t.saved
      BY DEF Grows
    <3>3. QED
      BY <1>3, <3>1, <3>2
  <2>2. CASE r.pos <= p
    <3>1. CASE t.saved
      BY <1>1, <1>3, <1>4, <2>2, <3>1
    <3>2. CASE ~t.saved
      BY <1>1, <2>2, <3>2 DEF Grows
    <3>3. QED
      BY <3>1, <3>2
  <2>3. QED
    BY <1>1, <2>1, <2>2
<1>7. Ahead(ts, t)
  <2>1. \A j \in DOMAIN ts : ts[j].end < r.pos
    BY DEF CoverAt
  <2>2. QED
    BY <1>3, <2>1 DEF Ahead
<1>8. QED
  BY <1>5, <1>6, <1>7 DEF CoverAt

LEMMA CoverToken ==
  ASSUME IsText, NEW r \in Reader, SavedBehind(r), NEW ts \in Tokens,
         CoverAt(ts, r, r.pos), Ahead(ts, r), NEW s \in Reader, Follows(r, s), s.saved, NEW k \in Kinds,
         TokenFits(s, k), NEW u \in Reader, ~u.saved
  PROVE  /\ Append(ts, Token(s, k)) \in Tokens
         /\ CoverAt(Append(ts, Token(s, k)), u, s.pos) /\ Ahead(Append(ts, Token(s, k)), u)
<1> DEFINE new == Token(s, k)
           us  == Append(ts, new)
<1>1. s \in Reader /\ SavedBehind(s) /\ CoverAt(ts, s, s.pos) /\ Ahead(ts, s)
  BY FollowsGrows, CoverGrows
<1>2. new \in TokenType /\ new.kind = k /\ new.start = s.start /\ new.end = s.end
  BY <1>1 DEF Token, TokenType, Reader
<1> HIDE DEF new
<1>3. us \in Tokens /\ DOMAIN us = 1..(Len(ts) + 1) /\ Len(ts) \in Nat /\ DOMAIN ts = 1..Len(ts)
      /\ us[Len(ts) + 1] = new /\ \A j \in DOMAIN ts : us[j] = ts[j]
  BY <1>2 DEF Tokens
<1> HIDE DEF us
<1>4. s.start \in Nat /\ s.end \in Nat /\ s.pos \in Nat /\ s.start <= s.end /\ s.end < s.pos
      /\ \A p \in (s.end + 1)..(s.pos - 1) : CharAt(p) \in NewLines
  BY <1>1, Characters DEF SavedBehind, Reader
<1>5. \A j \in DOMAIN us : j \in DOMAIN ts \/ j = Len(ts) + 1
  BY <1>3
<1>6. \A j \in DOMAIN ts :
        /\ ts[j].start <= ts[j].end /\ ts[j].end < s.pos /\ ts[j].end < s.start
        /\ \A i \in DOMAIN ts : j < i => ts[j].end < ts[i].start
  BY <1>1 DEF CoverAt, Ahead
<1>7. \A j \in DOMAIN us :
        /\ us[j].start <= us[j].end /\ us[j].end < s.pos
        /\ \A i \in DOMAIN us : j < i => us[j].end < us[i].start
  BY <1>2, <1>3, <1>4, <1>5, <1>6
<1>8. ASSUME NEW p \in 0..(s.pos - 1)
      PROVE  CharAt(p) \in Blanks \union NewLines \/ \E j \in DOMAIN us : Within(p, us[j])
  <2>1. \/ CharAt(p) \in Blanks \union NewLines
        \/ s.start <= p
        \/ \E j \in DOMAIN ts : Within(p, ts[j])
    BY <1>1, <1>8 DEF CoverAt
  <2>2. CASE s.start <= p
    <3>1. CASE p <= s.end
      <4>1. Within(p, us[Len(ts) + 1]) /\ Len(ts) + 1 \in DOMAIN us
        BY <1>2, <1>3, <2>2, <3>1 DEF Within
      <4>2. QED
        BY <4>1
    <3>2. CASE s.end < p
      BY <1>4, <3>2
    <3>3. QED
      BY <1>4, <3>1, <3>2
  <2>3. CASE \E j \in DOMAIN ts : Within(p, ts[j])
    <3>1. \A j \in DOMAIN ts : j \in DOMAIN us
      BY <1>3
    <3>2. QED
      BY <1>3, <2>3, <3>1
  <2>4. QED
    BY <2>1, <2>2, <2>3
<1>9. /\ k \notin Multi => \A p \in s.start..s.end : CharAt(p) \notin NewLines
      /\ k = "short comment" => CharAt(s.end + 1) \in {EOZ} \union NewLines
  <2>1. k = "short comment" => s.end = s.pos - 1 /\ CharAt(s.pos) \in {EOZ} \union NewLines
    BY DEF TokenFits
  <2>2. s.end = s.pos - 1 => s.end + 1 = s.pos
    BY <1>4
  <2>3. Clean(s.start, s.pos) => \A p \in s.start..s.end : CharAt(p) \notin NewLines
    BY <1>4 DEF Clean
  <2>4. QED
    BY <2>1, <2>2, <2>3 DEF TokenFits
<1>10. \A j \in DOMAIN us :
        /\ us[j].kind \notin Multi =>
             \A p \in us[j].start..us[j].end : CharAt(p) \notin NewLines
        /\ us[j].kind = "short comment" => CharAt(us[j].end + 1) \in {EOZ} \union NewLines
  <2>1. \A j \in DOMAIN ts :
          /\ ts[j].kind \notin Multi =>
               \A p \in ts[j].start..ts[j].end : CharAt(p) \notin NewLines
          /\ ts[j].kind = "short comment" => CharAt(ts[j].end + 1) \in {EOZ} \union NewLines
    BY <1>1 DEF CoverAt
  <2>2. QED
    BY <1>2, <1>3, <1>5, <1>9, <2>1
<1>11. CoverAt(us, u, s.pos)
  BY <1>7, <1>8, <1>10 DEF CoverAt
<1>12. QED
  BY <1>3, <1>11 DEF Ahead, us, new

\* No more lines in the rest of a line.
LEMMA LinesMove ==
  ASSUME IsText, NEW ls \in Seq(Nat), NEW number \in Nat, Len(ls) = number + 1,
         NEW n \in Nat, NEW q \in Nat, n <= q, LinesAt(ls, number, n), Clean(n, q)
  PROVE  LinesAt(ls, number, q)
<1>1. ls[number + 1] \in Nat
  OBVIOUS
<1>2. ls[number + 1] <= q /\ Clean(ls[number + 1], q)
  BY <1>1 DEF LinesAt, Clean
<1>3. \A l \in (number + 1)..(Len(ls) - 1) : FALSE
  OBVIOUS
<1>4. QED
  BY <1>2, <1>3 DEF LinesAt

\* A line more behind a line break.
LEMMA LinesCross ==
  ASSUME IsText, NEW ls \in Seq(Nat), NEW number \in Nat, Len(ls) = number + 1, Sorted(ls),
         NEW n \in Nat, NEW b \in Nat, n <= b, LinesAt(ls, number, n), Clean(n, b),
         CharAt(b) \in NewLines,
         NEW q \in Nat, q = b + (IF IsPair(b) THEN 2 ELSE 1)
  PROVE  LET new == Append(ls, q)
         IN /\ new \in Seq(Nat) /\ Len(new) = (number + 1) + 1
            /\ LinesAt(new, number + 1, q) /\ Sorted(new)
<1> DEFINE new == Append(ls, q)
<1>1. /\ new \in Seq(Nat) /\ Len(new) = (number + 1) + 1
      /\ new[number + 2] = q /\ \A i \in 1..(number + 1) : new[i] = ls[i]
      /\ DOMAIN new = 1..(number + 2) /\ DOMAIN ls = 1..(number + 1)
  OBVIOUS
<1> HIDE DEF new
<1>2. ls[number + 1] \in Nat /\ ls[number + 1] <= n /\ Clean(ls[number + 1], b) /\ b < q
  <2>1. ls[number + 1] \in Nat /\ b < q
    OBVIOUS
  <2>2. ls[number + 1] <= n /\ Clean(ls[number + 1], n)
    BY DEF LinesAt
  <2>3. QED
    BY <2>1, <2>2 DEF Clean
<1>3. IsLine(new[number + 1], new[number + 2])
  <2>1. b \in ls[number + 1]..(q - 1)
    BY <1>2
  <2>2. IsLine(ls[number + 1], q)
    BY <1>2, <2>1 DEF IsLine, Clean
  <2>3. number + 1 \in 1..(number + 1)
    OBVIOUS
  <2>4. QED
    BY <1>1, <2>2, <2>3
<1>4. \A l \in 1..(number + 1) : IsLine(new[l], new[l + 1])
  <2>1. SUFFICES ASSUME NEW l \in 1..number
                 PROVE  IsLine(new[l], new[l + 1])
    <3>1. \A l \in 1..(number + 1) : l \in 1..number \/ (l = number + 1 /\ l + 1 = number + 2)
      OBVIOUS
    <3>2. QED
      BY <1>3, <3>1
  <2>2. l \in 1..(number + 1) /\ l + 1 \in 1..(number + 1)
    OBVIOUS
  <2>3. IsLine(ls[l], ls[l + 1])
    BY DEF LinesAt
  <2>4. QED
    BY <1>1, <2>2, <2>3
<1>5. new[1] = 0 /\ number + 1 < Len(new)
  BY <1>1 DEF LinesAt
<1>6. Clean(q, q) /\ \A l \in ((number + 1) + 1)..(Len(new) - 1) : FALSE
  BY <1>1 DEF Clean
<1>7. LinesAt(new, number + 1, q)
  <2>1. new[(number + 1) + 1] = q
    BY <1>1
  <2>2. QED
    BY <1>4, <1>5, <1>6, <2>1 DEF LinesAt
<1>8. Sorted(new)
  <2>1. ASSUME NEW i \in 1..(number + 1)
        PROVE  ls[i] \in Nat /\ ls[i] <= ls[number + 1]
    <3>1. /\ i \in DOMAIN ls /\ number + 1 \in DOMAIN ls
          /\ i = number + 1 \/ i < number + 1
      BY <1>1
    <3>2. ls[i] \in Nat
      BY <3>1
    <3>3. i < number + 1 => ls[i] < ls[number + 1]
      BY <3>1 DEF Sorted
    <3>4. QED
      BY <1>2, <3>1, <3>2, <3>3
  <2>2. \A i \in 1..(number + 1) : ls[i] < q
    BY <1>2, <2>1
  <2>3. QED
    BY <1>1, <2>2 DEF Sorted
<1>9. QED
  BY <1>1, <1>7, <1>8 DEF new

-----------------------------------------------------------------------------

LEMMA Now ==
  ASSUME IInv, loop.name \in Reading
  PROVE  /\ IsText /\ reader \in Reader /\ SavedBehind(reader) /\ Fits(reader, loop)
         /\ errors = <<>> /\ Read = reader.pos
         /\ tokens \in Tokens /\ CoverAt(tokens, reader, reader.pos) /\ Ahead(tokens, reader)
         /\ lines \in Seq(Nat) /\ linenumber \in Nat /\ Len(lines) = linenumber + 1
         /\ LinesAt(lines, linenumber, reader.pos) /\ Sorted(lines)
         /\ ~search.found
<1>1. IsText /\ reader \in Reader /\ SavedBehind(reader) /\ Fits(reader, loop)
  BY ShapeOf DEF IInv
<1>2. errors = <<>> /\ Read = reader.pos
  BY DEF IInv, Shape, ShapeAt, Read
<1>3. tokens \in Tokens /\ lines \in Seq(Nat) /\ linenumber \in Nat
  BY DEF IInv, TypeOK, Tokens, TokenType
<1>4. CoverAt(tokens, reader, reader.pos) /\ Ahead(tokens, reader)
  BY <1>2 DEF IInv, Covered
<1>5. LinesAt(lines, linenumber, reader.pos) /\ Sorted(lines) /\ Len(lines) = linenumber + 1
  BY <1>2 DEF IInv, Table, TableAt
<1>6. ~search.found
  BY DEF IInv, Halving, Reading, Inner
<1>7. QED
  BY <1>1, <1>2, <1>3, <1>4, <1>5, <1>6

LEMMA NoSearching ==
  ASSUME UNCHANGED search, ~search.found, loop'.name # "search"
  PROVE  Halving'
BY DEF Halving, LineIsRight

LEMMA MovesKeeps ==
  ASSUME IInv, loop.name \in Reading, Moves
  PROVE  IInv'
<1>1. PICK t, l : /\ Grows(reader, t) /\ Clean(reader.pos, t.pos)
                  /\ Fits(t, l) /\ l.name \in Reading \union {"parsed"}
                  /\ Continue(t, l)
  BY DEF Moves
<1>2. /\ reader' = t /\ loop' = l /\ UNCHANGED <<file, lines, linenumber, lineState>>
      /\ UNCHANGED <<search, tokens, errors>>
  BY <1>1 DEF Continue, lineVars
<1>3. t \in Reader /\ SavedBehind(t) /\ reader.pos <= t.pos /\ t.pos \in Nat /\ reader.pos \in Nat
  BY <1>1, Now, Characters DEF Grows, Reader
<1>4. Read' = t.pos /\ l.name # "search" /\ l.name # "update"
  BY <1>1, <1>2, Now DEF Read, Reading, Inner
<1>5. TypeOK'
  BY <1>1, <1>2, <1>3, SameText DEF IInv, TypeOK, Fits, LoopType, Reader
<1>6. ShapeAt(reader', loop', errors')
  BY <1>1, <1>2, <1>3, <1>4, Now DEF ShapeAt
<1>7. CoverAt(tokens', reader', Read') /\ Ahead(tokens', reader')
  BY <1>1, <1>2, <1>3, <1>4, Now, CoverGrows
<1>8. TableAt(lines', linenumber', Read', loop', reader'.pos)
  <2>1. LinesAt(lines, linenumber, t.pos)
    BY <1>1, <1>3, Now, LinesMove
  <2>2. QED
    BY <1>2, <1>4, <2>1, Now DEF TableAt
<1>9. Halving'
  BY <1>2, <1>4, Now, NoSearching
<1>10. QED
  BY <1>2, <1>5, <1>6, <1>7, <1>8, <1>9, SameText DEF IInv

LEMMA CrossesKeeps ==
  ASSUME IInv, loop.name \in Reading, Crosses
  PROVE  IInv'
<1>1. PICK s, l :
        /\ s \in Reader
        /\ s.pos \in reader.pos..(Size - 1) /\ Clean(reader.pos, s.pos)
        /\ CharAt(s.pos) \in NewLines
        /\ Grows(reader, AfterBreak(s))
        /\ Fits(AfterBreak(s), l) /\ l.name \in Reading
        /\ CrossLine(s, l)
  BY DEF Crosses
<1> DEFINE t == AfterBreak(s)
<1>2. /\ reader' = t /\ loop' = l /\ UNCHANGED <<file, search, tokens, errors>>
      /\ linenumber' = linenumber + 1 /\ lines' = Append(lines, t.pos)
      /\ lineState' \in {"UNKNOWN", "LF", "CR", "CRLF", "MIX"}
  <2>1. lineState \in {"UNKNOWN", "LF", "CR", "CRLF", "MIX"}
    BY DEF IInv, TypeOK
  <2>2. QED
    BY <1>1, <2>1 DEF CrossLine, IncLinenumber, EndOfLineAfter
<1>3. t \in Reader /\ SavedBehind(t) /\ reader.pos <= t.pos /\ t.pos \in Nat /\ reader.pos \in Nat
  BY <1>1, Now, Characters DEF Grows, Reader
<1>4. s.pos \in Nat /\ reader.pos <= s.pos
  BY <1>1, <1>3, Now, Characters
<1>5. t.pos = s.pos + (IF IsPair(s.pos) THEN 2 ELSE 1)
  BY <1>1, AfterBreakIs
<1> HIDE DEF t
<1>6. Read' = t.pos /\ l.name # "search" /\ l.name # "update"
  BY <1>1, <1>2, Now DEF Read, Reading, Inner
<1>7. /\ lines' \in Seq(Nat) /\ Len(lines') = linenumber' + 1
      /\ LinesAt(lines', linenumber', t.pos) /\ Sorted(lines') /\ linenumber' \in Nat
  <2>1. /\ IsText /\ lines \in Seq(Nat) /\ linenumber \in Nat /\ Len(lines) = linenumber + 1
        /\ LinesAt(lines, linenumber, reader.pos) /\ Sorted(lines)
    BY Now
  <2>2. QED
    BY <1>1, <1>2, <1>3, <1>4, <1>5, <2>1, LinesCross
<1>8. TypeOK'
  BY <1>1, <1>2, <1>3, <1>7, SameText DEF IInv, TypeOK, Fits, LoopType, Reader, t
<1>9. ShapeAt(reader', loop', errors')
  BY <1>1, <1>2, <1>3, <1>6, Now DEF ShapeAt, t
<1>10. CoverAt(tokens', reader', Read') /\ Ahead(tokens', reader')
  <2>1. Grows(reader, t)
    BY <1>1 DEF t
  <2>2. QED
    BY <1>2, <1>3, <1>6, <2>1, Now, CoverGrows
<1>11. TableAt(lines', linenumber', Read', loop', reader'.pos)
  BY <1>2, <1>6, <1>7 DEF TableAt
<1>12. Halving'
  BY <1>2, <1>6, Now, NoSearching
<1>13. QED
  BY <1>2, <1>8, <1>9, <1>10, <1>11, <1>12, SameText DEF IInv

LEMMA ResetIs ==
  ASSUME NEW q \in Nat
  PROVE  LET u == [StartOfText EXCEPT !.pos = q]
         IN u.pos = q /\ ~u.saved /\ SavedBehind(u) /\ (q \in 0..Size => u \in Reader)
<1> DEFINE r == StartOfText
           u == [r EXCEPT !.pos = q]
<1>1. r.pos = 0 /\ r.saved = FALSE /\ r.start = 0 /\ r.end = 0
      /\ r \in [pos : Nat, saved : BOOLEAN, start : Nat, end : Nat]
  BY DEF StartOfText
<1> HIDE DEF r
<1>2. u = [pos |-> q, saved |-> r.saved, start |-> r.start, end |-> r.end]
  BY <1>1
<1> HIDE DEF u
<1>3. u.pos = q /\ u.saved = FALSE /\ u.start = 0 /\ u.end = 0
  BY <1>1, <1>2
<1>4. SavedBehind(u)
  BY <1>3 DEF SavedBehind
<1>5. q \in 0..Size => u \in Reader
  BY <1>1, <1>2 DEF Reader
<1>6. QED
  BY <1>3, <1>4, <1>5 DEF u, r

LEMMA ReturnsKeeps ==
  ASSUME IInv, loop.name \in Reading, Returns
  PROVE  IInv'
<1>1. PICK s, k : /\ Follows(reader, s) /\ s.saved /\ k \in Kinds /\ TokenFits(s, k)
                  /\ Return(s, k)
  BY DEF Returns
<1>2. s \in Reader /\ s.pos \in 0..Size /\ s.pos \in Nat /\ Size \in Nat /\ Clean(reader.pos, s.pos)
      /\ reader.pos <= s.pos /\ reader.pos \in Nat
  BY <1>1, Now, FollowsGrows, Characters DEF Grows, Reader
<1> DEFINE u == ResetBuffer(s)
<1>3. u.pos = s.pos /\ ~u.saved /\ SavedBehind(u) /\ u \in Reader
  BY <1>2, ResetIs DEF ResetBuffer
<1>4. /\ reader' = u /\ loop' = Lexing /\ UNCHANGED <<file, lines, linenumber, lineState>>
      /\ UNCHANGED <<search, errors>> /\ tokens' = Append(tokens, Token(s, k))
  BY <1>1 DEF Return, lineVars
<1> HIDE DEF u
<1>5. Fits(u, Lexing) /\ Lexing.name = "lex" /\ Lexing \in LoopType
  BY <1>3, LoopsFit, LoopNames DEF Fits
<1>6. Read' = s.pos
  BY <1>3, <1>4, Now DEF Read
<1>7. /\ tokens' \in Tokens /\ CoverAt(tokens', u, s.pos) /\ Ahead(tokens', u)
  BY <1>1, <1>2, <1>3, <1>4, Now, CoverToken
<1>8. TypeOK'
  BY <1>3, <1>4, <1>5, <1>7, SameText DEF IInv, TypeOK, LoopType, Reader, Tokens, TokenType
<1>9. ShapeAt(reader', loop', errors')
  BY <1>3, <1>4, <1>5, Now DEF ShapeAt
<1>10. TableAt(lines', linenumber', Read', loop', reader'.pos)
  <2>1. LinesAt(lines, linenumber, s.pos)
    BY <1>2, Now, LinesMove
  <2>2. QED
    BY <1>4, <1>5, <1>6, <2>1, Now DEF TableAt
<1>11. Halving'
  BY <1>4, <1>5, Now, NoSearching
<1>12. QED
  BY <1>4, <1>6, <1>7, <1>8, <1>9, <1>10, <1>11, SameText DEF IInv

LEMMA FailsKeeps ==
  ASSUME IInv, loop.name \in Reading, Fails
  PROVE  IInv'
<1>1. PICK s, k : Follows(reader, s) /\ s.saved /\ k \in Multi /\ Fail(s, k)
  BY DEF Fails
<1>2. s \in Reader /\ s.pos \in 0..Size /\ s.pos \in Nat /\ Size \in Nat /\ Clean(reader.pos, s.pos)
      /\ reader.pos <= s.pos /\ reader.pos \in Nat
  BY <1>1, Now, FollowsGrows, Characters DEF Grows, Reader
<1>3. LineOffset(linenumber) \in Nat /\ LineOffset(linenumber) <= Size
      /\ LineOffset(linenumber) = lines[linenumber + 1]
  BY <1>2, Now DEF LineOffset, LinesAt
<1> DEFINE u == [StartOfText EXCEPT !.pos = LineOffset(linenumber)]
<1>4. u.pos = LineOffset(linenumber) /\ ~u.saved /\ SavedBehind(u) /\ u \in Reader
  BY <1>3, ResetIs DEF Reader
<1>5. /\ reader' = u /\ loop' = Loop("update") /\ UNCHANGED <<file, linenumber, lineState>>
      /\ UNCHANGED search /\ tokens' = Append(tokens, Token(s, k))
      /\ errors' = Append(errors, s.pos) /\ lines' = SubSeq(lines, 1, linenumber + 1)
  BY <1>1 DEF Fail
<1> HIDE DEF u
<1>6. lines' = lines
  <2>1. lines \in Seq(Nat) /\ linenumber + 1 = Len(lines)
    BY Now
  <2>2. SubSeq(lines, 1, Len(lines)) = lines
    BY <2>1
  <2>3. QED
    BY <1>5, <2>1, <2>2
<1>7. loop'.name = "update" /\ loop' \in LoopType /\ Fits(u, loop')
  <2>1. loop'.name = "update" /\ loop' \in LoopType
    BY <1>5 DEF Loop, LoopType, Names
  <2>2. QED
    BY <1>4, <2>1 DEF Fits, Inner
<1>8. errors' = <<s.pos>> /\ errors' \in Seq(Nat) /\ errors' # <<>> /\ errors'[1] = s.pos
  <2>1. errors' = Append(<<>>, s.pos)
    BY <1>5, Now
  <2>2. QED
    BY <1>2, <2>1
<1>9. Read' = s.pos
  BY <1>8 DEF Read
<1>10. /\ tokens' \in Tokens /\ CoverAt(tokens', u, s.pos) /\ Ahead(tokens', u)
  <2>1. k \in Kinds /\ TokenFits(s, k)
    BY <1>1 DEF Multi, Kinds, TokenFits
  <2>2. QED
    BY <1>1, <1>2, <1>4, <1>5, <2>1, Now, CoverToken
<1>11. TypeOK'
  BY <1>4, <1>5, <1>6, <1>7, <1>8, <1>10, SameText
     DEF IInv, TypeOK, LoopType, Reader, Tokens, TokenType
<1>12. ShapeAt(reader', loop', errors')
  BY <1>4, <1>5, <1>7, <1>8 DEF ShapeAt, Reading, Inner
<1>13. TableAt(lines', linenumber', Read', loop', reader'.pos)
  <2>1. LinesAt(lines, linenumber, s.pos) /\ Sorted(lines)
    BY <1>2, Now, LinesMove
  <2>2. \A i \in DOMAIN lines : lines[i] <= lines[linenumber + 1]
    <3>1. lines \in Seq(Nat) /\ Len(lines) = linenumber + 1 /\ Sorted(lines) /\ linenumber \in Nat
      BY Now
    <3>2. QED
      BY <3>1 DEF Sorted
  <2>3. QED
    BY <1>3, <1>4, <1>5, <1>6, <1>7, <1>9, <2>1, <2>2 DEF TableAt, Reading, Inner
<1>14. Halving'
  BY <1>5, <1>7, Now, NoSearching
<1>15. QED
  BY <1>5, <1>9, <1>10, <1>11, <1>12, <1>13, <1>14, SameText DEF IInv

-----------------------------------------------------------------------------

LEMMA UpdateLineInfoKeeps ==
  ASSUME IInv, UpdateLineInfo
  PROVE  IInv'
<1>1. /\ IsText /\ reader \in Reader /\ SavedBehind(reader) /\ Fits(reader, loop) /\ ~reader.saved
      /\ loop.name = "update" /\ errors # <<>> /\ errors \in Seq(Nat) /\ ~search.found
  <2>1. /\ IsText /\ reader \in Reader /\ SavedBehind(reader) /\ Fits(reader, loop) /\ loop.name = "update"
    BY ShapeOf DEF IInv, UpdateLineInfo
  <2>2. QED
    BY <2>1 DEF IInv, TypeOK, Shape, ShapeAt, Halving, Fits, Inner
<1>2. /\ tokens \in Tokens /\ lines \in Seq(Nat) /\ linenumber \in Nat /\ Len(lines) \in Nat
      /\ Read = errors[1] /\ errors[1] \in Nat
      /\ CoverAt(tokens, reader, errors[1]) /\ Ahead(tokens, reader)
      /\ LinesAt(lines, linenumber, errors[1]) /\ Sorted(lines)
      /\ \A i \in DOMAIN lines : lines[i] <= reader.pos
  <2>1. tokens \in Tokens /\ lines \in Seq(Nat) /\ linenumber \in Nat
    BY DEF IInv, TypeOK, Tokens, TokenType
  <2>2. Read = errors[1]
    BY <1>1 DEF Read
  <2>3. errors[1] \in Nat
    BY <1>1
  <2>4. CoverAt(tokens, reader, errors[1]) /\ Ahead(tokens, reader)
    BY <2>2 DEF IInv, Covered
  <2>5. /\ LinesAt(lines, linenumber, errors[1]) /\ Sorted(lines)
        /\ \A i \in DOMAIN lines : lines[i] <= reader.pos
    BY <1>1, <2>2 DEF IInv, Table, TableAt
  <2>6. QED
    BY <2>1, <2>2, <2>3, <2>4, <2>5
<1>3. UNCHANGED <<file, linenumber, lineState, search, tokens, errors>> /\ Read' = errors[1]
  BY <1>1 DEF UpdateLineInfo, Read
<1>4. CASE reader.pos < Size
  <2>1. /\ lines' = IF Current(reader) = "\n" THEN Append(lines, reader.pos + 1) ELSE lines
        /\ reader' = NextChar(reader) /\ loop' = loop
    BY <1>4 DEF UpdateLineInfo
  <2>2. reader.pos \in Nat /\ Size \in Nat
    BY <1>1, Characters DEF Reader
  <2>3. /\ reader' \in Reader /\ reader'.pos = reader.pos + 1 /\ ~reader'.saved /\ SavedBehind(reader')
    <3>1. reader' = [pos |-> reader.pos + 1, saved |-> reader.saved, start |-> reader.start,
                     end |-> reader.end]
      BY <1>1, <2>1 DEF NextChar, Reader
    <3>2. QED
      BY <1>1, <1>4, <2>2, <3>1 DEF Reader, SavedBehind
  <2>4. Fits(reader', loop') /\ loop' \in LoopType
    BY <1>1, <2>1, <2>3 DEF Fits, Inner
  <2>5. CoverAt(tokens', reader', Read') /\ Ahead(tokens', reader')
    BY <1>1, <1>2, <1>3, <2>3 DEF CoverAt, Ahead
  <2>6. /\ lines' \in Seq(Nat) /\ LinesAt(lines', linenumber', errors[1]) /\ Sorted(lines')
        /\ \A i \in DOMAIN lines' : lines'[i] <= reader'.pos
    <3>1. CASE Current(reader) = "\n"
      <4>1. lines' = Append(lines, reader.pos + 1)
        BY <2>1, <3>1
      <4>2. /\ lines' \in Seq(Nat) /\ Len(lines') = Len(lines) + 1
            /\ lines'[Len(lines) + 1] = reader.pos + 1 /\ \A i \in 1..Len(lines) : lines'[i] = lines[i]
            /\ DOMAIN lines' = 1..(Len(lines) + 1) /\ DOMAIN lines = 1..Len(lines)
        BY <1>2, <2>2, <4>1
      <4>3. errors[1] <= reader.pos
        <5>1. CharAt(reader.pos) \in NewLines
          BY <3>1 DEF Current, NewLines
        <5>2. linenumber + 1 \in DOMAIN lines /\ lines[linenumber + 1] <= reader.pos
              /\ lines[linenumber + 1] \in Nat
          BY <1>2 DEF LinesAt
        <5>3. Clean(lines[linenumber + 1], errors[1])
          BY <1>2 DEF LinesAt
        <5>4. QED
          BY <1>2, <2>2, <5>1, <5>2, <5>3 DEF Clean
      <4>4. LinesAt(lines', linenumber', errors[1])
        <5>1. /\ linenumber < Len(lines) /\ lines[1] = 0
              /\ \A l \in 1..linenumber : IsLine(lines[l], lines[l + 1])
              /\ lines[linenumber + 1] <= errors[1]
              /\ Clean(lines[linenumber + 1], errors[1])
              /\ \A l \in (linenumber + 1)..(Len(lines) - 1) : lines[l + 1] > errors[1]
          BY <1>2 DEF LinesAt
        <5>2. 1 \in 1..Len(lines) /\ linenumber + 1 \in 1..Len(lines)
              /\ \A l \in 1..linenumber : l \in 1..Len(lines) /\ l + 1 \in 1..Len(lines)
          BY <1>2, <5>1
        <5>3. linenumber' < Len(lines') /\ lines'[1] = 0
              /\ lines'[linenumber' + 1] <= errors[1]
              /\ Clean(lines'[linenumber' + 1], errors[1])
          BY <1>2, <1>3, <4>2, <5>1, <5>2
        <5>4. \A l \in 1..linenumber' : IsLine(lines'[l], lines'[l + 1])
          BY <1>3, <4>2, <5>1, <5>2
        <5>5. ASSUME NEW l \in (linenumber' + 1)..(Len(lines') - 1)
              PROVE  lines'[l + 1] > errors[1]
          <6>1. CASE l = Len(lines)
            BY <1>2, <2>2, <4>2, <4>3, <6>1
          <6>2. CASE l # Len(lines)
            <7>1. l \in (linenumber + 1)..(Len(lines) - 1) /\ l + 1 \in 1..Len(lines)
              <8>1. linenumber' = linenumber /\ linenumber \in Nat /\ Len(lines) \in Nat
                    /\ Len(lines') - 1 = Len(lines)
                BY <1>2, <1>3, <4>2
              <8>2. l \in (linenumber + 1)..Len(lines)
                BY <5>5, <8>1
              <8>3. QED
                BY <6>2, <8>1, <8>2
            <7>2. QED
              BY <4>2, <5>1, <7>1
          <6>3. QED
            BY <6>1, <6>2
        <5>6. QED
          BY <5>3, <5>4, <5>5 DEF LinesAt
      <4>5. Sorted(lines') /\ \A i \in DOMAIN lines' : lines'[i] <= reader'.pos
        <5>1. \A i \in DOMAIN lines' : i \in DOMAIN lines \/ i = Len(lines) + 1
          BY <1>2, <4>2
        <5>2. \A i \in DOMAIN lines :
                lines'[i] = lines[i] /\ lines[i] \in Nat /\ lines[i] <= reader.pos
          BY <1>2, <4>2
        <5>3. \A i, j \in DOMAIN lines' : i < j => i \in DOMAIN lines
          BY <1>2, <4>2
        <5>4. \A i, j \in DOMAIN lines : i < j => lines[i] < lines[j]
          BY <1>2 DEF Sorted
        <5>5. Sorted(lines')
          BY <2>2, <4>2, <5>1, <5>2, <5>3, <5>4 DEF Sorted
        <5>6. \A i \in DOMAIN lines' : lines'[i] <= reader'.pos
          BY <2>2, <2>3, <4>2, <5>1, <5>2
        <5>7. QED
          BY <5>5, <5>6
      <4>6. QED
        BY <4>2, <4>4, <4>5
    <3>2. CASE Current(reader) # "\n"
      <4>1. lines' = lines
        BY <2>1, <3>2
      <4>2. \A i \in DOMAIN lines' : lines'[i] <= reader'.pos
        BY <1>2, <2>2, <2>3, <4>1
      <4>3. QED
        BY <1>2, <1>3, <4>1, <4>2
    <3>3. QED
      BY <3>1, <3>2
  <2>7. TypeOK'
    BY <1>1, <1>2, <1>3, <2>3, <2>4, <2>6, SameText DEF IInv, TypeOK, LoopType, Reader
  <2>8. ShapeAt(reader', loop', errors')
    BY <1>1, <1>3, <2>1, <2>3, <2>4 DEF ShapeAt, Reading, Inner
  <2>9. TableAt(lines', linenumber', Read', loop', reader'.pos)
    BY <1>1, <1>3, <2>1, <2>6 DEF TableAt, Reading, Inner
  <2>10. Halving'
    BY <1>1, <1>3, <2>1, NoSearching
  <2>11. QED
    BY <1>3, <2>5, <2>7, <2>8, <2>9, <2>10, SameText DEF IInv
<1>5. CASE ~(reader.pos < Size)
  <2>1. loop' = Loop("parsed") /\ lines' = lines /\ reader' = reader
    BY <1>5 DEF UpdateLineInfo
  <2>2. loop' \in LoopType /\ loop'.name = "parsed" /\ Fits(reader', loop')
    BY <1>1, <2>1, LoopsFit, LoopNames DEF Fits, Names
  <2>3. TypeOK'
    BY <1>3, <2>1, <2>2, SameText DEF IInv, TypeOK, LoopType
  <2>4. ShapeAt(reader', loop', errors')
    BY <1>1, <2>1, <2>2 DEF ShapeAt, Reading, Inner
  <2>5. CoverAt(tokens', reader', Read') /\ Ahead(tokens', reader')
    BY <1>2, <1>3, <2>1
  <2>6. TableAt(lines', linenumber', Read', loop', reader'.pos)
    BY <1>2, <1>3, <2>1, <2>2 DEF TableAt, Reading, Inner
  <2>7. Halving'
    BY <1>1, <1>3, <2>2, NoSearching
  <2>8. QED
    BY <1>3, <2>3, <2>4, <2>5, <2>6, <2>7, SameText DEF IInv
<1>6. QED
  BY <1>4, <1>5

\* A step that only looks a line up leaves everything but Halving alone.
LEMMA LookingKeeps ==
  ASSUME IInv, UNCHANGED <<file, lines, linenumber, lineState, reader, tokens, errors>>,
         loop.name \in {"parsed", "search"}, loop' \in LoopType, loop'.name = "search",
         search' \in [offset : Nat, target : Nat, upper : Nat, lower : Nat, found : BOOLEAN],
         Halving'
  PROVE  IInv'
<1>1. ~reader.saved /\ SavedBehind(reader) /\ Fits(reader, loop)
  BY DEF IInv, Shape, ShapeAt, Fits, Inner
<1>2. TypeOK'
  BY SameText DEF IInv, TypeOK, LoopType
<1>3. ShapeAt(reader', loop', errors')
  BY <1>1 DEF ShapeAt, Fits, Reading, Inner
<1>4. CoverAt(tokens', reader', Read') /\ Ahead(tokens', reader')
  BY DEF IInv, Covered, Read
<1>5. TableAt(lines', linenumber', Read', loop', reader'.pos)
  BY DEF IInv, Table, TableAt, Read, Reading, Inner
<1>6. QED
  BY <1>2, <1>3, <1>4, <1>5, SameText DEF IInv

LEMMA AskKeeps ==
  ASSUME IInv, Ask
  PROVE  IInv'
<1>1. loop.name = "parsed" /\ loop'.name = "search" /\ loop' \in LoopType
  BY DEF Ask, Loop, LoopType, Names
<1>2. UNCHANGED <<file, lines, linenumber, lineState, reader, tokens, errors>>
  BY DEF Ask, lineVars
<1>3. lines \in Seq(Nat) /\ Len(lines) \in Nat /\ Len(lines) > 0 /\ lines[1] = 0 /\ Size \in Nat
  <2>1. IsText /\ lines \in Seq(Nat) /\ linenumber \in Nat
    BY ShapeOf DEF IInv, TypeOK
  <2>2. LinesAt(lines, linenumber, Read)
    BY DEF IInv, Table, TableAt
  <2>3. QED
    BY <2>1, <2>2, Characters DEF LinesAt
<1>4. PICK offset \in 0..Size : GetLine(offset)
  BY DEF Ask
<1>5. /\ search'.offset = offset /\ search'.target = Len(lines) - 1
      /\ search'.upper = Len(lines) - 1 /\ search'.lower = 0 /\ search'.found = FALSE
      /\ search' \in [offset : Nat, target : Nat, upper : Nat, lower : Nat, found : BOOLEAN]
  <2>1. offset \in Nat /\ Len(lines) - 1 \in Nat
    BY <1>3, <1>4
  <2>2. QED
    BY <1>4, <2>1 DEF GetLine
<1>6. Halving'
  <2>1. Len(lines) - 1 < Len(lines) /\ 0 <= Len(lines) - 1 /\ lines[0 + 1] <= offset
    BY <1>3, <1>4
  <2>2. QED
    BY <1>1, <1>2, <1>5, <2>1 DEF Halving, LineIsRight, LineOffset
<1>7. QED
  BY <1>1, <1>2, <1>5, <1>6, LookingKeeps

LEMMA SearchKeeps ==
  ASSUME IInv, Search
  PROVE  IInv'
<1>1. loop.name = "search" /\ UNCHANGED <<file, lines, linenumber, lineState, reader, tokens, errors, loop>>
      /\ ~search.found
  BY DEF Search, lineVars, lexVars
<1>2. loop \in LoopType /\ lines \in Seq(Nat) /\ Len(lines) \in Nat
  <2>1. loop \in LoopType
    BY DEF IInv, TypeOK, LoopType
  <2>2. lines \in Seq(Nat)
    BY DEF IInv, TypeOK
  <2>3. QED
    BY <2>1, <2>2
<1>3. search \in [offset : Nat, target : Nat, upper : Nat, lower : Nat, found : BOOLEAN]
  BY DEF IInv, TypeOK
<1>4. /\ search.lower <= search.target /\ search.target <= search.upper
      /\ search.upper < Len(lines)
      /\ lines[search.lower + 1] <= search.offset
      /\ \/ lines[search.upper + 1] > search.offset
         \/ search.target = search.upper /\ search.upper = Len(lines) - 1
  BY <1>1 DEF IInv, Halving, LineOffset
<1>5. \A i, j \in 1..Len(lines) : i < j => lines[i] < lines[j]
  BY <1>2 DEF IInv, Table, TableAt, Sorted
<1>6. \A i \in 1..Len(lines) : lines[i] \in Nat
  BY <1>2
<1> DEFINE t == search.target
           o == search.offset
           u == search.upper
           w == search.lower
<1>7. t \in Nat /\ o \in Nat /\ u \in Nat /\ w \in Nat
  BY <1>3
<1>8. CASE SearchDown
  <2> DEFINE m == (t + w) \div 2
  <2>1. lines[t + 1] > o
    BY <1>8 DEF SearchDown, LineOffset
  <2>2. /\ search'.offset = o /\ search'.upper = t /\ search'.target = m /\ search'.lower = w
        /\ search'.found = (m = 0) /\ m \in Nat
        /\ search' \in [offset : Nat, target : Nat, upper : Nat, lower : Nat, found : BOOLEAN]
    <3>1. m \in Nat
      BY <1>7
    <3>2. QED
      BY <1>3, <1>8, <3>1 DEF SearchDown
  <2>3. w < t
    <3>1. w # t
      <4>1. w + 1 \in 1..Len(lines) /\ t + 1 \in 1..Len(lines)
        <5>1. w <= t /\ t <= u /\ u < Len(lines)
          BY <1>4
        <5>2. QED
          BY <1>2, <1>7, <5>1
      <4>2. lines[w + 1] \in Nat /\ lines[t + 1] \in Nat
        BY <1>6, <4>1
      <4>3. SUFFICES ASSUME w = t
                     PROVE  FALSE
        OBVIOUS
      <4>4. lines[w + 1] = lines[t + 1]
        BY <4>3
      <4>5. QED
        BY <1>4, <1>7, <2>1, <4>2, <4>4
    <3>2. QED
      BY <1>4, <1>7, <3>1
  <2>4. w <= m /\ m < t /\ (m = 0 => t = 1 /\ w = 0)
    BY <1>7, <2>3
  <2>5. search'.found =>
          /\ m < Len(lines) /\ lines[m + 1] <= o
          /\ \A l \in (m + 1)..(Len(lines) - 1) : lines[l + 1] > o
    <3>1. SUFFICES ASSUME m = 0
                   PROVE  /\ m < Len(lines) /\ lines[m + 1] <= o
                          /\ \A l \in (m + 1)..(Len(lines) - 1) : lines[l + 1] > o
      BY <2>2
    <3>2. t = 1 /\ w = 0 /\ m = 0
      BY <2>4, <3>1
    <3> HIDE DEF t, w, o, u, m
    <3>3. lines[1] <= o /\ lines[2] > o /\ 1 < Len(lines) /\ lines[2] \in Nat
      BY <1>2, <1>4, <1>6, <1>7, <2>1, <3>2 DEF t, w, o, u
    <3>4. ASSUME NEW l \in (m + 1)..(Len(lines) - 1)
          PROVE  lines[l + 1] > o
      <4>1. l + 1 \in 1..Len(lines) /\ 2 \in 1..Len(lines) /\ (l + 1 = 2 \/ 2 < l + 1)
        BY <1>2, <3>2, <3>3, <3>4
      <4>2. QED
        BY <1>5, <1>6, <1>7, <3>3, <4>1
    <3>5. QED
      BY <1>2, <3>2, <3>3, <3>4
  <2> HIDE DEF m
  <2>6. Halving'
    <3>1. LineIsRight'
      BY <1>1, <2>2, <2>5 DEF LineIsRight, LineOffset
    <3>2. t < Len(lines) /\ m <= t
      BY <1>2, <1>4, <1>7, <2>2, <2>4, SMTT(30)
    <3>3. QED
      BY <1>1, <1>4, <2>1, <2>2, <2>4, <3>1, <3>2 DEF Halving, LineOffset
  <2>7. QED
    BY <1>1, <1>2, <2>2, <2>6, LookingKeeps
<1>9. CASE SearchUp
  <2> DEFINE m == (u + t) \div 2
  <2>1. lines[t + 1] <= o
    BY <1>9 DEF SearchUp, LineOffset
  <2>2. CASE u - t <= 1
    <3>1. search' = [search EXCEPT !.found = TRUE]
      BY <1>9, <2>2 DEF SearchUp
    <3>2. /\ search'.offset = o /\ search'.target = t /\ search'.upper = u /\ search'.lower = w
          /\ search' \in [offset : Nat, target : Nat, upper : Nat, lower : Nat, found : BOOLEAN]
      BY <1>3, <3>1
    <3>3. t < Len(lines) /\ \A l \in (t + 1)..(Len(lines) - 1) : lines[l + 1] > o
      <4>1. t < Len(lines)
        BY <1>2, <1>4, <1>7
      <4>2. ASSUME NEW l \in (t + 1)..(Len(lines) - 1)
            PROVE  lines[l + 1] > o
        <5>1. l + 1 \in 1..Len(lines) /\ t + 2 <= l + 1 /\ t < Len(lines) - 1
          BY <1>2, <1>7, <4>2, SMTT(30)
        <5>2. lines[u + 1] > o
          <6>1. CASE t = u /\ u = Len(lines) - 1
            BY <5>1, <6>1
          <6>2. QED
            BY <1>4, <6>1
        <5>3. u = t + 1
          <6>1. u # t
            BY <1>6, <1>7, <2>1, <4>1, <5>2, SMTT(30)
          <6>2. QED
            BY <1>4, <1>7, <2>2, <6>1
        <5>4. u + 1 \in 1..Len(lines) /\ (l + 1 = u + 1 \/ u + 1 < l + 1)
          <6>1. l \in Nat /\ u \in Nat /\ Len(lines) \in Nat /\ u <= l /\ l + 1 <= Len(lines)
            BY <1>2, <1>7, <4>2, <5>3
          <6>2. QED
            BY <6>1
        <5>5. QED
          BY <1>5, <1>6, <1>7, <5>1, <5>2, <5>4
      <4>3. QED
        BY <4>1, <4>2
    <3>4. Halving'
      <4>1. LineIsRight'
        BY <1>1, <2>1, <3>2, <3>3 DEF LineIsRight, LineOffset
      <4>2. QED
        BY <1>1, <1>4, <3>2, <4>1 DEF Halving, LineOffset
    <3>5. QED
      BY <1>1, <1>2, <3>2, <3>4, LookingKeeps
  <2>3. CASE ~(u - t <= 1)
    <3>1. search' = [search EXCEPT !.lower = t, !.target = m]
      BY <1>9, <2>3 DEF SearchUp
    <3>2. m \in Nat /\ t <= m /\ m <= u /\ t # u
      BY <1>4, <1>7, <2>3
    <3>3. /\ search'.offset = o /\ search'.target = m /\ search'.upper = u /\ search'.lower = t
          /\ search'.found = FALSE
          /\ search' \in [offset : Nat, target : Nat, upper : Nat, lower : Nat, found : BOOLEAN]
      BY <1>1, <1>3, <3>1, <3>2
    <3> HIDE DEF m
    <3>4. Halving'
      BY <1>1, <1>4, <2>1, <3>2, <3>3 DEF Halving, LineIsRight, LineOffset
    <3>5. QED
      BY <1>1, <1>2, <3>3, <3>4, LookingKeeps
  <2>4. QED
    BY <2>2, <2>3
<1>10. QED
  BY <1>8, <1>9 DEF Search

-----------------------------------------------------------------------------

LEMMA InitHolds ==
  ASSUME Init
  PROVE  IInv
<1>1. file \in Files /\ IsText /\ Size \in Nat
  <2>1. file \in Files
    BY DEF Init
  <2>2. file.text \in Seq(STRING \ {EOZ})
    BY <2>1, FilesAssumption
  <2>3. IsText
    BY <2>2 DEF IsText, text
  <2>4. QED
    BY <2>1, <2>3, Characters
<1>2. /\ lines = <<0>> /\ linenumber = 0 /\ lineState = "UNKNOWN" /\ search = NoSearch
      /\ reader = StartOfText /\ tokens = <<>> /\ errors = <<>> /\ loop = Lexing
  BY DEF Init
<1>3. reader.pos = 0 /\ ~reader.saved /\ reader \in Reader /\ SavedBehind(reader)
  <2>1. reader.pos = 0 /\ reader.saved = FALSE
    BY <1>2 DEF StartOfText
  <2>2. reader \in Reader
    <3>1. 0 \in 0..Size
      BY <1>1
    <3>2. QED
      BY <1>2, <3>1 DEF StartOfText, Reader
  <2>3. QED
    BY <2>1, <2>2 DEF SavedBehind
<1>4. Lexing.name = "lex" /\ Fits(reader, loop) /\ loop \in LoopType
  BY <1>2, <1>3, LoopsFit, LoopNames DEF Fits
<1>5. ~search.found /\ search \in [offset : Nat, target : Nat, upper : Nat, lower : Nat, found : BOOLEAN]
  BY <1>2 DEF NoSearch
<1>6. Read = 0
  BY <1>2, <1>3 DEF Read
<1>7. TypeOK
  <2>1. lines \in Seq(Nat) /\ linenumber \in Nat
        /\ lineState \in {"UNKNOWN", "LF", "CR", "CRLF", "MIX"}
    BY <1>2
  <2>2. tokens \in Seq([kind : Kinds, start : Nat, end : Nat]) /\ errors \in Seq(Nat)
    BY <1>2
  <2>3. loop \in LoopType /\ reader \in Reader /\ IsText
    BY <1>1, <1>3, <1>4
  <2>4. QED
    BY <1>5, <2>1, <2>2, <2>3 DEF TypeOK, IsText, Reader, LoopType
<1>8. Shape
  BY <1>2, <1>3, <1>4 DEF Shape, ShapeAt
<1>9. Covered
  <2>1. \A p \in 0..(0 - 1) : FALSE
    OBVIOUS
  <2>2. \A j \in DOMAIN tokens : FALSE
    BY <1>2
  <2>3. QED
    BY <1>3, <1>6, <2>1, <2>2 DEF Covered, CoverAt, Ahead
<1>10. Table
  <2>1. /\ Len(lines) = 1 /\ lines[1] = 0 /\ DOMAIN lines = {1}
        /\ Clean(0, 0)
    BY <1>2 DEF Clean
  <2>2. LinesAt(lines, linenumber, 0)
    BY <1>2, <2>1 DEF LinesAt
  <2>3. Sorted(lines)
    BY <2>1 DEF Sorted
  <2>4. QED
    BY <1>2, <1>4, <1>6, <2>1, <2>2, <2>3 DEF Table, TableAt
<1>11. Halving
  BY <1>2, <1>4, <1>5 DEF Halving, LineIsRight
<1>12. QED
  BY <1>7, <1>8, <1>9, <1>10, <1>11 DEF IInv

LEMMA NextKeeps ==
  ASSUME IInv, [Next]_vars
  PROVE  IInv'
<1>1. CASE Lex \/ LongString \/ BlockComment \/ String \/ Spaces \/ Numeral
  <2>1. loop.name \in Reading /\ Effect
    BY <1>1, ReadingEffect DEF IInv
  <2>2. QED
    BY <2>1, MovesKeeps, CrossesKeeps, ReturnsKeeps, FailsKeeps DEF Effect
<1>2. CASE UpdateLineInfo
  BY <1>2, UpdateLineInfoKeeps
<1>3. CASE Ask
  BY <1>3, AskKeeps
<1>4. CASE Search
  BY <1>4, SearchKeeps
<1>5. CASE UNCHANGED vars
  <2>1. /\ UNCHANGED <<file, lines, linenumber, lineState, search>>
        /\ UNCHANGED <<reader, tokens, errors, loop>>
    BY <1>5 DEF vars, lineVars, lexVars
  <2>2. TypeOK'
    BY <2>1, SameText DEF IInv, TypeOK
  <2>3. ShapeAt(reader', loop', errors') /\ Read' = Read
    BY <2>1 DEF IInv, Shape, Read
  <2>4. /\ CoverAt(tokens', reader', Read') /\ Ahead(tokens', reader')
        /\ TableAt(lines', linenumber', Read', loop', reader'.pos)
    BY <2>1, <2>3 DEF IInv, Covered, Table
  <2>5. Halving'
    BY <2>1 DEF IInv, Halving, LineIsRight, LineOffset
  <2>6. QED
    BY <2>1, <2>2, <2>3, <2>4, <2>5, SameText DEF IInv
<1>6. QED
  BY <1>1, <1>2, <1>3, <1>4, <1>5 DEF Next

LEMMA Invariance == Spec => []IInv
<1>1. Init => IInv
  BY InitHolds
<1>2. IInv /\ [Next]_vars => IInv'
  BY NextKeeps
<1>3. QED
  BY <1>1, <1>2, PTL DEF Spec

-----------------------------------------------------------------------------

\* The lexer and the table of lines keep their types (LuaLexer, TextReader, LuaSource).
THEOREM TypeCorrect == Spec => []TypeOK
<1>1. IInv => TypeOK
  BY DEF IInv
<1>2. QED
  BY <1>1, Invariance, PTL

\* The tokens of every text are the text but for its blanks, in order, and what goes over more
\* than a line is a string or a long comment (LuaLexer::Lex).
THEOREM LexerCovers == Spec => []TokensCover
<1>1. IInv => TokensCover
  BY DEF IInv, Covered, CoverAt, TokensCover, Multi
<1>2. QED
  BY <1>1, Invariance, PTL

\* Every line break is counted, once, in whatever loop of the lexer it is met
\* (LuaLexer::IncLinenumber, LuaSource::UpdateLineInfo).
THEOREM LexerFindsLines == Spec => []LinesFound
<1>1. IInv => LinesFound
  <2>1. SUFFICES ASSUME IInv
                 PROVE  LinesFound
    OBVIOUS
  <2>2. LinesAt(lines, linenumber, Read) /\ lines \in Seq(Nat) /\ linenumber \in Nat
    BY <2>1 DEF IInv, Table, TableAt, TypeOK
  <2>3. LineOffset(0) = lines[1] /\ LineOffset(linenumber) = lines[linenumber + 1]
    BY DEF LineOffset
  <2>4. \A l \in 1..linenumber : IsLine(LineOffset(l - 1), LineOffset(l))
    <3>1. \A l \in 1..linenumber : (l - 1) + 1 = l
      BY <2>2
    <3>2. QED
      BY <2>2, <3>1 DEF LinesAt, LineOffset
  <2>5. \A l \in (linenumber + 1)..(Len(lines) - 1) : LineOffset(l) > Read
    BY <2>2 DEF LinesAt, LineOffset
  <2>6. QED
    BY <2>2, <2>3, <2>4, <2>5 DEF LinesFound, LinesAt, Clean
<1>2. QED
  BY <1>1, Invariance, PTL

\* GetLine finds the line of every offset, in every table the lexer makes (LuaSource::GetLine).
THEOREM GetLineIsRight == Spec => []LineIsRight
<1>1. IInv => LineIsRight
  BY DEF IInv, Halving
<1>2. QED
  BY <1>1, Invariance, PTL
=============================================================================
