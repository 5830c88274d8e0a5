--------------------------- MODULE DocumentsProofs ---------------------------
(***************************************************************************)
(* Proofs about the documents of the server, for every set of documents    *)
(* and texts, and clients whose changes of an open document have a range:  *)
(* first what LineIndex computes, then the messages that rest on it.       *)
(***************************************************************************)
EXTENDS Documents, FiniteSetTheorems, TLAPS

-----------------------------------------------------------------------------
(***************************************************************************)
(* Counting and recursion.  The library's induction theorems take an       *)
(* operator; these take a set and a function.                              *)
(***************************************************************************)
\* What holds of 0, and of the number after any of which it holds, holds of all: the numbers
\* up to one of which it does not hold would be as many without 0 as with it.
LEMMA Counting ==
  ASSUME NEW T, 0 \in T, \A n \in Nat : n \in T => n + 1 \in T
  PROVE  \A n \in Nat : n \in T
<1> SUFFICES ASSUME NEW n \in Nat, n \notin T PROVE FALSE
  OBVIOUS
<1> DEFINE A == {i \in 0..n : i \in T}
           next == [i \in A |-> i + 1]
<1>1. IsFiniteSet(A)
  <2>1. IsFiniteSet(0..n)
    BY FS_Interval
  <2>2. A \in SUBSET (0..n)
    OBVIOUS
  <2> HIDE DEF A
  <2>3. QED BY <2>1, <2>2, FS_Subset
<1>2. 0 \in A
  OBVIOUS
<1>3. next \in [A -> A \ {0}]
  <2>1. ASSUME NEW i \in A PROVE i + 1 \in A \ {0}
    <3>1. i # n
      OBVIOUS
    <3>2. QED BY <3>1
  <2>2. QED BY <2>1
<1>4. \A i, j \in A : i # j => next[i] # next[j]
  OBVIOUS
<1> HIDE DEF A, next
<1>5. IsFiniteSet(A \ {0}) /\ Cardinality(A \ {0}) < Cardinality(A)
  <2>1. IsFiniteSet(A \ {0}) /\ Cardinality(A \ {0}) = Cardinality(A) - 1
    BY <1>1, <1>2, FS_RemoveElement
  <2>2. Cardinality(A) \in Nat
    BY <1>1, FS_CardinalityType
  <2>3. QED BY <2>1, <2>2
<1>6. \E i, j \in A : i # j /\ next[i] = next[j]
  BY <1>1, <1>3, <1>5, FS_PigeonHole
<1>7. QED BY <1>4, <1>6

LEMMA CountingTo ==
  ASSUME NEW m \in Nat, NEW T, 0 \in T, \A k \in 1..m : k - 1 \in T => k \in T
  PROVE  \A k \in 0..m : k \in T
<1> DEFINE U == {k \in Nat : k <= m => k \in T}
<1>1. 0 \in U
  OBVIOUS
<1>2. ASSUME NEW k \in Nat, k \in U PROVE k + 1 \in U
  <2> SUFFICES ASSUME k + 1 <= m PROVE k + 1 \in T
    OBVIOUS
  <2>1. k + 1 \in 1..m /\ (k + 1) - 1 \in T
    BY <1>2
  <2>2. QED BY <2>1
<1> HIDE DEF U
<1>3. \A k \in Nat : k \in U
  BY <1>1, <1>2, Counting
<1>4. QED BY <1>3 DEF U

\* The functions that a recursion over the numbers up to m defines, by its steps.
Steps(S, m) == [1..m -> [S -> S]]

Solves(f, base, step, m) == f[0] = base /\ \A k \in 1..m : f[k] = step[k][f[k - 1]]

\* Such a recursion has a solution.
LEMMA Recursion ==
  ASSUME NEW S, NEW base \in S, NEW m \in Nat, NEW step \in Steps(S, m)
  PROVE  \E f \in [0..m -> S] : Solves(f, base, step, m)
<1> USE DEF Solves, Steps
<1> DEFINE T == {n \in Nat : n <= m => \E f \in [0..n -> S] : Solves(f, base, step, n)}
<1>1. 0 \in T
  <2> DEFINE f == [k \in 0..0 |-> base]
  <2>1. f \in [0..0 -> S] /\ Solves(f, base, step, 0)
    OBVIOUS
  <2>2. QED BY <2>1
<1>2. ASSUME NEW n \in Nat, n \in T PROVE n + 1 \in T
  <2> SUFFICES ASSUME n + 1 <= m PROVE \E g \in [0..(n + 1) -> S] : Solves(g, base, step, n + 1)
    OBVIOUS
  <2>1. PICK f \in [0..n -> S] : Solves(f, base, step, n)
    BY <1>2
  <2> DEFINE g == [k \in 0..(n + 1) |-> IF k = n + 1 THEN step[n + 1][f[n]] ELSE f[k]]
  <2>2. step[n + 1][f[n]] \in S
    <3>1. f[n] \in S /\ step[n + 1] \in [S -> S]
      OBVIOUS
    <3>2. QED BY <3>1
  <2>3. g \in [0..(n + 1) -> S]
    BY <2>2
  <2>4. g[0] = base
    BY <2>1
  <2>5. ASSUME NEW k \in 1..(n + 1) PROVE g[k] = step[k][g[k - 1]]
    <3>1. CASE k = n + 1
      BY <3>1
    <3>2. CASE k # n + 1
      <4>1. k \in 1..n /\ k - 1 \in 0..n
        BY <3>2
      <4>2. g[k] = f[k] /\ g[k - 1] = f[k - 1]
        BY <4>1
      <4>3. QED BY <2>1, <4>1, <4>2
    <3>3. QED BY <3>1, <3>2
  <2> HIDE DEF g
  <2>6. Solves(g, base, step, n + 1)
    BY <2>4, <2>5
  <2>7. QED BY <2>3, <2>6
<1> HIDE DEF T
<1>3. m \in T
  BY <1>1, <1>2, Counting
<1>4. QED BY <1>3 DEF T

-----------------------------------------------------------------------------
(***************************************************************************)
(* The bytes of a text.                                                    *)
(***************************************************************************)
\* The bytes of a character.
LEMMA BytesOf ==
  /\ Bytes("a") = <<"a">>
  /\ Bytes("nl") = <<"nl">>
  /\ Bytes("e") = <<"e", "cont">>
  /\ Bytes("w") = <<"w", "cont", "cont">>
BY Zenon DEF Bytes

LEMMA BytesType ==
  ASSUME NEW c \in Char
  PROVE  Bytes(c) \in Seq(Byte)
<1>1. /\ <<"a">> \in Seq(Byte)
      /\ <<"nl">> \in Seq(Byte)
      /\ <<"e", "cont">> \in Seq(Byte)
      /\ <<"w", "cont", "cont">> \in Seq(Byte)
  BY DEF Byte
<1>2. c = "a" \/ c = "nl" \/ c = "e" \/ c = "w"
  BY DEF Char
<1>3. QED BY <1>1, <1>2, BytesOf

LEMMA WidthOf ==
  /\ Utf8OneCharLen("a") = 1
  /\ Utf8OneCharLen("nl") = 1
  /\ Utf8OneCharLen("e") = 2
  /\ Utf8OneCharLen("w") = 3
BY Zenon DEF Utf8OneCharLen

LEMMA WidthType ==
  ASSUME NEW b \in Byte
  PROVE  Utf8OneCharLen(b) \in 1..3
<1>1. Utf8OneCharLen("cont") = 1
  BY Zenon DEF Utf8OneCharLen
<1>2. b = "a" \/ b = "nl" \/ b = "e" \/ b = "w" \/ b = "cont"
  BY DEF Byte
<1>3. QED BY <1>1, <1>2, WidthOf

\* The bytes of a text.
LEMMA EncodedSteps ==
  ASSUME NEW t \in Seq(Char)
  PROVE  /\ Encoded(t) \in [0..Len(t) -> Seq(Byte)]
         /\ Encoded(t)[0] = <<>>
         /\ \A k \in 1..Len(t) : Encoded(t)[k] = Encoded(t)[k - 1] \o Bytes(t[k])
<1> DEFINE S == Seq(Byte)
           m == Len(t)
           step == [k \in 1..m |-> [s \in S |-> s \o Bytes(t[k])]]
           UpTo(f) == [k \in 0..m |-> IF k = 0 THEN <<>> ELSE f[k - 1] \o Bytes(t[k])]
<1>1. step \in Steps(S, m)
  <2>1. ASSUME NEW k \in 1..m, NEW s \in S PROVE s \o Bytes(t[k]) \in S
    <3>1. t[k] \in Char
      OBVIOUS
    <3>2. Bytes(t[k]) \in S
      BY <3>1, BytesType
    <3>3. QED BY <3>2
  <2>2. QED BY <2>1 DEF Steps
<1>2. <<>> \in S /\ m \in Nat
  OBVIOUS
<1>3. PICK f \in [0..m -> S] : Solves(f, <<>>, step, m)
  <2> HIDE DEF S, m, step, UpTo
  <2>1. QED BY <1>1, <1>2, Recursion
<1>4. f = UpTo(f)
  <2>1. ASSUME NEW k \in 1..m PROVE f[k] = f[k - 1] \o Bytes(t[k])
    <3>1. f[k - 1] \in S
      OBVIOUS
    <3>2. QED BY <3>1, <1>3 DEF Solves
  <2>2. f \in [0..m -> S] /\ f[0] = <<>>
    BY <1>3 DEF Solves
  <2> HIDE DEF S, m, step
  <2>3. \A k \in 0..m : k # 0 => k \in 1..m
    BY <1>2
  <2>4. \A k \in 0..m : f[k] = IF k = 0 THEN <<>> ELSE f[k - 1] \o Bytes(t[k])
    BY <2>1, <2>2, <2>3
  <2>5. QED BY <2>2, <2>4
<1>5. Encoded(t) = UpTo(Encoded(t))
  BY <1>4 DEF Encoded
<1>6. /\ Encoded(t) = [k \in 0..m |-> Encoded(t)[k]]
      /\ Encoded(t)[0] = <<>>
      /\ \A k \in 1..m : Encoded(t)[k] = Encoded(t)[k - 1] \o Bytes(t[k])
  <2> DEFINE g == Encoded(t)
  <2>1. g = UpTo(g)
    BY <1>5
  <2> HIDE DEF g, step
  <2>2. DOMAIN g = 0..m
    BY <2>1
  <2>3. \A k \in 0..m : g[k] = IF k = 0 THEN <<>> ELSE g[k - 1] \o Bytes(t[k])
    BY <2>1
  <2>4. g[0] = <<>>
    BY <2>3
  <2>5. ASSUME NEW k \in 1..m PROVE g[k] = g[k - 1] \o Bytes(t[k])
    <3>1. k \in 0..m /\ k # 0
      OBVIOUS
    <3>2. g[k] = IF k = 0 THEN <<>> ELSE g[k - 1] \o Bytes(t[k])
      BY <2>3, <3>1
    <3>3. QED BY <3>1, <3>2
  <2>6. g = [k \in 0..m |-> g[k]]
    BY <2>1
  <2>7. QED BY <2>4, <2>5, <2>6 DEF g
<1> DEFINE T == {k \in 0..m : Encoded(t)[k] \in S}
<1>7. 0 \in T
  <2>1. <<>> \in S /\ 0 \in 0..m
    OBVIOUS
  <2> HIDE DEF S, m
  <2>2. QED BY <1>6, <2>1
<1>8. ASSUME NEW k \in 1..m, k - 1 \in T PROVE k \in T
  <2>1. Encoded(t)[k] = Encoded(t)[k - 1] \o Bytes(t[k])
    BY <1>6
  <2>2. Encoded(t)[k - 1] \in S
    BY <1>8
  <2>3. Bytes(t[k]) \in S
    <3>1. t[k] \in Char
      OBVIOUS
    <3>2. QED BY <3>1, BytesType
  <2>4. Encoded(t)[k] \in S
    BY <2>1, <2>2, <2>3
  <2>5. QED BY <2>4
<1> HIDE DEF T
<1>9. \A k \in 0..m : k \in T
  <2> HIDE DEF m
  <2>1. QED BY <1>2, <1>7, <1>8, CountingTo
<1>10. \A k \in 0..m : Encoded(t)[k] \in S
  BY <1>9 DEF T
<1> DEFINE h == Encoded(t)
<1>11. h \in [0..m -> S]
  <2> HIDE DEF h, S
  <2>1. h = [k \in 0..m |-> h[k]]
    BY <1>6 DEF h
  <2>2. \A k \in 0..m : h[k] \in S
    BY <1>10 DEF h
  <2> HIDE DEF m
  <2>3. QED BY <2>1, <2>2
<1>12. QED BY <1>6, <1>11

LEMMA Associative ==
  ASSUME NEW S, NEW a \in Seq(S), NEW b \in Seq(S), NEW c \in Seq(S)
  PROVE  (a \o b) \o c = a \o (b \o c)
OBVIOUS

LEMMA Appended ==
  ASSUME NEW S, NEW a \in Seq(S), NEW b \in Seq(S)
  PROVE  a \o b \in Seq(S) /\ Len(a \o b) = Len(a) + Len(b)
OBVIOUS

LEMMA SameElements ==
  ASSUME NEW S, NEW a \in Seq(S), NEW b \in Seq(S), Len(a) = Len(b),
         \A i \in 1..Len(a) : a[i] = b[i]
  PROVE  a = b
OBVIOUS

\* The encoding goes character by character.
LEMMA EncodedParts ==
  ASSUME NEW s \in Seq(Char), NEW u \in Seq(Char)
  PROVE  /\ \A k \in 0..Len(s) : Encoded(s \o u)[k] = Encoded(s)[k]
         /\ Encode(s \o u) = Encode(s) \o Encode(u)
<1> DEFINE st == s \o u
           E == Encoded(st)
           Es == Encoded(s)
           Eu == Encoded(u)
<1>1. /\ st \in Seq(Char) /\ Len(st) = Len(s) + Len(u) /\ Len(s) \in Nat /\ Len(u) \in Nat
      /\ \A k \in 1..Len(s) : st[k] = s[k]
      /\ \A k \in 1..Len(u) : st[Len(s) + k] = u[k]
  OBVIOUS
<1>2. /\ E[0] = <<>> /\ Es[0] = <<>> /\ Eu[0] = <<>>
      /\ \A k \in 1..Len(st) : E[k] = E[k - 1] \o Bytes(st[k])
      /\ \A k \in 1..Len(s) : Es[k] = Es[k - 1] \o Bytes(s[k])
      /\ \A k \in 1..Len(u) : Eu[k] = Eu[k - 1] \o Bytes(u[k])
      /\ Es[Len(s)] \in Seq(Byte)
      /\ \A k \in 0..Len(u) : Eu[k] \in Seq(Byte)
  <2>1. /\ Es \in [0..Len(s) -> Seq(Byte)]
        /\ Eu \in [0..Len(u) -> Seq(Byte)]
    BY EncodedSteps
  <2>2. E[0] = <<>> /\ \A k \in 1..Len(st) : E[k] = E[k - 1] \o Bytes(st[k])
    BY <1>1, EncodedSteps
  <2>3. /\ Es[0] = <<>> /\ Eu[0] = <<>>
        /\ \A k \in 1..Len(s) : Es[k] = Es[k - 1] \o Bytes(s[k])
        /\ \A k \in 1..Len(u) : Eu[k] = Eu[k - 1] \o Bytes(u[k])
    BY EncodedSteps
  <2>4. Es[Len(s)] \in Seq(Byte) /\ \A k \in 0..Len(u) : Eu[k] \in Seq(Byte)
    <3> HIDE DEF E, Es, Eu, st
    <3>1. Len(s) \in 0..Len(s)
      BY <1>1
    <3>2. QED BY <2>1, <3>1
  <2> HIDE DEF E, Es, Eu, st
  <2>5. QED BY <2>2, <2>3, <2>4
<1> DEFINE n == Len(s)
           m == Len(u)
           a == Es[n]
<1>3. n \in Nat /\ m \in Nat /\ Len(st) = n + m /\ a \in Seq(Byte)
  BY <1>1, <1>2
<1>4. \A k \in 1..m : st[n + k] = u[k]
  BY <1>1
<1> HIDE DEF st, E, Es, Eu, n, m
<1> DEFINE T == {k \in Nat : k <= n => E[k] = Es[k]}
<1>5. \A k \in Nat : k \in T
  <2>1. 0 \in T
    BY <1>2
  <2>2. ASSUME NEW k \in Nat, k \in T PROVE k + 1 \in T
    <3> SUFFICES ASSUME k + 1 <= n PROVE E[k + 1] = Es[k + 1]
      OBVIOUS
    <3>1. k + 1 \in 1..Len(st) /\ (k + 1) - 1 = k /\ k + 1 \in 1..n
      BY <1>3
    <3>2. st[k + 1] = s[k + 1]
      BY <1>1, <3>1 DEF n
    <3>3. E[k + 1] = E[k] \o Bytes(st[k + 1])
      BY <1>2, <3>1
    <3>4. Es[k + 1] = Es[k] \o Bytes(s[k + 1])
      BY <1>2, <3>1 DEF n
    <3>5. E[k] = Es[k]
      BY <1>3, <2>2
    <3>6. QED BY <3>2, <3>3, <3>4, <3>5
  <2> HIDE DEF T
  <2>3. QED BY <2>1, <2>2, Counting
<1>6. \A k \in 0..n : E[k] = Es[k]
  BY <1>5
<1> HIDE DEF a, T
<1> DEFINE U == {k \in Nat : k <= m => E[n + k] = a \o Eu[k]}
<1>7. \A k \in Nat : k \in U
  <2>1. 0 \in U
    <3>1. E[n] = Es[n]
      BY <1>3, <1>6
    <3>2. a \o <<>> = a
      BY <1>3
    <3>3. E[n + 0] = a \o Eu[0]
      BY <1>2, <1>3, <3>1, <3>2 DEF a
    <3>4. QED BY <3>3
  <2>2. ASSUME NEW k \in Nat, k \in U PROVE k + 1 \in U
    <3> SUFFICES ASSUME k + 1 <= m PROVE E[n + (k + 1)] = a \o Eu[k + 1]
      OBVIOUS
    <3>1. n + (k + 1) \in 1..Len(st) /\ (n + (k + 1)) - 1 = n + k
          /\ k + 1 \in 1..m /\ (k + 1) - 1 = k /\ k \in 0..m
      BY <1>3
    <3>2. st[n + (k + 1)] = u[k + 1]
      BY <1>4, <3>1
    <3> DEFINE b == Eu[k]
               c == Bytes(u[k + 1])
    <3>3. E[n + (k + 1)] = E[n + k] \o c
      BY <1>2, <3>1, <3>2
    <3>4. Eu[k + 1] = b \o c
      BY <1>2, <3>1 DEF m
    <3>5. E[n + k] = a \o b
      BY <1>3, <2>2
    <3>6. b \in Seq(Byte)
      BY <1>2, <3>1 DEF m
    <3>7. c \in Seq(Byte)
      <4>1. u[k + 1] \in Char
        BY <3>1 DEF m
      <4>2. QED BY <4>1, BytesType
    <3> HIDE DEF b, c
    <3>8. (a \o b) \o c = a \o (b \o c)
      BY <1>3, <3>6, <3>7, Associative
    <3>9. QED BY <3>3, <3>4, <3>5, <3>8
  <2> HIDE DEF U
  <2>3. QED BY <2>1, <2>2, Counting
<1>8. E[n + m] = a \o Eu[m]
  <2>1. m \in U
    BY <1>3, <1>7
  <2>2. m <= m
    BY <1>3
  <2>3. QED BY <2>1, <2>2
<1>9. Encode(st) = E[n + m] /\ Encode(s) = a /\ Encode(u) = Eu[m]
  BY <1>3 DEF Encode, E, Es, Eu, n, m, a
<1>10. QED BY <1>6, <1>8, <1>9 DEF E, Es, st, n

\* A text is what an edit leaves before its beginning and behind its end.
LEMMA Pieces ==
  ASSUME NEW S, NEW t \in Seq(S), NEW k \in 0..Len(t)
  PROVE  /\ Take(t, k) \in Seq(S) /\ Len(Take(t, k)) = k
         /\ Drop(t, k) \in Seq(S) /\ Len(Drop(t, k)) = Len(t) - k
         /\ t = Take(t, k) \o Drop(t, k)
<1> DEFINE a == SubSeq(t, 1, k)
           b == SubSeq(t, k + 1, Len(t))
<1>1. a \in Seq(S) /\ Len(a) = k /\ \A i \in 1..k : a[i] = t[i]
  OBVIOUS
<1>2. b \in Seq(S) /\ Len(b) = Len(t) - k /\ \A i \in 1..(Len(t) - k) : b[i] = t[k + i]
  OBVIOUS
<1> HIDE DEF a, b
<1>3. a \o b \in Seq(S) /\ Len(a \o b) = Len(t)
  <2>1. a \o b \in Seq(S) /\ Len(a \o b) = Len(a) + Len(b)
    BY <1>1, <1>2, Appended
  <2>2. k + (Len(t) - k) = Len(t)
    OBVIOUS
  <2>3. QED BY <2>1, <2>2, <1>1, <1>2
<1>4. ASSUME NEW i \in 1..Len(t) PROVE (a \o b)[i] = t[i]
  <2>1. CASE i <= k
    BY <2>1, <1>1, <1>2
  <2>2. CASE ~(i <= k)
    <3>1. i - k \in 1..(Len(t) - k) /\ k + (i - k) = i
      BY <2>2
    <3>2. (a \o b)[i] = b[i - k]
      BY <3>1, <1>1, <1>2, <2>2
    <3>3. QED BY <3>1, <3>2, <1>2
  <2>3. QED BY <2>1, <2>2
<1>5. t = a \o b
  <2> DEFINE c == a \o b
  <2>1. c \in Seq(S) /\ Len(c) = Len(t) /\ \A i \in 1..Len(t) : c[i] = t[i]
    BY <1>3, <1>4
  <2> HIDE DEF c
  <2>2. t = c
    BY <2>1, SameElements
  <2>3. QED BY <2>2 DEF c
<1>6. QED BY <1>1, <1>2, <1>5 DEF a, b, Take, Drop

LEMMA PiecesOf ==
  ASSUME NEW S, NEW s \in Seq(S), NEW u \in Seq(S)
  PROVE  /\ Take(s \o u, Len(s)) = s
         /\ Drop(s \o u, Len(s)) = u
<1>1. SubSeq(s \o u, 1, Len(s)) = s
  OBVIOUS
<1>2. SubSeq(s \o u, Len(s) + 1, Len(s \o u)) = u
  <2> DEFINE d == SubSeq(s \o u, Len(s) + 1, Len(s \o u))
  <2>1. d \in Seq(S) /\ Len(d) = Len(u)
    OBVIOUS
  <2>2. \A i \in 1..Len(u) : d[i] = u[i]
    OBVIOUS
  <2> HIDE DEF d
  <2>3. d = u
    BY <2>1, <2>2
  <2>4. QED BY <2>3 DEF d
<1>3. QED BY <1>1, <1>2 DEF Take, Drop

LEMMA BytesShape ==
  ASSUME NEW c \in Char
  PROVE  /\ Len(Bytes(c)) = Utf8OneCharLen(c)
         /\ Bytes(c)[1] = c
         /\ Utf8OneCharLen(c) \in 1..3
<1>1. c = "a" \/ c = "nl" \/ c = "e" \/ c = "w"
  BY DEF Char
<1>2. Len(Bytes(c)) = Utf8OneCharLen(c)
  <2>1. CASE c = "a"
    BY <2>1, BytesOf, WidthOf
  <2>2. CASE c = "nl"
    BY <2>2, BytesOf, WidthOf
  <2>3. CASE c = "e"
    BY <2>3, BytesOf, WidthOf
  <2>4. CASE c = "w"
    BY <2>4, BytesOf, WidthOf
  <2>5. QED BY <1>1, <2>1, <2>2, <2>3, <2>4
<1>3. Bytes(c)[1] = c
  BY <1>1, BytesOf
<1>4. Utf8OneCharLen(c) \in 1..3
  BY <1>1, WidthOf
<1>5. QED BY <1>2, <1>3, <1>4

\* The number of bytes of the first k characters.
Offset(t, k) == Len(Encoded(t)[k])

LEMMA EncodeType ==
  ASSUME NEW t \in Seq(Char)
  PROVE  Encode(t) \in Seq(Byte) /\ Len(Encode(t)) = Offset(t, Len(t))
<1>1. Encoded(t)[Len(t)] \in Seq(Byte)
  <2>1. Encoded(t) \in [0..Len(t) -> Seq(Byte)]
    BY EncodedSteps
  <2>2. Len(t) \in 0..Len(t)
    OBVIOUS
  <2>3. QED BY <2>1, <2>2
<1>2. QED BY <1>1 DEF Encode, Offset

\* The bytes of the first k characters of a text are its first bytes.
LEMMA EncodeTake ==
  ASSUME NEW t \in Seq(Char), NEW k \in 0..Len(t)
  PROVE  /\ Encode(Take(t, k)) = Encoded(t)[k]
         /\ Len(Encode(Take(t, k))) = Offset(t, k)
         /\ Take(Encode(t), Offset(t, k)) = Encode(Take(t, k))
         /\ Drop(Encode(t), Offset(t, k)) = Encode(Drop(t, k))
<1> DEFINE a == Take(t, k)
           b == Drop(t, k)
<1>1. a \in Seq(Char) /\ Len(a) = k /\ b \in Seq(Char) /\ t = a \o b
  BY Pieces
<1> HIDE DEF a, b
<1>2. Encode(t) = Encode(a) \o Encode(b)
  BY <1>1, EncodedParts
<1>3. Encode(a) = Encoded(t)[k]
  <2>1. Encoded(a \o b)[k] = Encoded(a)[k]
    BY <1>1, EncodedParts
  <2>2. QED BY <1>1, <2>1 DEF Encode
<1>4. Len(Encode(a)) = Offset(t, k)
  BY <1>3 DEF Offset
<1>5. Encode(a) \in Seq(Byte) /\ Encode(b) \in Seq(Byte)
  BY <1>1, EncodeType
<1>6. /\ Take(Encode(a) \o Encode(b), Len(Encode(a))) = Encode(a)
      /\ Drop(Encode(a) \o Encode(b), Len(Encode(a))) = Encode(b)
  BY <1>5, PiecesOf
<1>7. QED BY <1>2, <1>3, <1>4, <1>6 DEF a, b

\* How the offsets of the characters follow one another, and what byte each begins with.
LEMMA Offsets ==
  ASSUME NEW t \in Seq(Char)
  PROVE  /\ Offset(t, 0) = 0
         /\ \A k \in 0..Len(t) : Offset(t, k) \in Nat
         /\ \A k \in 1..Len(t) :
              /\ Offset(t, k) = Offset(t, k - 1) + Utf8OneCharLen(t[k])
              /\ Encoded(t)[k][Offset(t, k - 1) + 1] = t[k]
<1>1. /\ Encoded(t) \in [0..Len(t) -> Seq(Byte)]
      /\ Encoded(t)[0] = <<>>
      /\ \A k \in 1..Len(t) : Encoded(t)[k] = Encoded(t)[k - 1] \o Bytes(t[k])
  BY EncodedSteps
<1>2. Offset(t, 0) = 0
  BY <1>1 DEF Offset
<1>3. \A k \in 0..Len(t) : Offset(t, k) \in Nat
  BY <1>1 DEF Offset
<1>4. ASSUME NEW k \in 1..Len(t)
      PROVE  /\ Offset(t, k) = Offset(t, k - 1) + Utf8OneCharLen(t[k])
             /\ Encoded(t)[k][Offset(t, k - 1) + 1] = t[k]
  <2> DEFINE p == Encoded(t)[k - 1]
             c == t[k]
  <2>1. p \in Seq(Byte) /\ Encoded(t)[k] = p \o Bytes(c)
    <3>1. k - 1 \in 0..Len(t)
      OBVIOUS
    <3>2. QED BY <1>1, <3>1
  <2>2. c \in Char
    OBVIOUS
  <2>3. Bytes(c) \in Seq(Byte) /\ Len(Bytes(c)) = Utf8OneCharLen(c) /\ Bytes(c)[1] = c
        /\ Utf8OneCharLen(c) \in 1..3
    BY <2>2, BytesType, BytesShape
  <2> HIDE DEF p, c
  <2>4. /\ Len(p \o Bytes(c)) = Len(p) + Utf8OneCharLen(c)
        /\ (p \o Bytes(c))[Len(p) + 1] = c
    BY <2>1, <2>3
  <2>5. QED BY <2>1, <2>4 DEF Offset, p, c
<1>5. QED BY <1>2, <1>3, <1>4

\* What is encoded after the first k characters does not change their bytes.
LEMMA FirstByte ==
  ASSUME NEW t \in Seq(Char), NEW k \in 1..Len(t)
  PROVE  Encode(t)[Offset(t, k - 1) + 1] = t[k] /\ Offset(t, k) <= Len(Encode(t))
<1> DEFINE a == Encoded(t)[k]
           b == Encode(Drop(t, k))
<1>1. k \in 0..Len(t) /\ Drop(t, k) \in Seq(Char) /\ t = Take(t, k) \o Drop(t, k)
      /\ Take(t, k) \in Seq(Char)
  BY Pieces
<1>2. Encode(t) = Encode(Take(t, k)) \o b
  BY <1>1, EncodedParts
<1>3. Encode(Take(t, k)) = a
  BY <1>1, EncodeTake
<1>4. a \in Seq(Byte) /\ b \in Seq(Byte)
  <2>1. a \in Seq(Byte)
    BY <1>1, EncodedSteps
  <2>2. QED BY <1>1, <2>1, EncodeType
<1>5. /\ Offset(t, k) = Offset(t, k - 1) + Utf8OneCharLen(t[k])
      /\ a[Offset(t, k - 1) + 1] = t[k]
      /\ Offset(t, k - 1) \in Nat
      /\ Offset(t, k) = Len(a)
  BY Offsets DEF Offset
<1>6. Utf8OneCharLen(t[k]) \in 1..3
  <2>1. t[k] \in Char
    OBVIOUS
  <2>2. QED BY <2>1, WidthOf DEF Char
<1> HIDE DEF a, b
<1>7. Offset(t, k - 1) + 1 \in 1..Len(a)
  BY <1>5, <1>6
<1>8. (a \o b)[Offset(t, k - 1) + 1] = a[Offset(t, k - 1) + 1] /\ Len(a) <= Len(a \o b)
  BY <1>4, <1>7
<1>9. QED BY <1>2, <1>3, <1>5, <1>8

-----------------------------------------------------------------------------
(***************************************************************************)
(* The loop of Parse.                                                      *)
(***************************************************************************)
Run == [total : Nat, chars : Nat, unit : Nat]

Line == [start : Nat, runs : Seq(Run)]

Lines == Seq(Line) \ {<<>>}

ParseState == [lines : Lines, skip : Nat]

NewLine(start) == [start |-> start, runs |-> <<>>]

LEMMA PushType ==
  ASSUME NEW runs \in Seq(Run), NEW unit \in Nat
  PROVE  Push(runs, unit) \in Seq(Run)
<1>1. CASE runs = <<>> \/ runs[Len(runs)].unit # unit
  <2> DEFINE r == [total |-> unit, chars |-> 1, unit |-> unit]
  <2>1. r \in Run
    BY DEF Run
  <2>2. Push(runs, unit) = Append(runs, r)
    BY <1>1 DEF Push
  <2> HIDE DEF r
  <2>3. QED BY <2>1, <2>2
<1>2. CASE ~(runs = <<>> \/ runs[Len(runs)].unit # unit)
  <2> DEFINE n == Len(runs)
             r == [total |-> runs[n].total + unit, chars |-> runs[n].chars + 1, unit |-> unit]
  <2>1. n \in 1..Len(runs)
    BY <1>2
  <2>2. runs[n] \in Run
    BY <2>1
  <2>3. r \in Run
    BY <2>2 DEF Run
  <2>4. Push(runs, unit) = [runs EXCEPT ![n] = r]
    BY <1>2, <2>1, <2>2 DEF Push, Run
  <2> HIDE DEF r, n
  <2>5. QED BY <2>1, <2>3, <2>4
<1>3. QED BY <1>1, <1>2

LEMMA PushCharType ==
  ASSUME NEW lines \in Lines, NEW b \in Byte, NEW i \in Nat
  PROVE  PushChar(lines, b, i) \in Lines
<1> DEFINE n == Len(lines)
           l == [lines[n] EXCEPT !.runs = Push(@, Utf8OneCharLen(b))]
           pushed == [lines EXCEPT ![n] = l]
<1>1. lines \in Seq(Line) /\ n \in 1..Len(lines)
  BY DEF Lines
<1>2. lines[n] \in Line
  BY <1>1
<1>3. Utf8OneCharLen(b) \in Nat
  BY WidthType
<1>4. Push(lines[n].runs, Utf8OneCharLen(b)) \in Seq(Run)
  BY <1>2, <1>3, PushType DEF Line
<1>5. l \in Line
  BY <1>2, <1>4 DEF Line
<1> HIDE DEF l
<1>6. pushed \in Seq(Line) /\ Len(pushed) = n
  BY <1>1, <1>5
<1>7. PushChar(lines, b, i) = IF b = "nl" THEN Append(pushed, NewLine(i + 1)) ELSE pushed
  BY DEF PushChar, NewLine, l
<1>8. NewLine(i + 1) \in Line
  BY DEF NewLine, Line
<1> HIDE DEF pushed, n
<1>9. pushed \in Lines
  BY <1>1, <1>6 DEF Lines
<1>10. Append(pushed, NewLine(i + 1)) \in Lines
  <2> DEFINE more == Append(pushed, NewLine(i + 1))
  <2>1. more \in Seq(Line) /\ Len(more) = n + 1
    BY <1>6, <1>8
  <2>2. n + 1 # 0
    BY <1>1 DEF n
  <2> HIDE DEF more
  <2>3. more # <<>>
    BY <2>1, <2>2
  <2>4. QED BY <2>1, <2>3 DEF Lines, more
<1>11. QED BY <1>7, <1>9, <1>10

\* A step of the loop.
ParseStep(so, b, i) ==
  IF so.skip > 0 THEN [so EXCEPT !.skip = @ - 1]
  ELSE [lines |-> PushChar(so.lines, b, i - 1), skip  |-> Utf8OneCharLen(b) - 1]

LEMMA ParseStepType ==
  ASSUME NEW so \in ParseState, NEW b \in Byte, NEW i \in Nat \ {0}
  PROVE  ParseStep(so, b, i) \in ParseState
<1>1. so.lines \in Lines /\ so.skip \in Nat
  BY DEF ParseState
<1>2. CASE so.skip > 0
  <2>1. so.skip - 1 \in Nat
    BY <1>1, <1>2
  <2>2. QED BY <1>2, <2>1 DEF ParseStep, ParseState
<1>3. CASE ~(so.skip > 0)
  <2>1. Utf8OneCharLen(b) - 1 \in Nat
    BY WidthType
  <2>2. PushChar(so.lines, b, i - 1) \in Lines
    BY <1>1, PushCharType
  <2>3. QED BY <1>3, <2>1, <2>2 DEF ParseStep, ParseState
<1>4. QED BY <1>2, <1>3

LEMMA ParseLoopSteps ==
  ASSUME NEW text \in Seq(Byte)
  PROVE  /\ ParseLoop(text)[0] = [lines |-> <<NewLine(0)>>, skip |-> 0]
         /\ \A i \in 1..Len(text) :
              ParseLoop(text)[i] = ParseStep(ParseLoop(text)[i - 1], text[i], i)
         /\ \A i \in 0..Len(text) : ParseLoop(text)[i] \in ParseState
<1> DEFINE m == Len(text)
           base == [lines |-> <<NewLine(0)>>, skip |-> 0]
           step == [i \in 1..m |-> [so \in ParseState |-> ParseStep(so, text[i], i)]]
           At(f) == [i \in 0..m |-> IF i = 0 THEN base ELSE ParseStep(f[i - 1], text[i], i)]
<1>1. m \in Nat /\ \A i \in 1..m : text[i] \in Byte
  OBVIOUS
<1>2. base \in ParseState
  <2>1. <<NewLine(0)>> \in Seq(Line) /\ <<NewLine(0)>> # <<>>
    BY DEF NewLine, Line
  <2>2. <<NewLine(0)>> \in Lines
    BY <2>1 DEF Lines
  <2>3. QED BY <2>2 DEF ParseState
<1> HIDE DEF m, base
<1>3. \A i \in 1..m : \A so \in ParseState : ParseStep(so, text[i], i) \in ParseState
  <2> SUFFICES ASSUME NEW i \in 1..m, NEW so \in ParseState
               PROVE  ParseStep(so, text[i], i) \in ParseState
    OBVIOUS
  <2>1. i \in Nat \ {0} /\ text[i] \in Byte
    BY <1>1
  <2>2. QED BY <2>1, ParseStepType
<1>4. step \in Steps(ParseState, m)
  BY <1>3 DEF Steps
<1>5. PICK f \in [0..m -> ParseState] : Solves(f, base, step, m)
  <2> HIDE DEF step
  <2>1. QED BY <1>1, <1>2, <1>4, Recursion
<1>6. f = At(f)
  <2>1. ASSUME NEW i \in 1..m PROVE f[i] = ParseStep(f[i - 1], text[i], i)
    <3>1. f[i - 1] \in ParseState
      BY <1>1
    <3>2. QED BY <3>1, <1>5 DEF Solves
  <2>2. f[0] = base
    BY <1>5 DEF Solves
  <2>3. \A i \in 0..m : i # 0 => i \in 1..m
    BY <1>1
  <2> HIDE DEF step
  <2>4. \A i \in 0..m : f[i] = IF i = 0 THEN base ELSE ParseStep(f[i - 1], text[i], i)
    BY <2>1, <2>2, <2>3
  <2>5. QED BY <1>5, <2>4
<1> DEFINE g == ParseLoop(text)
<1>7. g = At(g)
  BY <1>6 DEF ParseLoop, ParseStep, base, m, NewLine
<1> HIDE DEF g, step
<1>8. g[0] = base
  <2>1. 0 \in 0..m
    BY <1>1
  <2>2. QED BY <1>7, <2>1
<1>9. ASSUME NEW i \in 1..m PROVE g[i] = ParseStep(g[i - 1], text[i], i)
  <2>1. i \in 0..m /\ i # 0
    BY <1>1
  <2>2. QED BY <1>7, <2>1
<1> DEFINE T == {i \in 0..m : g[i] \in ParseState}
<1>10. \A i \in 0..m : i \in T
  <2>1. 0 \in T
    BY <1>1, <1>2, <1>8
  <2>2. ASSUME NEW i \in 1..m, i - 1 \in T PROVE i \in T
    <3>1. g[i - 1] \in ParseState
      BY <2>2
    <3>2. g[i] \in ParseState
      BY <1>3, <1>9, <3>1
    <3>3. QED BY <3>2
  <2> HIDE DEF T
  <2>3. QED BY <1>1, <2>1, <2>2, CountingTo
<1>11. QED BY <1>8, <1>9, <1>10 DEF g, base, m

\* The lines of the first k characters of a text.
LinesTo(t, k) == ParseLoop(Encode(t))[Offset(t, k)].lines

\* The loop takes the bytes of a character together.
LEMMA CharacterStep ==
  ASSUME NEW t \in Seq(Char), NEW k \in 1..Len(t),
         ParseLoop(Encode(t))[Offset(t, k - 1)].skip = 0
  PROVE  /\ LinesTo(t, k) = PushChar(LinesTo(t, k - 1), t[k], Offset(t, k - 1))
         /\ ParseLoop(Encode(t))[Offset(t, k)].skip = 0
<1> DEFINE text == Encode(t)
           A == ParseLoop(text)
           i == Offset(t, k - 1)
           w == Utf8OneCharLen(t[k])
           lines == PushChar(A[i].lines, t[k], i)
<1>1. text \in Seq(Byte)
  BY EncodeType
<1>2. /\ i \in Nat
      /\ Offset(t, k) = i + w
  BY Offsets
<1>3. text[i + 1] = t[k] /\ i + w <= Len(text)
  BY <1>2, FirstByte
<1>4. w \in 1..3
  <2>1. t[k] \in Char
    OBVIOUS
  <2>2. QED BY <2>1, BytesShape
<1>5. \A j \in 1..Len(text) : A[j] = ParseStep(A[j - 1], text[j], j)
  BY <1>1, ParseLoopSteps
<1>6. Len(text) \in Nat
  BY <1>1
<1> DEFINE after(d) == [lines |-> lines, skip |-> w - d]
<1> HIDE DEF text, A
<1>7. A[i + 1] = after(1)
  <2>1. i + 1 \in 1..Len(text) /\ (i + 1) - 1 = i
    BY <1>2, <1>3, <1>4, <1>6
  <2>2. A[i + 1] = ParseStep(A[i], t[k], i + 1)
    BY <1>3, <1>5, <2>1
  <2>3. A[i].skip = 0
    BY DEF A, text
  <2>4. QED BY <2>1, <2>2, <2>3 DEF ParseStep
<1> HIDE DEF lines, i, w
<1>8. ASSUME NEW d \in 1..2, w > d, A[i + d] = after(d)
      PROVE  A[i + (d + 1)] = after(d + 1)
  <2>1. i + (d + 1) \in 1..Len(text) /\ (i + (d + 1)) - 1 = i + d
    BY <1>2, <1>3, <1>4, <1>6, <1>8
  <2>2. A[i + (d + 1)] = ParseStep(after(d), text[i + (d + 1)], i + (d + 1))
    BY <1>5, <1>8, <2>1
  <2>3. after(d).skip > 0 /\ (w - d) - 1 = w - (d + 1)
    BY <1>4, <1>8
  <2>4. ParseStep(after(d), text[i + (d + 1)], i + (d + 1)) = [after(d) EXCEPT !.skip = @ - 1]
    BY <2>3 DEF ParseStep
  <2>5. [after(d) EXCEPT !.skip = @ - 1] = after(d + 1)
    BY <2>3
  <2>6. QED BY <2>2, <2>4, <2>5
<1>9. A[i + w] = after(w)
  <2>1. CASE w = 1
    BY <1>7, <2>1
  <2>2. CASE w = 2
    <3>1. A[i + (1 + 1)] = after(1 + 1)
      BY <1>7, <1>8, <2>2
    <3>2. QED BY <3>1, <2>2
  <2>3. CASE w = 3
    <3>1. A[i + (1 + 1)] = after(1 + 1)
      BY <1>7, <1>8, <2>3
    <3>2. A[i + (2 + 1)] = after(2 + 1)
      BY <1>8, <2>3, <3>1
    <3>3. QED BY <3>2, <2>3
  <2>4. QED BY <1>4, <2>1, <2>2, <2>3
<1>10. after(w).lines = lines /\ after(w).skip = 0
  BY <1>4
<1>11. QED BY <1>2, <1>9, <1>10 DEF LinesTo, A, text, lines, i

LEMMA LinesSteps ==
  ASSUME NEW t \in Seq(Char)
  PROVE  /\ LinesTo(t, 0) = <<NewLine(0)>>
         /\ \A k \in 1..Len(t) :
              LinesTo(t, k) = PushChar(LinesTo(t, k - 1), t[k], Offset(t, k - 1))
         /\ \A k \in 0..Len(t) : LinesTo(t, k) \in Lines
         /\ Parse(Encode(t)) = LinesTo(t, Len(t))
<1> DEFINE A == ParseLoop(Encode(t))
           T == {k \in 0..Len(t) : A[Offset(t, k)].skip = 0}
<1>1. Encode(t) \in Seq(Byte) /\ Len(Encode(t)) = Offset(t, Len(t))
  BY EncodeType
<1>2. /\ A[0] = [lines |-> <<NewLine(0)>>, skip |-> 0]
      /\ \A i \in 0..Len(Encode(t)) : A[i] \in ParseState
  BY <1>1, ParseLoopSteps
<1>3. Offset(t, 0) = 0
  BY Offsets
<1>4. Len(t) \in Nat
  OBVIOUS
<1>5. \A k \in 0..Len(t) : k \in T
  <2>1. 0 \in T
    BY <1>2, <1>3, <1>4
  <2>2. ASSUME NEW k \in 1..Len(t), k - 1 \in T PROVE k \in T
    BY <2>2, CharacterStep
  <2> HIDE DEF T
  <2>3. QED BY <1>4, <2>1, <2>2, CountingTo
<1>6. LinesTo(t, 0) = <<NewLine(0)>>
  BY <1>2, <1>3 DEF LinesTo
<1>7. ASSUME NEW k \in 1..Len(t)
      PROVE  LinesTo(t, k) = PushChar(LinesTo(t, k - 1), t[k], Offset(t, k - 1))
  <2>1. k - 1 \in T
    BY <1>4, <1>5
  <2>2. QED BY <2>1, CharacterStep
<1>8. Parse(Encode(t)) = LinesTo(t, Len(t))
  BY <1>1 DEF Parse, LinesTo
<1>9. ASSUME NEW k \in 0..Len(t) PROVE LinesTo(t, k) \in Lines
  <2>1. Offset(t, k) \in 0..Len(Encode(t))
    <3>1. CASE k = 0
      BY <3>1, <1>1, <1>3
    <3>2. CASE k # 0
      <4>1. Offset(t, k) \in Nat /\ Offset(t, k) <= Len(Encode(t))
        BY <3>2, Offsets, FirstByte
      <4>2. QED BY <4>1, <1>1
    <3>3. QED BY <3>1, <3>2
  <2>2. A[Offset(t, k)] \in ParseState
    BY <1>2, <2>1
  <2>3. QED BY <2>2 DEF ParseState, LinesTo
<1>10. QED BY <1>6, <1>7, <1>8, <1>9

\* Offsets grow.
LEMMA OffsetsGrow ==
  ASSUME NEW t \in Seq(Char), NEW j \in 0..Len(t), NEW k \in 0..Len(t), j < k
  PROVE  Offset(t, j) < Offset(t, k)
<1> DEFINE m == k - j
           T == {d \in 0..m : d > 0 => Offset(t, j) < Offset(t, j + d)}
<1>1. m \in Nat /\ j + m = k /\ m > 0
  OBVIOUS
<1>2. 0 \in T
  BY <1>1
<1>3. ASSUME NEW d \in 1..m, d - 1 \in T PROVE d \in T
  <2>1. j + d \in 1..Len(t) /\ (j + d) - 1 = j + (d - 1) /\ j + d \in 0..Len(t)
        /\ j + (d - 1) \in 0..Len(t)
    BY <1>1
  <2>2. Offset(t, j + d) = Offset(t, j + (d - 1)) + Utf8OneCharLen(t[j + d])
    BY <2>1, Offsets
  <2>3. Utf8OneCharLen(t[j + d]) \in 1..3
    <3>1. t[j + d] \in Char
      BY <2>1
    <3>2. QED BY <3>1, BytesShape
  <2>4. Offset(t, j) \in Nat /\ Offset(t, j + (d - 1)) \in Nat /\ Offset(t, j + d) \in Nat
    BY <2>1, Offsets
  <2>5. Offset(t, j + (d - 1)) < Offset(t, j + d)
    BY <2>2, <2>3, <2>4
  <2>6. CASE d = 1
    BY <2>5, <2>6
  <2>7. CASE d # 1
    <3>1. Offset(t, j) < Offset(t, j + (d - 1))
      BY <1>3, <2>7
    <3>2. Offset(t, j) < Offset(t, j + d)
      BY <2>4, <2>5, <3>1
    <3>3. QED BY <3>2
  <2>8. QED BY <2>6, <2>7
<1> HIDE DEF T
<1>4. m \in T
  <2> HIDE DEF m
  <2>1. \A d \in 0..m : d \in T
    BY <1>1, <1>2, <1>3, CountingTo
  <2>2. QED BY <1>1, <2>1
<1>5. QED BY <1>1, <1>4 DEF T

-----------------------------------------------------------------------------
(***************************************************************************)
(* The positions of a client.                                              *)
(***************************************************************************)
Ends(t, k) == {i \in 1..k : t[i] = "nl"}

EndsFinite(t, k) == IsFiniteSet(Ends(t, k)) /\ Cardinality(Ends(t, k)) \in Nat

\* The last line feed among the first k characters.
LastEnd(t, k) == CHOOSE i \in Ends(t, k) : \A j \in Ends(t, k) : j <= i

LEMMA PositionParts ==
  ASSUME NEW t, NEW k
  PROVE  PositionAt(t, k) = [line |-> Cardinality(Ends(t, k)),
                             col  |-> IF Ends(t, k) = {} THEN k ELSE k - LastEnd(t, k)]
BY Zenon DEF PositionAt, Ends, LastEnd

LEMMA EndsFacts ==
  ASSUME NEW t \in Seq(Char), NEW k \in 0..Len(t)
  PROVE  EndsFinite(t, k)
<1>1. IsFiniteSet(1..k) /\ k \in Int
  BY FS_Interval
<1>2. Ends(t, k) \in SUBSET (1..k)
  BY DEF Ends
<1>3. IsFiniteSet(Ends(t, k))
  BY <1>1, <1>2, FS_Subset
<1>4. Cardinality(Ends(t, k)) \in Nat
  BY <1>3, FS_CardinalityType
<1>5. QED BY <1>3, <1>4 DEF EndsFinite

LEMMA LastEndExists ==
  ASSUME NEW t \in Seq(Char), NEW k \in 0..Len(t), Ends(t, k) # {}
  PROVE  LastEnd(t, k) \in 1..k
<1> DEFINE T == {n \in 0..k : Ends(t, n) # {} =>
                                \E i \in Ends(t, n) : \A j \in Ends(t, n) : j <= i}
<1>1. 0 \in T
  BY DEF Ends
<1>2. ASSUME NEW n \in 1..k, n - 1 \in T PROVE n \in T
  <2>1. CASE t[n] = "nl"
    <3>1. n \in Ends(t, n) /\ \A j \in Ends(t, n) : j <= n
      BY <2>1 DEF Ends
    <3>2. QED BY <3>1
  <2>2. CASE t[n] # "nl"
    <3>1. Ends(t, n) = Ends(t, n - 1)
      BY <2>2 DEF Ends
    <3>2. QED BY <1>2, <3>1
  <2>3. QED BY <2>1, <2>2
<1> HIDE DEF T
<1>3. k \in T
  <2>1. \A n \in 0..k : n \in T
    BY <1>1, <1>2, CountingTo
  <2>2. QED BY <2>1
<1>4. \E i \in Ends(t, k) : \A j \in Ends(t, k) : j <= i
  BY <1>3 DEF T
<1>5. LastEnd(t, k) \in Ends(t, k)
  BY <1>4 DEF LastEnd
<1>6. QED BY <1>5 DEF Ends

LEMMA PositionSteps ==
  ASSUME NEW t \in Seq(Char)
  PROVE  /\ PositionAt(t, 0) = [line |-> 0, col |-> 0]
         /\ \A k \in 1..Len(t) :
              LET p == PositionAt(t, k - 1)
              IN PositionAt(t, k) = IF t[k] = "nl" THEN [line |-> p.line + 1, col |-> 0]
                                    ELSE [line |-> p.line, col |-> p.col + 1]
<1>1. PositionAt(t, 0) = [line |-> 0, col |-> 0]
  <2>1. Ends(t, 0) = {}
    BY DEF Ends
  <2>2. Cardinality(Ends(t, 0)) = 0
    BY <2>1, FS_EmptySet
  <2>3. QED BY <2>1, <2>2, PositionParts
<1>2. ASSUME NEW k \in 1..Len(t)
      PROVE  LET p == PositionAt(t, k - 1)
             IN PositionAt(t, k) = IF t[k] = "nl" THEN [line |-> p.line + 1, col |-> 0]
                                   ELSE [line |-> p.line, col |-> p.col + 1]
  <2> DEFINE before == Ends(t, k - 1)
             c == Cardinality(before)
  <2>1. k - 1 \in 0..Len(t) /\ k \in 0..Len(t)
    OBVIOUS
  <2>2. IsFiniteSet(before) /\ c \in Nat
    BY <2>1, EndsFacts DEF EndsFinite
  <2>3. PositionAt(t, k - 1)
          = [line |-> c, col |-> IF before = {} THEN k - 1 ELSE (k - 1) - LastEnd(t, k - 1)]
    BY PositionParts
  <2>4. CASE t[k] = "nl"
    <3>1. Ends(t, k) = before \union {k} /\ k \notin before
      BY <2>4 DEF Ends
    <3>2. Cardinality(Ends(t, k)) = c + 1
      <4> HIDE DEF before
      <4>1. Cardinality(before \union {k}) = c + 1
        BY <2>2, <3>1, FS_AddElement
      <4>2. QED BY <3>1, <4>1
    <3>3. LastEnd(t, k) = k
      <4>1. k \in Ends(t, k) /\ \A j \in Ends(t, k) : j <= k /\ j \in Nat
        BY <2>4 DEF Ends
      <4>2. QED BY <4>1 DEF LastEnd
    <3>4. PositionAt(t, k) = [line |-> c + 1, col |-> k - k]
      BY <3>1, <3>2, <3>3, PositionParts
    <3> HIDE DEF before, c
    <3>5. k - k = 0
      OBVIOUS
    <3>6. PositionAt(t, k - 1).line = c
      BY <2>3
    <3>7. QED BY <2>4, <3>4, <3>5, <3>6
  <2>5. CASE t[k] # "nl"
    <3>1. Ends(t, k) = before
      BY <2>5 DEF Ends
    <3>2. LastEnd(t, k) = LastEnd(t, k - 1)
      BY <3>1 DEF LastEnd
    <3>3. PositionAt(t, k)
            = [line |-> c, col |-> IF before = {} THEN k ELSE k - LastEnd(t, k - 1)]
      BY <3>1, <3>2, PositionParts
    <3> HIDE DEF c
    <3>4. CASE before = {}
      <4>1. /\ PositionAt(t, k) = [line |-> c, col |-> k]
            /\ PositionAt(t, k - 1) = [line |-> c, col |-> k - 1]
        BY <2>3, <3>3, <3>4
      <4>2. (k - 1) + 1 = k
        OBVIOUS
      <4>3. QED BY <2>5, <4>1, <4>2
    <3>5. CASE before # {}
      <4> DEFINE e == LastEnd(t, k - 1)
      <4>1. e \in 1..(k - 1)
        BY <2>1, <3>5, LastEndExists
      <4> HIDE DEF e
      <4>2. /\ PositionAt(t, k) = [line |-> c, col |-> k - e]
            /\ PositionAt(t, k - 1) = [line |-> c, col |-> (k - 1) - e]
        BY <2>3, <3>3, <3>5 DEF e
      <4>3. ((k - 1) - e) + 1 = k - e
        BY <4>1
      <4>4. QED BY <2>5, <4>2, <4>3
    <3>6. QED BY <3>4, <3>5
  <2>6. QED BY <2>4, <2>5
<1>3. QED BY <1>1, <1>2

-----------------------------------------------------------------------------
(***************************************************************************)
(* The runs of a line.                                                     *)
(***************************************************************************)
\* A run stands for the characters c + 1 to d of the text, which are equally wide.
RunHolds(r, t, c, d) ==
  /\ r \in Run
  /\ c < d
  /\ r.unit \in 1..3
  /\ r.chars = d - c
  /\ r.total = Offset(t, d) - Offset(t, c)
  /\ \A i \in c..d : Offset(t, i) = Offset(t, c) + (i - c) * r.unit

\* Where its runs end.
RunsHold(runs, t, C) ==
  /\ runs \in Seq(Run)
  /\ C \in [0..Len(runs) -> 0..Len(t)]
  /\ \A j \in 1..Len(runs) : RunHolds(runs[j], t, C[j - 1], C[j])

\* The runs stand for the characters a + 1 to b.
LineHolds(runs, t, a, b) ==
  \E C : RunsHold(runs, t, C) /\ C[0] = a /\ C[Len(runs)] = b

LEMMA RunOne ==
  ASSUME NEW t \in Seq(Char), NEW k \in 1..Len(t), NEW w, w = Utf8OneCharLen(t[k])
  PROVE  RunHolds([total |-> w, chars |-> 1, unit |-> w], t, k - 1, k)
<1> DEFINE r == [total |-> w, chars |-> 1, unit |-> w]
<1>1. w \in 1..3
  <2>1. t[k] \in Char
    OBVIOUS
  <2>2. QED BY <2>1, BytesShape
<1>2. /\ Offset(t, k) = Offset(t, k - 1) + w
      /\ Offset(t, k - 1) \in Nat
      /\ Offset(t, k) \in Nat
  BY Offsets
<1>3. r \in Run
  BY <1>1 DEF Run
<1>4. r.unit \in 1..3 /\ r.chars = k - (k - 1) /\ k - 1 < k
  BY <1>1
<1>5. r.total = Offset(t, k) - Offset(t, k - 1)
  BY <1>1, <1>2
<1>6. ASSUME NEW i \in (k - 1)..k PROVE Offset(t, i) = Offset(t, k - 1) + (i - (k - 1)) * w
  <2>1. CASE i = k
    <3>1. (k - (k - 1)) * w = w
      BY <1>1
    <3>2. QED BY <1>2, <2>1, <3>1
  <2>2. CASE i = k - 1
    <3>1. ((k - 1) - (k - 1)) * w = 0
      BY <1>1
    <3>2. QED BY <1>2, <2>2, <3>1
  <2>3. QED BY <2>1, <2>2
<1>7. QED BY <1>3, <1>4, <1>5, <1>6 DEF RunHolds

LEMMA RunMore ==
  ASSUME NEW t \in Seq(Char), NEW k \in 1..Len(t), NEW w, w = Utf8OneCharLen(t[k]),
         NEW r, NEW c \in Nat, RunHolds(r, t, c, k - 1), r.unit = w
  PROVE  RunHolds([total |-> r.total + w, chars |-> r.chars + 1, unit |-> w], t, c, k)
<1> DEFINE s == [total |-> r.total + w, chars |-> r.chars + 1, unit |-> w]
<1>1. w \in 1..3
  <2>1. t[k] \in Char
    OBVIOUS
  <2>2. QED BY <2>1, BytesShape
<1>2. /\ Offset(t, k) = Offset(t, k - 1) + w
      /\ Offset(t, k - 1) \in Nat
      /\ Offset(t, k) \in Nat
  BY Offsets
<1>3. /\ r.total \in Nat /\ r.chars \in Nat
      /\ c < k - 1
      /\ r.chars = (k - 1) - c
      /\ r.total = Offset(t, k - 1) - Offset(t, c)
      /\ \A i \in c..(k - 1) : Offset(t, i) = Offset(t, c) + (i - c) * w
  BY DEF RunHolds, Run
<1>4. s \in Run
  BY <1>1, <1>3 DEF Run
<1>5. c \in 0..Len(t) /\ c < k
  BY <1>3
<1>6. Offset(t, c) \in Nat
  BY <1>5, Offsets
<1>7. s.chars = k - c
  BY <1>3
<1>8. s.total = Offset(t, k) - Offset(t, c)
  BY <1>1, <1>2, <1>3, <1>6
<1>9. ASSUME NEW i \in c..k PROVE Offset(t, i) = Offset(t, c) + (i - c) * w
  <2>1. CASE i < k
    BY <1>3, <2>1
  <2>2. CASE i = k
    <3>1. Offset(t, k - 1) = Offset(t, c) + ((k - 1) - c) * w
      BY <1>3
    <3>2. ((k - 1) - c) * w + w = (k - c) * w
      BY <1>1
    <3>3. QED BY <1>1, <1>2, <1>6, <2>2, <3>1, <3>2
  <2>3. QED BY <2>1, <2>2
<1>10. QED BY <1>1, <1>4, <1>5, <1>7, <1>8, <1>9 DEF RunHolds

\* Push keeps it.
LEMMA PushHolds ==
  ASSUME NEW t \in Seq(Char), NEW k \in 1..Len(t), NEW runs, NEW a,
         LineHolds(runs, t, a, k - 1)
  PROVE  LineHolds(Push(runs, Utf8OneCharLen(t[k])), t, a, k)
<1> DEFINE w == Utf8OneCharLen(t[k])
           n == Len(runs)
<1>1. PICK C : RunsHold(runs, t, C) /\ C[0] = a /\ C[n] = k - 1
  BY DEF LineHolds
<1>2. /\ runs \in Seq(Run)
      /\ C \in [0..n -> 0..Len(t)]
      /\ \A j \in 1..n : RunHolds(runs[j], t, C[j - 1], C[j])
  BY <1>1 DEF RunsHold
<1>3. w \in 1..3
  <2>1. t[k] \in Char
    OBVIOUS
  <2>2. QED BY <2>1, BytesShape
<1>4. n \in Nat
  BY <1>2
<1>5. Push(runs, w) \in Seq(Run)
  <2>1. w \in Nat
    BY <1>3
  <2> HIDE DEF w
  <2>2. QED BY <1>2, <2>1, PushType
<1>6. CASE runs = <<>> \/ runs[n].unit # w
  <2> DEFINE r == [total |-> w, chars |-> 1, unit |-> w]
             more == Append(runs, r)
             D == [j \in 0..(n + 1) |-> IF j = n + 1 THEN k ELSE C[j]]
  <2>1. Push(runs, w) = more
    BY <1>6 DEF Push
  <2>2. RunHolds(r, t, k - 1, k)
    BY RunOne
  <2> HIDE DEF r, w
  <2>3. more \in Seq(Run) /\ Len(more) = n + 1 /\ more[n + 1] = r
        /\ \A j \in 1..n : more[j] = runs[j]
    BY <1>2, <2>2 DEF RunHolds
  <2> HIDE DEF more, n
  <2>4. D \in [0..(n + 1) -> 0..Len(t)]
    BY <1>2, <1>4
  <2>5. D[0] = a /\ D[n] = k - 1 /\ D[n + 1] = k
    BY <1>1, <1>4
  <2>6. ASSUME NEW j \in 1..(n + 1) PROVE RunHolds(more[j], t, D[j - 1], D[j])
    <3>1. CASE j = n + 1
      <4>1. j - 1 = n
        BY <1>4, <3>1
      <4>2. D[j - 1] = k - 1 /\ D[j] = k /\ more[j] = r
        BY <2>3, <2>5, <3>1, <4>1
      <4>3. QED BY <2>2, <4>2
    <3>2. CASE j # n + 1
      <4>1. j \in 1..n /\ j - 1 \in 0..n /\ j \in 0..n /\ j # n + 1 /\ j - 1 # n + 1
        BY <1>4, <3>2
      <4>2. D[j - 1] = C[j - 1] /\ D[j] = C[j] /\ more[j] = runs[j]
        BY <1>4, <2>3, <4>1
      <4>3. QED BY <1>2, <4>1, <4>2
    <3>3. QED BY <3>1, <3>2
  <2> HIDE DEF D
  <2>7. RunsHold(more, t, D)
    BY <2>3, <2>4, <2>6 DEF RunsHold
  <2>8. QED BY <2>1, <2>3, <2>5, <2>7 DEF LineHolds, w
<1>7. CASE ~(runs = <<>> \/ runs[n].unit # w)
  <2> DEFINE r == [total |-> runs[n].total + w, chars |-> runs[n].chars + 1, unit |-> w]
             more == [runs EXCEPT ![n] = r]
             D == [C EXCEPT ![n] = k]
  <2>1. Push(runs, w) = more
    BY <1>7 DEF Push
  <2>2. n \in 1..n /\ n - 1 \in 0..n
    BY <1>2, <1>7
  <2>3. RunHolds(r, t, C[n - 1], k)
    <3>1. RunHolds(runs[n], t, C[n - 1], k - 1) /\ runs[n].unit = w /\ C[n - 1] \in Nat
      BY <1>1, <1>2, <1>7, <2>2
    <3>2. QED BY <3>1, RunMore
  <2> HIDE DEF r, w
  <2>4. more \in Seq(Run) /\ Len(more) = n /\ more[n] = r
        /\ \A j \in 1..n : j # n => more[j] = runs[j]
    BY <1>2, <2>2, <2>3 DEF RunHolds
  <2> HIDE DEF more, n
  <2>5. D \in [0..n -> 0..Len(t)] /\ D[n] = k /\ \A j \in 0..n : j # n => D[j] = C[j]
    BY <1>2, <2>2
  <2> HIDE DEF D
  <2>6. D[0] = a
    BY <1>1, <2>2, <2>5
  <2>7. ASSUME NEW j \in 1..n PROVE RunHolds(more[j], t, D[j - 1], D[j])
    <3>1. j \in 0..n /\ j - 1 \in 0..n /\ j - 1 # n
      BY <1>4
    <3>2. D[j - 1] = C[j - 1]
      BY <2>5, <3>1
    <3>3. CASE j = n
      BY <2>3, <2>4, <2>5, <3>2, <3>3
    <3>4. CASE j # n
      BY <1>2, <2>4, <2>5, <3>1, <3>2, <3>4
    <3>5. QED BY <3>3, <3>4
  <2>8. RunsHold(more, t, D)
    BY <2>4, <2>5, <2>7 DEF RunsHold
  <2>9. QED BY <2>1, <2>4, <2>5, <2>6, <2>8 DEF LineHolds, w
<1>8. QED BY <1>6, <1>7

LEMMA EmptyLineHolds ==
  ASSUME NEW t, NEW a \in 0..Len(t)
  PROVE  LineHolds(<<>>, t, a, a)
<1> DEFINE C == [j \in 0..0 |-> a]
<1>1. RunsHold(<<>>, t, C)
  <2>1. C \in [0..0 -> 0..Len(t)]
    OBVIOUS
  <2>2. <<>> \in Seq(Run) /\ Len(<<>>) = 0 /\ 1..0 = {}
    OBVIOUS
  <2> HIDE DEF C
  <2>3. QED BY <2>1, <2>2 DEF RunsHold
<1>2. C[0] = a /\ Len(<<>>) = 0
  OBVIOUS
<1>3. QED BY <1>1, <1>2 DEF LineHolds

-----------------------------------------------------------------------------
(***************************************************************************)
(* The loops of GetOffset and GetCol.                                      *)
(***************************************************************************)
OffsetState == [num : Nat, offset : Nat, found : BOOLEAN]

ColumnState == [offset : Nat, col : Nat, found : BOOLEAN]

OffsetStep(so, r) ==
  IF so.found THEN so
  ELSE IF so.num > r.chars
  THEN [num |-> so.num - r.chars, offset |-> so.offset + r.total, found |-> FALSE]
  ELSE [num |-> so.num, offset |-> so.offset + so.num * r.unit, found |-> TRUE]

LEMMA OffsetStepType ==
  ASSUME NEW so \in OffsetState, NEW r \in Run, r.unit \in 1..3
  PROVE  OffsetStep(so, r) \in OffsetState
<1>1. /\ so.num \in Nat /\ so.offset \in Nat /\ so.found \in BOOLEAN
      /\ r.total \in Nat /\ r.chars \in Nat /\ r.unit \in Nat
  BY DEF OffsetState, Run
<1>2. CASE so.found
  BY <1>2 DEF OffsetStep
<1>3. CASE ~so.found /\ so.num > r.chars
  BY <1>1, <1>3 DEF OffsetStep, OffsetState
<1>4. CASE ~so.found /\ ~(so.num > r.chars)
  <2>1. so.offset + so.num * r.unit \in Nat
    BY <1>1
  <2>2. QED BY <1>1, <1>4, <2>1 DEF OffsetStep, OffsetState
<1>5. QED BY <1>2, <1>3, <1>4

LEMMA OffsetLoopSteps ==
  ASSUME NEW runs \in Seq(Run), NEW col \in Nat,
         \A j \in 1..Len(runs) : runs[j].unit \in 1..3
  PROVE  /\ OffsetLoop(runs, col)[0] = [num |-> col, offset |-> 0, found |-> FALSE]
         /\ \A j \in 1..Len(runs) :
              OffsetLoop(runs, col)[j] = OffsetStep(OffsetLoop(runs, col)[j - 1], runs[j])
<1> DEFINE m == Len(runs)
           base == [num |-> col, offset |-> 0, found |-> FALSE]
           step == [j \in 1..m |-> [so \in OffsetState |-> OffsetStep(so, runs[j])]]
           At(f) == [j \in 0..m |-> IF j = 0 THEN base ELSE OffsetStep(f[j - 1], runs[j])]
<1>1. m \in Nat /\ \A j \in 1..m : runs[j] \in Run
  OBVIOUS
<1>2. base \in OffsetState
  BY DEF OffsetState
<1>3. \A j \in 1..m : \A so \in OffsetState : OffsetStep(so, runs[j]) \in OffsetState
  BY <1>1, OffsetStepType
<1> HIDE DEF m, base
<1>4. step \in Steps(OffsetState, m)
  BY <1>3 DEF Steps
<1>5. PICK f \in [0..m -> OffsetState] : Solves(f, base, step, m)
  <2> HIDE DEF step
  <2>1. QED BY <1>1, <1>2, <1>4, Recursion
<1>6. f = At(f)
  <2>1. ASSUME NEW j \in 1..m PROVE f[j] = OffsetStep(f[j - 1], runs[j])
    <3>1. f[j - 1] \in OffsetState
      BY <1>1
    <3>2. QED BY <3>1, <1>5 DEF Solves
  <2>2. f[0] = base
    BY <1>5 DEF Solves
  <2>3. \A j \in 0..m : j # 0 => j \in 1..m
    BY <1>1
  <2> HIDE DEF step
  <2>4. \A j \in 0..m : f[j] = IF j = 0 THEN base ELSE OffsetStep(f[j - 1], runs[j])
    BY <2>1, <2>2, <2>3
  <2>5. QED BY <1>5, <2>4
<1> DEFINE g == OffsetLoop(runs, col)
<1>7. g = At(g)
  BY <1>6 DEF OffsetLoop, OffsetStep, base, m
<1> HIDE DEF g, step
<1>8. g[0] = base
  <2>1. 0 \in 0..m
    BY <1>1
  <2>2. QED BY <1>7, <2>1
<1>9. ASSUME NEW j \in 1..m PROVE g[j] = OffsetStep(g[j - 1], runs[j])
  <2>1. j \in 0..m /\ j # 0
    BY <1>1
  <2>2. QED BY <1>7, <2>1
<1>10. QED BY <1>8, <1>9 DEF g, base, m

ColumnStep(so, r) ==
  IF so.found THEN so
  ELSE IF so.offset > r.total
  THEN [offset |-> so.offset - r.total, col |-> so.col + r.chars, found |-> FALSE]
  ELSE [offset |-> so.offset, col |-> so.col + (so.offset \div r.unit), found |-> TRUE]

LEMMA ColumnStepType ==
  ASSUME NEW so \in ColumnState, NEW r \in Run, r.unit \in 1..3
  PROVE  ColumnStep(so, r) \in ColumnState
<1>1. /\ so.offset \in Nat /\ so.col \in Nat /\ so.found \in BOOLEAN
      /\ r.total \in Nat /\ r.chars \in Nat /\ r.unit \in Nat
  BY DEF ColumnState, Run
<1>2. CASE so.found
  BY <1>2 DEF ColumnStep
<1>3. CASE ~so.found /\ so.offset > r.total
  BY <1>1, <1>3 DEF ColumnStep, ColumnState
<1>4. CASE ~so.found /\ ~(so.offset > r.total)
  <2>1. so.col + (so.offset \div r.unit) \in Nat
    BY <1>1
  <2>2. QED BY <1>1, <1>4, <2>1 DEF ColumnStep, ColumnState
<1>5. QED BY <1>2, <1>3, <1>4

LEMMA ColumnLoopSteps ==
  ASSUME NEW runs \in Seq(Run), NEW offset \in Nat,
         \A j \in 1..Len(runs) : runs[j].unit \in 1..3
  PROVE  /\ ColumnLoop(runs, offset)[0] = [offset |-> offset, col |-> 0, found |-> FALSE]
         /\ \A j \in 1..Len(runs) :
              ColumnLoop(runs, offset)[j] = ColumnStep(ColumnLoop(runs, offset)[j - 1], runs[j])
<1> DEFINE m == Len(runs)
           base == [offset |-> offset, col |-> 0, found |-> FALSE]
           step == [j \in 1..m |-> [so \in ColumnState |-> ColumnStep(so, runs[j])]]
           At(f) == [j \in 0..m |-> IF j = 0 THEN base ELSE ColumnStep(f[j - 1], runs[j])]
<1>1. m \in Nat /\ \A j \in 1..m : runs[j] \in Run
  OBVIOUS
<1>2. base \in ColumnState
  BY DEF ColumnState
<1>3. \A j \in 1..m : \A so \in ColumnState : ColumnStep(so, runs[j]) \in ColumnState
  BY <1>1, ColumnStepType
<1> HIDE DEF m, base
<1>4. step \in Steps(ColumnState, m)
  BY <1>3 DEF Steps
<1>5. PICK f \in [0..m -> ColumnState] : Solves(f, base, step, m)
  <2> HIDE DEF step
  <2>1. QED BY <1>1, <1>2, <1>4, Recursion
<1>6. f = At(f)
  <2>1. ASSUME NEW j \in 1..m PROVE f[j] = ColumnStep(f[j - 1], runs[j])
    <3>1. f[j - 1] \in ColumnState
      BY <1>1
    <3>2. QED BY <3>1, <1>5 DEF Solves
  <2>2. f[0] = base
    BY <1>5 DEF Solves
  <2>3. \A j \in 0..m : j # 0 => j \in 1..m
    BY <1>1
  <2> HIDE DEF step
  <2>4. \A j \in 0..m : f[j] = IF j = 0 THEN base ELSE ColumnStep(f[j - 1], runs[j])
    BY <2>1, <2>2, <2>3
  <2>5. QED BY <1>5, <2>4
<1> DEFINE g == ColumnLoop(runs, offset)
<1>7. g = At(g)
  BY <1>6 DEF ColumnLoop, ColumnStep, base, m
<1> HIDE DEF g, step
<1>8. g[0] = base
  <2>1. 0 \in 0..m
    BY <1>1
  <2>2. QED BY <1>7, <2>1
<1>9. ASSUME NEW j \in 1..m PROVE g[j] = ColumnStep(g[j - 1], runs[j])
  <2>1. j \in 0..m /\ j # 0
    BY <1>1
  <2>2. QED BY <1>7, <2>1
<1>10. QED BY <1>8, <1>9 DEF g, base, m

\* LineOffset::GetOffset finds the offset of the character behind the first k of the text.
LEMMA OffsetOfColumn ==
  ASSUME NEW t \in Seq(Char), NEW a \in 0..Len(t), NEW b \in 0..Len(t), NEW k \in a..b,
         NEW line, line.start = Offset(t, a), LineHolds(line.runs, t, a, b)
  PROVE  OffsetInLine(line, k - a) = Offset(t, k)
<1> DEFINE runs == line.runs
           n == Len(runs)
           At == OffsetLoop(runs, k - a)
<1>1. PICK C : RunsHold(runs, t, C) /\ C[0] = a /\ C[n] = b
  BY DEF LineHolds
<1>2. /\ runs \in Seq(Run)
      /\ C \in [0..n -> 0..Len(t)]
      /\ \A j \in 1..n : RunHolds(runs[j], t, C[j - 1], C[j])
  BY <1>1 DEF RunsHold
<1>3. /\ At[0] = [num |-> k - a, offset |-> 0, found |-> FALSE]
      /\ \A j \in 1..n : At[j] = OffsetStep(At[j - 1], runs[j])
  <2>1. \A j \in 1..n : runs[j].unit \in 1..3
    BY <1>2 DEF RunHolds
  <2>2. k - a \in Nat
    OBVIOUS
  <2> HIDE DEF runs
  <2>3. QED BY <1>2, <2>1, <2>2, OffsetLoopSteps
<1>4. \A i \in 0..Len(t) : Offset(t, i) \in Nat
  BY Offsets
<1>5. n \in Nat /\ k \in Nat /\ a \in Nat /\ a <= k /\ k <= b /\ k \in 0..Len(t)
  BY <1>2
<1> HIDE DEF At, runs, n
<1> DEFINE T == {j \in 0..n :
                   IF At[j].found THEN At[j].offset = Offset(t, k) - Offset(t, a)
                   ELSE /\ At[j].num = k - C[j]
                        /\ At[j].offset = Offset(t, C[j]) - Offset(t, a)
                        /\ C[j] <= k
                        /\ j > 0 => C[j] < k}
<1>6. 0 \in T
  BY <1>1, <1>3, <1>4, <1>5
<1>7. ASSUME NEW j \in 1..n, j - 1 \in T PROVE j \in T
  <2> DEFINE so == At[j - 1]
             r == runs[j]
             c == C[j - 1]
             d == C[j]
  <2>1. c \in 0..Len(t) /\ d \in 0..Len(t) /\ RunHolds(r, t, c, d)
    BY <1>2, <1>5
  <2>2. At[j] = OffsetStep(so, r)
    BY <1>3
  <2>3. Offset(t, c) \in Nat /\ Offset(t, d) \in Nat /\ Offset(t, k) \in Nat /\ Offset(t, a) \in Nat
    BY <1>4, <1>5, <2>1
  <2>4. j \in 0..n /\ j - 1 \in 0..n
    BY <1>5
  <2>5. CASE so.found
    BY <1>7, <2>2, <2>4, <2>5 DEF OffsetStep
  <2>6. CASE ~so.found
    <3>1. so.num = k - c /\ so.offset = Offset(t, c) - Offset(t, a) /\ c <= k
      BY <1>7, <2>6
    <3>2. r.chars = d - c /\ r.total = Offset(t, d) - Offset(t, c)
      BY <2>1 DEF RunHolds
    <3> HIDE DEF so, r, c, d
    <3>3. CASE so.num > r.chars
      <4>1. At[j] = [num |-> so.num - r.chars, offset |-> so.offset + r.total, found |-> FALSE]
        BY <2>2, <2>6, <3>3 DEF OffsetStep
      <4>2. so.num - r.chars = k - d /\ so.offset + r.total = Offset(t, d) - Offset(t, a) /\ d < k
        BY <1>5, <2>1, <2>3, <3>1, <3>2, <3>3
      <4>3. ~At[j].found /\ At[j].num = k - d /\ At[j].offset = Offset(t, d) - Offset(t, a)
            /\ d <= k /\ d < k
        BY <1>5, <2>1, <4>1, <4>2
      <4>4. QED BY <2>4, <4>3 DEF d
    <3>4. CASE ~(so.num > r.chars)
      <4>1. At[j] = [num |-> so.num, offset |-> so.offset + so.num * r.unit, found |-> TRUE]
        BY <2>2, <2>6, <3>4 DEF OffsetStep
      <4>2. k \in c..d
        BY <1>5, <2>1, <3>1, <3>2, <3>4
      <4> DEFINE p == so.num * r.unit
      <4>3. Offset(t, k) = Offset(t, c) + p
        BY <2>1, <3>1, <4>2 DEF RunHolds
      <4>4. p \in Int
        <5>1. so.num \in Int /\ r.unit \in Int
          BY <1>5, <2>1, <3>1 DEF RunHolds
        <5>2. QED BY <5>1
      <4> HIDE DEF p
      <4>5. so.offset + p = Offset(t, k) - Offset(t, a)
        BY <2>3, <3>1, <4>3, <4>4
      <4>6. At[j].found /\ At[j].offset = Offset(t, k) - Offset(t, a)
        BY <4>1, <4>5 DEF p
      <4>7. QED BY <2>4, <4>6
    <3>5. QED BY <3>3, <3>4
  <2>7. QED BY <2>5, <2>6
<1> HIDE DEF T
<1>8. n \in T
  <2>1. \A j \in 0..n : j \in T
    BY <1>5, <1>6, <1>7, CountingTo
  <2>2. QED BY <1>5, <2>1
<1>9. At[n].offset = Offset(t, k) - Offset(t, a)
  <2>1. CASE At[n].found
    BY <1>8, <2>1 DEF T
  <2>2. CASE ~At[n].found
    <3>1. At[n].offset = Offset(t, C[n]) - Offset(t, a) /\ C[n] <= k /\ (n > 0 => C[n] < k)
      BY <1>8, <2>2 DEF T
    <3>2. k = C[n]
      BY <1>1, <1>5, <3>1
    <3>3. QED BY <3>1, <3>2
  <2>3. QED BY <2>1, <2>2
<1>10. Offset(t, k) \in Nat /\ Offset(t, a) \in Nat
  BY <1>4, <1>5
<1>11. OffsetInLine(line, k - a) = Offset(t, a) + At[n].offset
  BY DEF OffsetInLine, At, n, runs
<1>12. QED BY <1>9, <1>10, <1>11

LEMMA Divided ==
  ASSUME NEW x \in Nat, NEW u \in 1..3, NEW q \in Nat, q * u <= x, x < (q + 1) * u
  PROVE  x \div u = q
<1>1. CASE u = 1
  BY <1>1
<1>2. CASE u = 2
  BY <1>2
<1>3. CASE u = 3
  BY <1>3
<1>4. QED BY <1>1, <1>2, <1>3

\* LineOffset::GetCol finds the column of the character that a byte belongs to.
LEMMA ColumnOfOffset ==
  ASSUME NEW t \in Seq(Char), NEW a \in 0..Len(t), NEW b \in 0..Len(t), NEW k \in a..(b - 1),
         NEW o \in Nat, Offset(t, k) <= o, o < Offset(t, k + 1),
         NEW line, line.start = Offset(t, a), LineHolds(line.runs, t, a, b)
  PROVE  ColInLine(line, o - Offset(t, a)) = k - a
<1> DEFINE runs == line.runs
           n == Len(runs)
           At == ColumnLoop(runs, o - Offset(t, a))
<1>1. PICK C : RunsHold(runs, t, C) /\ C[0] = a /\ C[n] = b
  BY DEF LineHolds
<1>2. /\ runs \in Seq(Run)
      /\ C \in [0..n -> 0..Len(t)]
      /\ \A j \in 1..n : RunHolds(runs[j], t, C[j - 1], C[j])
  BY <1>1 DEF RunsHold
<1>3. \A i \in 0..Len(t) : Offset(t, i) \in Nat
  BY Offsets
<1>4. /\ n \in Nat /\ k \in Nat /\ a \in Nat
      /\ a <= k /\ k < b /\ k \in 0..Len(t) /\ k + 1 \in 0..Len(t)
  BY <1>2
<1>5. \A i \in 0..Len(t) :
        /\ i <= k => Offset(t, i) <= Offset(t, k)
        /\ k < i => Offset(t, k + 1) <= Offset(t, i)
  <2> SUFFICES ASSUME NEW i \in 0..Len(t)
               PROVE  /\ i <= k => Offset(t, i) <= Offset(t, k)
                      /\ k < i => Offset(t, k + 1) <= Offset(t, i)
    OBVIOUS
  <2>1. Offset(t, i) \in Nat /\ Offset(t, k) \in Nat /\ Offset(t, k + 1) \in Nat
    BY <1>3, <1>4
  <2>2. i < k => Offset(t, i) < Offset(t, k)
    BY <1>4, OffsetsGrow
  <2>3. k + 1 < i => Offset(t, k + 1) < Offset(t, i)
    BY <1>4, OffsetsGrow
  <2>4. i <= k => i < k \/ i = k
    BY <1>4
  <2>5. k < i => k + 1 < i \/ k + 1 = i
    BY <1>4
  <2>6. i <= k => Offset(t, i) <= Offset(t, k)
    BY <2>1, <2>2, <2>4
  <2>7. k < i => Offset(t, k + 1) <= Offset(t, i)
    BY <2>1, <2>3, <2>5
  <2>8. QED BY <2>6, <2>7
<1>6. o - Offset(t, a) \in Nat
  <2>1. Offset(t, a) <= Offset(t, k)
    <3>1. a \in 0..Len(t) /\ a <= k
      BY <1>4
    <3>2. QED BY <1>5, <3>1, Zenon
  <2>2. Offset(t, a) \in Nat /\ Offset(t, k) \in Nat
    BY <1>3, <1>4
  <2>3. QED BY <2>1, <2>2
<1>7. /\ At[0] = [offset |-> o - Offset(t, a), col |-> 0, found |-> FALSE]
      /\ \A j \in 1..n : At[j] = ColumnStep(At[j - 1], runs[j])
  <2>1. \A j \in 1..n : runs[j].unit \in 1..3
    BY <1>2 DEF RunHolds
  <2> HIDE DEF runs
  <2>2. QED BY <1>2, <1>6, <2>1, ColumnLoopSteps
<1> HIDE DEF At, runs, n
<1> DEFINE T == {j \in 0..n :
                   IF At[j].found THEN At[j].col = k - a
                   ELSE /\ At[j].offset = o - Offset(t, C[j])
                        /\ At[j].col = C[j] - a
                        /\ Offset(t, C[j]) <= o
                        /\ j > 0 => Offset(t, C[j]) < o}
<1>8. 0 \in T
  BY <1>1, <1>3, <1>4, <1>6, <1>7
<1>9. ASSUME NEW j \in 1..n, j - 1 \in T PROVE j \in T
  <2> DEFINE so == At[j - 1]
             r == runs[j]
             c == C[j - 1]
             d == C[j]
  <2>1. c \in 0..Len(t) /\ d \in 0..Len(t) /\ RunHolds(r, t, c, d)
    BY <1>2, <1>4
  <2>2. At[j] = ColumnStep(so, r)
    BY <1>7
  <2>3. Offset(t, c) \in Nat /\ Offset(t, d) \in Nat /\ Offset(t, k) \in Nat
        /\ Offset(t, k + 1) \in Nat
    BY <1>3, <1>4, <2>1
  <2>4. j \in 0..n /\ j - 1 \in 0..n
    BY <1>4
  <2>5. CASE so.found
    BY <1>9, <2>2, <2>4, <2>5 DEF ColumnStep
  <2>6. CASE ~so.found
    <3>1. so.offset = o - Offset(t, c) /\ so.col = c - a /\ Offset(t, c) <= o
      BY <1>9, <2>6
    <3>2. r.chars = d - c /\ r.total = Offset(t, d) - Offset(t, c) /\ c < d /\ r.unit \in 1..3
      BY <2>1 DEF RunHolds
    <3> HIDE DEF so, r, c, d
    <3>3. CASE so.offset > r.total
      <4>1. At[j] = [offset |-> so.offset - r.total, col |-> so.col + r.chars, found |-> FALSE]
        BY <2>2, <2>6, <3>3 DEF ColumnStep
      <4>2. so.offset - r.total = o - Offset(t, d) /\ so.col + r.chars = d - a /\ Offset(t, d) < o
        BY <1>4, <2>1, <2>3, <3>1, <3>2, <3>3
      <4>3. ~At[j].found /\ At[j].offset = o - Offset(t, d) /\ At[j].col = d - a
            /\ Offset(t, d) <= o /\ Offset(t, d) < o
        BY <2>3, <4>1, <4>2
      <4>4. QED BY <2>4, <4>3 DEF d
    <3>4. CASE ~(so.offset > r.total)
      <4> DEFINE x == so.offset
                 u == r.unit
                 q == k - c
      <4>1. At[j] = [offset |-> so.offset, col |-> so.col + (x \div u), found |-> TRUE]
        BY <2>2, <2>6, <3>4 DEF ColumnStep
      <4>2. o <= Offset(t, d)
        BY <2>3, <3>1, <3>2, <3>4
      <4>3. c <= k
        BY <1>4, <1>5, <2>1, <2>3, <3>1
      <4>4. k <= d
        <5>1. ~(d < k)
          <6>1. d < k => Offset(t, d) < Offset(t, k)
            BY <1>4, <2>1, OffsetsGrow
          <6>2. QED BY <2>3, <4>2, <6>1
        <5>2. QED BY <1>4, <2>1, <5>1
      <4>5. \A i \in c..d : Offset(t, i) = Offset(t, c) + (i - c) * u
        BY <2>1 DEF RunHolds
      <4>6. q \in Nat /\ x \in Nat /\ u \in 1..3
        BY <1>4, <2>1, <2>3, <3>1, <3>2, <4>3
      <4>7. q * u <= x
        <5>1. Offset(t, k) = Offset(t, c) + q * u
          BY <1>4, <2>1, <4>3, <4>4, <4>5
        <5> DEFINE y == q * u
        <5>2. y \in Int
          BY <4>6
        <5> HIDE DEF y
        <5>3. y <= x
          BY <2>3, <3>1, <5>1, <5>2 DEF y
        <5>4. QED BY <5>3 DEF y
      <4>8. x < (q + 1) * u
        <5> DEFINE y == (q + 1) * u
        <5>1. y \in Int
          BY <4>6
        <5>2. CASE k < d
          <6>1. k + 1 \in c..d /\ (k + 1) - c = q + 1
            BY <1>4, <2>1, <4>3, <5>2
          <6>2. Offset(t, k + 1) = Offset(t, c) + y
            BY <4>5, <6>1
          <6> HIDE DEF y, q, u
          <6>3. QED BY <2>3, <3>1, <5>1, <6>2 DEF y
        <5>3. CASE k = d
          <6>1. Offset(t, k) = Offset(t, c) + q * u
            BY <1>4, <2>1, <4>3, <4>4, <4>5
          <6>2. (q + 1) * u = q * u + u
            <7> HIDE DEF q, u
            <7>1. u = 1 \/ u = 2 \/ u = 3
              BY <4>6
            <7>2. QED BY <4>6, <7>1
          <6> DEFINE z == q * u
          <6>3. z \in Int
            BY <4>6
          <6> HIDE DEF z
          <6>4. x = z
            BY <2>3, <3>1, <4>2, <5>3, <6>1, <6>3 DEF z
          <6>5. z < z + u
            BY <4>6, <6>3
          <6>6. QED BY <6>2, <6>4, <6>5 DEF z
        <5>4. QED BY <1>4, <2>1, <4>4, <5>2, <5>3
      <4> HIDE DEF x, u, q
      <4>9. x \div u = q
        BY <4>6, <4>7, <4>8, Divided
      <4>10. so.col + q = k - a
        BY <1>4, <2>1, <3>1 DEF q
      <4>11. At[j].found /\ At[j].col = k - a
        BY <4>1, <4>9, <4>10
      <4>12. QED BY <2>4, <4>11
    <3>5. QED BY <3>3, <3>4
  <2>7. QED BY <2>5, <2>6
<1> HIDE DEF T
<1>10. n \in T
  <2>1. \A j \in 0..n : j \in T
    BY <1>4, <1>8, <1>9, CountingTo
  <2>2. QED BY <1>4, <2>1
<1>11. At[n].found
  <2> SUFFICES ASSUME ~At[n].found PROVE FALSE
    OBVIOUS
  <2>1. Offset(t, b) <= o
    BY <1>1, <1>10 DEF T
  <2>2. Offset(t, k + 1) <= Offset(t, b)
    BY <1>4, <1>5
  <2>3. Offset(t, b) \in Nat /\ Offset(t, k + 1) \in Nat
    BY <1>3, <1>4
  <2>4. QED BY <2>1, <2>2, <2>3
<1>12. At[n].col = k - a
  BY <1>10, <1>11 DEF T
<1>13. QED BY <1>12 DEF ColInLine, At, n, runs

-----------------------------------------------------------------------------
(***************************************************************************)
(* The index of a text.                                                    *)
(***************************************************************************)
\* Line n begins behind the first A[n] characters; there are N lines.
LineEnd(A, N, k, n) == IF n < N THEN A[n + 1] ELSE k

InLine(A, N, i, n) == n \in 1..N /\ A[n] <= i /\ (n < N => i < A[n + 1])

Starts(A, N, k) ==
  /\ A \in [1..N -> 0..k]
  /\ \A m, n \in 1..N : m < n => A[m] < A[n]

LinesHold(lines, t, k, A) ==
  /\ lines \in Lines
  /\ Starts(A, Len(lines), k)
  /\ \A n \in 1..Len(lines) :
       /\ lines[n].start = Offset(t, A[n])
       /\ LineHolds(lines[n].runs, t, A[n], LineEnd(A, Len(lines), k, n))

\* Every position is in one of the lines.
PositionsIn(t, k, A, N) ==
  \A i \in 0..k : \E n \in 1..N :
    InLine(A, N, i, n) /\ PositionAt(t, i) = [line |-> n - 1, col |-> i - A[n]]

IndexHolds(lines, t, k) ==
  \E A : LinesHold(lines, t, k, A) /\ PositionsIn(t, k, A, Len(lines))

\* The lines with the k-th character in the last of them.
Pushed(pushed, lines, t, k, A) ==
  /\ Len(pushed) = Len(lines)
  /\ \A n \in 1..(Len(lines) - 1) : pushed[n] = lines[n]
  /\ pushed[Len(lines)].start = lines[Len(lines)].start
  /\ LineHolds(pushed[Len(lines)].runs, t, A[Len(lines)], k)
  /\ PushChar(lines, t[k], Offset(t, k - 1))
       = IF t[k] = "nl" THEN Append(pushed, NewLine(Offset(t, k - 1) + 1)) ELSE pushed

LEMMA PushedLine ==
  ASSUME NEW t \in Seq(Char), NEW k \in 1..Len(t), NEW lines, NEW A,
         LinesHold(lines, t, k - 1, A)
  PROVE  \E pushed \in Seq(Line) : Pushed(pushed, lines, t, k, A)
<1> DEFINE N == Len(lines)
           w == Utf8OneCharLen(t[k])
           l == [lines[N] EXCEPT !.runs = Push(@, w)]
           pushed == [lines EXCEPT ![N] = l]
<1>1. lines \in Seq(Line) /\ N \in 1..N
  BY DEF LinesHold, Lines
<1>2. lines[N] \in Line
  BY <1>1
<1>3. LineHolds(lines[N].runs, t, A[N], k - 1)
  BY <1>1 DEF LinesHold, LineEnd
<1>4. LineHolds(Push(lines[N].runs, w), t, A[N], k)
  BY <1>3, PushHolds
<1>5. w \in Nat
  <2>1. t[k] \in Char
    OBVIOUS
  <2>2. w \in 1..3
    BY <2>1, BytesShape
  <2>3. QED BY <2>2
<1>6. Push(lines[N].runs, w) \in Seq(Run)
  <2>1. lines[N].runs \in Seq(Run)
    BY <1>2 DEF Line
  <2> HIDE DEF N, w
  <2>2. QED BY <1>5, <2>1, PushType
<1>7. l \in Line /\ l.start = lines[N].start /\ l.runs = Push(lines[N].runs, w)
  BY <1>2, <1>6 DEF Line
<1>8. PushChar(lines, t[k], Offset(t, k - 1))
        = IF t[k] = "nl" THEN Append(pushed, NewLine(Offset(t, k - 1) + 1)) ELSE pushed
  BY DEF PushChar, NewLine
<1> HIDE DEF l, w
<1>9. pushed \in Seq(Line) /\ Len(pushed) = N /\ pushed[N] = l
  BY <1>1, <1>7
<1>10. \A n \in 1..(N - 1) : pushed[n] = lines[n]
  BY <1>1
<1>11. Pushed(pushed, lines, t, k, A)
  BY <1>4, <1>7, <1>8, <1>9, <1>10 DEF Pushed
<1>12. QED BY <1>9, <1>11

\* The position behind the last character so far is in the last line.
LEMMA LastPosition ==
  ASSUME NEW k \in Nat, NEW t, NEW N \in Nat, NEW A, Starts(A, N, k), PositionsIn(t, k, A, N)
  PROVE  InLine(A, N, k, N) /\ PositionAt(t, k) = [line |-> N - 1, col |-> k - A[N]]
<1>1. PICK n \in 1..N : InLine(A, N, k, n)
                        /\ PositionAt(t, k) = [line |-> n - 1, col |-> k - A[n]]
  BY DEF PositionsIn
<1>2. ~(n < N)
  <2> SUFFICES ASSUME n < N PROVE FALSE
    OBVIOUS
  <2>1. n + 1 \in 1..N
    OBVIOUS
  <2>2. A[n + 1] \in 0..k
    BY <2>1 DEF Starts
  <2>3. QED BY <1>1, <2>2 DEF InLine
<1>3. n = N
  BY <1>2
<1>4. QED BY <1>1, <1>3

LEMMA IndexStep ==
  ASSUME NEW t \in Seq(Char), NEW k \in 1..Len(t), NEW lines, IndexHolds(lines, t, k - 1)
  PROVE  IndexHolds(PushChar(lines, t[k], Offset(t, k - 1)), t, k)
<1> DEFINE N == Len(lines)
           o == Offset(t, k - 1)
           after == PushChar(lines, t[k], o)
<1>1. PICK A : LinesHold(lines, t, k - 1, A) /\ PositionsIn(t, k - 1, A, N)
  BY DEF IndexHolds
<1>2. lines \in Seq(Line) /\ N \in Nat /\ N \in 1..N
  BY <1>1 DEF LinesHold, Lines
<1>3. /\ A \in [1..N -> 0..(k - 1)]
      /\ \A m, n \in 1..N : m < n => A[m] < A[n]
  BY <1>1 DEF LinesHold, Starts
<1>4. \A n \in 1..N :
        /\ lines[n].start = Offset(t, A[n])
        /\ LineHolds(lines[n].runs, t, A[n], LineEnd(A, N, k - 1, n))
  BY <1>1 DEF LinesHold
<1> HIDE DEF N, o, after
<1>5. PICK pushed \in Seq(Line) : Pushed(pushed, lines, t, k, A)
  BY <1>1, PushedLine
<1>6. /\ Len(pushed) = N
      /\ \A n \in 1..(N - 1) : pushed[n] = lines[n]
      /\ pushed[N].start = lines[N].start
      /\ LineHolds(pushed[N].runs, t, A[N], k)
      /\ after = IF t[k] = "nl" THEN Append(pushed, NewLine(o + 1)) ELSE pushed
  BY <1>5 DEF Pushed, N, o, after
<1>7. PositionAt(t, k - 1) = [line |-> N - 1, col |-> (k - 1) - A[N]] /\ InLine(A, N, k - 1, N)
  <2>1. k - 1 \in Nat /\ Starts(A, N, k - 1)
    BY <1>1 DEF LinesHold, N
  <2>2. QED BY <1>1, <1>2, <2>1, LastPosition
<1>8. A[N] \in 0..(k - 1) /\ k \in 0..k /\ k \in 0..Len(t)
  BY <1>2, <1>3
<1>9. /\ PositionAt(t, k) = IF t[k] = "nl" THEN [line |-> (N - 1) + 1, col |-> 0]
                            ELSE [line |-> N - 1, col |-> ((k - 1) - A[N]) + 1]
  BY <1>7, PositionSteps
<1>10. CASE t[k] # "nl"
  <2>1. after = pushed
    BY <1>6, <1>10
  <2>2. Starts(A, N, k)
    BY <1>2, <1>3 DEF Starts
  <2>3. pushed \in Lines
    BY <1>2, <1>6 DEF Lines
  <2>4. ASSUME NEW n \in 1..N
        PROVE  /\ pushed[n].start = Offset(t, A[n])
               /\ LineHolds(pushed[n].runs, t, A[n], LineEnd(A, N, k, n))
    <3>1. CASE n = N
      BY <1>2, <1>4, <1>6, <3>1 DEF LineEnd
    <3>2. CASE n # N
      <4>1. n \in 1..(N - 1) /\ n < N
        BY <1>2, <3>2
      <4>2. pushed[n] = lines[n] /\ LineEnd(A, N, k, n) = LineEnd(A, N, k - 1, n)
        BY <1>6, <4>1 DEF LineEnd
      <4>3. QED BY <1>4, <4>2
    <3>3. QED BY <3>1, <3>2
  <2>5. LinesHold(pushed, t, k, A)
    BY <1>6, <2>2, <2>3, <2>4 DEF LinesHold
  <2>6. ASSUME NEW i \in 0..k
        PROVE  \E n \in 1..N :
                 InLine(A, N, i, n) /\ PositionAt(t, i) = [line |-> n - 1, col |-> i - A[n]]
    <3>1. CASE i = k
      <4>1. InLine(A, N, k, N)
        BY <1>2, <1>8 DEF InLine
      <4>2. ((k - 1) - A[N]) + 1 = k - A[N]
        BY <1>8
      <4>3. PositionAt(t, k) = [line |-> N - 1, col |-> k - A[N]]
        BY <1>9, <1>10, <4>2
      <4>4. QED BY <1>2, <3>1, <4>1, <4>3
    <3>2. CASE i # k
      <4>1. i \in 0..(k - 1)
        BY <3>2
      <4>2. QED BY <1>1, <4>1 DEF PositionsIn, N
    <3>3. QED BY <3>1, <3>2
  <2>7. PositionsIn(t, k, A, N)
    BY <2>6 DEF PositionsIn
  <2>8. QED BY <1>6, <2>1, <2>5, <2>7 DEF IndexHolds, after, o
<1>11. CASE t[k] = "nl"
  <2> DEFINE new == NewLine(o + 1)
             more == Append(pushed, new)
             M == N + 1
             B == [n \in 1..M |-> IF n = M THEN k ELSE A[n]]
  <2>1. after = more
    BY <1>6, <1>11
  <2>2. o \in Nat /\ o + 1 = Offset(t, k)
    <3>1. Offset(t, k) = Offset(t, k - 1) + 1 /\ Offset(t, k - 1) \in Nat
      BY <1>11, Offsets, WidthOf
    <3>2. QED BY <3>1 DEF o
  <2>3. new \in Line /\ new.start = Offset(t, k) /\ new.runs = <<>>
    BY <2>2 DEF NewLine, Line
  <2> HIDE DEF new
  <2>4. more \in Seq(Line) /\ Len(more) = M /\ more[M] = new
        /\ \A n \in 1..N : more[n] = pushed[n]
    BY <1>2, <1>6, <2>3
  <2> HIDE DEF more
  <2>5. more \in Lines
    <3>1. more # <<>>
      BY <1>2, <2>4
    <3>2. QED BY <2>4, <3>1 DEF Lines
  <2>6. M \in 1..M /\ M \in Nat /\ \A n \in 1..M : n # M => n \in 1..N /\ n # M /\ n < M
    BY <1>2
  <2>7. B[M] = k /\ \A n \in 1..N : B[n] = A[n]
    BY <1>2
  <2>8. B \in [1..M -> 0..k]
    BY <1>2, <1>3, <1>8, <2>6
  <2> HIDE DEF B
  <2>9. \A m, n \in 1..M : m < n => B[m] < B[n]
    <3> SUFFICES ASSUME NEW m \in 1..M, NEW n \in 1..M, m < n PROVE B[m] < B[n]
      OBVIOUS
    <3>1. m \in 1..N
      BY <1>2
    <3>2. CASE n = M
      <4>1. B[m] \in 0..(k - 1)
        BY <1>3, <2>7, <3>1
      <4>2. QED BY <2>7, <3>2, <4>1
    <3>3. CASE n # M
      BY <1>3, <2>6, <2>7, <3>1, <3>3
    <3>4. QED BY <3>2, <3>3
  <2>10. Starts(B, M, k)
    BY <2>8, <2>9 DEF Starts
  <2>11. ASSUME NEW n \in 1..M
         PROVE  /\ more[n].start = Offset(t, B[n])
                /\ LineHolds(more[n].runs, t, B[n], LineEnd(B, M, k, n))
    <3>1. CASE n = M
      <4>1. LineEnd(B, M, k, n) = k /\ B[n] = k /\ more[n] = new
        BY <2>4, <2>7, <3>1, <2>6 DEF LineEnd
      <4>2. LineHolds(<<>>, t, k, k)
        BY <1>8, EmptyLineHolds
      <4>3. QED BY <2>3, <4>1, <4>2
    <3>2. CASE n = N
      <4>1. n < M /\ LineEnd(B, M, k, n) = B[M] /\ n \in 1..N
        BY <1>2, <3>2 DEF LineEnd
      <4>2. more[n] = pushed[n] /\ B[n] = A[n] /\ LineEnd(B, M, k, n) = k
        BY <2>4, <2>7, <4>1
      <4>3. QED BY <1>2, <1>4, <1>6, <3>2, <4>2
    <3>3. CASE n # M /\ n # N
      <4>1. n \in 1..(N - 1) /\ n \in 1..N /\ n < M /\ n < N /\ n + 1 \in 1..N
        BY <1>2, <3>3
      <4>2. LineEnd(B, M, k, n) = B[n + 1] /\ LineEnd(A, N, k - 1, n) = A[n + 1]
        BY <4>1 DEF LineEnd
      <4>3. B[n + 1] = A[n + 1] /\ B[n] = A[n] /\ more[n] = lines[n]
        BY <1>6, <2>4, <2>7, <4>1
      <4>4. QED BY <1>4, <4>1, <4>2, <4>3
    <3>4. QED BY <3>1, <3>2, <3>3
  <2>12. LinesHold(more, t, k, B)
    BY <2>4, <2>5, <2>10, <2>11 DEF LinesHold
  <2>13. ASSUME NEW i \in 0..k
         PROVE  \E n \in 1..M :
                  InLine(B, M, i, n) /\ PositionAt(t, i) = [line |-> n - 1, col |-> i - B[n]]
    <3>1. CASE i = k
      <4>1. InLine(B, M, k, M)
        BY <2>6, <2>7 DEF InLine
      <4>2. (N - 1) + 1 = M - 1 /\ k - B[M] = 0
        BY <1>2, <2>7
      <4>3. PositionAt(t, k) = [line |-> M - 1, col |-> k - B[M]]
        BY <1>9, <1>11, <4>2
      <4>4. QED BY <2>6, <3>1, <4>1, <4>3
    <3>2. CASE i # k
      <4>1. i \in 0..(k - 1) /\ i < k
        BY <3>2
      <4>2. PICK n \in 1..N :
              InLine(A, N, i, n) /\ PositionAt(t, i) = [line |-> n - 1, col |-> i - A[n]]
        BY <1>1, <4>1 DEF PositionsIn, N
      <4>3. n \in 1..M /\ B[n] = A[n] /\ n < M
        BY <1>2, <2>7
      <4>4. i < B[n + 1]
        <5>1. CASE n = N
          BY <2>7, <4>1, <5>1
        <5>2. CASE n # N
          <6>1. n < N /\ n + 1 \in 1..N
            BY <1>2, <5>2
          <6>2. QED BY <2>7, <4>2, <6>1 DEF InLine
        <5>3. QED BY <5>1, <5>2
      <4>5. InLine(B, M, i, n)
        BY <4>2, <4>3, <4>4 DEF InLine
      <4>6. QED BY <4>2, <4>3, <4>5
    <3>3. QED BY <3>1, <3>2
  <2>14. PositionsIn(t, k, B, M)
    BY <2>13 DEF PositionsIn
  <2>15. QED BY <2>1, <2>4, <2>12, <2>14 DEF IndexHolds, after, o
<1>12. QED BY <1>10, <1>11

\* Parse makes the index of the text.
LEMMA ParseIndex ==
  ASSUME NEW t \in Seq(Char)
  PROVE  IndexHolds(Parse(Encode(t)), t, Len(t))
<1> DEFINE T == {k \in 0..Len(t) : IndexHolds(LinesTo(t, k), t, k)}
<1>1. 0 \in T
  <2> DEFINE lines == <<NewLine(0)>>
             A == [n \in 1..1 |-> 0]
  <2>1. LinesTo(t, 0) = lines
    BY LinesSteps
  <2>2. Len(lines) = 1 /\ lines[1] = NewLine(0) /\ lines \in Lines
    <3>1. LinesTo(t, 0) \in Lines
      BY LinesSteps
    <3>2. QED BY <2>1, <3>1
  <2>3. NewLine(0).start = 0 /\ NewLine(0).runs = <<>> /\ Offset(t, 0) = 0
    BY Offsets DEF NewLine
  <2>4. Starts(A, 1, 0) /\ A[1] = 0
    BY DEF Starts
  <2>5. LineHolds(<<>>, t, 0, 0)
    BY EmptyLineHolds
  <2> HIDE DEF lines, A
  <2>6. LineEnd(A, 1, 0, 1) = 0
    BY DEF LineEnd
  <2>7. LinesHold(lines, t, 0, A)
    BY <2>2, <2>3, <2>4, <2>5, <2>6 DEF LinesHold
  <2>8. PositionAt(t, 0) = [line |-> 1 - 1, col |-> 0 - A[1]] /\ InLine(A, 1, 0, 1)
    BY <2>4, PositionSteps DEF InLine
  <2>9. PositionsIn(t, 0, A, 1)
    BY <2>8 DEF PositionsIn
  <2>10. IndexHolds(lines, t, 0)
    BY <2>2, <2>7, <2>9 DEF IndexHolds
  <2>11. QED BY <2>1, <2>10
<1>2. ASSUME NEW k \in 1..Len(t), k - 1 \in T PROVE k \in T
  <2>1. LinesTo(t, k) = PushChar(LinesTo(t, k - 1), t[k], Offset(t, k - 1))
    BY LinesSteps
  <2>2. IndexHolds(PushChar(LinesTo(t, k - 1), t[k], Offset(t, k - 1)), t, k)
    BY <1>2, IndexStep
  <2>3. QED BY <2>1, <2>2
<1> HIDE DEF T
<1>3. Len(t) \in T
  <2>1. Len(t) \in Nat /\ Len(t) \in 0..Len(t)
    OBVIOUS
  <2>2. \A k \in 0..Len(t) : k \in T
    BY <1>1, <1>2, <2>1, CountingTo
  <2>3. QED BY <2>1, <2>2
<1>4. QED BY <1>3, LinesSteps DEF T

LEMMA LineOf ==
  ASSUME NEW t \in Seq(Char), NEW lines, NEW A, NEW n,
         LinesHold(lines, t, Len(t), A), n \in 1..Len(lines)
  PROVE  LET b == LineEnd(A, Len(lines), Len(t), n)
         IN  /\ A[n] \in 0..Len(t)
             /\ b \in 0..Len(t)
             /\ lines[n].start = Offset(t, A[n])
             /\ LineHolds(lines[n].runs, t, A[n], b)
<1> DEFINE N == Len(lines)
<1>1. A \in [1..N -> 0..Len(t)]
  BY DEF LinesHold, Starts
<1>2. N \in Nat
  BY DEF LinesHold, Lines
<1> HIDE DEF N
<1>3. n \in 1..N
  BY DEF N
<1>4. LineEnd(A, N, Len(t), n) \in 0..Len(t)
  <2>1. CASE n < N
    <3>1. n + 1 \in 1..N
      BY <1>2, <1>3, <2>1
    <3>2. QED BY <1>1, <2>1, <3>1 DEF LineEnd
  <2>2. CASE ~(n < N)
    BY <2>2 DEF LineEnd
  <2>3. QED BY <2>1, <2>2
<1>5. QED BY <1>1, <1>3, <1>4 DEF LinesHold, N

\* LineIndex::GetOffset of the position of the client is where the client is.
LEMMA OffsetExact ==
  ASSUME NEW t \in Seq(Char), NEW k \in 0..Len(t)
  PROVE  GetOffset(Parse(Encode(t)), PositionAt(t, k)) = Offset(t, k)
<1> DEFINE index == Parse(Encode(t))
           N == Len(index)
<1>1. PICK A : LinesHold(index, t, Len(t), A) /\ PositionsIn(t, Len(t), A, N)
  BY ParseIndex DEF IndexHolds
<1> HIDE DEF index
<1>2. PICK n \in 1..N :
        InLine(A, N, k, n) /\ PositionAt(t, k) = [line |-> n - 1, col |-> k - A[n]]
  BY <1>1 DEF PositionsIn
<1> DEFINE b == LineEnd(A, N, Len(t), n)
<1>3. /\ A[n] \in 0..Len(t)
      /\ b \in 0..Len(t)
      /\ index[n].start = Offset(t, A[n])
      /\ LineHolds(index[n].runs, t, A[n], b)
  BY <1>1, LineOf
<1>4. N \in Nat
  BY <1>1 DEF LinesHold, Lines
<1> HIDE DEF N
<1>5. k \in A[n]..b
  BY <1>2, <1>3, <1>4 DEF LineEnd, InLine
<1> HIDE DEF b
<1>6. OffsetInLine(index[n], k - A[n]) = Offset(t, k)
  BY <1>3, <1>5, OffsetOfColumn
<1>7. n - 1 < N /\ (n - 1) + 1 = n
  BY <1>4
<1>8. GetOffset(index, [line |-> n - 1, col |-> k - A[n]]) = OffsetInLine(index[n], k - A[n])
  BY <1>7 DEF GetOffset, N
<1>9. QED BY <1>2, <1>6, <1>8 DEF index

\* LineIndex::GetLineCol of a byte is the position of the character it belongs to.
LEMMA PlaceExact ==
  ASSUME NEW t \in Seq(Char), NEW k \in 0..(Len(t) - 1),
         NEW o \in Nat, Offset(t, k) <= o, o < Offset(t, k + 1)
  PROVE  GetLineCol(Parse(Encode(t)), o) = PositionAt(t, k)
<1> DEFINE index == Parse(Encode(t))
           N == Len(index)
<1>1. PICK A : LinesHold(index, t, Len(t), A) /\ PositionsIn(t, Len(t), A, N)
  BY ParseIndex DEF IndexHolds
<1> HIDE DEF index
<1>2. k \in 0..Len(t) /\ k + 1 \in 0..Len(t) /\ k \in Nat
  OBVIOUS
<1>3. PICK n \in 1..N :
        InLine(A, N, k, n) /\ PositionAt(t, k) = [line |-> n - 1, col |-> k - A[n]]
  BY <1>1, <1>2 DEF PositionsIn
<1>4. index \in Seq(Line) /\ N \in Nat /\ DOMAIN index = 1..N
  BY <1>1 DEF LinesHold, Lines
<1> DEFINE b == LineEnd(A, N, Len(t), n)
<1>5. /\ b \in 0..Len(t)
      /\ LineHolds(index[n].runs, t, A[n], b)
  BY <1>1, LineOf
<1>6. /\ A \in [1..N -> 0..Len(t)]
      /\ \A i, j \in 1..N : i < j => A[i] < A[j]
      /\ \A i \in 1..N : index[i].start = Offset(t, A[i])
  BY <1>1 DEF LinesHold, Starts
<1> HIDE DEF N
<1>7. k \in A[n]..(b - 1)
  BY <1>2, <1>3, <1>4, <1>5, <1>6 DEF LineEnd, InLine
<1>8. A[n] \in 0..Len(t)
  BY <1>6
<1>9. \A i \in 0..Len(t) : Offset(t, i) \in Nat
  BY Offsets
<1>10. ASSUME NEW i \in 1..N, i <= n PROVE index[i].start <= o
  <2>1. A[i] \in 0..Len(t) /\ A[i] <= k
    <3>1. CASE i = n
      BY <1>2, <1>7, <1>8, <3>1
    <3>2. CASE i # n
      <4>1. A[i] < A[n] /\ A[i] \in 0..Len(t)
        BY <1>4, <1>6, <1>10, <3>2
      <4>2. QED BY <1>2, <1>7, <1>8, <4>1
    <3>3. QED BY <3>1, <3>2
  <2>2. A[i] = k \/ Offset(t, A[i]) < Offset(t, k)
    BY <1>2, <2>1, OffsetsGrow
  <2>3. Offset(t, A[i]) \in Nat /\ Offset(t, k) \in Nat
    BY <1>2, <1>9, <2>1
  <2>4. Offset(t, A[i]) <= o
    BY <2>2, <2>3
  <2>5. QED BY <1>6, <2>4
<1>11. ASSUME NEW i \in 1..N, n < i PROVE index[i].start > o
  <2>1. k + 1 <= A[i] /\ A[i] \in 0..Len(t)
    <3>1. n + 1 \in 1..N /\ n < N
      BY <1>4, <1>11
    <3>2. k < A[n + 1] /\ A[n + 1] \in 0..Len(t)
      BY <1>3, <1>6, <3>1 DEF InLine
    <3>3. A[n + 1] <= A[i] /\ A[i] \in 0..Len(t)
      <4>1. CASE i = n + 1
        BY <3>2, <4>1
      <4>2. CASE i # n + 1
        <5>1. A[n + 1] < A[i] /\ A[i] \in 0..Len(t)
          BY <1>4, <1>6, <1>11, <3>1, <4>2
        <5>2. QED BY <3>2, <5>1
      <4>3. QED BY <4>1, <4>2
    <3>4. QED BY <1>2, <3>2, <3>3
  <2>2. A[i] = k + 1 \/ Offset(t, k + 1) < Offset(t, A[i])
    BY <1>2, <2>1, OffsetsGrow
  <2>3. Offset(t, A[i]) \in Nat /\ Offset(t, k + 1) \in Nat
    BY <1>2, <1>9, <2>1
  <2>4. Offset(t, A[i]) > o
    BY <2>2, <2>3
  <2>5. QED BY <1>6, <2>4
<1> DEFINE Fits(i) == /\ index[i].start <= o
                      /\ i < Len(index) => index[i + 1].start > o
<1>12. Fits(n)
  <2>1. index[n].start <= o
    BY <1>4, <1>10
  <2>2. n < N => index[n + 1].start > o
    BY <1>4, <1>11
  <2>3. QED BY <2>1, <2>2 DEF N
<1>13. ASSUME NEW i \in 1..N, Fits(i) PROVE i = n
  <2>1. ~(n < i)
    <3> SUFFICES ASSUME n < i PROVE FALSE
      OBVIOUS
    <3>1. index[i].start > o /\ index[i].start <= o
      BY <1>11, <1>13
    <3>2. index[i].start \in Nat
      BY <1>6, <1>9
    <3>3. QED BY <3>1, <3>2
  <2>2. ~(i < n)
    <3> SUFFICES ASSUME i < n PROVE FALSE
      OBVIOUS
    <3>1. i < N /\ i + 1 \in 1..N /\ i + 1 <= n
      BY <1>4
    <3>2. index[i + 1].start > o /\ index[i + 1].start <= o
      BY <1>10, <1>13, <3>1 DEF N
    <3>3. index[i + 1].start \in Nat
      BY <1>6, <1>9, <3>1
    <3>4. QED BY <3>2, <3>3
  <2>3. QED BY <1>4, <2>1, <2>2
<1>14. (CHOOSE i \in DOMAIN index : Fits(i)) = n
  <2> HIDE DEF Fits
  <2>1. QED BY <1>4, <1>12, <1>13
<1>15. GetLineCol(index, o) = [line |-> n - 1, col |-> ColInLine(index[n], o - index[n].start)]
  <2> DEFINE c == CHOOSE i \in DOMAIN index : Fits(i)
  <2>1. GetLineCol(index, o) = [line |-> c - 1, col |-> ColInLine(index[c], o - index[c].start)]
    BY Zenon DEF GetLineCol
  <2> HIDE DEF c
  <2>2. c = n
    BY <1>14 DEF c
  <2>3. QED BY <2>1, <2>2
<1>16. index[n].start = Offset(t, A[n])
  BY <1>6
<1> HIDE DEF b
<1>17. ColInLine(index[n], o - Offset(t, A[n])) = k - A[n]
  BY <1>5, <1>7, <1>8, <1>16, ColumnOfOffset
<1>18. QED BY <1>3, <1>15, <1>16, <1>17 DEF index

\* The position behind a text is in the last line of its index.
LEMMA LastLine ==
  ASSUME NEW t \in Seq(Char)
  PROVE  GetTotalLine(Parse(Encode(t))) + 1 > PositionAt(t, Len(t)).line
<1> DEFINE index == Parse(Encode(t))
           N == Len(index)
<1>1. PICK A : LinesHold(index, t, Len(t), A) /\ PositionsIn(t, Len(t), A, N)
  BY ParseIndex DEF IndexHolds
<1>2. N \in Nat /\ Starts(A, N, Len(t)) /\ Len(t) \in Nat
  BY <1>1 DEF LinesHold, Lines
<1> HIDE DEF N
<1>3. PositionAt(t, Len(t)).line = N - 1
  BY <1>1, <1>2, LastPosition
<1>4. QED BY <1>2, <1>3 DEF GetTotalLine, N

\* An edit of the characters between two places is an edit of the bytes between them.
LEMMA EncodeEdited ==
  ASSUME NEW t \in Seq(Char), NEW new \in Seq(Char), NEW i \in 0..Len(t), NEW j \in 0..Len(t),
         i <= j
  PROVE  /\ Offset(t, i) \in Nat /\ Offset(t, j) \in Nat
         /\ Offset(t, i) <= Offset(t, j)
         /\ Offset(t, j) <= Len(Encode(t))
         /\ Encode(Take(t, i) \o new \o Drop(t, j))
              = Take(Encode(t), Offset(t, i)) \o Encode(new) \o Drop(Encode(t), Offset(t, j))
<1>1. /\ Take(t, i) \in Seq(Char)
      /\ Drop(t, j) \in Seq(Char)
  BY Pieces
<1>2. Offset(t, i) \in Nat /\ Offset(t, j) \in Nat
  BY Offsets
<1>3. Offset(t, i) <= Offset(t, j)
  <2>1. i < j => Offset(t, i) < Offset(t, j)
    BY OffsetsGrow
  <2>2. i < j \/ i = j
    OBVIOUS
  <2>3. QED BY <1>2, <2>1, <2>2
<1>4. Offset(t, j) <= Len(Encode(t))
  <2>1. Len(t) \in 0..Len(t)
    OBVIOUS
  <2>2. Offset(t, Len(t)) \in Nat
    BY <2>1, Offsets
  <2>3. j < Len(t) => Offset(t, j) < Offset(t, Len(t))
    BY <2>1, OffsetsGrow
  <2>4. j < Len(t) \/ j = Len(t)
    OBVIOUS
  <2>5. Len(Encode(t)) = Offset(t, Len(t))
    BY EncodeType
  <2>6. QED BY <1>2, <2>2, <2>3, <2>4, <2>5
<1> DEFINE a == Take(t, i)
           d == Drop(t, j)
<1>5. Encode(a) = Take(Encode(t), Offset(t, i)) /\ Encode(d) = Drop(Encode(t), Offset(t, j))
  BY EncodeTake
<1> HIDE DEF a, d
<1>6. a \in Seq(Char) /\ d \in Seq(Char)
  BY <1>1 DEF a, d
<1>7. a \o new \in Seq(Char)
  BY <1>6, Appended
<1>8. Encode((a \o new) \o d) = Encode(a \o new) \o Encode(d)
  BY <1>6, <1>7, EncodedParts
<1>9. Encode(a \o new) = Encode(a) \o Encode(new)
  BY <1>6, EncodedParts
<1>10. QED BY <1>2, <1>3, <1>4, <1>5, <1>8, <1>9 DEF a, d

-----------------------------------------------------------------------------
(***************************************************************************)
(* The messages.                                                           *)
(***************************************************************************)

(***************************************************************************)
(* The inductive invariant: the server has exactly the client's documents, *)
(* each under an id of its own, with the client's text, and the line       *)
(* indexes that are kept are up to date.                                   *)
(***************************************************************************)
IdsInv ==
  /\ fileIdCounter \in 1..(MaxFiles + 1)
  /\ DOMAIN client \subseteq Uris
  /\ DOMAIN uriDB = DOMAIN client
  /\ \A u \in DOMAIN uriDB : uriDB[u] \in 1..(fileIdCounter - 1)
  /\ NoOrphans

TextInv ==
  /\ \A u \in DOMAIN client : client[u] \in Texts
  /\ \A u \in DOMAIN client : fileDB[uriDB[u]] = Encode(client[u])
  /\ IndexFresh

LoopInv ==
  loop # Idle =>
    /\ DOMAIN loop = {"uri", "left", "live"}
    /\ loop.uri \in DOMAIN client
    /\ loop.live = TRUE

DocInv == IdsInv /\ TextInv /\ LoopInv

LEMMA DocInit == Init => DocInv
<1> SUFFICES ASSUME Init PROVE DocInv
  OBVIOUS
<1>1. IdsInv
  BY DocumentsAssumption DEF Init, IdsInv, NoOrphans
<1>2. TextInv /\ LoopInv
  BY DEF Init, TextInv, LoopInv, IndexFresh
<1>3. QED BY <1>1, <1>2 DEF DocInv

\* Opening a document: its id is new, so that no line index is kept under it.
LEMMA OpenInv ==
  ASSUME DocInv, NEW u \in Uris, NEW t \in Texts, OnDidOpen(u, t)
  PROVE  DocInv'
<1> DEFINE id == fileIdCounter
<1>1. u \notin DOMAIN client /\ u \notin DOMAIN uriDB
  BY DEF DocInv, IdsInv, OnDidOpen
<1>2. uriDB' = Put(uriDB, u, id) /\ fileIdCounter' = id + 1
  BY <1>1 DEF OnDidOpen, FileIdOf
<1>3. uriDB'[u] = id
  BY <1>2 DEF Put
<1>4. /\ client' = Put(client, u, t)
      /\ fileDB' = Put(fileDB, id, Encode(t))
      /\ lineIndexDB' = lineIndexDB
      /\ loop = Idle /\ loop' = Idle
  BY <1>3 DEF OnDidOpen, UpdateText
<1>5. id \notin DOMAIN fileDB /\ id \notin DOMAIN lineIndexDB
  BY DEF DocInv, IdsInv, NoOrphans
<1>6. IdsInv'
  <2>1. fileIdCounter' \in 1..(MaxFiles + 1)
    BY <1>2, DocumentsAssumption DEF DocInv, IdsInv, OnDidOpen
  <2>2. (DOMAIN uriDB = DOMAIN client /\ DOMAIN client \subseteq Uris)'
    BY <1>2, <1>4 DEF DocInv, IdsInv, Put
  <2>3. (\A v \in DOMAIN uriDB : uriDB[v] \in 1..(fileIdCounter - 1))'
    <3>1. fileIdCounter \in Nat \ {0} /\ \A v \in DOMAIN uriDB : uriDB[v] \in 1..(fileIdCounter - 1)
      BY DocumentsAssumption DEF DocInv, IdsInv
    <3>2. QED BY <1>2, <3>1 DEF Put
  <2>4. (\A v, w \in DOMAIN uriDB : uriDB[v] = uriDB[w] => v = w)'
    BY <1>2 DEF DocInv, IdsInv, NoOrphans, Put
  <2>5. (DOMAIN fileDB = {uriDB[v] : v \in DOMAIN uriDB})'
    <3>1. DOMAIN fileDB = {uriDB[v] : v \in DOMAIN uriDB}
      BY DEF DocInv, IdsInv, NoOrphans
    <3>2. /\ DOMAIN fileDB' = DOMAIN fileDB \union {id}
          /\ DOMAIN uriDB' = DOMAIN uriDB \union {u}
          /\ \A v \in DOMAIN uriDB : uriDB'[v] = uriDB[v]
      BY <1>1, <1>2, <1>4 DEF Put
    <3>3. QED BY <1>3, <3>1, <3>2
  <2>6. (DOMAIN lineIndexDB \subseteq DOMAIN fileDB)'
    BY <1>4 DEF DocInv, IdsInv, NoOrphans, Put
  <2>7. QED BY <2>1, <2>2, <2>3, <2>4, <2>5, <2>6 DEF IdsInv, NoOrphans
<1>7. TextInv'
  <2>1. (\A v \in DOMAIN client : client[v] \in Texts)'
    BY <1>4 DEF DocInv, TextInv, Put
  <2>2. (\A v \in DOMAIN client : fileDB[uriDB[v]] = Encode(client[v]))'
    <3>1. ASSUME NEW v \in DOMAIN client' PROVE fileDB'[uriDB'[v]] = Encode(client'[v])
      <4>1. CASE v = u
        BY <4>1, <1>3, <1>4 DEF Put
      <4>2. CASE v # u
        <5>1. v \in DOMAIN client /\ client'[v] = client[v]
          BY <4>2, <1>4, <3>1 DEF Put
        <5>2. uriDB'[v] = uriDB[v] /\ uriDB[v] # id /\ uriDB[v] \in DOMAIN fileDB
          BY <5>1, <4>2, <1>2, <1>5 DEF DocInv, IdsInv, NoOrphans, Put
        <5>3. fileDB'[uriDB[v]] = fileDB[uriDB[v]]
          BY <5>2, <1>4 DEF Put
        <5>4. QED BY <5>1, <5>2, <5>3 DEF DocInv, TextInv
      <4>3. QED BY <4>1, <4>2
    <3>2. QED BY <3>1
  <2>3. IndexFresh'
    <3>1. ASSUME NEW i \in DOMAIN lineIndexDB'
          PROVE  lineIndexDB'[i] = Parse(fileDB'[i])
      <4>1. i \in DOMAIN lineIndexDB /\ i \in DOMAIN fileDB /\ i # id
        BY <3>1, <1>4, <1>5 DEF DocInv, IdsInv, NoOrphans
      <4>2. fileDB'[i] = fileDB[i]
        BY <4>1, <1>4 DEF Put
      <4>3. QED BY <4>1, <4>2, <1>4 DEF DocInv, TextInv, IndexFresh
    <3>2. QED BY <3>1 DEF IndexFresh
  <2>4. QED BY <2>1, <2>2, <2>3 DEF TextInv
<1>8. LoopInv'
  BY <1>4 DEF LoopInv
<1>9. QED BY <1>6, <1>7, <1>8 DEF DocInv

\* A change with a range is made at the offsets at which the client made it.
LEMMA ChangeExact ==
  ASSUME DocInv, NEW u \in DOMAIN client, NEW e \in Edits(client[u]),
         UpdateRange(uriDB[u], Change(client[u], e))
  PROVE  /\ Edited(client[u], e) \in Texts
         /\ ~Throws(uriDB[u], Change(client[u], e))
         /\ fileDB' = Put(fileDB, uriDB[u], Encode(Edited(client[u], e)))
         /\ lineIndexDB' = Put(lineIndexDB, uriDB[u], Parse(Encode(Edited(client[u], e))))
<1> DEFINE t == client[u]
           id == uriDB[u]
           change == Change(t, e)
           first == Offset(t, e.from)
           last == Offset(t, e.to)
<1>1. t \in Texts /\ u \in DOMAIN uriDB /\ id \in DOMAIN fileDB /\ fileDB[id] = Encode(t)
  BY DEF DocInv, IdsInv, TextInv, NoOrphans
<1>2. /\ e.from \in 0..Len(t) /\ e.to \in 0..Len(t) /\ e.new \in NewTexts
      /\ e.from <= e.to
      /\ Edited(t, e) \in Texts
  BY DEF Edits, Edited
<1>3. t \in Seq(Char) /\ e.new \in Seq(Char)
  BY <1>1, <1>2, DocumentsAssumption
<1>4. GetLineIndex(id) = Parse(Encode(t))
  BY <1>1 DEF GetLineIndex, DocInv, TextInv, IndexFresh
<1>5. change.start = PositionAt(t, e.from) /\ change.end = PositionAt(t, e.to)
      /\ change.text = Encode(e.new)
  BY DEF Change
<1>6. /\ GetOffset(GetLineIndex(id), change.start) = first
      /\ GetOffset(GetLineIndex(id), change.end) = last
  BY <1>3, <1>2, <1>4, <1>5, OffsetExact
<1>7. /\ first \in Nat /\ last \in Nat
      /\ first <= last /\ last <= Len(Encode(t))
      /\ Encode(Edited(t, e)) = Take(Encode(t), first) \o Encode(e.new) \o Drop(Encode(t), last)
  BY <1>3, <1>2, EncodeEdited DEF Edited
<1>8. Len(Encode(t)) \in Nat /\ Len(change.text) \in Nat
  BY <1>3, <1>5, EncodeType
<1>9. /\ ~(first > Len(Encode(t))) /\ ~(last < first \/ last > Len(Encode(t)))
      /\ ~(last > first + Len(Encode(t)) + Len(change.text) + 4096)
  BY <1>7, <1>8
<1>10. ~Throws(id, change)
  <2>1. Throws(id, change) =>
          first > Len(Encode(t)) \/ last > first + Len(Encode(t)) + Len(change.text) + 4096
    BY <1>1, <1>6 DEF Throws
  <2>2. QED BY <2>1, <1>9
<1>11. /\ fileDB' = Put(fileDB, id,
                   Take(Encode(t), first) \o Encode(e.new) \o Drop(Encode(t), last))
      /\ lineIndexDB' = Put(lineIndexDB, id,
                   Parse(Take(Encode(t), first) \o Encode(e.new) \o Drop(Encode(t), last)))
  <2>1. UpdateRange(id, change)
    OBVIOUS
  <2> HIDE DEF id, change, first, last, t
  <2>2. /\ fileDB' = Put(fileDB, id,
                     Take(fileDB[id], first) \o change.text \o Drop(fileDB[id], last))
        /\ lineIndexDB' = Put(lineIndexDB, id,
                     Parse(Take(fileDB[id], first) \o change.text \o Drop(fileDB[id], last)))
    BY <2>1, <1>1, <1>6, <1>9, <1>10 DEF UpdateRange
  <2>3. QED BY <2>2, <1>1, <1>5
<1>12. QED BY <1>2, <1>7, <1>11, <1>10

\* What such a change leaves behind.
LEMMA ChangedInv ==
  ASSUME IdsInv, TextInv, NEW u \in DOMAIN client, NEW t \in Texts,
         client' = Put(client, u, t),
         fileDB' = Put(fileDB, uriDB[u], Encode(t)),
         lineIndexDB' = Put(lineIndexDB, uriDB[u], Parse(Encode(t))),
         uriDB' = uriDB, fileIdCounter' = fileIdCounter
  PROVE  IdsInv' /\ TextInv' /\ DOMAIN client' = DOMAIN client
<1> DEFINE id == uriDB[u]
<1>1. id \in DOMAIN fileDB
  BY DEF IdsInv, NoOrphans
<1>2. /\ DOMAIN client' = DOMAIN client
      /\ DOMAIN fileDB' = DOMAIN fileDB
      /\ DOMAIN lineIndexDB' = DOMAIN lineIndexDB \union {id}
  BY <1>1 DEF Put
<1>3. IdsInv'
  BY <1>1, <1>2 DEF IdsInv, NoOrphans
<1>4. \A v \in DOMAIN client' : client'[v] \in Texts
  BY DEF TextInv, Put
<1>5. ASSUME NEW v \in DOMAIN client' PROVE fileDB'[uriDB'[v]] = Encode(client'[v])
  <2>1. CASE v = u
    BY <2>1, <1>1 DEF Put
  <2>2. CASE v # u
    <3>1. v \in DOMAIN client /\ client'[v] = client[v]
      BY <2>2, <1>2 DEF Put
    <3>2. uriDB[v] # id /\ uriDB[v] \in DOMAIN fileDB
      BY <3>1, <2>2 DEF IdsInv, NoOrphans
    <3>3. fileDB'[uriDB[v]] = fileDB[uriDB[v]]
      BY <3>2 DEF Put
    <3>4. QED BY <3>1, <3>3 DEF TextInv
  <2>3. QED BY <2>1, <2>2
<1>6. ASSUME NEW i \in DOMAIN lineIndexDB' PROVE lineIndexDB'[i] = Parse(fileDB'[i])
  <2>1. CASE i = id
    BY <2>1, <1>1 DEF Put
  <2>2. CASE i # id
    <3>1. i \in DOMAIN lineIndexDB /\ i \in DOMAIN fileDB
      BY <2>2, <1>2 DEF IdsInv, NoOrphans
    <3>2. fileDB'[i] = fileDB[i] /\ lineIndexDB'[i] = lineIndexDB[i]
      BY <3>1, <2>2 DEF Put
    <3>3. QED BY <3>1, <3>2 DEF TextInv, IndexFresh
  <2>3. QED BY <2>1, <2>2
<1>7. QED BY <1>2, <1>3, <1>4, <1>5, <1>6 DEF TextInv, IndexFresh

LEMMA DidChangeInv ==
  ASSUME ChangeKinds = {"range"}, DocInv,
         NEW u \in DOMAIN client, NEW e \in Edits(client[u]), OnDidChange(u, e)
  PROVE  DocInv'
<1> DEFINE t == Edited(client[u], e)
<1>1. e.kind = "range"
  BY DEF Edits
<1>2. Change(client[u], e).kind = "range"
  BY <1>1 DEF Change
<1>3. u \in DOMAIN uriDB
  BY DEF DocInv, IdsInv
<1>4. uriDB' = uriDB /\ fileIdCounter' = fileIdCounter
  BY <1>3 DEF OnDidChange, FileIdOf
<1>5. UpdateRange(uriDB[u], Change(client[u], e))
  BY <1>2, <1>4 DEF OnDidChange
<1>6. client' = Put(client, u, t) /\ loop = Idle /\ loop' = Idle
  BY DEF OnDidChange
<1>7. /\ t \in Texts
      /\ fileDB' = Put(fileDB, uriDB[u], Encode(t))
      /\ lineIndexDB' = Put(lineIndexDB, uriDB[u], Parse(Encode(t)))
  BY <1>5, ChangeExact
<1>8. IdsInv' /\ TextInv'
  BY <1>4, <1>6, <1>7, ChangedInv DEF DocInv
<1>9. QED BY <1>6, <1>8 DEF DocInv, LoopInv

LEMMA DidChangeAllInv ==
  ASSUME DocInv, NEW u \in DOMAIN client, NEW n \in Nat, OnDidChangeAll(u, n)
  PROVE  DocInv'
<1>1. UNCHANGED <<client, uriDB, fileDB, lineIndexDB, fileIdCounter>>
  BY DEF OnDidChangeAll, databases
<1>2. u \in DOMAIN uriDB
  BY DEF DocInv, IdsInv
<1>3. LoopInv'
  <2>1. CASE n = 0
    BY <2>1 DEF OnDidChangeAll, LoopInv
  <2>2. CASE n # 0
    <3>1. loop' = [uri |-> u, left |-> n, live |-> u \in DOMAIN uriDB]
      BY <2>2 DEF OnDidChangeAll
    <3>2. (u \in DOMAIN uriDB) = TRUE
      BY <1>2
    <3>3. loop' = [uri |-> u, left |-> n, live |-> TRUE]
      BY <3>1, <3>2, Zenon
    <3>4. QED BY <3>3, <1>1 DEF LoopInv
  <2>3. QED BY <2>1, <2>2
<1>4. IdsInv' /\ TextInv'
  BY <1>1 DEF DocInv, IdsInv, TextInv, NoOrphans, IndexFresh
<1>5. QED BY <1>3, <1>4 DEF DocInv

LEMMA NextChangeInv ==
  ASSUME ChangeKinds = {"range"}, DocInv,
         NEW u \in DOMAIN client, NEW e \in Edits(client[u]), NextChange(u, e)
  PROVE  DocInv'
<1> DEFINE t == Edited(client[u], e)
<1>1. e.kind = "range"
  BY DEF Edits
<1>2. loop # Idle /\ loop.uri = u /\ loop.live = TRUE
  BY DEF DocInv, LoopInv, NextChange
<1>3. UpdateRange(uriDB[u], Change(client[u], e)) /\ uriDB' = uriDB
      /\ fileIdCounter' = fileIdCounter
  BY <1>1, <1>2 DEF NextChange
<1>4. client' = Put(client, u, t)
  BY DEF NextChange
<1>5. /\ t \in Texts
      /\ fileDB' = Put(fileDB, uriDB[u], Encode(t))
      /\ lineIndexDB' = Put(lineIndexDB, uriDB[u], Parse(Encode(t)))
      /\ ~Throws(uriDB[u], Change(client[u], e))
  BY <1>3, ChangeExact
<1>6. IdsInv' /\ TextInv' /\ DOMAIN client' = DOMAIN client
  BY <1>3, <1>4, <1>5, ChangedInv DEF DocInv
<1>7. LoopInv'
  <2>1. CASE loop.left = 1
    BY <2>1 DEF NextChange, LoopInv
  <2>2. CASE loop.left # 1
    <3>1. (loop.live /\ e.kind = "range" /\ ~Throws(uriDB[u], Change(client[u], e))) = TRUE
      BY <1>1, <1>2, <1>5
    <3>2. loop' = [loop EXCEPT !.left = @ - 1, !.live = TRUE]
      BY <2>2, <3>1 DEF NextChange
    <3>3. DOMAIN loop = {"uri", "left", "live"} /\ loop.uri \in DOMAIN client
      BY <1>2 DEF DocInv, LoopInv
    <3>4. DOMAIN loop' = {"uri", "left", "live"} /\ loop'.uri = loop.uri /\ loop'.live = TRUE
      BY <3>2, <3>3
    <3>5. QED BY <3>3, <3>4, <1>6 DEF LoopInv
  <2>3. QED BY <2>1, <2>2
<1>8. QED BY <1>6, <1>7 DEF DocInv

LEMMA CloseInv ==
  ASSUME DocInv, NEW u \in Uris, OnClose(u)
  PROVE  DocInv'
<1> DEFINE id == uriDB[u]
<1>1. u \in DOMAIN client /\ u \in DOMAIN uriDB
  BY DEF OnClose, DocInv, IdsInv
<1>2. /\ client' = Without(client, u)
      /\ uriDB' = Without(uriDB, u)
      /\ fileDB' = Without(fileDB, id)
      /\ lineIndexDB' = Without(lineIndexDB, id)
      /\ fileIdCounter' = fileIdCounter
      /\ loop = Idle /\ loop' = Idle
  BY <1>1 DEF OnClose, ClearFile
<1>3. /\ DOMAIN client' = DOMAIN client \ {u}
      /\ DOMAIN uriDB' = DOMAIN uriDB \ {u}
      /\ DOMAIN fileDB' = DOMAIN fileDB \ {id}
      /\ DOMAIN lineIndexDB' = DOMAIN lineIndexDB \ {id}
  BY <1>2 DEF Without
<1>4. ASSUME NEW v \in DOMAIN client'
      PROVE  /\ v \in DOMAIN client /\ v \in DOMAIN uriDB
             /\ client'[v] = client[v] /\ uriDB'[v] = uriDB[v]
             /\ uriDB[v] # id
             /\ fileDB'[uriDB[v]] = fileDB[uriDB[v]]
  <2>1. v \in DOMAIN client /\ v \in DOMAIN uriDB /\ v # u
    BY <1>3 DEF DocInv, IdsInv
  <2>2. client'[v] = client[v] /\ uriDB'[v] = uriDB[v]
    BY <2>1, <1>2 DEF Without
  <2>3. uriDB[v] # id /\ uriDB[v] \in DOMAIN fileDB
    BY <2>1, <1>1 DEF DocInv, IdsInv, NoOrphans
  <2>4. fileDB'[uriDB[v]] = fileDB[uriDB[v]]
    BY <2>3, <1>2 DEF Without
  <2>5. QED BY <2>1, <2>2, <2>3, <2>4
<1>5. IdsInv'
  <2>1. /\ (DOMAIN uriDB = DOMAIN client /\ DOMAIN client \subseteq Uris)'
        /\ (fileIdCounter \in 1..(MaxFiles + 1))'
    BY <1>2, <1>3 DEF DocInv, IdsInv
  <2>2. (\A v \in DOMAIN uriDB : uriDB[v] \in 1..(fileIdCounter - 1))'
    BY <1>2, <1>4, <2>1 DEF DocInv, IdsInv
  <2>3. (\A v, w \in DOMAIN uriDB : uriDB[v] = uriDB[w] => v = w)'
    BY <1>4, <2>1 DEF DocInv, IdsInv, NoOrphans
  <2>4. (DOMAIN fileDB = {uriDB[v] : v \in DOMAIN uriDB})'
    BY <1>3, <1>4, <2>1 DEF DocInv, IdsInv, NoOrphans
  <2>5. (DOMAIN lineIndexDB \subseteq DOMAIN fileDB)'
    BY <1>3 DEF DocInv, IdsInv, NoOrphans
  <2>6. QED BY <2>1, <2>2, <2>3, <2>4, <2>5 DEF IdsInv, NoOrphans
<1>6. TextInv'
  <2>1. \A v \in DOMAIN client' :
          client'[v] \in Texts /\ fileDB'[uriDB'[v]] = Encode(client'[v])
    BY <1>4 DEF DocInv, TextInv
  <2>2. ASSUME NEW i \in DOMAIN lineIndexDB' PROVE lineIndexDB'[i] = Parse(fileDB'[i])
    <3>1. i \in DOMAIN lineIndexDB /\ i \in DOMAIN fileDB /\ i # id
      BY <1>3 DEF DocInv, IdsInv, NoOrphans
    <3>2. lineIndexDB'[i] = lineIndexDB[i] /\ fileDB'[i] = fileDB[i]
      BY <3>1, <1>2 DEF Without
    <3>3. QED BY <3>1, <3>2 DEF DocInv, TextInv, IndexFresh
  <2>3. QED BY <2>1, <2>2 DEF TextInv, IndexFresh
<1>7. LoopInv'
  BY <1>2 DEF LoopInv
<1>8. QED BY <1>5, <1>6, <1>7 DEF DocInv

\* A handler that only reads fills in the line index at most.
LEMMA ReadInv ==
  ASSUME DocInv, UNCHANGED <<client, uriDB, fileDB, fileIdCounter, loop>>,
         \/ UNCHANGED lineIndexDB
         \/ \E u \in DOMAIN uriDB :
              lineIndexDB' = Put(lineIndexDB, uriDB[u], GetLineIndex(uriDB[u]))
  PROVE  DocInv'
<1>1. CASE UNCHANGED lineIndexDB
  <2>1. IdsInv' /\ TextInv'
    BY <1>1 DEF DocInv, IdsInv, TextInv, NoOrphans, IndexFresh
  <2>2. LoopInv'
    BY Zenon DEF DocInv, LoopInv
  <2>3. QED BY <2>1, <2>2 DEF DocInv
<1>2. CASE \E u \in DOMAIN uriDB :
             lineIndexDB' = Put(lineIndexDB, uriDB[u], GetLineIndex(uriDB[u]))
  <2>1. PICK u \in DOMAIN uriDB :
          lineIndexDB' = Put(lineIndexDB, uriDB[u], GetLineIndex(uriDB[u]))
    BY <1>2
  <2> DEFINE id == uriDB[u]
  <2>2. id \in DOMAIN fileDB /\ GetLineIndex(id) = Parse(fileDB[id])
    BY DEF GetLineIndex, DocInv, IdsInv, TextInv, NoOrphans, IndexFresh
  <2>3. DOMAIN lineIndexDB' = DOMAIN lineIndexDB \union {id}
    BY <2>1 DEF Put
  <2>4. IdsInv'
    BY <2>2, <2>3 DEF DocInv, IdsInv, NoOrphans
  <2>5. ASSUME NEW i \in DOMAIN lineIndexDB' PROVE lineIndexDB'[i] = Parse(fileDB'[i])
    <3>1. CASE i = id
      BY <3>1, <2>1, <2>2, <2>3 DEF Put
    <3>2. CASE i # id
      BY <3>2, <2>1, <2>3 DEF Put, DocInv, TextInv, IndexFresh
    <3>3. QED BY <3>1, <3>2
  <2>6. TextInv' /\ LoopInv'
    <3>1. TextInv'
      BY <2>5 DEF DocInv, TextInv, IndexFresh
    <3>2. LoopInv'
      BY Zenon DEF DocInv, LoopInv
    <3>3. QED BY <3>1, <3>2
  <2>7. QED BY <2>4, <2>6 DEF DocInv
<1>3. QED BY <1>1, <1>2

LEMMA FormattingInv ==
  ASSUME DocInv, NEW u \in Uris, NEW error \in BOOLEAN, OnFormatting(u, error)
  PROVE  DocInv'
<1>1. UNCHANGED <<client, uriDB, fileDB, fileIdCounter, loop>>
  BY DEF OnFormatting
<1>2. CASE u \notin DOMAIN uriDB \/ error
  <2>1. UNCHANGED lineIndexDB
    BY <1>2 DEF OnFormatting
  <2>2. QED BY <1>1, <2>1, ReadInv
<1>3. CASE ~(u \notin DOMAIN uriDB \/ error)
  <2>1. lineIndexDB' = Put(lineIndexDB, uriDB[u], GetLineIndex(uriDB[u]))
    BY <1>3 DEF OnFormatting
  <2>2. QED BY <1>1, <1>3, <2>1, ReadInv
<1>4. QED BY <1>2, <1>3

LEMMA DiagnosticInv ==
  ASSUME DocInv, NEW u, NEW from, NEW to, OnTextDocumentDiagnostic(u, from, to)
  PROVE  DocInv'
<1>1. UNCHANGED <<client, uriDB, fileDB, fileIdCounter, loop>>
  BY DEF OnTextDocumentDiagnostic
<1>2. CASE u \notin DOMAIN uriDB
  <2>1. UNCHANGED lineIndexDB
    BY <1>2 DEF OnTextDocumentDiagnostic
  <2>2. QED BY <1>1, <2>1, ReadInv
<1>3. CASE u \in DOMAIN uriDB
  <2>1. lineIndexDB' = Put(lineIndexDB, uriDB[u], GetLineIndex(uriDB[u]))
    BY <1>3 DEF OnTextDocumentDiagnostic
  <2>2. QED BY <1>1, <1>3, <2>1, ReadInv
<1>4. QED BY <1>2, <1>3

LEMMA DocNext ==
  ASSUME ChangeKinds = {"range"}, DocInv, [Next]_vars
  PROVE  DocInv'
<1>1. ASSUME NEW u \in Uris, NEW t \in Texts, OnDidOpen(u, t) PROVE DocInv'
  BY <1>1, OpenInv
<1>2. ASSUME NEW u \in DOMAIN client, NEW n \in 0..MaxChanges, OnDidChangeAll(u, n)
      PROVE  DocInv'
  <2>1. n \in Nat
    BY DocumentsAssumption
  <2>2. QED BY <1>2, <2>1, DidChangeAllInv
<1>3. ASSUME NEW u \in Uris, OnClose(u) PROVE DocInv'
  BY <1>3, CloseInv
<1>4. ASSUME NEW u \in Uris, NEW error \in BOOLEAN, OnFormatting(u, error) PROVE DocInv'
  BY <1>4, FormattingInv
<1>5. ASSUME NEW u \in DOMAIN client, NEW e \in Edits(client[u]), OnDidChange(u, e)
      PROVE  DocInv'
  BY <1>5, DidChangeInv
<1>6. ASSUME NEW u \in DOMAIN client, NEW e \in Edits(client[u]), NextChange(u, e)
      PROVE  DocInv'
  BY <1>6, NextChangeInv
<1>7. ASSUME NEW u, NEW from, NEW to, OnTextDocumentDiagnostic(u, from, to) PROVE DocInv'
  BY <1>7, DiagnosticInv
<1>8. CASE UNCHANGED vars
  <2>1. UNCHANGED <<client, uriDB, fileDB, lineIndexDB, fileIdCounter, loop>>
    BY <1>8 DEF vars, databases
  <2>2. QED BY <2>1, ReadInv
<1>9. QED BY <1>1, <1>2, <1>3, <1>4, <1>5, <1>6, <1>7, <1>8 DEF Next

(***************************************************************************)
(* The inductive invariant, as long as every change of an open document    *)
(* has a range (without that it is false: a change with the whole text     *)
(* does not touch the line index).                                         *)
(***************************************************************************)
THEOREM DocumentsCorrect ==
  ASSUME ChangeKinds = {"range"}
  PROVE  Spec => []DocInv
<1>1. Init => DocInv
  BY DocInit
<1>2. DocInv /\ [Next]_vars => DocInv'
  BY DocNext
<1>3. QED BY <1>1, <1>2, PTL DEF Spec

\* What the databases hold: the ids are those handed out, and the texts are bytes.
THEOREM DocumentsTyped ==
  ASSUME ChangeKinds = {"range"}
  PROVE  Spec => []TypeOK
<1>1. ASSUME DocInv PROVE TypeOK
  <2>1. ASSUME NEW id \in DOMAIN fileDB PROVE fileDB[id] \in Seq(Byte)
    <3>1. PICK u \in DOMAIN uriDB : id = uriDB[u]
      BY <1>1 DEF DocInv, IdsInv, NoOrphans
    <3>2. client[u] \in Seq(Char) /\ fileDB[id] = Encode(client[u])
      BY <1>1, <3>1, DocumentsAssumption DEF DocInv, IdsInv, TextInv
    <3>3. QED BY <3>2, EncodeType
  <2>2. QED BY <1>1, <2>1 DEF TypeOK, DocInv, IdsInv, TextInv
<1>2. QED BY <1>1, DocumentsCorrect, PTL

\* After every message VirtualFileSystem holds the text the client has, for documents of
\* any length and any number of edits.
THEOREM ServerInStep ==
  ASSUME ChangeKinds = {"range"}
  PROVE  Spec => []InStep
<1>1. DocInv => InStep
  BY DEF DocInv, IdsInv, TextInv, InStep, NoOrphans
<1>2. QED BY <1>1, DocumentsCorrect, PTL

\* ClearFile and AllocFileId leave no text and no line index behind, and share none.
THEOREM ServerKeepsNoOrphans ==
  ASSUME ChangeKinds = {"range"}
  PROVE  Spec => []NoOrphans
<1>1. DocInv => NoOrphans
  BY DEF DocInv, IdsInv
<1>2. QED BY <1>1, DocumentsCorrect, PTL

(***************************************************************************)
(* The answers.  While the changes of a message are made there is none, so *)
(* that the text an answer was made from is the one the client has.        *)
(***************************************************************************)
ReplyInv ==
  /\ loop # Idle => reply = None
  /\ EditReplacesAll
  /\ DiagnosticsPlaced

LEMMA NoReply ==
  ASSUME reply' = None
  PROVE  ReplyInv'
<1>1. reply'.kind # "edit" /\ reply'.kind # "diagnostic"
  BY DEF None
<1>2. EditReplacesAll' /\ DiagnosticsPlaced'
  BY <1>1 DEF EditReplacesAll, DiagnosticsPlaced
<1>3. QED BY <1>2 DEF ReplyInv

\* What the server has of an open document.
LEMMA ServerHas ==
  ASSUME DocInv, NEW u \in DOMAIN uriDB
  PROVE  /\ u \in DOMAIN client
         /\ client[u] \in Seq(Char)
         /\ fileDB[uriDB[u]] = Encode(client[u])
         /\ GetLineIndex(uriDB[u]) = Parse(Encode(client[u]))
<1>1. /\ u \in DOMAIN client
      /\ client[u] \in Texts
      /\ fileDB[uriDB[u]] = Encode(client[u])
  BY DEF DocInv, IdsInv, TextInv
<1>2. client[u] \in Seq(Char)
  BY <1>1, DocumentsAssumption
<1>3. GetLineIndex(uriDB[u]) = Parse(fileDB[uriDB[u]])
  BY DEF GetLineIndex, DocInv, TextInv, IndexFresh
<1>4. QED BY <1>1, <1>2, <1>3

LEMMA FormattingReply ==
  ASSUME DocInv, NEW u \in Uris, NEW error \in BOOLEAN, OnFormatting(u, error)
  PROVE  ReplyInv'
<1>1. loop' = Idle /\ client' = client
  BY DEF OnFormatting
<1>2. CASE u \notin DOMAIN uriDB \/ error
  <2>1. reply'.kind # "edit" /\ reply'.kind # "diagnostic"
    BY <1>2 DEF OnFormatting
  <2>2. QED BY <1>1, <2>1 DEF ReplyInv, EditReplacesAll, DiagnosticsPlaced
<1>3. CASE ~(u \notin DOMAIN uriDB \/ error)
  <2> DEFINE t == client[u]
  <2>1. reply' = [kind |-> "edit", uri |-> u, text |-> fileDB[uriDB[u]],
                  endLine |-> GetTotalLine(GetLineIndex(uriDB[u])) + 1]
    BY <1>3 DEF OnFormatting
  <2>2. /\ t \in Seq(Char)
        /\ fileDB[uriDB[u]] = Encode(t)
        /\ GetLineIndex(uriDB[u]) = Parse(Encode(t))
    BY <1>3, ServerHas
  <2>3. GetTotalLine(Parse(Encode(t))) + 1 > PositionAt(t, Len(t)).line
    BY <2>2, LastLine
  <2> HIDE DEF t
  <2>4. /\ reply'.kind = "edit" /\ reply'.uri = u /\ reply'.text = Encode(t)
        /\ reply'.endLine = GetTotalLine(Parse(Encode(t))) + 1
    BY <2>1, <2>2
  <2>5. client'[reply'.uri] = t
    BY <1>1, <2>4 DEF t
  <2>6. EditReplacesAll'
    BY <2>3, <2>4, <2>5 DEF EditReplacesAll
  <2>7. DiagnosticsPlaced'
    BY <2>4 DEF DiagnosticsPlaced
  <2>8. QED BY <1>1, <2>6, <2>7 DEF ReplyInv
<1>4. QED BY <1>2, <1>3

LEMMA DiagnosticReply ==
  ASSUME DocInv, NEW u \in DOMAIN client, NEW to \in 1..Len(client[u]), NEW from \in 0..(to - 1),
         OnTextDocumentDiagnostic(u, from, to)
  PROVE  ReplyInv'
<1> DEFINE t == client[u]
           index == GetLineIndex(uriDB[u])
           first == Len(Encode(Take(t, from)))
           last == Len(Encode(Take(t, to))) - 1
           end == GetLineCol(index, last)
<1>1. loop' = Idle /\ client' = client
  BY DEF OnTextDocumentDiagnostic
<1>2. u \in DOMAIN uriDB
  BY DEF DocInv, IdsInv
<1>3. t \in Seq(Char) /\ index = Parse(Encode(t))
  BY <1>2, ServerHas
<1>4. reply' = [kind |-> "diagnostic", uri |-> u, from |-> from, to |-> to,
                start |-> GetLineCol(index, first), end |-> [end EXCEPT !.col = @ + 1]]
  BY <1>2 DEF OnTextDocumentDiagnostic
<1> HIDE DEF end, index, first, last
<1>5. /\ to \in 1..Len(t) /\ to \in 0..Len(t) /\ to - 1 \in 0..(Len(t) - 1)
      /\ from \in 0..(Len(t) - 1) /\ from \in 0..Len(t) /\ from + 1 \in 0..Len(t)
      /\ to - 1 \in 0..Len(t) /\ (to - 1) + 1 = to
  <2>1. Len(t) \in Nat
    BY <1>3
  <2>2. QED BY <2>1
<1>6. client'[u] = t
  BY <1>1
<1> HIDE DEF t
<1>7. GetLineCol(index, first) = PositionAt(t, from)
  <2>1. first = Offset(t, from) /\ first \in Nat
    BY <1>3, <1>5, EncodeTake, Offsets DEF first
  <2>2. first < Offset(t, from + 1)
    <3>1. from < from + 1
      BY <1>5
    <3>2. QED BY <1>3, <1>5, <2>1, <3>1, OffsetsGrow
  <2>3. Offset(t, from) <= first
    BY <2>1
  <2>4. QED BY <1>3, <1>5, <2>1, <2>2, <2>3, PlaceExact
<1>8. end = PositionAt(t, to - 1)
  <2>1. last = Offset(t, to) - 1
    BY <1>3, <1>5, EncodeTake DEF last
  <2>2. Offset(t, to - 1) < Offset(t, to)
    <3>1. to - 1 < to
      BY <1>5
    <3>2. QED BY <1>3, <1>5, <3>1, OffsetsGrow
  <2>3. Offset(t, to - 1) \in Nat /\ Offset(t, to) \in Nat
    BY <1>3, <1>5, Offsets
  <2>4. last \in Nat /\ Offset(t, to - 1) <= last /\ last < Offset(t, (to - 1) + 1)
    BY <1>5, <2>1, <2>2, <2>3
  <2>5. GetLineCol(Parse(Encode(t)), last) = PositionAt(t, to - 1)
    BY <1>3, <1>5, <2>4, PlaceExact
  <2>6. QED BY <1>3, <2>5 DEF end
<1>9. /\ reply'.kind = "diagnostic" /\ reply'.uri = u /\ reply'.from = from /\ reply'.to = to
      /\ reply'.start = PositionAt(t, from)
      /\ reply'.end = [PositionAt(t, to - 1) EXCEPT !.col = @ + 1]
  BY <1>4, <1>7, <1>8
<1>10. DiagnosticsPlaced'
  BY <1>6, <1>9 DEF DiagnosticsPlaced
<1>11. EditReplacesAll'
  BY <1>9 DEF EditReplacesAll
<1>12. QED BY <1>1, <1>10, <1>11 DEF ReplyInv

LEMMA ReplyNext ==
  ASSUME DocInv, ReplyInv, [Next]_vars
  PROVE  ReplyInv'
<1>1. ASSUME NEW u \in Uris, NEW t \in Texts, OnDidOpen(u, t) PROVE ReplyInv'
  <2>1. reply' = None
    BY <1>1 DEF OnDidOpen
  <2>2. QED BY <2>1, NoReply
<1>2. ASSUME NEW u \in DOMAIN client, NEW n \in 0..MaxChanges, OnDidChangeAll(u, n)
      PROVE  ReplyInv'
  <2>1. reply' = None
    BY <1>2 DEF OnDidChangeAll
  <2>2. QED BY <2>1, NoReply
<1>3. ASSUME NEW u \in Uris, OnClose(u) PROVE ReplyInv'
  <2>1. reply' = None
    BY <1>3 DEF OnClose
  <2>2. QED BY <2>1, NoReply
<1>4. ASSUME NEW u \in Uris, NEW error \in BOOLEAN, OnFormatting(u, error) PROVE ReplyInv'
  BY <1>4, FormattingReply
<1>5. ASSUME NEW u \in DOMAIN client, NEW e \in Edits(client[u]), OnDidChange(u, e)
      PROVE  ReplyInv'
  <2>1. reply' = None
    BY <1>5 DEF OnDidChange
  <2>2. QED BY <2>1, NoReply
<1>6. ASSUME NEW u \in DOMAIN client, NEW e \in Edits(client[u]), NextChange(u, e)
      PROVE  ReplyInv'
  <2>1. reply' = None
    BY <1>6 DEF NextChange, ReplyInv
  <2>2. QED BY <2>1, NoReply
<1>7. ASSUME NEW u \in DOMAIN client, NEW to \in 1..Len(client[u]), NEW from \in 0..(to - 1),
             OnTextDocumentDiagnostic(u, from, to)
      PROVE  ReplyInv'
  BY <1>7, DiagnosticReply
<1>8. CASE UNCHANGED vars
  <2>1. UNCHANGED <<client, loop, reply>>
    BY <1>8 DEF vars
  <2>2. QED BY <2>1 DEF ReplyInv, EditReplacesAll, DiagnosticsPlaced
<1>9. QED BY <1>1, <1>2, <1>3, <1>4, <1>5, <1>6, <1>7, <1>8 DEF Next

LEMMA RepliesCorrect ==
  ASSUME ChangeKinds = {"range"}
  PROVE  Spec => []ReplyInv
<1>1. Init => ReplyInv
  BY DEF Init, ReplyInv, None, EditReplacesAll, DiagnosticsPlaced
<1>2. DocInv /\ ReplyInv /\ [Next]_vars => ReplyInv'
  BY ReplyNext
<1>3. QED BY <1>1, <1>2, DocumentsCorrect, PTL DEF Spec

\* The edit that OnFormatting answers with was made from the text the client has, and ends
\* behind its last line.
THEOREM FormattingReplacesAll ==
  ASSUME ChangeKinds = {"range"}
  PROVE  Spec => []EditReplacesAll
<1>1. ReplyInv => EditReplacesAll
  BY DEF ReplyInv
<1>2. QED BY <1>1, RepliesCorrect, PTL

\* OnTextDocumentDiagnostic shows a diagnostic where the client has its characters, whatever
\* mixture of one, two and three bytes they and those before them are.
THEOREM DiagnosticsShownInPlace ==
  ASSUME ChangeKinds = {"range"}
  PROVE  Spec => []DiagnosticsPlaced
<1>1. ReplyInv => DiagnosticsPlaced
  BY DEF ReplyInv
<1>2. QED BY <1>1, RepliesCorrect, PTL

=============================================================================
