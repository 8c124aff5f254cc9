---------------------------- MODULE ParserProofs -----------------------------
(***************************************************************************)
(* Proofs about Parser, for files of any length made of any lines: however *)
(* strip_comments goes through the two contents and in whatever order the  *)
(* two searches are resumed, blocks are where the file has them, and no    *)
(* text is lost.                                                           *)
(***************************************************************************)
EXTENDS Parser, SequenceTheorems, FiniteSetTheorems, WellFoundedInduction, TLAPS

-----------------------------------------------------------------------------
(***************************************************************************)
(* Numbers and loops.                                                      *)
(***************************************************************************)

\* A set of numbers with 0 and the successors of its elements up to n has all
\* up to n.
LEMMA CountingUp ==
  ASSUME NEW n \in Nat, NEW S, 0 \in S, \A k \in 0 .. n - 1 : k \in S => k + 1 \in S
  PROVE  \A k \in 0 .. n : k \in S
<1> DEFINE T == {k \in 0 .. n : k \notin S}
           R == {ss \in Nat \X Nat : ss[1] < ss[2]}
<1>1. SUFFICES ASSUME T # {} PROVE FALSE
  OBVIOUS
<1>2. IsWellFoundedOn(R, Nat)
  BY NatLessThanWellFounded DEF OpToRel
<1>3. PICK x \in T : \A y \in T : ~(<<y, x>> \in R)
  <2>1. T \in SUBSET Nat
    OBVIOUS
  <2> HIDE DEF T, R
  <2> QED
    BY <1>1, <1>2, <2>1, WFMin
<1>4. x \in 0 .. n /\ x # 0 /\ x \notin S /\ x - 1 \in 0 .. n - 1 /\ (x - 1) + 1 = x
  OBVIOUS
<1>5. <<x - 1, x>> \in R
  BY <1>4
<1>6. x - 1 \in S
  BY <1>3, <1>4, <1>5
<1> QED
  BY <1>4, <1>6

\* The steps of a loop, which take values of S to values of S, and its results.
IsLoop(Step, N, S) == Step \in [1 .. N -> [S -> S]]
IsRun(g, Step, N, S, base) ==
  g \in [0 .. N -> S] /\ g[0] = base /\ \A n \in 1 .. N : g[n] = Step[n][g[n - 1]]

\* A loop has results up to any n.
LEMMA LoopsRun ==
  ASSUME NEW N \in Nat, NEW S, NEW base \in S, NEW Step, IsLoop(Step, N, S)
  PROVE  \E g : IsRun(g, Step, N, S, base)
<1> USE DEF IsLoop
<1> DEFINE Runs(g, n) == g[0] = base /\ \A k \in 1 .. n : g[k] = Step[k][g[k - 1]]
           T == {n \in 0 .. N : \E g \in [0 .. N -> S] : Runs(g, n)}
<1>1. 0 \in T
  <2> DEFINE g == [k \in 0 .. N |-> base]
  <2>1. g \in [0 .. N -> S] /\ Runs(g, 0) /\ 0 \in 0 .. N
    OBVIOUS
  <2> HIDE DEF g, Runs
  <2> QED
    BY <2>1
<1>2. ASSUME NEW n \in 0 .. N - 1, n \in T
      PROVE  n + 1 \in T
  <2>1. PICK g \in [0 .. N -> S] : Runs(g, n)
    BY <1>2
  <2> DEFINE h == [g EXCEPT ![n + 1] = Step[n + 1][g[n]]]
  <2>2. n \in 0 .. N /\ n + 1 \in 0 .. N /\ n + 1 \in 1 .. N
    OBVIOUS
  <2>3. g[n] \in S /\ Step[n + 1][g[n]] \in S
    BY <2>2
  <2>4. h \in [0 .. N -> S] /\ h[n + 1] = Step[n + 1][g[n]] /\ \A k \in 0 .. n : h[k] = g[k]
    BY <2>2, <2>3
  <2> HIDE DEF h
  <2>5. h[0] = base
    BY <2>1, <2>4
  <2>6. ASSUME NEW k \in 1 .. n + 1
        PROVE  h[k] = Step[k][h[k - 1]]
    <3>1. k - 1 \in 0 .. n /\ h[k - 1] = g[k - 1]
      BY <2>4
    <3>2. CASE k = n + 1
      BY <2>4, <3>1, <3>2
    <3>3. CASE k # n + 1
      <4>1. k \in 1 .. n /\ k \in 0 .. n
        BY <3>3
      <4> QED
        BY <2>1, <2>4, <3>1, <4>1
    <3> QED
      BY <3>2, <3>3
  <2> QED
    BY <2>2, <2>4, <2>5, <2>6
<1>3. N \in T
  <2>1. N \in 0 .. N
    OBVIOUS
  <2> HIDE DEF T
  <2> QED
    BY <1>1, <1>2, <2>1, CountingUp
<1> QED
  BY <1>3 DEF IsRun

\* A loop stays within its values.
LEMMA LoopStays ==
  ASSUME NEW N \in Nat, NEW S, NEW g, g[0] \in S,
         \A n \in 1 .. N : g[n - 1] \in S => g[n] \in S
  PROVE  \A n \in 0 .. N : g[n] \in S
<1> DEFINE T == {n \in 0 .. N : g[n] \in S}
<1>1. 0 \in T
  OBVIOUS
<1>2. ASSUME NEW n \in 0 .. N - 1, n \in T
      PROVE  n + 1 \in T
  <2>1. n + 1 \in 1 .. N /\ (n + 1) - 1 = n /\ n + 1 \in 0 .. N
    OBVIOUS
  <2> QED
    BY <1>2, <2>1
<1> HIDE DEF T
<1>3. \A n \in 0 .. N : n \in T
  BY <1>1, <1>2, CountingUp
<1> QED
  BY <1>3 DEF T

-----------------------------------------------------------------------------
(***************************************************************************)
(* Sequences.                                                              *)
(***************************************************************************)

\* The first n positions of a text.
LEMMA PrefixElements ==
  ASSUME NEW S, NEW text \in Seq(S), NEW n \in 0 .. Len(text)
  PROVE  /\ SubSeq(text, 1, n) \in Seq(S)
         /\ Len(SubSeq(text, 1, n)) = n
         /\ \A k \in 1 .. n : SubSeq(text, 1, n)[k] = text[k]
  OBVIOUS

\* The positions of a text that loses those from k to m - 1.
LEMMA CutElements ==
  ASSUME NEW S, NEW text \in Seq(S), NEW k \in 1 .. Len(text) + 1, NEW m \in k .. Len(text) + 1
  PROVE  /\ Cut(text, k, m) \in Seq(S)
         /\ Len(Cut(text, k, m)) = Len(text) - (m - k)
         /\ \A j \in 1 .. Len(text) - (m - k) :
              Cut(text, k, m)[j] = IF j < k THEN text[j] ELSE text[j + (m - k)]
<1> DEFINE a == SubSeq(text, 1, k - 1)
           b == SubSeq(text, m, Len(text))
<1>1. Len(text) \in Nat /\ k \in Nat /\ m \in Nat
  OBVIOUS
<1>2. a \in Seq(S) /\ Len(a) = k - 1 /\ \A j \in 1 .. k - 1 : a[j] = text[j]
  OBVIOUS
<1>3. b \in Seq(S) /\ Len(b) = Len(text) - m + 1 /\ \A j \in 1 .. Len(text) - m + 1 : b[j] = text[m + j - 1]
  OBVIOUS
<1> HIDE DEF a, b
<1>4. /\ a \o b \in Seq(S)
      /\ Len(a \o b) = Len(text) - (m - k)
      /\ \A j \in 1 .. Len(text) - (m - k) : (a \o b)[j] = IF j <= k - 1 THEN a[j] ELSE b[j - (k - 1)]
  <2>1. a \o b \in Seq(S)
    BY <1>2, <1>3
  <2>2. Len(a) + Len(b) = Len(text) - (m - k)
    BY <1>1, <1>2, <1>3
  <2>3. /\ Len(a \o b) = Len(a) + Len(b)
        /\ \A j \in 1 .. Len(a) + Len(b) :
             (a \o b)[j] = IF j <= Len(a) THEN a[j] ELSE b[j - Len(a)]
    BY <1>2, <1>3, ConcatProperties
  <2> QED
    BY <1>2, <2>1, <2>2, <2>3
<1>5. ASSUME NEW j \in 1 .. Len(text) - (m - k)
      PROVE  (a \o b)[j] = IF j < k THEN text[j] ELSE text[j + (m - k)]
  <2>1. CASE j < k
    <3>1. j \in 1 .. k - 1
      BY <1>1, <2>1
    <3> QED
      BY <1>2, <1>4, <2>1, <3>1
  <2>2. CASE ~(j < k)
    <3>1. /\ j - (k - 1) \in 1 .. Len(text) - m + 1
          /\ m + (j - (k - 1)) - 1 = j + (m - k)
      BY <1>1, <2>2
    <3>2. (a \o b)[j] = b[j - (k - 1)]
      BY <1>1, <1>4, <2>2
    <3>3. b[j - (k - 1)] = text[m + (j - (k - 1)) - 1]
      BY <1>3, <3>1
    <3> QED
      BY <2>2, <3>1, <3>2, <3>3
  <2> QED
    BY <2>1, <2>2
<1> QED
  BY <1>4, <1>5 DEF Cut, a, b

\* The positions of a sequence that gains one.
LEMMA InsertElements ==
  ASSUME NEW S, NEW text \in Seq(S), NEW k \in 1 .. Len(text) + 1, NEW e \in S
  PROVE  /\ InsertAt(text, k, e) \in Seq(S)
         /\ Len(InsertAt(text, k, e)) = Len(text) + 1
         /\ \A j \in 1 .. Len(text) + 1 :
              InsertAt(text, k, e)[j] = IF j < k THEN text[j] ELSE IF j = k THEN e ELSE text[j - 1]
<1> DEFINE a == SubSeq(text, 1, k - 1)
           b == SubSeq(text, k, Len(text))
           c == a \o <<e>>
<1>1. Len(text) \in Nat /\ k \in Nat \ {0} /\ k - 1 \in 0 .. Len(text)
  OBVIOUS
<1>2. a \in Seq(S) /\ Len(a) = k - 1 /\ \A j \in 1 .. k - 1 : a[j] = text[j]
  BY <1>1, PrefixElements
<1>3. b \in Seq(S) /\ Len(b) = Len(text) - k + 1 /\ \A j \in 1 .. Len(text) - k + 1 : b[j] = text[k + j - 1]
  OBVIOUS
<1> HIDE DEF a, b
<1>4. <<e>> \in Seq(S) /\ Len(<<e>>) = 1 /\ <<e>>[1] = e
  OBVIOUS
<1>5. c \in Seq(S) /\ Len(c) = k
  <2>1. Len(c) = Len(a) + Len(<<e>>)
    BY <1>2, <1>4, ConcatProperties
  <2> QED
    BY <1>1, <1>2, <1>4, <2>1
<1>6. \A j \in 1 .. k : c[j] = IF j <= k - 1 THEN a[j] ELSE e
  <2>1. \A j \in 1 .. Len(a) + Len(<<e>>) :
          c[j] = IF j <= Len(a) THEN a[j] ELSE <<e>>[j - Len(a)]
    BY <1>2, <1>4, ConcatProperties
  <2> SUFFICES ASSUME NEW j \in 1 .. k PROVE c[j] = IF j <= k - 1 THEN a[j] ELSE e
    OBVIOUS
  <2>2. j \in 1 .. Len(a) + Len(<<e>>)
    BY <1>1, <1>2, <1>4
  <2>3. CASE j <= k - 1
    BY <1>2, <2>1, <2>2, <2>3
  <2>4. CASE j = k
    <3>1. j - Len(a) = 1 /\ ~(j <= Len(a)) /\ ~(j <= k - 1)
      BY <1>1, <1>2, <2>4
    <3>2. c[j] = <<e>>[j - Len(a)]
      BY <2>1, <2>2, <3>1
    <3> QED
      BY <1>4, <3>1, <3>2
  <2>5. j <= k - 1 \/ j = k
    BY <1>1
  <2> QED
    BY ONLY <2>3, <2>4, <2>5
<1> HIDE DEF c
<1>7. /\ c \o b \in Seq(S)
      /\ Len(c \o b) = Len(text) + 1
      /\ \A j \in 1 .. Len(text) + 1 : (c \o b)[j] = IF j <= k THEN c[j] ELSE b[j - k]
  <2>1. c \o b \in Seq(S)
    BY <1>3, <1>5
  <2>2. Len(c) + Len(b) = Len(text) + 1
    BY <1>1, <1>3, <1>5
  <2>3. /\ Len(c \o b) = Len(c) + Len(b)
        /\ \A j \in 1 .. Len(c) + Len(b) :
             (c \o b)[j] = IF j <= Len(c) THEN c[j] ELSE b[j - Len(c)]
    BY <1>3, <1>5, ConcatProperties
  <2> QED
    BY <1>5, <2>1, <2>2, <2>3
<1>8. ASSUME NEW j \in 1 .. Len(text) + 1
      PROVE  (c \o b)[j] = IF j < k THEN text[j] ELSE IF j = k THEN e ELSE text[j - 1]
  <2>1. CASE j < k
    <3>1. j \in 1 .. k - 1 /\ j \in 1 .. k /\ j <= k - 1 /\ j <= k
      BY <1>1, <2>1
    <3> QED
      BY <1>2, <1>6, <1>7, <2>1, <3>1
  <2>2. CASE j = k
    <3>1. j \in 1 .. k /\ ~(j <= k - 1) /\ j <= k /\ ~(j < k)
      BY <1>1, <2>2
    <3> QED
      BY <1>6, <1>7, <2>2, <3>1
  <2>3. CASE j > k
    <3>1. /\ j - k \in 1 .. Len(text) - k + 1 /\ k + (j - k) - 1 = j - 1
          /\ ~(j <= k) /\ ~(j < k) /\ j # k
      BY <1>1, <2>3
    <3>2. (c \o b)[j] = b[j - k]
      BY <1>7, <3>1
    <3>3. b[j - k] = text[k + (j - k) - 1]
      BY <1>3, <3>1
    <3> QED
      BY <3>1, <3>2, <3>3
  <2>4. j < k \/ j = k \/ j > k
    BY <1>1
  <2> QED
    BY ONLY <2>1, <2>2, <2>3, <2>4
<1>9. InsertAt(text, k, e) = c \o b
  BY DEF InsertAt, a, b, c
<1> QED
  BY <1>7, <1>8, <1>9

\* The positions of a sequence that loses one.
LEMMA RemoveElements ==
  ASSUME NEW S, NEW text \in Seq(S), NEW k \in 1 .. Len(text)
  PROVE  /\ RemoveAt(text, k) \in Seq(S)
         /\ Len(RemoveAt(text, k)) = Len(text) - 1
         /\ \A j \in 1 .. Len(text) - 1 :
              RemoveAt(text, k)[j] = IF j < k THEN text[j] ELSE text[j + 1]
<1>1. RemoveAt(text, k) = Cut(text, k, k + 1)
  BY DEF RemoveAt, Cut
<1>2. k \in 1 .. Len(text) + 1 /\ k + 1 \in k .. Len(text) + 1 /\ (k + 1) - k = 1
  OBVIOUS
<1>3. /\ Cut(text, k, k + 1) \in Seq(S)
      /\ Len(Cut(text, k, k + 1)) = Len(text) - ((k + 1) - k)
      /\ \A j \in 1 .. Len(text) - ((k + 1) - k) :
           Cut(text, k, k + 1)[j] = IF j < k THEN text[j] ELSE text[j + ((k + 1) - k)]
  BY <1>2, CutElements
<1> QED
  BY <1>1, <1>2, <1>3

-----------------------------------------------------------------------------
(***************************************************************************)
(* The contents: the order of the lines their characters are from.         *)
(***************************************************************************)

\* What the files of Lines are made of.
Character == {BlankCh, NL} \cup UNION {ToSet(line) : line \in Lines}
ParsedChar == [line : Nat, ch : Character]

\* A line and a character make a ParsedChar.
LEMMA MadeChar ==
  ASSUME NEW n \in Nat, NEW c \in Character
  PROVE  /\ [line |-> n, ch |-> c] \in ParsedChar
         /\ [line |-> n, ch |-> c].line = n /\ [line |-> n, ch |-> c].ch = c
  BY DEF ParsedChar

\* What a ParsedChar is made of.
LEMMA CharFields ==
  ASSUME NEW c \in ParsedChar
  PROVE  c.line \in Nat /\ c.ch \in Character
  BY DEF ParsedChar

\* A comment opens in the line n of the file.
Opens(n) ==
  \E k \in 1 .. Len(file.text[n]) - 1 : file.text[n][k] = "/" /\ file.text[n][k + 1] = "*"

\* Lines come one after the other.
Ascending(text) ==
  \A j, k \in DOMAIN text : j <= k => text[j].line <= text[k].line

\* What stands between two newlines is from later lines than the first of them.
NewlinesDivide(text) ==
  \A j, k, m \in DOMAIN text :
    j < k /\ k <= m /\ text[j].ch = NL /\ text[m].ch = NL => text[j].line < text[k].line

\* What opens a comment in the text opened one in the file.
OpeningsAreReal(text) ==
  \A k \in 1 .. Len(text) - 1 : text[k].ch = "/" /\ text[k + 1].ch = "*" => Opens(text[k].line)

\* Only a block comment brings lines together.
JumpsAreComments(text) ==
  \A k \in 1 .. Len(text) - 1 :
    text[k].ch # NL /\ text[k + 1].ch # NL /\ text[k].line # text[k + 1].line => Opens(text[k].line)

InOrder(text) ==
  /\ text \in Seq(ParsedChar)
  /\ IsParsed(text)
  /\ Ascending(text) /\ NewlinesDivide(text)
  /\ OpeningsAreReal(text) /\ JumpsAreComments(text)

\* A text is still in order up to one of its positions.
LEMMA PrefixInOrder ==
  ASSUME NEW text, InOrder(text), NEW n \in 0 .. Len(text)
  PROVE  InOrder(SubSeq(text, 1, n))
<1> DEFINE t == SubSeq(text, 1, n)
<1>1. /\ t \in Seq(ParsedChar) /\ Len(t) = n /\ DOMAIN t = 1 .. n
      /\ \A k \in 1 .. n : t[k] = text[k]
      /\ text \in Seq(ParsedChar) /\ DOMAIN text = 1 .. Len(text) /\ Len(text) \in Nat
  BY DEF InOrder
<1> HIDE DEF t
<1>2. \A k \in DOMAIN t : k \in DOMAIN text /\ t[k] = text[k]
  BY <1>1
<1>3. IsParsed(t)
  BY <1>2 DEF InOrder, IsParsed
<1>4. Ascending(t)
  BY <1>2 DEF InOrder, Ascending
<1>5. NewlinesDivide(t)
  BY <1>2 DEF InOrder, NewlinesDivide
<1>6. OpeningsAreReal(t) /\ JumpsAreComments(t)
  <2>1. \A k \in 1 .. n - 1 : /\ k \in 1 .. Len(text) - 1 /\ k \in 1 .. n /\ k + 1 \in 1 .. n
    BY <1>1
  <2> QED
    BY <1>1, <2>1 DEF InOrder, OpeningsAreReal, JumpsAreComments
<1> QED
  BY <1>1, <1>3, <1>4, <1>5, <1>6 DEF InOrder, t

\* A text that loses a part keeps the order of the rest.
LEMMA CutKeepsOrder ==
  ASSUME NEW text, InOrder(text), NEW k \in 1 .. Len(text) + 1, NEW m \in k .. Len(text) + 1
  PROVE  LET t == Cut(text, k, m) IN
         t \in Seq(ParsedChar) /\ IsParsed(t) /\ Ascending(t) /\ NewlinesDivide(t)
<1> DEFINE t == Cut(text, k, m)
           At(j) == IF j < k THEN j ELSE j + (m - k)
<1>1. /\ text \in Seq(ParsedChar) /\ DOMAIN text = 1 .. Len(text) /\ Len(text) \in Nat
      /\ k \in Nat /\ m \in Nat /\ k <= m
  BY DEF InOrder
<1>2. /\ t \in Seq(ParsedChar) /\ Len(t) = Len(text) - (m - k) /\ DOMAIN t = 1 .. Len(t)
      /\ \A j \in 1 .. Len(text) - (m - k) : t[j] = IF j < k THEN text[j] ELSE text[j + (m - k)]
  <2> HIDE DEF t
  <2>1. t = Cut(text, k, m)
    BY DEF t
  <2>2. /\ t \in Seq(ParsedChar) /\ Len(t) = Len(text) - (m - k)
        /\ \A j \in 1 .. Len(text) - (m - k) : t[j] = IF j < k THEN text[j] ELSE text[j + (m - k)]
    BY <1>1, <2>1, CutElements
  <2> QED
    BY <2>2
<1> HIDE DEF t
<1>3. \A j \in DOMAIN t : At(j) \in DOMAIN text /\ t[j] = text[At(j)] /\ j \in Nat
  BY <1>1, <1>2
<1>4. \A j, n \in DOMAIN t : (j < n => At(j) < At(n)) /\ (j <= n => At(j) <= At(n))
  BY <1>1, <1>3
<1> HIDE DEF At
<1>5. IsParsed(t)
  BY <1>3 DEF InOrder, IsParsed
<1>6. Ascending(t)
  BY <1>3, <1>4 DEF InOrder, Ascending
<1>7. NewlinesDivide(t)
  BY <1>3, <1>4 DEF InOrder, NewlinesDivide
<1> QED
  BY <1>2, <1>5, <1>6, <1>7 DEF t

\* A comment up to its newline, or to the end, can go.
LEMMA CutInOrder ==
  ASSUME NEW text, InOrder(text), NEW k \in 1 .. Len(text) + 1, NEW m \in k .. Len(text) + 1,
         m = Len(text) + 1 \/ text[m].ch = NL
  PROVE  InOrder(Cut(text, k, m))
<1> DEFINE t == Cut(text, k, m)
<1>1. /\ text \in Seq(ParsedChar) /\ DOMAIN text = 1 .. Len(text) /\ Len(text) \in Nat
      /\ k \in Nat /\ m \in Nat /\ k <= m
  BY DEF InOrder
<1>2. /\ t \in Seq(ParsedChar) /\ Len(t) = Len(text) - (m - k)
      /\ \A j \in 1 .. Len(text) - (m - k) : t[j] = IF j < k THEN text[j] ELSE text[j + (m - k)]
  <2> HIDE DEF t
  <2>1. t = Cut(text, k, m)
    BY DEF t
  <2> QED
    BY <1>1, <2>1, CutElements
<1>3. t \in Seq(ParsedChar) /\ IsParsed(t) /\ Ascending(t) /\ NewlinesDivide(t)
  BY CutKeepsOrder
<1> HIDE DEF t
<1>4. ASSUME NEW j \in 1 .. Len(t) - 1
      PROVE  \/ t[j + 1].ch = NL
             \/ \E n \in 1 .. Len(text) - 1 : t[j] = text[n] /\ t[j + 1] = text[n + 1]
  <2>1. j \in 1 .. Len(text) - (m - k) /\ j + 1 \in 1 .. Len(text) - (m - k) /\ j \in Nat
    BY <1>1, <1>2
  <2>2. CASE j + 1 < k
    <3>1. j \in 1 .. Len(text) - 1 /\ t[j] = text[j] /\ t[j + 1] = text[j + 1]
      BY <1>1, <1>2, <2>1, <2>2
    <3> QED
      BY <3>1
  <2>3. CASE j + 1 = k
    <3>1. t[j + 1] = text[m] /\ m # Len(text) + 1
      BY <1>1, <1>2, <2>1, <2>3
    <3> QED
      BY <3>1
  <2>4. CASE j + 1 > k
    <3>1. /\ j + (m - k) \in 1 .. Len(text) - 1 /\ (j + 1) + (m - k) = (j + (m - k)) + 1
          /\ t[j] = text[j + (m - k)] /\ t[j + 1] = text[(j + 1) + (m - k)]
      BY <1>1, <1>2, <2>1, <2>4
    <3> QED
      BY <3>1
  <2> QED
    BY <1>1, <2>1, <2>2, <2>3, <2>4
<1>5. OpeningsAreReal(t)
  BY <1>4 DEF InOrder, OpeningsAreReal, NL
<1>6. JumpsAreComments(t)
  BY <1>4 DEF InOrder, JumpsAreComments
<1> QED
  BY <1>3, <1>5, <1>6 DEF InOrder, t

\* A block comment makes place for a blank, which may bring lines together.
LEMMA BlankInOrder ==
  ASSUME NEW text, InOrder(text), NEW k \in 1 .. Len(text) + 1, NEW m \in k .. Len(text) + 1,
         m <= Len(text) => k + 1 < m /\ text[k].ch = "/" /\ text[k + 1].ch = "*",
         Cut(text, k, m) # <<>>
  PROVE  InOrder(AddBlank(Cut(text, k, m), k))
<1> DEFINE u == Cut(text, k, m)
           here == IF k > Len(u) THEN k - 1 ELSE k
           blank == [line |-> u[here].line, ch |-> BlankCh]
           t == AddBlank(u, k)
<1>1. /\ text \in Seq(ParsedChar) /\ DOMAIN text = 1 .. Len(text) /\ Len(text) \in Nat
      /\ k \in Nat /\ m \in Nat /\ k <= m
  BY DEF InOrder
<1>2. /\ u \in Seq(ParsedChar) /\ IsParsed(u) /\ Ascending(u) /\ NewlinesDivide(u)
      /\ u # <<>>
  BY CutKeepsOrder
<1> HIDE DEF u
<1>3. /\ Len(u) = Len(text) - (m - k) /\ DOMAIN u = 1 .. Len(u) /\ Len(u) \in Nat \ {0}
      /\ \A j \in 1 .. Len(u) : u[j] = IF j < k THEN text[j] ELSE text[j + (m - k)]
  <2>1. u = Cut(text, k, m)
    BY DEF u
  <2>2. /\ Len(u) = Len(text) - (m - k)
        /\ \A j \in 1 .. Len(text) - (m - k) : u[j] = IF j < k THEN text[j] ELSE text[j + (m - k)]
    BY <1>1, <2>1, CutElements
  <2>3. DOMAIN u = 1 .. Len(u) /\ Len(u) \in Nat \ {0}
    BY <1>2
  <2> QED
    BY <2>2, <2>3
<1>4. here \in 1 .. Len(u) /\ k \in 1 .. Len(u) + 1 /\ u[here] \in ParsedChar
  BY <1>1, <1>2, <1>3
<1> HIDE DEF here
<1>5. blank \in ParsedChar /\ blank.line = u[here].line /\ blank.ch = BlankCh
  <2>1. u[here].line \in Nat
    BY <1>4 DEF ParsedChar
  <2>2. BlankCh \in Character
    BY DEF Character
  <2> QED
    BY <2>1, <2>2, MadeChar
<1>6. t = InsertAt(u, k, blank)
  BY DEF AddBlank, here
<1> HIDE DEF blank, t
<1>7. /\ t \in Seq(ParsedChar) /\ Len(t) = Len(u) + 1
      /\ \A j \in 1 .. Len(u) + 1 :
           t[j] = IF j < k THEN u[j] ELSE IF j = k THEN blank ELSE u[j - 1]
  <2>1. /\ InsertAt(u, k, blank) \in Seq(ParsedChar) /\ Len(InsertAt(u, k, blank)) = Len(u) + 1
        /\ \A j \in 1 .. Len(u) + 1 : InsertAt(u, k, blank)[j] =
             IF j < k THEN u[j] ELSE IF j = k THEN blank ELSE u[j - 1]
    <3>1. u \in Seq(ParsedChar) /\ k \in 1 .. Len(u) + 1 /\ blank \in ParsedChar
      BY <1>2, <1>4, <1>5
    <3>2. InsertAt(u, k, blank) \in Seq(ParsedChar)
      BY ONLY <3>1, InsertElements
    <3>3. Len(InsertAt(u, k, blank)) = Len(u) + 1
      BY ONLY <3>1, InsertElements
    <3>4. \A j \in 1 .. Len(u) + 1 : InsertAt(u, k, blank)[j] =
            IF j < k THEN u[j] ELSE IF j = k THEN blank ELSE u[j - 1]
      BY ONLY <3>1, InsertElements
    <3> QED
      BY ONLY <3>2, <3>3, <3>4
  <2> QED
    BY <1>6, <2>1
<1>8. DOMAIN t = 1 .. Len(u) + 1
  BY <1>7
<1> DEFINE Was(j) == IF j < k THEN j ELSE IF j = k THEN here ELSE j - 1
<1>9. ASSUME NEW j \in DOMAIN t
      PROVE  /\ Was(j) \in DOMAIN u /\ j \in Nat
             /\ t[j].line = u[Was(j)].line
             /\ t[j].ch = IF j = k THEN BlankCh ELSE u[Was(j)].ch
  <2>1. j \in 1 .. Len(u) + 1 /\ j \in Nat /\ Len(u) \in Nat /\ k \in Nat
    BY <1>1, <1>3, <1>8
  <2>2. Was(j) \in DOMAIN u
    BY <1>3, <1>4, <2>1, SMTT(30)
  <2>3. t[j] = IF j = k THEN blank ELSE u[Was(j)]
    BY <1>7, <2>1
  <2>4. j = k => Was(j) = here
    BY <2>1
  <2> HIDE DEF Was
  <2> QED
    BY <1>5, <2>1, <2>2, <2>3, <2>4
<1>10. \A j, n \in DOMAIN t : j <= n => Was(j) <= Was(n)
  BY <1>3, <1>4, <1>8 DEF here
<1>11. \A j, n \in DOMAIN t : j < n /\ j # k /\ (n = k => here = k) => Was(j) < Was(n)
  BY <1>3, <1>4, <1>8
<1>12. \A n \in DOMAIN t : k < n => here = k
  BY <1>3, <1>4, <1>8 DEF here
<1> HIDE DEF Was
<1>13. IsParsed(t)
  BY <1>2, <1>9 DEF IsParsed
<1>14. Ascending(t)
  BY <1>2, <1>9, <1>10 DEF Ascending
<1>15. NewlinesDivide(t)
  <2> SUFFICES ASSUME NEW a \in DOMAIN t, NEW b \in DOMAIN t, NEW c \in DOMAIN t,
                      a < b, b <= c, t[a].ch = NL, t[c].ch = NL
               PROVE  t[a].line < t[b].line
    BY DEF NewlinesDivide
  <2>1. a # k /\ c # k /\ u[Was(a)].ch = NL /\ u[Was(c)].ch = NL
    BY <1>9 DEF NL, BlankCh
  <2>2. b = k => here = k
    <3>1. b \in Nat /\ c \in Nat
      BY <1>9
    <3>2. b = k => k < c
      BY <1>1, <2>1, <3>1
    <3> QED
      BY <1>12, <3>2
  <2>3. Was(a) < Was(b) /\ Was(b) <= Was(c)
    BY <1>10, <1>11, <2>1, <2>2
  <2> QED
    BY <1>2, <1>9, <2>1, <2>3 DEF NewlinesDivide
<1>16. ASSUME NEW j \in 1 .. Len(t) - 1
       PROVE  \/ j + 1 = k
              \/ j = k /\ t[j].line = t[j + 1].line
              \/ \E n \in 1 .. Len(text) - 1 : t[j] = text[n] /\ t[j + 1] = text[n + 1]
  <2>1. j \in Nat /\ j \in 1 .. Len(u) /\ j + 1 \in 1 .. Len(u) + 1 /\ j \in 1 .. Len(u) + 1
    BY <1>7
  <2>2. CASE j + 1 < k
    <3>1. /\ t[j] = u[j] /\ t[j + 1] = u[j + 1] /\ j + 1 \in 1 .. Len(u)
          /\ j \in 1 .. Len(text) - 1
      BY <1>1, <1>3, <1>4, <1>7, <2>1, <2>2, SMTT(30)
    <3>2. u[j] = text[j] /\ u[j + 1] = text[j + 1]
      BY <1>1, <1>3, <2>1, <2>2, <3>1
    <3> QED
      BY <3>1, <3>2
  <2>3. CASE j = k
    <3>1. t[j] = blank /\ t[j + 1] = u[j] /\ here = k
      BY <1>1, <1>3, <1>7, <2>1, <2>3, SMTT(30) DEF here
    <3> QED
      BY <1>5, <2>3, <3>1
  <2>4. CASE j > k
    <3>1. ~(j < k) /\ j # k /\ ~(j + 1 < k) /\ j + 1 # k /\ j - 1 \in 1 .. Len(u)
      BY <1>1, <1>3, <2>1, <2>4
    <3>4. t[j] = u[j - 1] /\ t[j + 1] = u[(j + 1) - 1]
      BY <1>7, <2>1, <3>1
    <3>2. u[j - 1] = text[j - 1 + (m - k)] /\ u[j] = text[j + (m - k)]
      BY <1>1, <1>3, <2>1, <2>4, <3>1
    <3>3. /\ j - 1 + (m - k) \in 1 .. Len(text) - 1 /\ (j - 1 + (m - k)) + 1 = j + (m - k)
          /\ (j + 1) - 1 = j
      BY <1>1, <1>3, <2>1, <2>4
    <3> QED
      BY <3>2, <3>3, <3>4
  <2> QED
    BY <1>1, <2>1, <2>2, <2>3, <2>4
<1>17. t[k].ch = BlankCh
  <2>1. k \in 1 .. Len(u) + 1 /\ ~(k < k)
    BY <1>1, <1>4
  <2> QED
    BY <1>5, <1>7, <2>1
<1>18. OpeningsAreReal(t)
  <2> SUFFICES ASSUME NEW j \in 1 .. Len(t) - 1, t[j].ch = "/", t[j + 1].ch = "*"
               PROVE  Opens(t[j].line)
    BY DEF OpeningsAreReal
  <2>1. j + 1 # k /\ j # k
    BY <1>17 DEF BlankCh
  <2> QED
    BY <1>16, <2>1 DEF InOrder, OpeningsAreReal
<1>19. JumpsAreComments(t)
  <2> SUFFICES ASSUME NEW j \in 1 .. Len(t) - 1, t[j].ch # NL, t[j + 1].ch # NL,
                      t[j].line # t[j + 1].line
               PROVE  Opens(t[j].line)
    BY DEF JumpsAreComments
  <2>1. CASE j + 1 = k
    <3>1. j \in 1 .. Len(u) /\ t[j] = u[j] /\ u[j] = text[j] /\ t[k] = blank /\ j \in Nat
      <4>1. j \in Nat /\ j \in 1 .. Len(u) /\ j < k /\ j \in 1 .. Len(u) + 1 /\ k \in 1 .. Len(u) + 1 /\ ~(k < k)
        BY <1>1, <1>3, <1>4, <1>7, <2>1, SMTT(30)
      <4> QED
        BY <1>3, <1>7, <4>1
    <3>2. here = k
      <4>1. CASE k > Len(u)
        <5>1. u[here] = u[j]
          BY <1>4, <2>1, <3>1, <4>1 DEF here
        <5> QED
          BY <1>5, <2>1, <3>1, <5>1
      <4> QED
        BY <4>1 DEF here
    <3>3. m <= Len(text) /\ k <= Len(text)
      BY <1>1, <1>3, <1>4, <3>2
    <3>4. /\ j \in 1 .. Len(text) - 1 /\ k \in 1 .. Len(text) - 1
          /\ text[k].ch = "/" /\ text[k + 1].ch = "*"
      BY <1>1, <2>1, <3>1, <3>3
    <3>5. CASE text[j].line = text[k].line
      BY <3>1, <3>4, <3>5 DEF InOrder, OpeningsAreReal
    <3>6. CASE text[j].line # text[k].line
      <4>1. text[j + 1].ch # NL
        BY <2>1, <3>4 DEF NL
      <4> QED
        BY <2>1, <3>1, <3>4, <3>6, <4>1 DEF InOrder, JumpsAreComments
    <3> QED
      BY <3>5, <3>6
  <2>2. CASE j + 1 # k
    BY <1>16, <2>2 DEF InOrder, JumpsAreComments
  <2> QED
    BY <2>1, <2>2
<1> QED
  BY <1>7, <1>13, <1>14, <1>15, <1>18, <1>19 DEF InOrder, t, u

-----------------------------------------------------------------------------
(***************************************************************************)
(* slurp_file.                                                             *)
(***************************************************************************)

FileOK == file.text \in Seq(Lines) /\ Len(file.text) >= 1 /\ file.ended \in BOOLEAN

\* The lines of the file are sequences of characters, none of them a newline.
LEMMA LinesOfFiles ==
  ASSUME FileOK, NEW n \in DOMAIN file.text
  PROVE  /\ file.text[n] \in Seq(Character) /\ Len(file.text[n]) \in Nat
         /\ DOMAIN file.text[n] = 1 .. Len(file.text[n])
         /\ \A k \in DOMAIN file.text[n] : file.text[n][k] \in Character /\ file.text[n][k] # NL
<1>1. file.text[n] \in Lines
  BY DEF FileOK
<1> DEFINE line == file.text[n]
<1>2. line \in Seq(STRING) /\ \A k \in DOMAIN line : line[k] # NL
  BY <1>1, LinesAssumption
<1>3. line \in Lines
  BY <1>1
<1> HIDE DEF line
<1>4. Len(line) \in Nat /\ DOMAIN line = 1 .. Len(line) /\ line = [k \in 1 .. Len(line) |-> line[k]]
  BY <1>2
<1>5. \A k \in DOMAIN line : line[k] \in Character
  <2>1. \A k \in DOMAIN line : line[k] \in ToSet(line)
    BY DEF ToSet
  <2>2. ToSet(line) \in {ToSet(one) : one \in Lines}
    BY <1>3
  <2> QED
    BY <2>1, <2>2 DEF Character
<1>6. line \in Seq(Character)
  BY <1>4, <1>5, IsASeq
<1> QED
  BY <1>2, <1>4, <1>5, <1>6 DEF line

\* The line n of the file as ParsedChars: its characters and a newline, all at n.
LEMMA ParsedLine ==
  ASSUME FileOK, NEW n \in DOMAIN file.text
  PROVE  /\ Parsed(n) \in Seq(ParsedChar)
         /\ Len(Parsed(n)) = Len(file.text[n]) + 1 /\ Len(Parsed(n)) \in Nat
         /\ n \in Nat
         /\ \A k \in 1 .. Len(Parsed(n)) :
              /\ Parsed(n)[k].line = n
              /\ Parsed(n)[k].ch = IF k <= Len(file.text[n]) THEN file.text[n][k] ELSE NL
<1> DEFINE m == Len(file.text[n]) + 1
           Ch(k) == IF k <= Len(file.text[n]) THEN file.text[n][k] ELSE NL
           p == Parsed(n)
<1>1. n \in Nat
  BY DEF FileOK
<1>2. m \in Nat /\ Len(file.text[n]) \in Nat
  BY LinesOfFiles
<1>3. \A k \in 1 .. m : Ch(k) \in Character
  <2>1. NL \in Character
    BY DEF Character
  <2> QED
    BY <1>2, <2>1, LinesOfFiles
<1>4. p = [k \in 1 .. m |-> [line |-> n, ch |-> Ch(k)]]
  BY DEF Parsed
<1> HIDE DEF m, p, Ch
<1>5. \A k \in 1 .. m : /\ [line |-> n, ch |-> Ch(k)] \in ParsedChar
                        /\ p[k].line = n /\ p[k].ch = Ch(k) /\ p[k] \in ParsedChar
  BY <1>1, <1>3, <1>4, MadeChar
<1>6. p \in Seq(ParsedChar)
  <2>1. p \in [1 .. m -> ParsedChar]
    BY <1>4, <1>5
  <2> QED
    BY <1>2, <2>1
<1>7. Len(p) = m
  BY <1>2, <1>4, <1>6
<1> QED
  BY <1>1, <1>2, <1>5, <1>6, <1>7 DEF p, m, Ch

\* Whole is built line by line.
LEMMA WholeUnfolds ==
  ASSUME FileOK
  PROVE  \E g \in [0 .. Len(file.text) -> Seq(ParsedChar)] :
           /\ g[0] = <<>>
           /\ \A n \in 1 .. Len(file.text) : g[n] = g[n - 1] \o Parsed(n)
           /\ Whole = g[Len(file.text)]
<1> DEFINE N == Len(file.text)
           S == Seq(ParsedChar)
           Step == [n \in 1 .. N |-> [s \in S |-> s \o Parsed(n)]]
           Defines(g) == g = [n \in 0 .. N |-> IF n = 0 THEN <<>> ELSE g[n - 1] \o Parsed(n)]
<1>1. N \in Nat /\ DOMAIN file.text = 1 .. N
  BY DEF FileOK
<1>2. ASSUME NEW n \in 1 .. N, NEW s \in S
      PROVE  s \o Parsed(n) \in S
  BY <1>1, ParsedLine
<1>3. Step \in [1 .. N -> [S -> S]]
  BY <1>2
<1>4. \A n \in 1 .. N : \A s \in S : Step[n][s] = s \o Parsed(n)
  OBVIOUS
<1>5. <<>> \in S
  OBVIOUS
<1>6. Whole = (CHOOSE g : Defines(g))[N]
  BY DEF Whole
<1> HIDE DEF Step, S, N
<1>7. PICK g \in [0 .. N -> S] : g[0] = <<>> /\ \A n \in 1 .. N : g[n] = Step[n][g[n - 1]]
  <2>1. IsLoop(Step, N, S)
    BY <1>3 DEF IsLoop
  <2>2. \E g : IsRun(g, Step, N, S, <<>>)
    BY <1>1, <1>5, <2>1, LoopsRun
  <2> QED
    BY <2>2 DEF IsRun
<1>8. \A n \in 1 .. N : n - 1 \in 0 .. N /\ g[n - 1] \in S
  BY <1>1
<1>9. \A n \in 1 .. N : g[n] = g[n - 1] \o Parsed(n)
  BY <1>4, <1>7, <1>8
<1>10. Defines(g)
  <2>1. \A n \in 0 .. N : n = 0 \/ n \in 1 .. N
    BY <1>1
  <2>2. \A n \in 0 .. N : g[n] = IF n = 0 THEN <<>> ELSE g[n - 1] \o Parsed(n)
    BY <1>7, <1>9, <2>1
  <2> QED
    BY <1>7, <2>2
<1> DEFINE f == CHOOSE h : Defines(h)
<1>11. Defines(f)
  BY <1>10
<1> HIDE DEF f
<1>12. /\ f[0] = <<>>
       /\ \A n \in 1 .. N : f[n] = f[n - 1] \o Parsed(n)
       /\ f = [n \in 0 .. N |-> f[n]]
  <2>1. 0 \in 0 .. N /\ \A n \in 1 .. N : n \in 0 .. N /\ n # 0
    BY <1>1
  <2>2. \A n \in 0 .. N : f[n] = IF n = 0 THEN <<>> ELSE f[n - 1] \o Parsed(n)
    BY <1>11
  <2> QED
    BY <1>11, <2>1, <2>2
<1>13. \A n \in 0 .. N : f[n] \in S
  <2>1. f[0] \in S /\ \A n \in 1 .. N : f[n - 1] \in S => f[n] \in S
    BY <1>2, <1>5, <1>12
  <2> QED
    BY ONLY <1>1, <2>1, LoopStays
<1>14. f \in [0 .. N -> S]
  BY <1>12, <1>13
<1> QED
  BY <1>6, <1>12, <1>14 DEF f, N, S

\* A text of earlier lines, which ends with a newline.
EndsBefore(text, n) ==
  /\ \A k \in DOMAIN text : text[k].line < n
  /\ text # <<>> => text[Len(text)].ch = NL

\* A text that ends before the line n is in order with that line behind it.
LEMMA LineInOrder ==
  ASSUME FileOK, NEW n \in DOMAIN file.text, NEW text, InOrder(text), EndsBefore(text, n)
  PROVE  InOrder(text \o Parsed(n)) /\ EndsBefore(text \o Parsed(n), n + 1)
<1> DEFINE p == Parsed(n)
           line == file.text[n]
           t == text \o p
<1>1. /\ n \in Nat /\ Len(line) \in Nat
      /\ p \in Seq(ParsedChar) /\ Len(p) = Len(line) + 1
      /\ \A k \in 1 .. Len(line) + 1 :
           p[k].line = n /\ p[k].ch = IF k <= Len(line) THEN line[k] ELSE NL
  <2>1. Len(Parsed(n)) = Len(line) + 1
    BY ParsedLine
  <2> QED
    BY <2>1, ParsedLine, LinesOfFiles
<1>2. DOMAIN line = 1 .. Len(line) /\ \A k \in 1 .. Len(line) : line[k] # NL /\ line[k] \in ToSet(line)
  BY LinesOfFiles DEF ToSet
<1>3. text \in Seq(ParsedChar) /\ Len(text) \in Nat /\ DOMAIN text = 1 .. Len(text)
  BY DEF InOrder
<1> HIDE DEF p
<1>4. /\ t \in Seq(ParsedChar) /\ Len(t) = Len(text) + (Len(line) + 1)
      /\ \A k \in 1 .. Len(text) + (Len(line) + 1) :
           t[k] = IF k <= Len(text) THEN text[k] ELSE p[k - Len(text)]
  <2>1. /\ t \in Seq(ParsedChar) /\ Len(t) = Len(text) + Len(p)
        /\ \A k \in 1 .. Len(text) + Len(p) :
             t[k] = IF k <= Len(text) THEN text[k] ELSE p[k - Len(text)]
    BY <1>1, <1>3, ConcatProperties
  <2> HIDE DEF t
  <2> QED
    BY <1>1, <2>1
<1>5. DOMAIN t = 1 .. Len(text) + (Len(line) + 1)
  BY <1>4
<1> HIDE DEF line, t
<1>6. ASSUME NEW k \in DOMAIN t
      PROVE  /\ k \in Nat
             /\ k <= Len(text) => t[k] = text[k] /\ k \in DOMAIN text
             /\ k > Len(text) =>
                  /\ k - Len(text) \in 1 .. Len(line) + 1
                  /\ t[k].line = n
                  /\ t[k].ch = IF k - Len(text) <= Len(line) THEN line[k - Len(text)] ELSE NL
                  /\ (t[k].ch = NL) = (k = Len(text) + (Len(line) + 1))
  <2>1. k \in Nat /\ k \in 1 .. Len(text) + (Len(line) + 1)
    BY <1>5
  <2>2. CASE k <= Len(text)
    BY <1>1, <1>3, <1>4, <2>1, <2>2
  <2>3. CASE k > Len(text)
    <3>1. k - Len(text) \in 1 .. Len(line) + 1 /\ t[k] = p[k - Len(text)]
      BY <1>1, <1>3, <1>4, <2>1, <2>3
    <3>2. /\ t[k].line = n
          /\ t[k].ch = IF k - Len(text) <= Len(line) THEN line[k - Len(text)] ELSE NL
      BY <1>1, <3>1
    <3>3. CASE k - Len(text) <= Len(line)
      <4>1. k - Len(text) \in 1 .. Len(line) /\ k # Len(text) + (Len(line) + 1)
        BY <1>1, <1>3, <2>1, <3>1, <3>3
      <4> QED
        BY <1>2, <2>1, <2>3, <3>1, <3>2, <3>3, <4>1
    <3>4. CASE ~(k - Len(text) <= Len(line))
      <4>1. k = Len(text) + (Len(line) + 1)
        <5>1. Len(text) \in Nat /\ Len(line) \in Nat
          BY <1>1, <1>3
        <5> QED
          BY <2>1, <3>1, <3>4, <5>1
      <4> QED
        BY <2>1, <2>3, <3>1, <3>2, <3>4, <4>1
    <3> QED
      BY <3>3, <3>4
  <2> QED
    BY <1>3, <2>1, <2>2, <2>3
<1>7. \A k \in DOMAIN text : text[k].line < n /\ text[k].line \in Nat
  <2>1. \A k \in DOMAIN text : text[k] \in ParsedChar
    BY <1>3
  <2> QED
    BY <2>1, CharFields DEF EndsBefore
<1>8. \A k \in DOMAIN t : t[k].line < n + 1
  BY <1>1, <1>3, <1>6, <1>7
<1>9. t # <<>> /\ t[Len(t)].ch = NL
  <2>1. Len(t) \in DOMAIN t /\ Len(t) > Len(text) /\ Len(t) = Len(text) + (Len(line) + 1)
    BY <1>1, <1>3, <1>4, <1>5
  <2> QED
    BY <1>6, <2>1
<1>10. IsParsed(t)
  <2> SUFFICES ASSUME NEW k \in DOMAIN t
               PROVE  /\ t[k].line \in DOMAIN file.text
                      /\ t[k].ch \in {BlankCh, NL} \cup ToSet(file.text[t[k].line])
    BY DEF IsParsed
  <2>1. CASE k <= Len(text)
    BY <1>6, <2>1 DEF InOrder, IsParsed
  <2>2. CASE k > Len(text)
    <3>1. t[k].ch \in {NL} \cup ToSet(line)
      <4>1. CASE k - Len(text) <= Len(line)
        <5>1. k - Len(text) \in 1 .. Len(line)
          BY <1>1, <1>6, <2>2, <4>1
        <5> QED
          BY <1>2, <1>6, <2>2, <4>1, <5>1
      <4>2. CASE ~(k - Len(text) <= Len(line))
        BY <1>6, <2>2, <4>2
      <4> QED
        BY <4>1, <4>2
    <3> QED
      BY <1>6, <2>2, <3>1 DEF line
  <2>3. k <= Len(text) \/ k > Len(text)
    BY <1>3, <1>6
  <2> QED
    BY <2>1, <2>2, <2>3
<1>11. Ascending(t)
  BY <1>1, <1>3, <1>6, <1>7, SMTT(30) DEF InOrder, Ascending
<1>12. NewlinesDivide(t)
  <2> SUFFICES ASSUME NEW a \in DOMAIN t, NEW b \in DOMAIN t, NEW c \in DOMAIN t,
                      a < b, b <= c, t[a].ch = NL, t[c].ch = NL
               PROVE  t[a].line < t[b].line
    BY DEF NewlinesDivide
  <2>1. a \in Nat /\ b \in Nat /\ c \in Nat
    BY <1>6
  <2>2. a <= Len(text)
    <3>1. CASE a > Len(text)
      <4>1. a = Len(text) + (Len(line) + 1)
        BY <1>6, <3>1
      <4>2. b <= Len(text) + (Len(line) + 1)
        BY <1>5, <2>1
      <4> QED
        BY <1>1, <1>3, <2>1, <4>1, <4>2
    <3> QED
      BY <1>3, <2>1, <3>1
  <2>3. CASE b > Len(text)
    BY <1>6, <1>7, <2>2, <2>3
  <2>4. CASE b <= Len(text)
    <3>1. CASE c <= Len(text)
      BY <1>6, <2>2, <2>4, <3>1 DEF InOrder, NewlinesDivide
    <3>2. CASE c > Len(text)
      <4>1. Len(text) \in DOMAIN text /\ text[Len(text)].ch = NL
        <5>1. text # <<>> /\ Len(text) \in DOMAIN text
          BY <1>3, <2>1, <2>2, <1>6
        <5> QED
          BY <5>1 DEF EndsBefore
      <4> QED
        BY <1>6, <2>2, <2>4, <4>1 DEF InOrder, NewlinesDivide
    <3> QED
      BY <1>3, <2>1, <3>1, <3>2
  <2> QED
    BY <1>3, <2>1, <2>3, <2>4
<1>13. ASSUME NEW k \in 1 .. Len(t) - 1
       PROVE  \/ t[k].ch = NL
              \/ k \in 1 .. Len(text) - 1 /\ t[k] = text[k] /\ t[k + 1] = text[k + 1]
              \/ /\ k - Len(text) \in 1 .. Len(line) /\ t[k].line = n /\ t[k + 1].line = n
                 /\ t[k].ch = line[k - Len(text)]
                 /\ t[k + 1].ch = IF k - Len(text) < Len(line) THEN line[k - Len(text) + 1] ELSE NL
  <2>1. k \in DOMAIN t /\ k + 1 \in DOMAIN t /\ k \in Nat
    BY <1>1, <1>3, <1>4, <1>5
  <2>2. CASE k < Len(text)
    <3>1. k <= Len(text) /\ k + 1 <= Len(text) /\ k \in 1 .. Len(text) - 1
      BY <1>3, <2>1, <2>2
    <3> QED
      BY <1>6, <2>1, <3>1
  <2>3. CASE k = Len(text)
    <3>1. text # <<>> /\ t[k] = text[Len(text)]
      BY <1>3, <1>6, <2>1, <2>3
    <3> QED
      BY <3>1 DEF EndsBefore
  <2>4. CASE k > Len(text)
    <3>1. /\ k - Len(text) \in 1 .. Len(line) /\ k - Len(text) <= Len(line) /\ k + 1 > Len(text)
          /\ (k + 1) - Len(text) = k - Len(text) + 1
          /\ ((k + 1) - Len(text) <= Len(line)) = (k - Len(text) < Len(line))
      BY <1>1, <1>3, <1>4, <2>1, <2>4, SMTT(30)
    <3> QED
      BY <1>6, <2>1, <2>4, <3>1
  <2> QED
    BY <1>3, <2>1, <2>2, <2>3, <2>4
<1>14. OpeningsAreReal(t)
  <2> SUFFICES ASSUME NEW k \in 1 .. Len(t) - 1, t[k].ch = "/", t[k + 1].ch = "*"
               PROVE  Opens(t[k].line)
    BY DEF OpeningsAreReal
  <2>1. CASE k \in 1 .. Len(text) - 1 /\ t[k] = text[k] /\ t[k + 1] = text[k + 1]
    BY <2>1 DEF InOrder, OpeningsAreReal
  <2>2. CASE /\ k - Len(text) \in 1 .. Len(line) /\ t[k].line = n /\ t[k + 1].line = n
             /\ t[k].ch = line[k - Len(text)]
             /\ t[k + 1].ch = IF k - Len(text) < Len(line) THEN line[k - Len(text) + 1] ELSE NL
    <3>1. /\ k - Len(text) < Len(line) /\ line[k - Len(text)] = "/" /\ line[k - Len(text) + 1] = "*"
      BY <2>2 DEF NL
    <3>2. k - Len(text) \in 1 .. Len(line) - 1
      BY <1>1, <2>2, <3>1
    <3> QED
      BY <2>2, <3>1, <3>2 DEF Opens, line
  <2> QED
    BY <1>13, <2>1, <2>2 DEF NL
<1>15. JumpsAreComments(t)
  <2> SUFFICES ASSUME NEW k \in 1 .. Len(t) - 1, t[k].ch # NL, t[k + 1].ch # NL,
                      t[k].line # t[k + 1].line
               PROVE  Opens(t[k].line)
    BY DEF JumpsAreComments
  <2> QED
    BY <1>13 DEF InOrder, JumpsAreComments
<1> QED
  BY <1>4, <1>8, <1>9, <1>10, <1>11, <1>12, <1>14, <1>15 DEF InOrder, EndsBefore, t, p

\* What is read from a file is in order.
LEMMA WholeInOrder ==
  ASSUME FileOK
  PROVE  /\ InOrder(Whole)
         /\ Len(Parsed(Len(file.text))) \in 1 .. Len(Whole)
<1> DEFINE N == Len(file.text)
<1>1. N \in Nat \ {0} /\ DOMAIN file.text = 1 .. N
  BY DEF FileOK
<1>2. PICK g \in [0 .. N -> Seq(ParsedChar)] :
        /\ g[0] = <<>>
        /\ \A n \in 1 .. N : g[n] = g[n - 1] \o Parsed(n)
        /\ Whole = g[N]
  BY WholeUnfolds
<1> DEFINE T == {n \in 0 .. N : InOrder(g[n]) /\ EndsBefore(g[n], n + 1)}
<1>3. 0 \in T
  <2>1. InOrder(<<>>)
    BY DEF InOrder, IsParsed, Ascending, NewlinesDivide, OpeningsAreReal, JumpsAreComments
  <2>2. EndsBefore(<<>>, 0 + 1)
    BY DEF EndsBefore
  <2>3. 0 \in 0 .. N
    BY <1>1
  <2> QED
    BY <1>2, <2>1, <2>2, <2>3
<1>4. ASSUME NEW n \in 0 .. N - 1, n \in T
      PROVE  n + 1 \in T
  <2>1. n + 1 \in DOMAIN file.text /\ n + 1 \in 1 .. N /\ (n + 1) - 1 = n /\ n + 1 \in 0 .. N
    BY <1>1
  <2>2. g[n + 1] = g[n] \o Parsed(n + 1)
    BY <1>2, <2>1
  <2>3. InOrder(g[n]) /\ EndsBefore(g[n], n + 1)
    BY <1>4
  <2>4. InOrder(g[n] \o Parsed(n + 1)) /\ EndsBefore(g[n] \o Parsed(n + 1), (n + 1) + 1)
    BY <2>1, <2>3, LineInOrder
  <2> QED
    BY <2>1, <2>2, <2>4
<1>5. N \in T
  <2> HIDE DEF T
  <2>1. N \in 0 .. N /\ N \in Nat
    BY <1>1
  <2>2. \A n \in 0 .. N - 1 : n \in T => n + 1 \in T
    BY <1>4
  <2> HIDE DEF N
  <2>3. \A k \in 0 .. N : k \in T
    BY <1>3, <2>1, <2>2, CountingUp
  <2> QED
    BY <2>1, <2>3
<1>6. InOrder(Whole)
  BY <1>2, <1>5
<1>7. Len(Parsed(N)) \in 1 .. Len(Whole)
  <2>1. N \in DOMAIN file.text /\ N \in 1 .. N /\ N - 1 \in 0 .. N
    BY <1>1
  <2>2. Parsed(N) \in Seq(ParsedChar) /\ Len(Parsed(N)) \in Nat /\ Len(Parsed(N)) >= 1
    BY <2>1, ParsedLine, LinesOfFiles
  <2>3. Whole = g[N - 1] \o Parsed(N) /\ g[N - 1] \in Seq(ParsedChar)
    BY <1>2, <2>1
  <2>4. Len(Whole) = Len(g[N - 1]) + Len(Parsed(N)) /\ Len(g[N - 1]) \in Nat
    BY <2>2, <2>3, ConcatProperties
  <2> HIDE DEF N
  <2> QED
    BY <2>2, <2>4
<1> QED
  BY <1>6, <1>7

\* The parsed characters are those of the other content, as far as they go.
Follows(text, chars) ==
  /\ chars \in Seq(Character)
  /\ Len(text) <= Len(chars)
  /\ \A k \in 1 .. Len(text) : text[k].ch = chars[k]

\* The characters of ParsedChars.
LEMMA CharsOf ==
  ASSUME NEW text \in Seq(ParsedChar)
  PROVE  /\ Chars(text) \in Seq(Character) /\ Len(Chars(text)) = Len(text)
         /\ \A k \in 1 .. Len(text) : Chars(text)[k] = text[k].ch
<1> DEFINE c == Chars(text)
<1>1. Len(text) \in Nat /\ DOMAIN text = 1 .. Len(text) /\ \A k \in 1 .. Len(text) : text[k] \in ParsedChar
  OBVIOUS
<1>2. c = [k \in 1 .. Len(text) |-> text[k].ch]
  BY <1>1 DEF Chars
<1> HIDE DEF c
<1>3. c \in [1 .. Len(text) -> Character]
  BY <1>1, <1>2, CharFields
<1>4. c \in Seq(Character) /\ Len(c) = Len(text)
  BY <1>1, <1>3
<1> QED
  BY <1>2, <1>4 DEF c

\* slurp_file leaves contents that are in order and follow each other.
LEMMA SlurpedInOrder ==
  ASSUME FileOK, SlurpFile
  PROVE  InOrder(content') /\ Follows(content', raw')
<1> DEFINE last == Len(Parsed(Len(file.text)))
<1>1. /\ Whole \in Seq(ParsedChar) /\ Len(Whole) \in Nat
      /\ last \in 1 .. Len(Whole)
  BY WholeInOrder DEF InOrder
<1> HIDE DEF last
<1>2. CASE file.ended
  <2>1. raw' = Chars(Whole) /\ content' = Whole
    BY <1>2 DEF SlurpFile
  <2>2. /\ Chars(Whole) \in Seq(Character) /\ Len(Chars(Whole)) = Len(Whole)
        /\ \A k \in 1 .. Len(Whole) : Chars(Whole)[k] = Whole[k].ch
    BY <1>1, CharsOf
  <2> QED
    BY <1>1, <2>1, <2>2, WholeInOrder DEF Follows
<1>3. CASE ~file.ended
  <2> DEFINE n == Len(Whole) - last
             t == SubSeq(Whole, 1, n)
             u == Front(Whole)
  <2>1. raw' = Chars(u) /\ content' = t
    BY <1>3 DEF SlurpFile, last
  <2>2. n \in 0 .. Len(Whole) /\ n \in 0 .. Len(Whole) - 1 /\ Len(Whole) - 1 \in Nat
    BY <1>1
  <2>3. InOrder(t)
    BY <2>2, PrefixInOrder, WholeInOrder
  <2>4. /\ u \in Seq(ParsedChar) /\ Len(u) = Len(Whole) - 1
        /\ \A k \in 1 .. Len(Whole) - 1 : u[k] = Whole[k]
    <3>1. u = SubSeq(Whole, 1, Len(Whole) - 1) /\ Len(Whole) - 1 \in 0 .. Len(Whole)
      BY <1>1 DEF Front
    <3> HIDE DEF u
    <3> QED
      BY <1>1, <3>1, PrefixElements
  <2>5. Len(t) = n /\ \A k \in 1 .. n : t[k] = Whole[k]
    BY <1>1, <2>2
  <2> HIDE DEF n, t, u
  <2>6. /\ Chars(u) \in Seq(Character) /\ Len(Chars(u)) = Len(u)
        /\ \A k \in 1 .. Len(u) : Chars(u)[k] = u[k].ch
    BY <2>4, CharsOf
  <2>7. Follows(t, Chars(u))
    BY <1>1, <2>2, <2>4, <2>5, <2>6, SMTT(30) DEF Follows
  <2> QED
    BY <2>1, <2>3, <2>7
<1> QED
  BY <1>2, <1>3

-----------------------------------------------------------------------------
(***************************************************************************)
(* strip_comments.                                                         *)
(***************************************************************************)

\* The first of a set of positions is its least.
LEMMA FirstIsLeast ==
  ASSUME NEW S \in SUBSET Nat, S # {}
  PROVE  First(S) \in S /\ \A m \in S : First(S) <= m
<1> DEFINE R == {ss \in Nat \X Nat : ss[1] < ss[2]}
<1>1. IsWellFoundedOn(R, Nat)
  BY NatLessThanWellFounded DEF OpToRel
<1>2. PICK k \in S : \A m \in S : ~(<<m, k>> \in R)
  <2> HIDE DEF R
  <2> QED
    BY <1>1, WFMin
<1>3. \A m \in S : k <= m
  <2> SUFFICES ASSUME NEW m \in S
               PROVE  k <= m
    OBVIOUS
  <2>1. <<m, k>> \in Nat \X Nat /\ ~(m < k)
    BY <1>2
  <2> QED
    BY <2>1
<1> QED
  BY <1>3 DEF First

\* A search finds the character it looks for, or 0.
LEMMA Finds ==
  ASSUME NEW text \in Seq(Character), NEW c, NEW from \in Nat \ {0}
  PROVE  /\ Find(text, c, from) \in 0 .. Len(text)
         /\ Find(text, c, from) # 0 => text[Find(text, c, from)] = c
<1> DEFINE S == {k \in from .. Len(text) : text[k] = c}
<1>1. Len(text) \in Nat /\ S \in SUBSET Nat /\ \A k \in S : k \in 1 .. Len(text) /\ text[k] = c
  OBVIOUS
<1>2. Find(text, c, from) = First(S)
  BY DEF Find
<1> HIDE DEF S
<1>3. CASE S = {}
  BY <1>1, <1>2, <1>3 DEF First
<1>4. CASE S # {}
  <2>1. First(S) \in S
    BY <1>1, <1>4, FirstIsLeast
  <2>2. First(S) \in 1 .. Len(text) /\ text[First(S)] = c
    BY <1>1, <2>1
  <2>3. First(S) \in 0 .. Len(text)
    BY <1>1, <2>2
  <2> QED
    BY <1>2, <2>2, <2>3
<1> QED
  BY <1>3, <1>4

\* However many backslashes there are, what is found is a newline or nothing.
LEMMA LineEndIsNewline ==
  ASSUME NEW text \in Seq(Character), NEW k \in Nat \ {0}
  PROVE  /\ LineEnd(text, k) \in 0 .. Len(text)
         /\ LineEnd(text, k) # 0 => text[LineEnd(text, k)] = NL
<1> DEFINE N == Len(text)
           S == {r \in [nl : 0 .. N, bsl : 0 .. N] : r.nl # 0 => text[r.nl] = NL}
           Takes1(r) == r.bsl # 0 /\ (r.nl = 0 \/ (r.bsl < r.nl /\ r.nl < N))
           base == [nl |-> Find(text, NL, k), bsl |-> Find(text, Backslash, k)]
           Goes(r) == IF Takes1(r)
                      THEN [nl |-> Find(text, NL, r.nl + 1), bsl |-> Find(text, Backslash, r.bsl + 1)]
                      ELSE r
           Step == [n \in 1 .. N |-> [r \in S |-> Goes(r)]]
           Defines(g) == g = [n \in 0 .. N |-> IF n = 0 THEN base
                                ELSE LET r == g[n - 1] IN
                                  IF Takes1(r)
                                  THEN [nl |-> Find(text, NL, r.nl + 1),
                                        bsl |-> Find(text, Backslash, r.bsl + 1)]
                                  ELSE r]
           Is(g) == \A n \in 0 .. N : g[n] = IF n = 0 THEN base ELSE Goes(g[n - 1])
<1>1. N \in Nat
  OBVIOUS
<1>2. base \in S
  BY Finds
<1>3. ASSUME NEW r \in S
      PROVE  Goes(r) \in S
  <2>1. r.nl + 1 \in Nat \ {0} /\ r.bsl + 1 \in Nat \ {0}
    OBVIOUS
  <2> QED
    BY <2>1, Finds
<1>4. LineEnd(text, k) = (CHOOSE g : Defines(g))[N].nl
  BY DEF LineEnd
<1>5. \A g : Defines(g) <=> g = [n \in 0 .. N |-> IF n = 0 THEN base ELSE Goes(g[n - 1])]
  OBVIOUS
<1>6. Step \in [1 .. N -> [S -> S]]
  BY <1>3
<1>7. \A n \in 1 .. N : \A r \in S : Step[n][r] = Goes(r)
  OBVIOUS
<1> HIDE DEF Step, S, N, base, Goes, Defines
<1>8. PICK g \in [0 .. N -> S] : g[0] = base /\ \A n \in 1 .. N : g[n] = Step[n][g[n - 1]]
  <2>1. IsLoop(Step, N, S)
    BY <1>6 DEF IsLoop
  <2>2. \E g : IsRun(g, Step, N, S, base)
    BY <1>1, <1>2, <2>1, LoopsRun
  <2> QED
    BY <2>2 DEF IsRun
<1>9. \A n \in 1 .. N : n - 1 \in 0 .. N /\ g[n - 1] \in S
  BY <1>1
<1>10. \A n \in 1 .. N : g[n] = Goes(g[n - 1])
  BY <1>7, <1>8, <1>9
<1>11. Defines(g)
  <2>1. \A n \in 0 .. N : n = 0 \/ n \in 1 .. N
    BY <1>1
  <2>2. \A n \in 0 .. N : g[n] = IF n = 0 THEN base ELSE Goes(g[n - 1])
    BY <1>8, <1>10, <2>1
  <2>3. g = [n \in 0 .. N |-> IF n = 0 THEN base ELSE Goes(g[n - 1])]
    BY <2>2
  <2> QED
    BY <1>5, <2>3
<1> DEFINE f == CHOOSE h : Defines(h)
<1>12. Defines(f)
  BY <1>11
<1> HIDE DEF f
<1>13. f[0] = base /\ \A n \in 1 .. N : f[n] = Goes(f[n - 1])
  <2>1. 0 \in 0 .. N /\ \A n \in 1 .. N : n \in 0 .. N /\ n # 0
    BY <1>1
  <2>2. f = [n \in 0 .. N |-> IF n = 0 THEN base ELSE Goes(f[n - 1])]
    BY <1>5, <1>12
  <2>3. \A n \in 0 .. N : f[n] = IF n = 0 THEN base ELSE Goes(f[n - 1])
    BY <2>2
  <2> QED
    BY <2>1, <2>3
<1>14. \A n \in 0 .. N : f[n] \in S
  <2>1. f[0] \in S /\ \A n \in 1 .. N : f[n - 1] \in S => f[n] \in S
    BY <1>2, <1>3, <1>13
  <2> QED
    BY ONLY <1>1, <2>1, LoopStays
<1>15. f[N] \in S
  BY <1>1, <1>14
<1> QED
  BY <1>4, <1>15 DEF f, S, N

\* What both contents are while comments are stripped, and the position in them.
Stripping ==
  stage = "stripping" =>
    /\ InOrder(content) /\ Follows(content, raw_copy)
    /\ pos \in 1 .. Len(raw_copy) + 1
    /\ in_str_lit \in BOOLEAN

\* A part both contents have can go from both of them.
LEMMA CutFollows ==
  ASSUME NEW text \in Seq(ParsedChar), NEW chars, Follows(text, chars),
         NEW k \in 1 .. Len(text) + 1, NEW m \in k .. Len(text) + 1
  PROVE  Follows(Cut(text, k, m), Cut(chars, k, m))
<1> DEFINE t == Cut(text, k, m)
           c == Cut(chars, k, m)
<1>1. /\ chars \in Seq(Character) /\ Len(text) <= Len(chars)
      /\ Len(text) \in Nat /\ Len(chars) \in Nat /\ k \in Nat /\ m \in Nat /\ k <= m
      /\ k \in 1 .. Len(chars) + 1 /\ m \in k .. Len(chars) + 1
  BY DEF Follows
<1>2. /\ Len(t) = Len(text) - (m - k)
      /\ \A j \in 1 .. Len(text) - (m - k) : t[j] = IF j < k THEN text[j] ELSE text[j + (m - k)]
  <2> HIDE DEF t
  <2> QED
    BY CutElements DEF t
<1>3. /\ c \in Seq(Character) /\ Len(c) = Len(chars) - (m - k)
      /\ \A j \in 1 .. Len(chars) - (m - k) : c[j] = IF j < k THEN chars[j] ELSE chars[j + (m - k)]
  <2> HIDE DEF c
  <2> QED
    BY <1>1, CutElements DEF c
<1> HIDE DEF t, c
<1>4. ASSUME NEW j \in 1 .. Len(t)
      PROVE  t[j].ch = c[j]
  <2>1. j \in 1 .. Len(text) - (m - k) /\ j \in 1 .. Len(chars) - (m - k) /\ j \in Nat
    BY <1>1, <1>2
  <2>2. CASE j < k
    <3>1. t[j] = text[j] /\ c[j] = chars[j] /\ j \in 1 .. Len(text)
      BY <1>1, <1>2, <1>3, <2>1, <2>2
    <3> QED
      BY <3>1 DEF Follows
  <2>3. CASE ~(j < k)
    <3>1. /\ t[j] = text[j + (m - k)] /\ c[j] = chars[j + (m - k)]
          /\ j + (m - k) \in 1 .. Len(text)
      BY <1>1, <1>2, <1>3, <2>1, <2>3
    <3> QED
      BY <3>1 DEF Follows
  <2> QED
    BY <2>2, <2>3
<1>5. Len(t) <= Len(c)
  BY <1>1, <1>2, <1>3
<1> QED
  BY <1>3, <1>4, <1>5 DEF Follows, t, c

\* The parsed characters end somewhere, and the others may go on.
LEMMA EndFollows ==
  ASSUME NEW text \in Seq(ParsedChar), NEW chars, Follows(text, chars),
         NEW k \in 1 .. Len(text) + 1
  PROVE  /\ Follows(Cut(text, k, Len(text) + 1), Cut(chars, k, Len(chars) + 1))
         /\ Len(Cut(text, k, Len(text) + 1)) = k - 1
         /\ Len(Cut(chars, k, Len(chars) + 1)) = k - 1
<1> DEFINE t == Cut(text, k, Len(text) + 1)
           c == Cut(chars, k, Len(chars) + 1)
           n == Len(text) + 1
           o == Len(chars) + 1
<1>1. /\ chars \in Seq(Character) /\ Len(text) <= Len(chars)
      /\ Len(text) \in Nat /\ Len(chars) \in Nat /\ k \in Nat
      /\ k \in 1 .. Len(chars) + 1 /\ n \in k .. Len(text) + 1 /\ o \in k .. Len(chars) + 1
      /\ Len(text) - (n - k) = k - 1 /\ Len(chars) - (o - k) = k - 1
  BY DEF Follows
<1>2. /\ Len(t) = k - 1
      /\ \A j \in 1 .. k - 1 : t[j] = text[j]
  <2>1. t = Cut(text, k, n)
    OBVIOUS
  <2> HIDE DEF t, n
  <2>2. /\ Len(t) = Len(text) - (n - k)
        /\ \A j \in 1 .. Len(text) - (n - k) : t[j] = IF j < k THEN text[j] ELSE text[j + (n - k)]
    BY <1>1, <2>1, CutElements
  <2> QED
    BY <1>1, <2>2, SMTT(30)
<1>3. /\ c \in Seq(Character) /\ Len(c) = k - 1
      /\ \A j \in 1 .. k - 1 : c[j] = chars[j]
  <2>1. c = Cut(chars, k, o)
    OBVIOUS
  <2> HIDE DEF c, o
  <2>2. /\ c \in Seq(Character) /\ Len(c) = Len(chars) - (o - k)
        /\ \A j \in 1 .. Len(chars) - (o - k) : c[j] = IF j < k THEN chars[j] ELSE chars[j + (o - k)]
    BY <1>1, <2>1, CutElements
  <2> QED
    BY <1>1, <2>2, SMTT(30)
<1> HIDE DEF t, c, n, o
<1>4. ASSUME NEW j \in 1 .. k - 1
      PROVE  t[j].ch = c[j]
  <2>1. j \in 1 .. Len(text)
    BY <1>1
  <2>2. text[j].ch = chars[j]
    BY <2>1 DEF Follows
  <2> QED
    BY <1>2, <1>3, <2>2
<1> QED
  BY <1>2, <1>3, <1>4 DEF Follows, t, c

\* Both contents gain a blank at the same position.
LEMMA BlankFollows ==
  ASSUME NEW text \in Seq(ParsedChar), Len(text) # 0, NEW chars, Follows(text, chars),
         NEW k \in 1 .. Len(text) + 1
  PROVE  /\ Follows(AddBlank(text, k), InsertAt(chars, k, BlankCh))
         /\ Len(InsertAt(chars, k, BlankCh)) = Len(chars) + 1
<1> DEFINE here == IF k > Len(text) THEN k - 1 ELSE k
           blank == [line |-> text[here].line, ch |-> BlankCh]
           t == AddBlank(text, k)
           c == InsertAt(chars, k, BlankCh)
<1>1. /\ chars \in Seq(Character) /\ Len(text) <= Len(chars)
      /\ Len(text) \in Nat /\ Len(text) >= 1 /\ Len(chars) \in Nat /\ k \in Nat
      /\ k \in 1 .. Len(chars) + 1 /\ BlankCh \in Character
  <2>1. chars \in Seq(Character) /\ Len(text) <= Len(chars)
    BY DEF Follows
  <2>2. Len(text) \in Nat /\ Len(text) >= 1 /\ Len(chars) \in Nat
    BY <2>1
  <2>3. BlankCh \in Character
    BY DEF Character
  <2> QED
    BY <2>1, <2>2, <2>3
<1>2. here \in 1 .. Len(text)
  BY <1>1
<1>3. blank \in ParsedChar /\ blank.ch = BlankCh
  <2>1. text[here] \in ParsedChar
    BY <1>2
  <2>2. text[here].line \in Nat
    BY <2>1, CharFields
  <2> QED
    BY <1>1, <2>2, MadeChar
<1>4. t = InsertAt(text, k, blank)
  BY DEF AddBlank
<1> HIDE DEF blank, here, t, c
<1>5. /\ t \in Seq(ParsedChar) /\ Len(t) = Len(text) + 1
      /\ \A j \in 1 .. Len(text) + 1 :
           t[j] = IF j < k THEN text[j] ELSE IF j = k THEN blank ELSE text[j - 1]
  <2>1. /\ InsertAt(text, k, blank) \in Seq(ParsedChar)
        /\ Len(InsertAt(text, k, blank)) = Len(text) + 1
        /\ \A j \in 1 .. Len(text) + 1 : InsertAt(text, k, blank)[j] =
             IF j < k THEN text[j] ELSE IF j = k THEN blank ELSE text[j - 1]
    <3>1. text \in Seq(ParsedChar) /\ k \in 1 .. Len(text) + 1 /\ blank \in ParsedChar
      BY <1>3
    <3> QED
      BY ONLY <3>1, InsertElements
  <2> QED
    BY <1>4, <2>1
<1>6. /\ c \in Seq(Character) /\ Len(c) = Len(chars) + 1
      /\ \A j \in 1 .. Len(chars) + 1 :
           c[j] = IF j < k THEN chars[j] ELSE IF j = k THEN BlankCh ELSE chars[j - 1]
  BY <1>1, InsertElements DEF c
<1>7. ASSUME NEW j \in 1 .. Len(t)
      PROVE  t[j].ch = c[j]
  <2>1. j \in 1 .. Len(text) + 1 /\ j \in 1 .. Len(chars) + 1 /\ j \in Nat
    BY <1>1, <1>5
  <2>2. CASE j < k
    <3>1. j \in 1 .. Len(text)
      BY <1>1, <2>1, <2>2
    <3>2. t[j] = text[j] /\ c[j] = chars[j]
      BY <1>5, <1>6, <2>1, <2>2
    <3> QED
      BY <3>1, <3>2 DEF Follows
  <2>3. CASE j = k
    <3>1. ~(j < k)
      BY <2>1, <2>3
    <3> QED
      BY <1>3, <1>5, <1>6, <2>1, <2>3, <3>1
  <2>4. CASE j > k
    <3>1. j - 1 \in 1 .. Len(text) /\ ~(j < k) /\ j # k
      BY <1>1, <2>1, <2>4
    <3>2. t[j] = text[j - 1] /\ c[j] = chars[j - 1]
      BY <1>5, <1>6, <2>1, <3>1
    <3> QED
      BY <3>1, <3>2 DEF Follows
  <2> QED
    BY <1>1, <2>1, <2>2, <2>3, <2>4
<1> QED
  BY <1>1, <1>5, <1>6, <1>7 DEF Follows, t, c

\* No more blanks stand before a position than there are positions.
LEMMA BlanksBefore ==
  ASSUME NEW text, NEW k \in Nat \ {0}
  PROVE  Blanks(text, k) \in 0 .. k - 1
<1> DEFINE S == {m \in 1 .. k - 1 : \A j \in m .. k - 1 : text[j] = BlankCh}
<1>1. S \subseteq 1 .. k - 1 /\ IsFiniteSet(1 .. k - 1) /\ Cardinality(1 .. k - 1) = k - 1
  <2>1. 1 \in Int /\ k - 1 \in Int /\ (IF 1 > k - 1 THEN 0 ELSE (k - 1) - 1 + 1) = k - 1
    OBVIOUS
  <2>2. /\ IsFiniteSet(1 .. k - 1)
        /\ Cardinality(1 .. k - 1) = IF 1 > k - 1 THEN 0 ELSE (k - 1) - 1 + 1
    BY <2>1, FS_Interval
  <2> QED
    BY <2>1, <2>2
<1>2. IsFiniteSet(S) /\ Cardinality(S) <= k - 1
  BY <1>1, FS_Subset
<1>3. Cardinality(S) \in Nat
  BY <1>2, FS_CardinalityType
<1> QED
  <2>1. Blanks(text, k) = Cardinality(S)
    BY DEF Blanks
  <2> HIDE DEF S
  <2> QED
    BY <1>2, <1>3, <2>1

\* The file does not change, so what is in order stays in order.
LEMMA StillInOrder ==
  ASSUME file' = file, InOrder(content')
  PROVE  InOrder(content)'
  BY DEF InOrder, IsParsed, Ascending, NewlinesDivide, OpeningsAreReal, JumpsAreComments, Opens

\* A line comment can go.
LEMMA StripLineInOrder ==
  ASSUME Stripping, StripLine
  PROVE  Stripping'
<1> SUFFICES ASSUME stage' = "stripping" PROVE Stripping'
  BY DEF Stripping
<1> DEFINE nl == LineEnd(raw_copy, pos)
           from == IF nl = 0 THEN pos ELSE pos - Blanks(raw_copy, pos)
           upto(text) == IF nl = 0 THEN Len(text) + 1 ELSE nl
<1>1. /\ InOrder(content) /\ Follows(content, raw_copy)
      /\ content \in Seq(ParsedChar) /\ raw_copy \in Seq(Character)
      /\ Len(content) \in Nat /\ Len(raw_copy) \in Nat
      /\ pos \in 1 .. Len(raw_copy) /\ pos \in Nat \ {0}
      /\ in_str_lit \in BOOLEAN /\ in_str_lit' = in_str_lit
  BY DEF StripLine, AtComment, AtChar, Stripping, InOrder, Follows
<1>2. /\ CanErase(pos, upto(content))
      /\ raw_copy' = Cut(raw_copy, from, upto(raw_copy))
      /\ content' = Cut(content, from, upto(content))
      /\ pos' = from
  BY DEF StripLine
<1>3. nl \in 0 .. Len(raw_copy) /\ (nl # 0 => raw_copy[nl] = NL)
  BY <1>1, LineEndIsNewline
<1>4. from \in 1 .. pos
  <2>1. Blanks(raw_copy, pos) \in 0 .. pos - 1
    BY <1>1, BlanksBefore
  <2> QED
    BY <1>1, <2>1
<1> HIDE DEF nl
<1>7. file' = file
  BY DEF StripLine
<1>5. CASE nl = 0
  <2>1. pos \in 1 .. Len(content) + 1
    BY <1>1, <1>2, <1>5 DEF CanErase
  <2>2. /\ content' = Cut(content, pos, Len(content) + 1)
        /\ raw_copy' = Cut(raw_copy, pos, Len(raw_copy) + 1)
        /\ pos' = pos
    BY <1>2, <1>5
  <2>3. Len(content) + 1 \in pos .. Len(content) + 1
    BY <1>1, <2>1
  <2>4. InOrder(content')
    BY <1>1, <2>1, <2>2, <2>3, CutInOrder
  <2>5. Follows(content', raw_copy') /\ Len(raw_copy') = pos - 1
    BY <1>1, <2>1, <2>2, EndFollows
  <2> QED
    BY <1>1, <1>7, <2>2, <2>4, <2>5, StillInOrder DEF Stripping, Follows
<1>6. CASE nl # 0
  <2> HIDE DEF from
  <2>1. /\ from \in 1 .. Len(content) + 1 /\ nl \in from .. Len(content) + 1
        /\ from \in 1 .. Len(raw_copy) + 1 /\ nl \in from .. Len(raw_copy) + 1
        /\ from \in Nat /\ nl \in Nat
    BY <1>1, <1>2, <1>3, <1>4, <1>6 DEF CanErase
  <2>2. /\ content' = Cut(content, from, nl)
        /\ raw_copy' = Cut(raw_copy, from, nl)
    BY <1>2, <1>6
  <2>3. nl = Len(content) + 1 \/ content[nl].ch = NL
    <3>1. nl # Len(content) + 1 => nl \in 1 .. Len(content)
      BY <1>1, <2>1
    <3> QED
      BY <1>1, <1>3, <1>6, <3>1 DEF Follows
  <2>4. InOrder(content')
    BY <1>1, <2>1, <2>2, <2>3, CutInOrder
  <2>5. Follows(content', raw_copy')
    BY <1>1, <2>1, <2>2, CutFollows
  <2>6. Len(raw_copy') = Len(raw_copy) - (nl - from)
    BY <1>1, <2>1, <2>2, CutElements, ZenonT(30)
  <2>7. pos' \in 1 .. Len(raw_copy') + 1
    BY <1>1, <1>2, <1>3, <2>1, <2>6
  <2> QED
    BY <1>1, <1>7, <2>4, <2>5, <2>7, StillInOrder DEF Stripping, Follows
<1> QED
  BY <1>5, <1>6

\* A block comment can go, and a blank take its place.
LEMMA StripBlockInOrder ==
  ASSUME Stripping, StripBlock
  PROVE  Stripping'
<1> SUFFICES ASSUME stage' = "stripping" PROVE Stripping'
  BY DEF Stripping
<1> DEFINE ends == {m \in pos .. Len(raw_copy) - 1 : raw_copy[m] = "*" /\ raw_copy[m + 1] = "/"}
           last == First(ends)
           upto(text) == IF last + 1 = Len(raw_copy) THEN Len(text) + 1 ELSE last + 2
           rest == Cut(content, pos, upto(content))
           rest_raw == Cut(raw_copy, pos, upto(raw_copy))
<1>1. /\ InOrder(content) /\ Follows(content, raw_copy)
      /\ content \in Seq(ParsedChar) /\ raw_copy \in Seq(Character)
      /\ Len(content) \in Nat /\ Len(raw_copy) \in Nat /\ Len(content) <= Len(raw_copy)
      /\ pos \in 1 .. Len(raw_copy) - 1 /\ pos \in Nat \ {0}
      /\ raw_copy[pos] = "/" /\ raw_copy[pos + 1] = "*"
      /\ in_str_lit \in BOOLEAN /\ in_str_lit' = in_str_lit
      /\ file' = file /\ pos' = pos
  BY DEF StripBlock, AtComment, AtChar, CommentAt, Stripping, InOrder, Follows
<1>2. /\ last # 0 /\ CanErase(pos, upto(content)) /\ rest # <<>>
      /\ raw_copy' = InsertAt(rest_raw, pos, BlankCh)
      /\ content' = AddBlank(rest, pos)
  BY DEF StripBlock
<1>3. last \in pos + 1 .. Len(raw_copy) - 1
  <2>1. ends \in SUBSET Nat /\ ends # {}
    BY <1>1, <1>2, SMTT(30) DEF First
  <2>2. last \in ends
    BY <2>1, FirstIsLeast
  <2>3. last \in pos .. Len(raw_copy) - 1 /\ raw_copy[last] = "*"
    BY <2>2
  <2> QED
    BY <1>1, <2>3
<1> HIDE DEF ends, last
<1>4. /\ pos \in 1 .. Len(content) + 1 /\ upto(content) \in pos .. Len(content) + 1
      /\ upto(content) <= Len(content) =>
           pos + 1 < upto(content) /\ content[pos].ch = "/" /\ content[pos + 1].ch = "*"
  <2>1. pos <= upto(content) /\ upto(content) <= Len(content) + 1 /\ upto(content) \in Nat
    BY <1>1, <1>2, <1>3 DEF CanErase
  <2>2. ASSUME upto(content) <= Len(content)
        PROVE  pos + 1 < upto(content) /\ pos \in 1 .. Len(content) /\ pos + 1 \in 1 .. Len(content)
    BY <1>1, <1>3, <2>1, <2>2
  <2> QED
    BY <1>1, <2>1, <2>2 DEF Follows
<1>5. InOrder(content')
  BY <1>1, <1>2, <1>4, BlankInOrder
<1>6. /\ rest \in Seq(ParsedChar) /\ Len(rest) \in Nat \ {0}
      /\ Follows(rest, rest_raw) /\ pos \in 1 .. Len(rest) + 1
      /\ Len(rest) = Len(content) - (upto(content) - pos)
  <2> DEFINE m == upto(content)
  <2>1. m \in pos .. Len(content) + 1 /\ pos \in 1 .. Len(content) + 1 /\ rest = Cut(content, pos, m)
    BY <1>4
  <2>2. Follows(rest, rest_raw)
    <3>1. CASE last + 1 = Len(raw_copy)
      <4>1. /\ rest = Cut(content, pos, Len(content) + 1)
            /\ rest_raw = Cut(raw_copy, pos, Len(raw_copy) + 1)
        BY <3>1
      <4> HIDE DEF rest, rest_raw
      <4> QED
        BY <1>1, <2>1, <4>1, EndFollows
    <3>2. CASE last + 1 # Len(raw_copy)
      <4>1. rest_raw = Cut(raw_copy, pos, m)
        BY <3>2
      <4> HIDE DEF rest, rest_raw, m
      <4> QED
        BY <1>1, <2>1, <4>1, CutFollows
    <3> QED
      BY <3>1, <3>2
  <2> HIDE DEF rest, rest_raw, m
  <2>3. rest \in Seq(ParsedChar) /\ Len(rest) = Len(content) - (m - pos)
    BY <1>1, <2>1, CutElements
  <2>4. Len(rest) \in Nat \ {0}
    BY <1>2, <2>3
  <2>5. pos \in 1 .. Len(rest) + 1
    BY <1>1, <2>1, <2>3
  <2> QED
    BY <2>2, <2>3, <2>4, <2>5 DEF m
<1>7. /\ Follows(content', raw_copy')
      /\ Len(raw_copy') = Len(rest_raw) + 1
  <2> HIDE DEF rest, rest_raw
  <2> QED
    BY <1>2, <1>6, BlankFollows
<1>8. pos \in 1 .. Len(raw_copy') + 1
  <2>1. Len(rest_raw) \in Nat /\ Len(rest) <= Len(rest_raw)
    <3> HIDE DEF rest, rest_raw
    <3> QED
      BY <1>6 DEF Follows
  <2> HIDE DEF rest, rest_raw
  <2> QED
    BY <1>6, <1>7, <2>1
<1> QED
  BY <1>1, <1>5, <1>7, <1>8, StillInOrder DEF Stripping, Follows

\* A file that is read but not stripped yet is in order.
TextInv ==
  /\ FileOK
  /\ stage \in {"created", "slurped"} => pos = 1 /\ in_str_lit = FALSE
  /\ stage = "slurped" => InOrder(content) /\ Follows(content, raw)
  /\ Stripping

\* Looking at a character changes no content.
LEMMA ReadsInOrder ==
  ASSUME Stripping, ReadQuote \/ ReadChar
  PROVE  Stripping'
<1> SUFFICES ASSUME stage = "stripping" PROVE Stripping'
  BY DEF ReadQuote, ReadChar, AtChar, Stripping
<1>1. /\ InOrder(content) /\ Follows(content, raw_copy) /\ raw_copy \in Seq(Character)
      /\ pos \in 1 .. Len(raw_copy)
      /\ pos' = pos + 1 /\ raw_copy' = raw_copy /\ content' = content /\ file' = file
  BY DEF ReadQuote, ReadChar, AtChar, Stripping, files, Follows
<1>2. in_str_lit' \in BOOLEAN
  BY DEF ReadQuote, ReadChar, Stripping
<1> QED
  BY <1>1, <1>2, StillInOrder DEF Stripping

\* strip_comments starts with what slurp_file left.
LEMMA StartInOrder ==
  ASSUME TextInv, StartStripping
  PROVE  Stripping'
<1> SUFFICES ASSUME stage' = "stripping" PROVE Stripping'
  BY DEF Stripping
<1>1. /\ InOrder(content) /\ Follows(content, raw) /\ pos = 1 /\ in_str_lit = FALSE
      /\ raw_copy' = raw /\ content' = content /\ file' = file /\ pos' = pos
      /\ in_str_lit' = in_str_lit
  BY DEF StartStripping, TextInv
<1>2. raw \in Seq(Character) /\ pos' \in 1 .. Len(raw_copy') + 1
  BY <1>1 DEF Follows
<1>3. InOrder(content)'
  BY <1>1, StillInOrder
<1>4. Follows(content, raw_copy)' /\ in_str_lit' \in BOOLEAN
  BY <1>1 DEF Follows
<1> QED
  BY <1>2, <1>3, <1>4 DEF Stripping

-----------------------------------------------------------------------------
(***************************************************************************)
(* Splitting at the newlines.                                              *)
(***************************************************************************)

\* The line is what the text has behind d.
Stretch(text, line, d) ==
  /\ line \in Seq(ParsedChar) /\ d \in Nat /\ d + Len(line) <= Len(text)
  /\ \A j \in 1 .. Len(line) : line[j] = text[d + j]

\* A stretch of a text in order is in order.
LEMMA StretchInOrder ==
  ASSUME NEW text, InOrder(text), NEW line, NEW d, Stretch(text, line, d)
  PROVE  InOrder(line)
<1>1. /\ line \in Seq(ParsedChar) /\ DOMAIN line = 1 .. Len(line) /\ Len(line) \in Nat
      /\ d \in Nat /\ d + Len(line) <= Len(text)
      /\ text \in Seq(ParsedChar) /\ DOMAIN text = 1 .. Len(text) /\ Len(text) \in Nat
      /\ \A j \in 1 .. Len(line) : line[j] = text[d + j]
  BY DEF InOrder, Stretch
<1> DEFINE At(j) == d + j
<1>2. \A j \in DOMAIN line : At(j) \in DOMAIN text /\ line[j] = text[At(j)]
  BY <1>1
<1>3. \A j, m \in DOMAIN line : (j < m => At(j) < At(m)) /\ (j <= m => At(j) <= At(m))
  BY <1>1
<1>4. \A j \in 1 .. Len(line) - 1 :
        /\ At(j) \in 1 .. Len(text) - 1
        /\ line[j] = text[At(j)] /\ line[j + 1] = text[At(j) + 1]
  <2> SUFFICES ASSUME NEW j \in 1 .. Len(line) - 1
               PROVE  /\ d + j \in 1 .. Len(text) - 1
                      /\ line[j] = text[d + j] /\ line[j + 1] = text[(d + j) + 1]
    OBVIOUS
  <2>1. j \in 1 .. Len(line) /\ j + 1 \in 1 .. Len(line) /\ d + (j + 1) = (d + j) + 1
    BY <1>1
  <2> QED
    BY <1>1, <2>1
<1> HIDE DEF At
<1>5. IsParsed(line)
  BY <1>2 DEF InOrder, IsParsed
<1>6. Ascending(line)
  BY <1>2, <1>3 DEF InOrder, Ascending
<1>7. NewlinesDivide(line)
  BY <1>2, <1>3 DEF InOrder, NewlinesDivide
<1>8. OpeningsAreReal(line)
  BY <1>4 DEF InOrder, OpeningsAreReal
<1>9. JumpsAreComments(line)
  BY <1>4 DEF InOrder, JumpsAreComments
<1> QED
  BY <1>1, <1>5, <1>6, <1>7, <1>8, <1>9 DEF InOrder

\* The lines that end before k, and the line at k as far as it goes.
SplitState == [lines : Seq(Seq(ParsedChar)), line : Seq(ParsedChar)]
SplitAt(so, c) ==
  IF c.ch = NL THEN [lines |-> Append(so.lines, so.line), line |-> <<>>]
  ELSE [so EXCEPT !.line = Append(@, c)]

\* Split is done character by character.
LEMMA SplitUnfolds ==
  ASSUME NEW text \in Seq(ParsedChar)
  PROVE  \E g \in [0 .. Len(text) -> SplitState] :
           /\ g[0] = [lines |-> <<>>, line |-> <<>>]
           /\ \A k \in 1 .. Len(text) : g[k] = SplitAt(g[k - 1], text[k])
           /\ Split(text) = g[Len(text)].lines
<1> DEFINE N == Len(text)
           S == SplitState
           base == [lines |-> <<>>, line |-> <<>>]
           Step == [k \in 1 .. N |-> [so \in S |-> SplitAt(so, text[k])]]
           Defines(g) == g = [k \in 0 .. N |-> IF k = 0 THEN base
                                ELSE LET so == g[k - 1] IN
                                  IF text[k].ch = NL
                                  THEN [lines |-> Append(so.lines, so.line), line |-> <<>>]
                                  ELSE [so EXCEPT !.line = Append(@, text[k])]]
<1>1. N \in Nat /\ \A k \in 1 .. N : text[k] \in ParsedChar
  OBVIOUS
<1>2. base \in S
  BY DEF SplitState
<1>3. ASSUME NEW so \in S, NEW c \in ParsedChar
      PROVE  SplitAt(so, c) \in S
  <2>1. so.lines \in Seq(Seq(ParsedChar)) /\ so.line \in Seq(ParsedChar)
    BY DEF SplitState
  <2>2. CASE c.ch = NL
    <3>1. Append(so.lines, so.line) \in Seq(Seq(ParsedChar)) /\ <<>> \in Seq(ParsedChar)
      BY <2>1
    <3> QED
      BY <2>2, <3>1 DEF SplitState, SplitAt
  <2>3. CASE c.ch # NL
    <3>1. Append(so.line, c) \in Seq(ParsedChar)
      BY <2>1
    <3>2. SplitAt(so, c) = [lines |-> so.lines, line |-> Append(so.line, c)]
      BY <2>3 DEF SplitState, SplitAt
    <3> QED
      BY <2>1, <3>1, <3>2 DEF SplitState
  <2> QED
    BY <2>2, <2>3
<1>4. Split(text) = (CHOOSE g : Defines(g))[N].lines
  BY DEF Split
<1>5. \A g : Defines(g) <=>
               g = [k \in 0 .. N |-> IF k = 0 THEN base ELSE SplitAt(g[k - 1], text[k])]
  BY DEF SplitAt
<1>6. Step \in [1 .. N -> [S -> S]]
  BY <1>1, <1>3
<1>7. \A k \in 1 .. N : \A so \in S : Step[k][so] = SplitAt(so, text[k])
  OBVIOUS
<1> HIDE DEF Step, S, N, base, Defines
<1>8. PICK g \in [0 .. N -> S] : g[0] = base /\ \A k \in 1 .. N : g[k] = Step[k][g[k - 1]]
  <2>1. IsLoop(Step, N, S)
    BY <1>6 DEF IsLoop
  <2>2. \E g : IsRun(g, Step, N, S, base)
    BY <1>1, <1>2, <2>1, LoopsRun
  <2> QED
    BY <2>2 DEF IsRun
<1>9. \A k \in 1 .. N : k - 1 \in 0 .. N /\ g[k - 1] \in S
  BY <1>1
<1>10. \A k \in 1 .. N : g[k] = SplitAt(g[k - 1], text[k])
  BY <1>7, <1>8, <1>9
<1>11. Defines(g)
  <2>1. \A k \in 0 .. N : k = 0 \/ k \in 1 .. N
    BY <1>1
  <2>2. \A k \in 0 .. N : g[k] = IF k = 0 THEN base ELSE SplitAt(g[k - 1], text[k])
    BY <1>8, <1>10, <2>1
  <2>3. g = [k \in 0 .. N |-> IF k = 0 THEN base ELSE SplitAt(g[k - 1], text[k])]
    BY <2>2
  <2> QED
    BY <1>5, <2>3
<1> DEFINE f == CHOOSE h : Defines(h)
<1>12. Defines(f)
  BY <1>11
<1> HIDE DEF f
<1>13. /\ f[0] = base /\ \A k \in 1 .. N : f[k] = SplitAt(f[k - 1], text[k])
       /\ f = [k \in 0 .. N |-> f[k]]
  <2>1. 0 \in 0 .. N /\ \A k \in 1 .. N : k \in 0 .. N /\ k # 0
    BY <1>1
  <2>2. f = [k \in 0 .. N |-> IF k = 0 THEN base ELSE SplitAt(f[k - 1], text[k])]
    BY <1>5, <1>12
  <2>3. \A k \in 0 .. N : f[k] = IF k = 0 THEN base ELSE SplitAt(f[k - 1], text[k])
    BY <2>2
  <2> QED
    BY <2>1, <2>2, <2>3
<1>14. \A k \in 0 .. N : f[k] \in S
  <2>1. f[0] \in S /\ \A k \in 1 .. N : f[k - 1] \in S => f[k] \in S
    BY <1>1, <1>2, <1>3, <1>13
  <2> QED
    BY ONLY <1>1, <2>1, LoopStays
<1>15. f \in [0 .. N -> S]
  BY <1>13, <1>14
<1> QED
  BY <1>4, <1>13, <1>15 DEF f, N, S, base

IsLine(line) == InOrder(line) /\ \A k \in DOMAIN line : line[k].ch # NL

\* The lines of a text in order: no line has characters of another one's lines.
AreLines(text) ==
  /\ text \in Seq(Seq(ParsedChar))
  /\ \A n \in DOMAIN text : IsLine(text[n])
  /\ \A n, m \in DOMAIN text : n < m =>
       \A a \in DOMAIN text[n], b \in DOMAIN text[m] : text[n][a].line < text[m][b].line

\* What is split of a text up to k: the lines so far come before what a
\* newline still ends.
SplitUpTo(text, so, k) ==
  /\ so \in SplitState
  /\ Len(so.line) <= k /\ Stretch(text, so.line, k - Len(so.line))
  /\ \A j \in DOMAIN so.line : so.line[j].ch # NL
  /\ AreLines(so.lines)
  /\ \A n \in DOMAIN so.lines : \A a \in DOMAIN so.lines[n] :
       \A p \in k - Len(so.line) + 1 .. Len(text) : \A q \in p .. Len(text) :
         text[q].ch = NL => so.lines[n][a].line < text[p].line

\* A line that comes after the others.
LEMMA AppendLine ==
  ASSUME NEW text, AreLines(text), NEW line, IsLine(line),
         \A n \in DOMAIN text : \A a \in DOMAIN text[n], b \in DOMAIN line :
           text[n][a].line < line[b].line
  PROVE  AreLines(Append(text, line))
<1> DEFINE t == Append(text, line)
<1>1. line \in Seq(ParsedChar)
  BY DEF IsLine, InOrder
<1>2. text \in Seq(Seq(ParsedChar)) /\ Len(text) \in Nat /\ DOMAIN text = 1 .. Len(text)
  BY DEF AreLines
<1>3. /\ t \in Seq(Seq(ParsedChar)) /\ Len(t) = Len(text) + 1 /\ DOMAIN t = 1 .. Len(text) + 1
      /\ \A n \in 1 .. Len(text) : t[n] = text[n]
      /\ t[Len(text) + 1] = line
  BY <1>1, <1>2
<1> HIDE DEF t
<1>4. \A n \in DOMAIN t : (n \in DOMAIN text /\ t[n] = text[n]) \/ (n = Len(text) + 1 /\ t[n] = line)
  BY <1>2, <1>3
<1>5. \A n \in DOMAIN t : IsLine(t[n])
  BY <1>4 DEF AreLines
<1>6. ASSUME NEW n \in DOMAIN t, NEW m \in DOMAIN t, n < m,
             NEW a \in DOMAIN t[n], NEW b \in DOMAIN t[m]
      PROVE  t[n][a].line < t[m][b].line
  <2>1. n \in DOMAIN text /\ t[n] = text[n]
    BY <1>2, <1>3, <1>4, <1>6
  <2>2. CASE m \in DOMAIN text /\ t[m] = text[m]
    BY <1>6, <2>1, <2>2 DEF AreLines
  <2>3. CASE m = Len(text) + 1 /\ t[m] = line
    BY <1>6, <2>1, <2>3
  <2> QED
    BY <1>4, <2>2, <2>3
<1> QED
  BY <1>3, <1>5, <1>6 DEF AreLines, t

\* One character more is added to the line it belongs to, or ends it.
LEMMA SplitStep ==
  ASSUME NEW text, InOrder(text), NEW k \in 0 .. Len(text) - 1,
         NEW so, SplitUpTo(text, so, k)
  PROVE  SplitUpTo(text, SplitAt(so, text[k + 1]), k + 1)
<1> DEFINE c == text[k + 1]
           line == so.line
           next == SplitAt(so, c)
           d == k - Len(line)
<1>1. /\ text \in Seq(ParsedChar) /\ Len(text) \in Nat /\ DOMAIN text = 1 .. Len(text)
      /\ k \in Nat /\ k + 1 \in 1 .. Len(text) /\ c \in ParsedChar
  BY DEF InOrder
<1>2. /\ so = [lines |-> so.lines, line |-> line]
      /\ so.lines \in Seq(Seq(ParsedChar)) /\ line \in Seq(ParsedChar)
      /\ Len(line) \in Nat /\ DOMAIN line = 1 .. Len(line)
      /\ d \in Nat /\ Len(line) <= k /\ d + Len(line) = k
      /\ \A j \in 1 .. Len(line) : line[j] = text[d + j] /\ line[j].ch # NL
      /\ Stretch(text, line, d)
  <2>1. /\ so = [lines |-> so.lines, line |-> line]
        /\ so.lines \in Seq(Seq(ParsedChar)) /\ line \in Seq(ParsedChar)
    BY DEF SplitUpTo, SplitState
  <2>2. Len(line) \in Nat /\ DOMAIN line = 1 .. Len(line) /\ Len(line) <= k
    BY <2>1 DEF SplitUpTo
  <2> QED
    BY <1>1, <2>1, <2>2 DEF SplitUpTo, Stretch
<1>3. AreLines(so.lines)
  BY DEF SplitUpTo
<1>4. \A n \in DOMAIN so.lines : \A a \in DOMAIN so.lines[n] :
        \A p \in d + 1 .. Len(text) : \A q \in p .. Len(text) :
          text[q].ch = NL => so.lines[n][a].line < text[p].line
  BY DEF SplitUpTo
<1> HIDE DEF line, d
<1>5. CASE c.ch = NL
  <2> DEFINE e == <<>>
  <2>1. next = [lines |-> Append(so.lines, line), line |-> e]
    BY <1>5 DEF SplitAt, line
  <2>2. /\ next.line = e /\ next.lines = Append(so.lines, line)
        /\ next \in SplitState
    BY <1>2, <2>1 DEF SplitState
  <2>3. e \in Seq(ParsedChar) /\ Len(e) = 0 /\ DOMAIN e = {}
    OBVIOUS
  <2>4. IsLine(line)
    BY <1>2, StretchInOrder DEF IsLine
  <2>5. AreLines(next.lines)
    <3> SUFFICES ASSUME NEW n \in DOMAIN so.lines, NEW a \in DOMAIN so.lines[n],
                        NEW b \in DOMAIN line
                 PROVE  so.lines[n][a].line < line[b].line
      BY <1>3, <2>2, <2>4, AppendLine
    <3>1. d + b \in d + 1 .. Len(text) /\ k + 1 \in d + b .. Len(text) /\ line[b] = text[d + b]
      BY <1>1, <1>2, SMTT(30)
    <3> QED
      BY <1>4, <1>5, <3>1
  <2>6. ASSUME NEW n \in DOMAIN next.lines, NEW a \in DOMAIN next.lines[n],
               NEW p \in k + 2 .. Len(text), NEW q \in p .. Len(text), text[q].ch = NL
        PROVE  next.lines[n][a].line < text[p].line
    <3>1. \/ n \in DOMAIN so.lines /\ next.lines[n] = so.lines[n]
          \/ next.lines[n] = line
      <4>1. /\ n \in DOMAIN Append(so.lines, line)
            /\ Len(so.lines) \in Nat /\ DOMAIN so.lines = 1 .. Len(so.lines)
        BY <1>2, <2>2
      <4>2. n \in 1 .. Len(so.lines) + 1
        BY ONLY <1>2, <4>1
      <4>3. CASE n = Len(so.lines) + 1
        BY <1>2, <2>2, <4>3
      <4>4. CASE n # Len(so.lines) + 1
        <5>1. n \in 1 .. Len(so.lines)
          BY <4>1, <4>2, <4>4
        <5>2. Append(so.lines, line)[n] = so.lines[n]
          BY ONLY <1>2, <5>1
        <5> QED
          BY <2>2, <4>1, <5>1, <5>2
      <4> QED
        BY <4>3, <4>4
    <3>2. CASE n \in DOMAIN so.lines /\ next.lines[n] = so.lines[n]
      <4>1. p \in d + 1 .. Len(text)
        BY <1>1, <1>2, SMTT(30)
      <4> QED
        BY <1>4, <2>6, <3>2, <4>1
    <3>3. CASE next.lines[n] = line
      <4>1. /\ a \in 1 .. Len(line) /\ line[a] = text[d + a]
            /\ d + a \in DOMAIN text /\ d + a <= k + 1
            /\ p \in DOMAIN text /\ q \in DOMAIN text /\ k + 1 < p /\ p <= q
        BY <1>1, <1>2, <3>3, SMTT(30)
      <4>2. text[d + a].line <= c.line
        BY <1>1, <4>1 DEF InOrder, Ascending
      <4>3. c.line < text[p].line
        BY <1>1, <1>5, <2>6, <4>1 DEF InOrder, NewlinesDivide
      <4>4. text[d + a].line \in Nat /\ c.line \in Nat /\ text[p].line \in Nat
        BY <1>1, <4>1, CharFields
      <4> HIDE DEF next, c
      <4>5. next.lines[n][a].line = text[d + a].line
        BY <3>3, <4>1
      <4> QED
        BY <4>2, <4>3, <4>4, <4>5
    <3> QED
      BY <3>1, <3>2, <3>3
  <2> HIDE DEF next, c, e
  <2>7. Stretch(text, e, k + 1)
    BY <1>1, <2>3 DEF Stretch
  <2>8. /\ Len(next.line) = 0 /\ (k + 1) - Len(next.line) = k + 1 /\ (k + 1) + 1 = k + 2
        /\ DOMAIN next.line = {}
    BY <1>1, <2>2, <2>3
  <2> QED
    BY <1>1, <2>2, <2>5, <2>6, <2>7, <2>8, SMTT(30) DEF SplitUpTo, next, c
<1>6. CASE c.ch # NL
  <2> DEFINE l == Append(line, c)
  <2>1. next = [lines |-> so.lines, line |-> l]
    BY <1>2, <1>6 DEF SplitAt, line
  <2>2. next.line = l /\ next.lines = so.lines
    BY <2>1
  <2>3. /\ l \in Seq(ParsedChar) /\ Len(l) = Len(line) + 1 /\ DOMAIN l = 1 .. Len(line) + 1
        /\ \A j \in 1 .. Len(line) : l[j] = line[j]
        /\ l[Len(line) + 1] = c
    BY <1>1, <1>2
  <2>4. next \in SplitState
    BY <1>2, <2>1, <2>3 DEF SplitState
  <2>5. (k + 1) - Len(l) = d /\ Len(l) <= k + 1 /\ d + (Len(line) + 1) = k + 1
    BY <1>1, <1>2, <2>3, SMTT(30)
  <2> HIDE DEF l, next
  <2>6. ASSUME NEW j \in 1 .. Len(line) + 1
        PROVE  l[j] = text[d + j] /\ l[j].ch # NL
    <3>1. CASE j = Len(line) + 1
      BY <1>6, <2>3, <2>5, <3>1
    <3>2. CASE j # Len(line) + 1
      <4>1. j \in 1 .. Len(line)
        BY <1>2, <3>2
      <4> QED
        BY <1>2, <2>3, <4>1
    <3> QED
      BY <3>1, <3>2
  <2>7. Stretch(text, l, d)
    BY <1>1, <1>2, <2>3, <2>5, <2>6 DEF Stretch
  <2> QED
    BY <1>3, <1>4, <2>2, <2>3, <2>4, <2>5, <2>6, <2>7 DEF SplitUpTo, next
<1> QED
  BY <1>5, <1>6

\* A text in order has lines in order.
LEMMA SplitLines ==
  ASSUME NEW text, InOrder(text)
  PROVE  AreLines(Split(text))
<1> DEFINE N == Len(text)
<1>1. text \in Seq(ParsedChar) /\ N \in Nat
  BY DEF InOrder
<1>2. PICK g \in [0 .. N -> SplitState] :
        /\ g[0] = [lines |-> <<>>, line |-> <<>>]
        /\ \A k \in 1 .. N : g[k] = SplitAt(g[k - 1], text[k])
        /\ Split(text) = g[N].lines
  BY <1>1, SplitUnfolds
<1> DEFINE T == {k \in 0 .. N : SplitUpTo(text, g[k], k)}
<1>3. 0 \in T
  <2>1. g[0].lines = <<>> /\ g[0].line = <<>> /\ g[0] \in SplitState
    BY <1>1, <1>2
  <2>2. AreLines(<<>>)
    BY DEF AreLines
  <2>3. Stretch(text, <<>>, 0)
    BY <1>1 DEF Stretch
  <2>4. Len(<<>>) = 0 /\ 0 - 0 = 0 /\ 0 \in 0 .. N
    BY <1>1
  <2> QED
    BY <2>1, <2>2, <2>3, <2>4 DEF SplitUpTo
<1>4. ASSUME NEW k \in 0 .. N - 1, k \in T
      PROVE  k + 1 \in T
  <2>1. k + 1 \in 1 .. N /\ k + 1 \in 0 .. N /\ (k + 1) - 1 = k
    BY <1>1
  <2>2. g[k + 1] = SplitAt(g[k], text[k + 1])
    BY <1>2, <2>1
  <2>3. SplitUpTo(text, g[k], k)
    BY <1>4
  <2>4. SplitUpTo(text, SplitAt(g[k], text[k + 1]), k + 1)
    BY <2>3, SplitStep
  <2> QED
    BY <2>1, <2>2, <2>4
<1>5. N \in T
  <2> HIDE DEF T, N
  <2>1. \A k \in 0 .. N : k \in T
    BY <1>1, <1>3, <1>4, CountingUp
  <2> QED
    BY <1>1, <2>1
<1> QED
  BY <1>2, <1>5 DEF SplitUpTo

-----------------------------------------------------------------------------
(***************************************************************************)
(* Lines and their pragmas.                                                *)
(***************************************************************************)

\* The characters of a line that is not empty.
LEMMA LineCharacters ==
  ASSUME NEW text, AreLines(text), NEW n \in DOMAIN text
  PROVE  /\ text[n] \in Seq(ParsedChar) /\ DOMAIN text[n] = 1 .. Len(text[n]) /\ Len(text[n]) \in Nat
         /\ \A a \in DOMAIN text[n] : text[n][a].line \in Nat /\ text[n][a].ch # NL
         /\ text[n] # <<>> => 1 \in DOMAIN text[n]
<1>1. text[n] \in Seq(ParsedChar) /\ \A a \in DOMAIN text[n] : text[n][a].ch # NL
  BY DEF AreLines, IsLine, InOrder
<1>2. \A a \in DOMAIN text[n] : text[n][a] \in ParsedChar
  BY <1>1
<1>3. \A a \in DOMAIN text[n] : text[n][a].line \in Nat
  BY <1>2, CharFields
<1>4. text[n] # <<>> => 1 \in DOMAIN text[n]
  BY <1>1
<1> QED
  BY <1>1, <1>3, <1>4

\* No line that is not empty stands at two places.
LEMMA LinesDiffer ==
  ASSUME NEW text, AreLines(text), NEW n \in DOMAIN text, NEW m \in DOMAIN text,
         text[n] = text[m], text[n] # <<>>
  PROVE  n = m
<1>1. n \in Nat /\ m \in Nat
  BY DEF AreLines
<1>2. 1 \in DOMAIN text[n] /\ text[n][1].line \in Nat
  BY LineCharacters
<1>3. ~(n < m) /\ ~(m < n)
  <2>1. n < m => text[n][1].line < text[m][1].line
    BY <1>2 DEF AreLines
  <2>2. m < n => text[m][1].line < text[n][1].line
    BY <1>2 DEF AreLines
  <2> QED
    BY <1>2, <2>1, <2>2
<1> QED
  BY <1>1, <1>3

\* What is left when a line is taken.
LEMMA TakeLine ==
  ASSUME NEW text, AreLines(text), NEW k \in DOMAIN text
  PROVE  LET t == RemoveAt(text, k) IN
         /\ AreLines(t) /\ Len(t) = Len(text) - 1 /\ DOMAIN t = 1 .. Len(text) - 1
         /\ \A n \in DOMAIN t : t[n] = IF n < k THEN text[n] ELSE text[n + 1]
         /\ ToSet(t) \subseteq ToSet(text) /\ ToSet(text) \subseteq ToSet(t) \cup {text[k]}
         /\ text[k] # <<>> => text[k] \notin ToSet(t)
<1> DEFINE t == RemoveAt(text, k)
           At(n) == IF n < k THEN n ELSE n + 1
<1>1. text \in Seq(Seq(ParsedChar)) /\ Len(text) \in Nat /\ DOMAIN text = 1 .. Len(text) /\ k \in 1 .. Len(text)
  BY DEF AreLines
<1>2. /\ t \in Seq(Seq(ParsedChar)) /\ Len(t) = Len(text) - 1
      /\ \A n \in 1 .. Len(text) - 1 : t[n] = IF n < k THEN text[n] ELSE text[n + 1]
  <2>1. t = RemoveAt(text, k)
    OBVIOUS
  <2> HIDE DEF t
  <2> QED
    BY <1>1, <2>1, RemoveElements
<1> HIDE DEF t
<1>3. DOMAIN t = 1 .. Len(text) - 1
  BY <1>1, <1>2
<1>4. \A n \in DOMAIN t : n \in Nat /\ At(n) \in DOMAIN text /\ At(n) # k /\ t[n] = text[At(n)]
  <2>1. \A n \in 1 .. Len(text) - 1 : n \in Nat /\ At(n) \in 1 .. Len(text) /\ At(n) # k
    BY <1>1
  <2> QED
    BY <1>1, <1>2, <1>3, <2>1
<1>5. \A n, m \in DOMAIN t : n < m => At(n) < At(m)
  BY <1>1, <1>4
<1>6. AreLines(t)
  <2> HIDE DEF At
  <2> QED
    BY <1>2, <1>4, <1>5 DEF AreLines
<1>7. ToSet(t) \subseteq ToSet(text)
  BY <1>4 DEF ToSet
<1>8. ASSUME NEW n \in DOMAIN text, n # k
      PROVE  text[n] \in ToSet(t)
  <2> DEFINE m == IF n < k THEN n ELSE n - 1
  <2>1. m \in DOMAIN t /\ At(m) = n
    BY <1>1, <1>3, <1>8
  <2> QED
    BY <1>4, <2>1 DEF ToSet
<1>9. ToSet(text) \subseteq ToSet(t) \cup {text[k]}
  BY <1>8 DEF ToSet
<1>10. ASSUME text[k] # <<>>, text[k] \in ToSet(t)
       PROVE  FALSE
  <2>1. PICK n \in DOMAIN t : t[n] = text[k]
    BY <1>10 DEF ToSet
  <2>2. At(n) = k
    BY <1>4, <1>10, <2>1, LinesDiffer
  <2> QED
    BY <1>4, <2>2
<1> QED
  BY <1>2, <1>3, <1>6, <1>7, <1>9, <1>10 DEF t

\* A pragma is a character of its line, no blank, and an empty line has none.
LEMMA PragmasStand ==
  ASSUME NEW line, PragmaOf(line) # "none"
  PROVE  /\ \E k \in DOMAIN line : line[k].ch = PragmaOf(line) /\ line[k].ch # BlankCh
         /\ line # <<>>
<1>1. \E k \in DOMAIN line : Marks(line) = {k}
  BY DEF PragmaOf
<1> DEFINE k == CHOOSE j \in DOMAIN line : Marks(line) = {j}
<1>2. k \in DOMAIN line /\ Marks(line) = {k}
  BY <1>1
<1>3. PragmaOf(line) = line[k].ch
  BY <1>1 DEF PragmaOf
<1> HIDE DEF k
<1>4. line[k].ch # BlankCh
  <2>1. k \in Marks(line)
    BY <1>2
  <2> QED
    BY <2>1 DEF Marks
<1>5. line # <<>>
  BY <1>2
<1> QED
  BY <1>2, <1>3, <1>4, <1>5

\* A rejected import is not taken for one.
LEMMA BadImportsHaveNoPragma ==
  ASSUME NEW line, BadImport(line)
  PROVE  PragmaOf(line) = "none"
<1> SUFFICES ASSUME NEW k, Marks(line) = {k}
             PROVE  FALSE
  BY DEF PragmaOf
<1>1. Cardinality({k}) = 1
  BY FS_Singleton
<1> QED
  BY <1>1 DEF BadImport

\* The pragma ch stands in the line n of the file, or a block comment opens there.
Stands(n, ch) == n \in DOMAIN file.text /\ (ch \in ToSet(file.text[n]) \/ Opens(n))

\* What a line holds is in the line of the file where it begins, or a comment
\* brought it there.
LEMMA LinesAreReal ==
  ASSUME NEW line, IsLine(line), NEW k \in DOMAIN line, line[k].ch # BlankCh
  PROVE  Stands(line[1].line, line[k].ch)
<1>1. /\ line \in Seq(ParsedChar) /\ Len(line) \in Nat /\ DOMAIN line = 1 .. Len(line)
      /\ \A j \in DOMAIN line : line[j].ch # NL
      /\ IsParsed(line) /\ JumpsAreComments(line)
  BY DEF IsLine, InOrder
<1>2. k \in 1 .. Len(line) /\ k \in Nat /\ line[1].line \in DOMAIN file.text
  BY <1>1 DEF IsParsed
<1>3. CASE line[k].line = line[1].line
  <2>1. line[k].ch \in {BlankCh, NL} \cup ToSet(file.text[line[1].line])
    BY <1>1, <1>3 DEF IsParsed
  <2> QED
    BY <1>1, <1>2, <2>1 DEF Stands
<1>4. CASE line[k].line # line[1].line
  <2>1. PICK n \in 0 .. (k - 1) - 1 :
          line[n + 1].line = line[1].line /\ line[(n + 1) + 1].line # line[1].line
    <3> DEFINE T == {n \in 0 .. k - 1 : line[n + 1].line = line[1].line}
    <3>1. SUFFICES ASSUME \A n \in 0 .. (k - 1) - 1 : n \in T => n + 1 \in T
                   PROVE  FALSE
      BY <1>2, SMTT(30)
    <3>2. 0 \in T /\ k - 1 \in Nat
      BY <1>2
    <3>3. k - 1 \notin T
      BY <1>2, <1>4
    <3> HIDE DEF T
    <3>4. \A n \in 0 .. k - 1 : n \in T
      BY <3>1, <3>2, CountingUp
    <3> QED
      BY <3>2, <3>3, <3>4
  <2>2. n + 1 \in 1 .. Len(line) - 1 /\ n + 1 \in DOMAIN line /\ (n + 1) + 1 \in DOMAIN line
    BY <1>1, <1>2
  <2> QED
    BY <1>1, <1>2, <2>1, <2>2 DEF JumpsAreComments, Stands
<1> QED
  BY <1>3, <1>4

\* What is joined of lines of the file is from the file.
LEMMA JoinedIsParsed ==
  ASSUME FileOK, NEW text, AreLines(text)
  PROVE  IsParsed(Joined(text))
<1> DEFINE N == Len(text)
           S == {t \in Seq(ParsedChar) : IsParsed(t)}
           Line1(t) == IF t = <<>> THEN 1 ELSE Last(t).line
           Add(t, n) == Append(t \o text[n], [line |-> Line1(t \o text[n]), ch |-> NL])
           Step == [n \in 1 .. N |-> [t \in S |-> Add(t, n)]]
           Defines(g) == g = [n \in 0 .. N |-> IF n = 0 THEN <<>>
                                ELSE LET both == g[n - 1] \o text[n] IN
                                  Append(both, [line |-> IF both = <<>> THEN 1 ELSE Last(both).line,
                                                ch |-> NL])]
<1>1. /\ N \in Nat /\ DOMAIN text = 1 .. N
      /\ \A n \in 1 .. N : text[n] \in Seq(ParsedChar) /\ IsParsed(text[n])
  BY DEF AreLines, IsLine, InOrder
<1>2. <<>> \in S
  BY DEF IsParsed
<1>3. ASSUME NEW t \in S, NEW n \in 1 .. N
      PROVE  Add(t, n) \in S
  <2> DEFINE both == t \o text[n]
             c == [line |-> Line1(both), ch |-> NL]
  <2>1. t \in Seq(ParsedChar) /\ IsParsed(t) /\ text[n] \in Seq(ParsedChar) /\ IsParsed(text[n])
    BY <1>1
  <2>2. /\ both \in Seq(ParsedChar) /\ Len(both) = Len(t) + Len(text[n])
        /\ \A k \in 1 .. Len(t) + Len(text[n]) :
             both[k] = IF k <= Len(t) THEN t[k] ELSE text[n][k - Len(t)]
    BY <2>1, ConcatProperties
  <2>3. \A k \in DOMAIN both :
          \/ k \in DOMAIN t /\ both[k] = t[k]
          \/ k - Len(t) \in DOMAIN text[n] /\ both[k] = text[n][k - Len(t)]
    <3> HIDE DEF both
    <3>1. \A k \in DOMAIN both : k \in 1 .. Len(t) + Len(text[n])
      BY <2>2
    <3>2. /\ Len(t) \in Nat /\ DOMAIN t = 1 .. Len(t)
          /\ Len(text[n]) \in Nat /\ DOMAIN text[n] = 1 .. Len(text[n])
      BY <2>1
    <3>3. \A k \in 1 .. Len(t) + Len(text[n]) :
            IF k <= Len(t) THEN k \in 1 .. Len(t) ELSE k - Len(t) \in 1 .. Len(text[n])
      BY <3>2
    <3> QED
      BY <2>2, <3>1, <3>2, <3>3
  <2> HIDE DEF both
  <2>4. IsParsed(both)
    BY <2>1, <2>3 DEF IsParsed
  <2>5. Line1(both) \in DOMAIN file.text /\ Line1(both) \in Nat
    <3>1. CASE both = <<>>
      BY <3>1 DEF FileOK
    <3>2. CASE both # <<>>
      <4>1. Last(both) = both[Len(both)] /\ Len(both) \in DOMAIN both
        BY <2>2, <3>2 DEF Last
      <4>2. Last(both).line \in DOMAIN file.text
        BY <2>4, <4>1 DEF IsParsed
      <4>3. DOMAIN file.text \subseteq Nat
        BY DEF FileOK
      <4> QED
        BY <3>2, <4>2, <4>3
    <3> QED
      BY <3>1, <3>2
  <2> HIDE DEF Line1
  <2>6. c \in ParsedChar /\ c.line = Line1(both) /\ c.ch = NL
    <3>1. NL \in Character
      BY DEF Character
    <3> QED
      BY <2>5, <3>1, MadeChar
  <2> HIDE DEF c
  <2>7. /\ Append(both, c) \in Seq(ParsedChar)
        /\ \A k \in DOMAIN Append(both, c) :
             (k \in DOMAIN both /\ Append(both, c)[k] = both[k]) \/ Append(both, c)[k] = c
    BY <2>2, <2>6
  <2>8. IsParsed(Append(both, c))
    BY <2>4, <2>5, <2>6, <2>7 DEF IsParsed
  <2> QED
    BY <2>7, <2>8 DEF both, c
<1>4. Joined(text) = (CHOOSE g : Defines(g))[N]
  BY DEF Joined
<1>5. \A g : Defines(g) <=>
               g = [n \in 0 .. N |-> IF n = 0 THEN <<>> ELSE Add(g[n - 1], n)]
  OBVIOUS
<1>6. Step \in [1 .. N -> [S -> S]]
  BY <1>3
<1>7. \A n \in 1 .. N : \A t \in S : Step[n][t] = Add(t, n)
  OBVIOUS
<1> HIDE DEF Step, S, N, Add, Defines
<1>8. PICK g \in [0 .. N -> S] : g[0] = <<>> /\ \A n \in 1 .. N : g[n] = Step[n][g[n - 1]]
  <2>1. IsLoop(Step, N, S)
    BY <1>6 DEF IsLoop
  <2>2. \E g : IsRun(g, Step, N, S, <<>>)
    BY <1>1, <1>2, <2>1, LoopsRun
  <2> QED
    BY <2>2 DEF IsRun
<1>9. \A n \in 1 .. N : n - 1 \in 0 .. N /\ g[n - 1] \in S
  BY <1>1
<1>10. \A n \in 1 .. N : g[n] = Add(g[n - 1], n)
  BY <1>7, <1>8, <1>9
<1>11. Defines(g)
  <2>1. \A n \in 0 .. N : n = 0 \/ n \in 1 .. N
    BY <1>1
  <2>2. \A n \in 0 .. N : g[n] = IF n = 0 THEN <<>> ELSE Add(g[n - 1], n)
    BY <1>8, <1>10, <2>1
  <2>3. g = [n \in 0 .. N |-> IF n = 0 THEN <<>> ELSE Add(g[n - 1], n)]
    BY <2>2
  <2> QED
    BY <1>5, <2>3
<1> DEFINE f == CHOOSE h : Defines(h)
<1>12. Defines(f)
  BY <1>11
<1> HIDE DEF f
<1>13. f[0] = <<>> /\ \A n \in 1 .. N : f[n] = Add(f[n - 1], n)
  <2>1. 0 \in 0 .. N /\ \A n \in 1 .. N : n \in 0 .. N /\ n # 0
    BY <1>1
  <2>2. f = [n \in 0 .. N |-> IF n = 0 THEN <<>> ELSE Add(f[n - 1], n)]
    BY <1>5, <1>12
  <2>3. \A n \in 0 .. N : f[n] = IF n = 0 THEN <<>> ELSE Add(f[n - 1], n)
    BY <2>2
  <2> QED
    BY <2>1, <2>3
<1>14. \A n \in 0 .. N : f[n] \in S
  <2>1. f[0] \in S /\ \A n \in 1 .. N : f[n - 1] \in S => f[n] \in S
    BY <1>2, <1>3, <1>13
  <2> QED
    BY ONLY <1>1, <2>1, LoopStays
<1>15. f[N] \in S
  BY <1>1, <1>14
<1> QED
  BY <1>4, <1>15 DEF f, S, N

-----------------------------------------------------------------------------
(***************************************************************************)
(* The inductive invariant of the searches.                                *)
(***************************************************************************)

Block == [name : {"none", "A", "B"}, start : Nat, end : Nat, body : Seq(Seq(ParsedChar))]

Types ==
  /\ ParserTypeOK
  /\ AreLines(lines) /\ AreLines(stripped)
  /\ imported \in Seq(Seq(ParsedChar)) /\ blocks \in Seq(Block) /\ block \in Block
  /\ stage = "stripped" => Len(lines) <= Len(stripped)

Active == {"running", "empty", "suspended"}

\* One coroutine runs at a time, and none before the comments are stripped.
Turns ==
  /\ stage # "stripped" =>
       /\ state = [c \in Coroutines |-> "created"]
       /\ running = "caller" /\ imported = <<>>
  /\ \A c \in Coroutines : state[c] \in {"running", "empty"} <=> running = c
  /\ \A c \in Coroutines : state[c] = "created" => i[c] = 1
  /\ state[SSD] = "created" => blocks = <<>> /\ ~in_supdef_body
  /\ ~mixed => \A c, d \in Coroutines : c # d /\ state[c] \in Active => state[d] \notin Active

\* A block is where its pragmas are.
StartsRight(b) == \E p \in DOMAIN BeginName : BeginName[p] = b.name /\ Stands(b.start, p)
EndsRight(b) == b.start < b.end /\ \E p \in DOMAIN EndName : EndName[p] = b.name /\ Stands(b.end, p)

\* What search_super_defines has not looked at yet.
Ahead == {n \in DOMAIN lines : n >= i[SSD]}
IsBeforeAhead(place) == \A n \in Ahead : \A a \in DOMAIN lines[n] : place < lines[n][a].line

Located ==
  /\ \A n \in DOMAIN blocks :
       /\ StartsRight(blocks[n]) /\ EndsRight(blocks[n]) /\ IsBeforeAhead(blocks[n].end)
       /\ n > 1 => blocks[n - 1].end < blocks[n].start
  /\ in_supdef_body =>
       /\ StartsRight(block) /\ IsBeforeAhead(block.start)
       /\ \A n \in DOMAIN blocks : blocks[n].end < block.start

\* The bodies a line can be in: those of the blocks, and the one being written.
InBody(n, line) ==
  \/ n \in DOMAIN blocks /\ line \in ToSet(blocks[n].body)
  \/ n = Len(blocks) + 1 /\ in_supdef_body /\ line \in ToSet(block.body)
BodyNumbers == 1 .. Len(blocks) + 1

Kept ==
  /\ \A n \in BodyNumbers : \A line \in ToSet(stripped) : InBody(n, line) =>
       /\ line # <<>> /\ line \notin ToSet(lines)
       /\ \A m \in BodyNumbers : InBody(m, line) => m = n
  /\ stage = "stripped" =>
       \A line \in ToSet(stripped) : IsText(line) /\ PragmaOf(line) # "import" =>
         line \in ToSet(lines) \/ \E n \in BodyNumbers : InBody(n, line)

\* Of the lines that were stripped, and of the pairs of pragmas in them.
Begins(n) == PragmaOf(stripped[n]) \in DOMAIN BeginName
Ends(n) == PragmaOf(stripped[n]) \in DOMAIN EndName
NoneBetween(b, e) == \A n \in b + 1 .. e - 1 : ~Begins(n) /\ ~Ends(n)
PairsUpTo(q) ==
  {p \in (DOMAIN stripped) \X (DOMAIN stripped) :
    p[1] < p[2] /\ Begins(p[1]) /\ Ends(p[2]) /\ NoneBetween(p[1], p[2]) /\ p[2] <= q}
Skipped == {<<>>} \cup ToSet(imported)
TextBetween(b, e) == {stripped[n] : n \in b + 1 .. e - 1} \ Skipped
IsPair(p, b) ==
  /\ BeginName[PragmaOf(stripped[p[1]])] = b.name
  /\ EndName[PragmaOf(stripped[p[2]])] = b.name
  /\ TextBetween(p[1], p[2]) \subseteq ToSet(b.body)

\* The blocks of the pairs up to the line q.
BlocksUpTo(q) ==
  /\ Len(blocks) = Cardinality(PairsUpTo(q))
  /\ \A n \in DOMAIN blocks : \E p \in PairsUpTo(q) : IsPair(p, blocks[n])

\* search_super_defines has read the stripped lines up to q.
HasRead(q) ==
  /\ {lines[n] : n \in Ahead} \ {<<>>} = {stripped[n] : n \in q + 1 .. Len(stripped)} \ Skipped
  /\ BlocksUpTo(q)
  /\ IF in_supdef_body
     THEN \E b \in 1 .. q :
            /\ Begins(b) /\ BeginName[PragmaOf(stripped[b])] = block.name
            /\ NoneBetween(b, q + 1)
            /\ TextBetween(b, q + 1) \subseteq ToSet(block.body)
     ELSE \A b \in 1 .. q : Begins(b) => ~NoneBetween(b, q + 1)

NoImport(line) == PragmaOf(line) # "import"

Scanned ==
  /\ \A n \in DOMAIN imported : ~NoImport(imported[n])
  /\ stage = "stripped" /\ (state[SSD] = "created" \/ (~mixed /\ state[SSD] \in {"running", "suspended"})) =>
       \E q \in 0 .. Len(stripped) : HasRead(q)
  /\ ~mixed /\ state[SSD] = "null" => BlocksUpTo(Len(stripped))
  /\ ~mixed /\ state[SI] \in {"running", "suspended"} =>
       \A n \in DOMAIN lines : n < i[SI] => NoImport(lines[n])
  /\ ~mixed /\ state[SI] = "null" => \A n \in DOMAIN lines : NoImport(lines[n])

ParserInv == TextInv /\ Types /\ Turns /\ Located /\ Kept /\ Scanned

-----------------------------------------------------------------------------
(***************************************************************************)
(* The steps, and what each of them keeps.                                 *)
(***************************************************************************)

StripStep == ReadQuote \/ ReadChar \/ StripLine \/ StripBlock
SearchStep ==
  \/ \E c \in Coroutines : ResumeSearch(c) \/ ReturnEmpty(c) \/ End(c)
  \/ FindImport \/ RejectImport \/ PassLine
  \/ BeginBlock \/ EndBlock \/ BodyLine \/ OutsideLine
Step == SlurpFile \/ StartStripping \/ StripStep \/ EndStripping \/ SearchStep

\* The steps of the parser, as they are grouped here.
LEMMA EverySearchStep ==
  ASSUME ParserNext
  PROVE  Step
  BY DEF ParserNext, Step, StripStep, SearchStep

\* A file that is not read yet is in order.
LEMMA InitialText ==
  ASSUME ParserInit
  PROVE  TextInv
<1>1. file.text \in UNION {[1 .. n -> Lines] : n \in 1 .. MaxLines} /\ file.ended \in BOOLEAN
  BY DEF ParserInit
<1>2. PICK n \in 1 .. MaxLines : file.text \in [1 .. n -> Lines]
  BY <1>1
<1>3. n \in Nat /\ n >= 1
  BY LinesAssumption
<1>4. file.text \in Seq(Lines) /\ Len(file.text) = n
  BY <1>2, <1>3
<1> QED
  BY <1>1, <1>3, <1>4 DEF ParserInit, TextInv, FileOK, Stripping

\* The searches start when the comments are stripped.
LEMMA SearchesAreLate ==
  ASSUME Turns, SearchStep
  PROVE  stage = "stripped" /\ UNCHANGED <<files, loop_vars>>
<1>1. \A c \in Coroutines : state[c] # "created" \/ running = c => stage = "stripped"
  BY DEF Turns, Coroutines
<1>2. ASSUME NEW c \in Coroutines, ResumeSearch(c) \/ ReturnEmpty(c) \/ End(c)
      PROVE  stage = "stripped" /\ UNCHANGED <<files, loop_vars>>
  BY <1>1, <1>2 DEF ResumeSearch, ReturnEmpty, End, Running
<1>3. SI \in Coroutines /\ SSD \in Coroutines
  BY DEF SI, SSD, Coroutines
<1>4. CASE FindImport \/ RejectImport \/ PassLine
  BY <1>1, <1>3, <1>4 DEF FindImport, RejectImport, PassLine, AtLine, Running
<1>5. CASE BeginBlock \/ EndBlock \/ BodyLine \/ OutsideLine
  BY <1>1, <1>3, <1>5 DEF BeginBlock, EndBlock, BodyLine, OutsideLine, AtLine, Running
<1> QED
  BY <1>2, <1>4, <1>5 DEF SearchStep

\* The text is in order as long as it is stripped.
LEMMA TextStep ==
  ASSUME TextInv, Turns, Step
  PROVE  TextInv'
<1>1. file' = file
  <2>1. SearchStep => file' = file
    BY SearchesAreLate DEF files
  <2> QED
    BY <2>1 DEF Step, SlurpFile, StartStripping, StripStep, EndStripping, ReadQuote, ReadChar,
                StripLine, StripBlock, files
<1>2. FileOK'
  BY <1>1 DEF TextInv, FileOK
<1>3. CASE SlurpFile
  <2>1. InOrder(content') /\ Follows(content', raw') /\ stage' = "slurped" /\ pos' = 1 /\ in_str_lit' = FALSE
    BY <1>3, SlurpedInOrder DEF TextInv, SlurpFile, loop_vars
  <2>2. InOrder(content)' /\ Follows(content, raw)'
    BY <1>1, <2>1, StillInOrder DEF Follows
  <2> QED
    BY <1>2, <2>1, <2>2 DEF TextInv, Stripping
<1>4. CASE StartStripping
  <2>1. Stripping' /\ stage' \notin {"created", "slurped"}
    BY <1>4, StartInOrder DEF StartStripping
  <2> QED
    BY <1>2, <2>1 DEF TextInv
<1>5. CASE StripStep
  <2>1. Stripping'
    BY <1>5, ReadsInOrder, StripLineInOrder, StripBlockInOrder DEF StripStep, TextInv
  <2>2. stage = "stripping"
    BY <1>5 DEF StripStep, ReadQuote, ReadChar, StripLine, StripBlock, AtChar, AtComment
  <2>3. stage' \notin {"created", "slurped"}
    <3>1. CASE ReadQuote \/ ReadChar
      BY <2>2, <3>1 DEF ReadQuote, ReadChar, files
    <3>2. CASE StripLine
      BY <2>2, <3>2 DEF StripLine
    <3>3. CASE StripBlock
      BY <2>2, <3>3 DEF StripBlock
    <3> QED
      BY <1>5, <3>1, <3>2, <3>3 DEF StripStep
  <2> QED
    BY <1>2, <2>1, <2>3 DEF TextInv
<1>6. CASE EndStripping
  BY <1>2, <1>6 DEF EndStripping, TextInv, Stripping
<1>7. CASE SearchStep
  BY <1>2, <1>7, SearchesAreLate DEF TextInv, Stripping, files
<1> QED
  BY <1>3, <1>4, <1>5, <1>6, <1>7 DEF Step

\* What is a line of the file stays one.
LEMMA StillLines ==
  ASSUME file' = file
  PROVE  /\ AreLines(lines') => AreLines(lines)'
         /\ AreLines(stripped') => AreLines(stripped)'
         /\ IsParsed(content') => IsParsed(content)'
<1>1. AreLines(lines') => AreLines(lines)'
  BY DEF AreLines, IsLine, InOrder, IsParsed, Ascending, NewlinesDivide, OpeningsAreReal,
         JumpsAreComments, Opens
<1>2. AreLines(stripped') => AreLines(stripped)'
  BY DEF AreLines, IsLine, InOrder, IsParsed, Ascending, NewlinesDivide, OpeningsAreReal,
         JumpsAreComments, Opens
<1>3. IsParsed(content') => IsParsed(content)'
  BY DEF IsParsed
<1> QED
  BY <1>1, <1>2, <1>3

\* The coroutine c runs on, or it stops.
Moves(c) ==
  /\ running = c /\ state[c] \in {"running", "empty"} /\ mixed' = mixed
  /\ \/ UNCHANGED <<running, state>>
     \/ /\ running' = "caller"
        /\ \E s \in {"suspended", "null", "error"} : state' = [state EXCEPT ![c] = s]
  /\ \/ i' = i
     \/ state[c] = "running" /\ i[c] <= Len(lines) /\ i' = [i EXCEPT ![c] = @ + 1]

\* Each step of a search is that of one coroutine.
LEMMA SearchesMove ==
  ASSUME Turns, SearchStep
  PROVE  \E c \in Coroutines : ResumeSearch(c) \/ Moves(c)
<1>1. SI \in Coroutines /\ SSD \in Coroutines
  BY DEF SI, SSD, Coroutines
<1>2. ASSUME NEW c \in Coroutines, ReturnEmpty(c)
      PROVE  Moves(c)
  BY <1>2 DEF ReturnEmpty, Moves, Turns
<1>3. ASSUME NEW c \in Coroutines, End(c)
      PROVE  Moves(c)
  BY <1>3 DEF End, Moves, Running
<1>4. FindImport => Moves(SI)
  BY DEF FindImport, Moves, AtLine, Running, Takes, Yields
<1>5. RejectImport => Moves(SI)
  BY DEF RejectImport, Moves, AtLine, Running, Leaves, Yields
<1>6. PassLine => Moves(SI)
  BY DEF PassLine, Moves, AtLine, Running, Leaves, KeepsRunning
<1>7. BeginBlock => Moves(SSD)
  BY DEF BeginBlock, Moves, AtLine, Running, Takes, EndsInError, KeepsRunning
<1>8. EndBlock => Moves(SSD)
  BY DEF EndBlock, Moves, AtLine, Running, Takes, Yields, EndsInError
<1>9. BodyLine => Moves(SSD)
  BY DEF BodyLine, Moves, AtLine, Running, Takes, KeepsRunning
<1>10. OutsideLine => Moves(SSD)
  BY DEF OutsideLine, Moves, AtLine, Running, Leaves, KeepsRunning
<1> QED
  BY <1>1, <1>2, <1>3, <1>4, <1>5, <1>6, <1>7, <1>8, <1>9, <1>10 DEF SearchStep

\* Which coroutine changes what.
LEMMA SearchesChange ==
  ASSUME SearchStep
  PROVE  /\ UNCHANGED <<blocks, in_supdef_body, block>> \/ Running(SSD)
         /\ imported' = imported \/ Running(SI)
         /\ \/ lines' = lines
            \/ \E c \in Coroutines : AtLine(c) /\ lines' = RemoveAt(lines, i[c]) /\ i' = i
<1>1. SI \in Coroutines /\ SSD \in Coroutines
  BY DEF SI, SSD, Coroutines
<1>2. ASSUME NEW c \in Coroutines, ResumeSearch(c) \/ ReturnEmpty(c) \/ End(c)
      PROVE  UNCHANGED <<blocks, in_supdef_body, block, imported, lines>>
  BY <1>2 DEF ResumeSearch, ReturnEmpty, End, found
<1>3. CASE FindImport
  BY <1>1, <1>3 DEF FindImport, AtLine, Takes
<1>4. CASE RejectImport \/ PassLine
  BY <1>4 DEF RejectImport, PassLine, Leaves, found
<1>5. CASE BeginBlock \/ EndBlock \/ BodyLine \/ OutsideLine
  <2>1. AtLine(SSD) /\ imported' = imported
    BY <1>5 DEF BeginBlock, EndBlock, BodyLine, OutsideLine, found
  <2>2. lines' = lines \/ (lines' = RemoveAt(lines, i[SSD]) /\ i' = i)
    BY <1>5 DEF BeginBlock, EndBlock, BodyLine, OutsideLine, Takes, Leaves
  <2> QED
    BY <1>1, <2>1, <2>2 DEF AtLine
<1> QED
  BY <1>2, <1>3, <1>4, <1>5 DEF SearchStep

\* What happens before the searches leaves them alone.
LEMMA TextComesFirst ==
  ASSUME Step, ~SearchStep
  PROVE  stage # "stripped" /\ file' = file /\ UNCHANGED <<searches, found>>
<1>1. CASE SlurpFile
  BY <1>1 DEF SlurpFile
<1>2. CASE StartStripping
  BY <1>2 DEF StartStripping
<1>3. CASE ReadQuote \/ ReadChar
  BY <1>3 DEF ReadQuote, ReadChar, AtChar, files
<1>4. CASE StripLine
  BY <1>4 DEF StripLine, AtComment, AtChar
<1>5. CASE StripBlock
  BY <1>5 DEF StripBlock, AtComment, AtChar
<1>6. CASE EndStripping
  BY <1>6 DEF EndStripping
<1> QED
  BY <1>1, <1>2, <1>3, <1>4, <1>5, <1>6 DEF Step, StripStep

\* Every step keeps the coroutines apart.
LEMMA TurnsStep ==
  ASSUME Types, Turns, Step
  PROVE  Turns'
<1>1. CASE ~SearchStep
  BY <1>1, TextComesFirst DEF Turns, searches, found
<1>2. CASE SearchStep
  <2>1. stage' = "stripped"
    BY <1>2, SearchesAreLate DEF files
  <2>2. PICK c \in Coroutines : ResumeSearch(c) \/ Moves(c)
    BY <1>2, SearchesMove
  <2>3. /\ state \in [Coroutines -> {"created", "empty", "running", "suspended", "null", "error"}]
        /\ DOMAIN i = Coroutines
    BY DEF Types, ParserTypeOK
  <2>4. UNCHANGED <<blocks, in_supdef_body, block>> \/ Running(SSD)
    BY <1>2, SearchesChange
  <2>5. SSD \in Coroutines /\ "caller" \notin Coroutines
    BY DEF SSD, Coroutines
  <2>6. CASE ResumeSearch(c)
    <3>1. /\ running = "caller" /\ running' = c /\ i' = i
          /\ state'[c] \in {"empty", "running"}
          /\ \A d \in Coroutines \ {c} : state'[d] = state[d]
          /\ ~mixed' => ~mixed /\ \A d \in Coroutines \ {c} : state[d] # "suspended"
          /\ UNCHANGED <<blocks, in_supdef_body>>
      BY <2>3, <2>6 DEF ResumeSearch, found
    <3>2. \A d \in Coroutines : state'[d] \in {"running", "empty"} <=> running' = d
      BY <2>5, <3>1 DEF Turns
    <3>3. \A d \in Coroutines : state'[d] = "created" => state[d] = "created"
      BY <3>1
    <3>4. ~mixed' => \A d, e \in Coroutines : d # e /\ state'[d] \in Active => state'[e] \notin Active
      <4> SUFFICES ASSUME ~mixed'
                   PROVE  \A d \in Coroutines \ {c} : state'[d] \notin Active
        OBVIOUS
      <4> QED
        BY <2>5, <3>1 DEF Turns, Active
    <3> QED
      BY <2>1, <2>5, <3>1, <3>2, <3>3, <3>4 DEF Turns
  <2>7. CASE Moves(c)
    <3>1. /\ running = c /\ state[c] \in {"running", "empty"} /\ mixed' = mixed
          /\ \A d \in Coroutines \ {c} : state'[d] = state[d]
          /\ \/ state'[c] = state[c] /\ running' = running
             \/ state'[c] \in {"suspended", "null", "error"} /\ running' = "caller"
          /\ \A d \in Coroutines \ {c} : i'[d] = i[d]
      <4>1. running = c /\ state[c] \in {"running", "empty"} /\ mixed' = mixed
        BY <2>7 DEF Moves
      <4>2. \A d \in Coroutines \ {c} : i'[d] = i[d]
        <5>1. i' = i \/ i' = [i EXCEPT ![c] = @ + 1]
          BY <2>7 DEF Moves
        <5> QED
          BY <2>3, <5>1
      <4>3. /\ \A d \in Coroutines \ {c} : state'[d] = state[d]
            /\ \/ state'[c] = state[c] /\ running' = running
               \/ state'[c] \in {"suspended", "null", "error"} /\ running' = "caller"
        <5>1. \/ state' = state /\ running' = running
              \/ running' = "caller" /\ \E s \in {"suspended", "null", "error"} :
                   state' = [state EXCEPT ![c] = s]
          BY <2>7 DEF Moves
        <5> QED
          BY <2>3, <5>1
      <4> QED
        BY <4>1, <4>2, <4>3
    <3>2. \A d \in Coroutines : state'[d] \in {"running", "empty"} <=> running' = d
      BY <2>5, <3>1 DEF Turns
    <3>3. \A d \in Coroutines : state'[d] = "created" => d # c /\ state[d] = "created"
      BY <3>1
    <3>4. \A d \in Coroutines : state'[d] \in Active => state[d] \in Active
      BY <3>1 DEF Active
    <3>5. state'[SSD] = "created" => UNCHANGED <<blocks, in_supdef_body>>
      BY <2>4, <2>5, <3>3 DEF Running
    <3> QED
      BY <2>1, <2>5, <3>1, <3>2, <3>3, <3>4, <3>5 DEF Turns
  <2> QED
    BY <2>2, <2>6, <2>7
<1> QED
  BY <1>1, <1>2

\* Stripping goes on, or it stops and leaves what there is.
LEMMA StripsOrStops ==
  ASSUME StartStripping \/ StripStep
  PROVE  /\ stage' \in {"stripping", "syntax_error", "internal_error", "undefined"}
         /\ stage' = "stripping" \/ (content' \in {content, <<>>} /\ UNCHANGED loop_vars)
         /\ UNCHANGED <<lines, stripped>>
<1>1. CASE StartStripping
  BY <1>1 DEF StartStripping, loop_vars
<1>2. CASE ReadQuote \/ ReadChar
  BY <1>2 DEF ReadQuote, ReadChar, AtChar, files
<1>3. CASE StripLine
  BY <1>3 DEF StripLine, AtComment, AtChar, loop_vars
<1>4. CASE StripBlock
  <2> DEFINE last == First({m \in pos .. Len(raw_copy) - 1 : raw_copy[m] = "*" /\ raw_copy[m + 1] = "/"})
             upto(text) == IF last + 1 = Len(raw_copy) THEN Len(text) + 1 ELSE last + 2
             rest == Cut(content, pos, upto(content))
             problem == IF last = 0 THEN "syntax_error"
                        ELSE IF ~CanErase(pos, upto(content)) THEN "undefined"
                        ELSE IF rest = <<>> THEN "internal_error" ELSE "none"
  <2>1. problem \in {"syntax_error", "internal_error", "undefined", "none"}
    OBVIOUS
  <2>2. IF problem = "none" THEN stage' = stage
        ELSE /\ stage' = problem /\ UNCHANGED raw_copy
             /\ content' = IF problem = "internal_error" THEN rest ELSE content
    BY <1>4 DEF StripBlock
  <2>3. stage = "stripping" /\ UNCHANGED <<pos, in_str_lit, lines, stripped>>
    BY <1>4 DEF StripBlock, AtComment, AtChar
  <2>4. problem = "internal_error" => rest = <<>>
    OBVIOUS
  <2> HIDE DEF problem, rest
  <2> QED
    BY <2>1, <2>2, <2>3, <2>4 DEF loop_vars
<1> QED
  BY <1>1, <1>2, <1>3, <1>4 DEF StripStep

\* The lines are in order at every step.
LEMMA LinesStep ==
  ASSUME TextInv, Types, Turns, Step
  PROVE  /\ AreLines(lines') /\ AreLines(stripped')
         /\ stage' = "stripped" => Len(lines') <= Len(stripped')
         /\ SearchStep => Len(lines') <= Len(lines)
<1>1. AreLines(lines) /\ AreLines(stripped) /\ Len(lines) \in Nat /\ Len(stripped) \in Nat
  BY DEF Types, AreLines
<1>2. CASE SlurpFile
  <2>1. AreLines(lines')
    BY <1>2, SlurpedInOrder, SplitLines DEF SlurpFile, TextInv
  <2> QED
    BY <1>1, <1>2, <2>1, TextComesFirst, SearchesAreLate DEF SlurpFile
<1>3. CASE StartStripping \/ StripStep
  <2>1. stage # "stripped"
    BY <1>3 DEF StartStripping, StripStep, ReadQuote, ReadChar, StripLine, StripBlock, AtComment, AtChar
  <2> QED
    BY <1>1, <1>3, <2>1, StripsOrStops, SearchesAreLate
<1>4. CASE EndStripping
  <2>1. AreLines(lines')
    BY <1>1, <1>4, SplitLines DEF EndStripping, TextInv, Stripping
  <2>2. Len(lines') \in Nat /\ stripped' = lines'
    BY <1>4, <2>1 DEF AreLines, EndStripping
  <2> QED
    BY <1>4, <2>1, <2>2, SearchesAreLate DEF EndStripping
<1>5. CASE SearchStep
  <2>1. stripped' = stripped /\ stage = "stripped" /\ Len(lines) <= Len(stripped)
    BY <1>5, SearchesAreLate DEF files, Types
  <2>2. CASE lines' = lines
    BY <1>1, <2>1, <2>2
  <2>3. CASE \E c \in Coroutines : AtLine(c) /\ lines' = RemoveAt(lines, i[c])
    <3>1. PICK c \in Coroutines : AtLine(c) /\ lines' = RemoveAt(lines, i[c])
      BY <2>3
    <3>2. i[c] \in DOMAIN lines
      <4>1. i[c] \in Nat /\ i[c] >= 1
        BY <1>1 DEF Types, ParserTypeOK
      <4>2. DOMAIN lines = 1 .. Len(lines)
        BY <1>1 DEF AreLines
      <4> QED
        BY <1>1, <3>1, <4>1, <4>2 DEF AtLine
    <3>3. AreLines(lines') /\ Len(lines') = Len(lines) - 1
      BY <1>1, <3>1, <3>2, TakeLine
    <3> QED
      BY <1>1, <2>1, <3>3
  <2> QED
    BY <1>5, <2>2, <2>3, SearchesChange
<1> QED
  BY <1>2, <1>3, <1>4, <1>5 DEF Step

\* Every step keeps the types, which for content and lines takes the order of the text.
LEMMA TypesStep ==
  ASSUME TextInv, Types, Turns, Step
  PROVE  Types'
<1> DEFINE States == {"created", "empty", "running", "suspended", "null", "error"}
<1>1. file' = file /\ TextInv'
  BY TextStep, TextComesFirst, SearchesAreLate DEF files
<1>2. /\ AreLines(lines)' /\ AreLines(stripped)'
      /\ stage' = "stripped" => Len(lines') <= Len(stripped')
  BY <1>1, LinesStep, StillLines
<1>3. stage' \in {"created", "slurped", "stripping", "stripped", "syntax_error", "internal_error", "undefined"}
  <2>1. CASE SlurpFile \/ EndStripping
    BY <2>1 DEF SlurpFile, EndStripping
  <2>2. CASE StartStripping \/ StripStep
    BY <2>2, StripsOrStops
  <2>3. CASE SearchStep
    BY <2>3, SearchesAreLate DEF files
  <2> QED
    BY <2>1, <2>2, <2>3 DEF Step
<1>4. pos' \in 1 .. Len(raw_copy') + 1 /\ in_str_lit' \in BOOLEAN
  <2>1. stage' = "stripping" \/ UNCHANGED loop_vars
    BY StripsOrStops, SearchesAreLate DEF Step, SlurpFile, EndStripping
  <2>2. CASE stage' = "stripping"
    BY <1>1, <2>2 DEF TextInv, Stripping
  <2>3. CASE UNCHANGED loop_vars
    BY <2>3 DEF loop_vars, Types, ParserTypeOK
  <2> QED
    BY <2>1, <2>2, <2>3
<1>5. IsParsed(content)'
  <2>1. CASE stage' \in {"slurped", "stripping"}
    BY <1>1, <2>1 DEF TextInv, Stripping, InOrder
  <2>2. CASE content' = content
    BY <1>1, <2>2, StillLines DEF Types, ParserTypeOK
  <2>3. CASE SearchStep
    <3>1. content' = content \/ content' = Joined(lines)
      BY <2>3 DEF SearchStep, ResumeSearch, ReturnEmpty, End, FindImport, RejectImport, PassLine,
                  BeginBlock, EndBlock, BodyLine, OutsideLine
    <3>2. IsParsed(Joined(lines))
      BY JoinedIsParsed DEF TextInv, Types
    <3> QED
      BY <1>1, <2>2, <3>1, <3>2, StillLines
  <2>4. CASE content' = <<>>
    BY <2>4 DEF IsParsed
  <2> QED
    BY <2>1, <2>2, <2>3, <2>4, StripsOrStops DEF Step, SlurpFile, EndStripping
<1>6. state' \in [Coroutines -> States] /\ running' \in Coroutines \cup {"caller"} /\ mixed' \in BOOLEAN
  <2>1. state \in [Coroutines -> States] /\ running \in Coroutines \cup {"caller"} /\ mixed \in BOOLEAN
    BY DEF Types, ParserTypeOK
  <2>2. CASE SearchStep
    <3>1. PICK c \in Coroutines : ResumeSearch(c) \/ Moves(c)
      BY <2>2, SearchesMove
    <3>2. CASE ResumeSearch(c)
      BY <2>1, <3>2 DEF ResumeSearch
    <3>3. CASE Moves(c)
      BY <2>1, <3>3 DEF Moves
    <3> QED
      BY <3>1, <3>2, <3>3
  <2> QED
    BY <2>1, <2>2, TextComesFirst DEF searches
<1>7. i' \in [Coroutines -> 1 .. Len(stripped') + 1]
  <2>1. i \in [Coroutines -> 1 .. Len(stripped) + 1] /\ Len(stripped) \in Nat /\ Len(lines) \in Nat
    BY DEF Types, ParserTypeOK, AreLines
  <2>2. CASE SearchStep
    <3>1. stripped' = stripped /\ Len(lines) <= Len(stripped)
      BY <2>2, SearchesAreLate DEF files, Types
    <3>2. PICK c \in Coroutines : ResumeSearch(c) \/ Moves(c)
      BY <2>2, SearchesMove
    <3>3. i' = i \/ (i[c] <= Len(lines) /\ i' = [i EXCEPT ![c] = @ + 1])
      BY <3>2 DEF ResumeSearch, Moves
    <3> QED
      BY <2>1, <3>1, <3>3
  <2>3. CASE ~SearchStep
    <3>1. i' = i /\ \A c \in Coroutines : i[c] = 1
      BY <2>3, TextComesFirst DEF searches, Turns
    <3>2. Len(stripped') \in Nat
      BY LinesStep DEF AreLines
    <3> QED
      BY <2>1, <3>1, <3>2
  <2> QED
    BY <2>2, <2>3
<1>8. /\ imported' \in Seq(Seq(ParsedChar)) /\ blocks' \in Seq(Block) /\ block' \in Block
      /\ in_supdef_body' \in BOOLEAN /\ (in_supdef_body' => block'.name \in {"A", "B"})
  <2>1. /\ imported \in Seq(Seq(ParsedChar)) /\ blocks \in Seq(Block) /\ block \in Block
        /\ in_supdef_body \in BOOLEAN /\ (in_supdef_body => block.name \in {"A", "B"})
    BY DEF Types, ParserTypeOK
  <2>2. \A c \in Coroutines : AtLine(c) => i[c] \in DOMAIN lines
    <3>1. \A c \in Coroutines : i[c] \in Nat /\ i[c] >= 1
      BY DEF Types, ParserTypeOK, AreLines
    <3>2. DOMAIN lines = 1 .. Len(lines) /\ Len(lines) \in Nat
      BY DEF Types, AreLines
    <3> QED
      BY <3>1, <3>2 DEF AtLine
  <2>3. SI \in Coroutines /\ SSD \in Coroutines
    BY DEF SI, SSD, Coroutines
  <2>4. AtLine(SI) => lines[i[SI]] \in Seq(ParsedChar)
    BY <2>2, <2>3, LineCharacters DEF Types
  <2>5. AtLine(SSD) => Line \in Seq(ParsedChar) /\ (Line # <<>> => CurrLine(Line) \in Nat)
    BY <2>2, <2>3, LineCharacters DEF Types, Line, CurrLine
  <2>6. CASE FindImport
    BY <2>1, <2>4, <2>6 DEF FindImport
  <2>7. CASE BeginBlock
    <3>1. CASE in_supdef_body
      BY <2>1, <2>7, <3>1 DEF BeginBlock
    <3>2. CASE ~in_supdef_body
      <4>1. PragmaOf(Line) \in DOMAIN BeginName /\ Line # <<>>
        BY <2>7, PragmasStand DEF BeginBlock, BeginName
      <4>2. CurrLine(Line) \in Nat /\ BeginName[PragmaOf(Line)] \in {"A", "B"}
        BY <2>5, <2>7, <4>1 DEF BeginBlock, BeginName
      <4>3. block' = [name |-> BeginName[PragmaOf(Line)], start |-> CurrLine(Line), end |-> 0, body |-> <<>>]
        BY <2>7, <3>2 DEF BeginBlock, NoBlock
      <4>4. imported' = imported /\ blocks' = blocks /\ in_supdef_body' = TRUE
        BY <2>7, <3>2 DEF BeginBlock
      <4>5. block' \in Block /\ block'.name \in {"A", "B"}
        BY <4>2, <4>3 DEF Block
      <4> QED
        BY <2>1, <4>4, <4>5
    <3> QED
      BY <3>1, <3>2
  <2>8. CASE EndBlock
    <3>1. CASE in_supdef_body /\ EndName[PragmaOf(Line)] = block.name
      <4>1. Line # <<>>
        BY <2>8, PragmasStand DEF EndBlock, EndName
      <4>2. CurrLine(Line) \in Nat
        BY <2>5, <2>8, <4>1 DEF EndBlock
      <4>3. [block EXCEPT !.end = CurrLine(Line)] \in Block
        BY <2>1, <4>2 DEF Block
      <4>4. blocks' = Append(blocks, [block EXCEPT !.end = CurrLine(Line)])
        BY <2>8, <3>1 DEF EndBlock
      <4>5. imported' = imported /\ block' = block /\ in_supdef_body' = FALSE
        BY <2>8, <3>1 DEF EndBlock
      <4>6. blocks' \in Seq(Block)
        BY <2>1, <4>3, <4>4
      <4> QED
        BY <2>1, <4>5, <4>6
    <3>2. CASE ~(in_supdef_body /\ EndName[PragmaOf(Line)] = block.name)
      BY <2>1, <2>8, <3>2 DEF EndBlock
    <3> QED
      BY <3>1, <3>2
  <2>9. CASE BodyLine
    <3>1. block' = [block EXCEPT !.body = Append(@, Line)]
      BY <2>9 DEF BodyLine
    <3>2. Line \in Seq(ParsedChar) /\ block.body \in Seq(Seq(ParsedChar))
      BY <2>1, <2>5, <2>9 DEF BodyLine, Block
    <3>3. Append(block.body, Line) \in Seq(Seq(ParsedChar))
      BY <3>2
    <3>4. block' = [name |-> block.name, start |-> block.start, end |-> block.end,
                    body |-> Append(block.body, Line)]
      BY <2>1, <3>1 DEF Block
    <3>5. block' \in Block /\ block'.name = block.name
      BY <2>1, <3>3, <3>4 DEF Block
    <3> QED
      BY <2>1, <2>9, <3>5 DEF BodyLine
  <2>10. CASE SearchStep /\ UNCHANGED found
    BY <2>1, <2>10 DEF found
  <2>11. CASE ~SearchStep
    BY <2>1, <2>11, TextComesFirst DEF found
  <2>12. SearchStep => FindImport \/ BeginBlock \/ EndBlock \/ BodyLine \/ UNCHANGED found
    BY DEF SearchStep, ResumeSearch, ReturnEmpty, End, RejectImport, PassLine, OutsideLine
  <2> QED
    BY <2>6, <2>7, <2>8, <2>9, <2>10, <2>11, <2>12
<1>9. \A n \in DOMAIN lines' : IsParsed(lines[n])' /\ \A k \in DOMAIN lines'[n] : lines'[n][k].ch # NL
  BY <1>2 DEF AreLines, IsLine, InOrder
<1> QED
  BY <1>2, <1>3, <1>4, <1>5, <1>6, <1>7, <1>8, <1>9 DEF Types, ParserTypeOK

-----------------------------------------------------------------------------
(***************************************************************************)
(* The blocks are where the file has them.                                 *)
(***************************************************************************)

\* The line a coroutine looks at is one of those that were split, and its pragma stands where it says.
LEMMA AtALine ==
  ASSUME Types, NEW c \in Coroutines, AtLine(c)
  PROVE  /\ i[c] \in DOMAIN lines /\ i[c] \in Nat \ {0}
         /\ IsLine(lines[i[c]]) /\ lines[i[c]] \in Seq(ParsedChar)
         /\ lines[i[c]] # <<>> => 1 \in DOMAIN lines[i[c]] /\ CurrLine(lines[i[c]]) \in Nat
         /\ PragmaOf(lines[i[c]]) # "none" =>
              lines[i[c]] # <<>> /\ Stands(CurrLine(lines[i[c]]), PragmaOf(lines[i[c]]))
<1>1. AreLines(lines) /\ Len(lines) \in Nat /\ DOMAIN lines = 1 .. Len(lines)
  BY DEF Types, AreLines
<1>2. i[c] \in Nat \ {0} /\ i[c] \in DOMAIN lines
  <2>1. i[c] \in Nat /\ i[c] >= 1
    BY DEF Types, ParserTypeOK, AreLines
  <2> QED
    BY <1>1, <2>1 DEF AtLine
<1>3. IsLine(lines[i[c]]) /\ lines[i[c]] \in Seq(ParsedChar)
  BY <1>1, <1>2 DEF AreLines
<1>4. lines[i[c]] # <<>> => 1 \in DOMAIN lines[i[c]] /\ CurrLine(lines[i[c]]) \in Nat
  BY <1>1, <1>2, LineCharacters DEF CurrLine
<1>5. PragmaOf(lines[i[c]]) # "none" =>
        lines[i[c]] # <<>> /\ Stands(CurrLine(lines[i[c]]), PragmaOf(lines[i[c]]))
  BY <1>3, PragmasStand, LinesAreReal DEF CurrLine
<1> QED
  BY <1>2, <1>3, <1>4, <1>5

\* What is ahead was ahead before, and behind the line that was looked at.
LEMMA AheadShrinks ==
  ASSUME Types, Turns, SearchStep
  PROVE  \A n \in Ahead' : \E m \in Ahead : lines'[n] = lines[m]
<1>1. AreLines(lines) /\ Len(lines) \in Nat /\ DOMAIN lines = 1 .. Len(lines)
  BY DEF Types, AreLines
<1>2. i[SSD] \in Nat /\ i[SSD] >= 1 /\ i \in [Coroutines -> Nat] /\ SSD \in Coroutines
  BY DEF Types, ParserTypeOK, AreLines, SSD, Coroutines
<1>3. CASE lines' = lines
  <2>1. PICK c \in Coroutines : ResumeSearch(c) \/ Moves(c)
    BY SearchesMove
  <2>2. i' = i \/ i' = [i EXCEPT ![c] = @ + 1]
    BY <2>1 DEF ResumeSearch, Moves
  <2>3. i'[SSD] >= i[SSD] /\ i'[SSD] \in Nat
    BY <1>2, <2>2
  <2>4. \A n \in Ahead' : n \in Ahead
    BY <1>1, <1>2, <1>3, <2>3 DEF Ahead
  <2> QED
    BY <1>3, <2>4
<1>4. CASE \E c \in Coroutines : AtLine(c) /\ lines' = RemoveAt(lines, i[c]) /\ i' = i
  <2>1. PICK c \in Coroutines : AtLine(c) /\ lines' = RemoveAt(lines, i[c]) /\ i' = i
    BY <1>4
  <2>2. i[c] \in DOMAIN lines
    BY <2>1, AtALine
  <2>3. /\ DOMAIN lines' = 1 .. Len(lines) - 1
        /\ \A n \in DOMAIN lines' : lines'[n] = IF n < i[c] THEN lines[n] ELSE lines[n + 1]
    <3>1. DOMAIN RemoveAt(lines, i[c]) = 1 .. Len(lines) - 1
      BY <1>1, <2>2, TakeLine
    <3>2. \A n \in DOMAIN RemoveAt(lines, i[c]) :
            RemoveAt(lines, i[c])[n] = IF n < i[c] THEN lines[n] ELSE lines[n + 1]
      BY <1>1, <2>2, TakeLine
    <3> QED
      BY <2>1, <3>1, <3>2
  <2>4. \A n \in Ahead' : n \in DOMAIN lines' /\ n \in Ahead /\ n + 1 \in Ahead
    BY <1>1, <1>2, <2>1, <2>3 DEF Ahead
  <2> QED
    BY <2>3, <2>4
<1> QED
  BY <1>3, <1>4, SearchesChange

\* search_super_defines goes on with what is behind the line it took or left.
LEMMA BehindTheLine ==
  ASSUME Types, AtLine(SSD), Takes(SSD) \/ Leaves(SSD)
  PROVE  /\ i[SSD] \in Ahead
         /\ \A n \in Ahead' : \E m \in Ahead : i[SSD] < m /\ lines'[n] = lines[m]
         /\ \A m \in Ahead : i[SSD] < m => \E n \in Ahead' : lines'[n] = lines[m]
<1>1. AreLines(lines) /\ Len(lines) \in Nat /\ DOMAIN lines = 1 .. Len(lines)
  BY DEF Types, AreLines
<1>2. /\ i[SSD] \in Nat \ {0} /\ SSD \in Coroutines /\ i[SSD] \in 1 .. Len(lines)
      /\ DOMAIN i = Coroutines
  BY <1>1, AtALine DEF SSD, Coroutines, Types, ParserTypeOK
<1>3. i[SSD] \in Ahead
  BY <1>1, <1>2 DEF Ahead
<1>4. CASE Takes(SSD)
  <2>1. lines' = RemoveAt(lines, i[SSD]) /\ i' = i
    BY <1>4 DEF Takes
  <2>2. /\ DOMAIN lines' = 1 .. Len(lines) - 1
        /\ \A n \in DOMAIN lines' : lines'[n] = IF n < i[SSD] THEN lines[n] ELSE lines[n + 1]
    <3>1. i[SSD] \in DOMAIN lines
      BY <1>1, <1>2
    <3> QED
      BY <1>1, <2>1, <3>1, TakeLine
  <2>3. ASSUME NEW n \in Ahead'
        PROVE  n + 1 \in Ahead /\ i[SSD] < n + 1 /\ lines'[n] = lines[n + 1]
    <3>1. n \in DOMAIN lines' /\ n >= i[SSD]
      BY <2>1 DEF Ahead
    <3>2. n \in 1 .. Len(lines) - 1
      BY <2>2, <3>1
    <3> QED
      BY <1>1, <1>2, <2>2, <3>1, <3>2 DEF Ahead
  <2>4. ASSUME NEW m \in Ahead, i[SSD] < m
        PROVE  m - 1 \in Ahead' /\ lines'[m - 1] = lines[m]
    <3>1. m \in 1 .. Len(lines)
      BY <1>1 DEF Ahead
    <3>2. m - 1 \in DOMAIN lines' /\ m - 1 >= i[SSD] /\ ~(m - 1 < i[SSD]) /\ (m - 1) + 1 = m
      BY <1>1, <1>2, <2>2, <2>4, <3>1
    <3>3. lines'[m - 1] = lines[m]
      BY <2>2, <3>2
    <3> QED
      BY <2>1, <3>2, <3>3 DEF Ahead
  <2> QED
    BY <1>3, <2>3, <2>4
<1>5. CASE Leaves(SSD)
  <2>1. lines' = lines /\ i'[SSD] = i[SSD] + 1
    BY <1>2, <1>5 DEF Leaves
  <2>2. \A n : n \in Ahead' <=> n \in Ahead /\ i[SSD] < n
    <3>1. \A n \in DOMAIN lines : n >= i[SSD] + 1 <=> n >= i[SSD] /\ i[SSD] < n
      BY <1>1, <1>2
    <3> QED
      BY <2>1, <3>1 DEF Ahead
  <2> QED
    BY <1>3, <2>1, <2>2
<1> QED
  BY <1>4, <1>5

\* The same after a step, in words of the file before it.
AheadAfter(place) == \A n \in Ahead' : \A a \in DOMAIN lines'[n] : place < lines'[n][a].line

\* Blocks are located after a step when those before and the new ones are.
LEMMA LocatedAfter ==
  ASSUME file' = file,
         \A n \in DOMAIN blocks' :
           /\ StartsRight(blocks'[n]) /\ EndsRight(blocks'[n]) /\ AheadAfter(blocks'[n].end)
           /\ n > 1 => blocks'[n - 1].end < blocks'[n].start,
         in_supdef_body' =>
           /\ StartsRight(block') /\ AheadAfter(block'.start)
           /\ \A n \in DOMAIN blocks' : blocks'[n].end < block'.start
  PROVE  Located'
<1>1. \A n \in DOMAIN blocks' : StartsRight(blocks[n])' /\ EndsRight(blocks[n])'
  BY DEF StartsRight, EndsRight, Stands, Opens
<1>2. in_supdef_body' => StartsRight(block)'
  BY DEF StartsRight, Stands, Opens
<1>3. /\ \A n \in DOMAIN blocks' : IsBeforeAhead(blocks[n].end)'
      /\ in_supdef_body' => IsBeforeAhead(block.start)'
  BY DEF AheadAfter, IsBeforeAhead
<1> QED
  BY <1>1, <1>2, <1>3 DEF Located

\* Every step keeps the blocks where their pragmas are.
LEMMA LocatedStep ==
  ASSUME TextInv, Types, Turns, Located, Step
  PROVE  Located'
<1>1. file' = file
  BY TextComesFirst, SearchesAreLate DEF files
<1>2. CASE ~SearchStep
  <2>1. state[SSD] = "created" /\ UNCHANGED <<blocks, in_supdef_body>>
    BY <1>2, TextComesFirst DEF Turns, found, SSD, Coroutines
  <2>2. blocks = <<>> /\ ~in_supdef_body
    BY <2>1 DEF Turns, SSD, Coroutines
  <2> QED
    BY <1>1, <2>1, <2>2, LocatedAfter
<1>3. \A place : SearchStep /\ IsBeforeAhead(place) => AheadAfter(place)
  BY AheadShrinks DEF IsBeforeAhead, AheadAfter
<1>4. CASE SearchStep /\ UNCHANGED <<blocks, in_supdef_body, block>>
  BY <1>1, <1>3, <1>4, LocatedAfter DEF Located
<1> DEFINE here == CurrLine(Line)
<1>5. ASSUME AtLine(SSD), PragmaOf(Line) # "none", Takes(SSD)
      PROVE  /\ here \in Nat /\ Stands(here, PragmaOf(Line)) /\ AheadAfter(here)
             /\ \A place : IsBeforeAhead(place) => place < here
  <2>1. SSD \in Coroutines /\ AreLines(lines)
    BY DEF SSD, Coroutines, Types
  <2>2. /\ i[SSD] \in DOMAIN lines /\ 1 \in DOMAIN Line
        /\ here \in Nat /\ Stands(here, PragmaOf(Line))
    BY <1>5, <2>1, AtALine DEF Line
  <2>3. here = lines[i[SSD]][1].line
    BY DEF CurrLine, Line
  <2>4. i[SSD] \in Ahead /\ \A n \in Ahead' : \E m \in Ahead : i[SSD] < m /\ lines'[n] = lines[m]
    BY <1>5, BehindTheLine
  <2>5. \A m \in Ahead : i[SSD] < m => \A a \in DOMAIN lines[m] : here < lines[m][a].line
    BY <2>1, <2>2, <2>3 DEF AreLines, Ahead, Line
  <2>6. AheadAfter(here)
    BY <2>4, <2>5 DEF AheadAfter
  <2>7. \A place : IsBeforeAhead(place) => place < here
    BY <2>2, <2>3, <2>4 DEF IsBeforeAhead, Line
  <2> QED
    BY <2>2, <2>6, <2>7
<1> HIDE DEF here
<1>6. CASE BeginBlock /\ ~in_supdef_body
  <2>1. AtLine(SSD) /\ PragmaOf(Line) \in DOMAIN BeginName /\ Takes(SSD) /\ blocks' = blocks /\ SearchStep
    BY <1>6 DEF BeginBlock, SearchStep
  <2>2. PragmaOf(Line) # "none"
    BY <2>1 DEF BeginName
  <2>3. block'.start = here /\ block'.name = BeginName[PragmaOf(Line)]
    BY <1>6 DEF BeginBlock, NoBlock, here
  <2>4. StartsRight(block')
    BY <1>5, <2>1, <2>2, <2>3 DEF StartsRight
  <2> QED
    BY <1>1, <1>3, <1>5, <2>1, <2>2, <2>3, <2>4, LocatedAfter DEF Located
<1>7. CASE EndBlock /\ in_supdef_body /\ EndName[PragmaOf(Line)] = block.name
  <2> DEFINE b == [block EXCEPT !.end = CurrLine(Line)]
  <2>1. /\ AtLine(SSD) /\ PragmaOf(Line) \in DOMAIN EndName /\ Takes(SSD) /\ SearchStep
        /\ blocks' = Append(blocks, b) /\ in_supdef_body' = FALSE
    BY <1>7 DEF EndBlock, SearchStep
  <2>2. PragmaOf(Line) # "none"
    BY <2>1 DEF EndName
  <2>3. b.start = block.start /\ b.end = here /\ b.name = block.name
    BY DEF Types, Block, here
  <2>4. StartsRight(b) /\ EndsRight(b)
    <3>1. StartsRight(b)
      BY <1>7, <2>3 DEF Located, StartsRight
    <3>2. b.start < b.end
      BY <1>5, <1>7, <2>1, <2>2, <2>3 DEF Located
    <3>3. EndName[PragmaOf(Line)] = b.name /\ Stands(b.end, PragmaOf(Line))
      BY <1>5, <1>7, <2>1, <2>2, <2>3
    <3> QED
      BY <2>1, <3>1, <3>2, <3>3 DEF EndsRight
  <2>5. /\ blocks \in Seq(Block) /\ Len(blocks) \in Nat /\ DOMAIN blocks = 1 .. Len(blocks) /\ b \in Block
    <3>1. blocks \in Seq(Block) /\ block \in Block
      BY DEF Types
    <3>2. here \in Nat
      BY <1>5, <2>1, <2>2
    <3>3. Len(blocks) \in Nat /\ DOMAIN blocks = 1 .. Len(blocks)
      BY <3>1
    <3>4. b = [block EXCEPT !.end = here]
      BY DEF here
    <3>5. b \in Block
      BY ONLY <3>1, <3>2, <3>4 DEF Block
    <3> QED
      BY <3>1, <3>3, <3>5
  <2> HIDE DEF b
  <2>6. /\ DOMAIN blocks' = 1 .. Len(blocks) + 1 /\ blocks'[Len(blocks) + 1] = b
        /\ \A n \in DOMAIN blocks : blocks'[n] = blocks[n]
    BY <2>1, <2>5
  <2>7. ASSUME NEW n \in DOMAIN blocks'
        PROVE  /\ StartsRight(blocks'[n]) /\ EndsRight(blocks'[n]) /\ AheadAfter(blocks'[n].end)
               /\ n > 1 => blocks'[n - 1].end < blocks'[n].start
    <3>1. CASE n \in DOMAIN blocks
      <4>1. n > 1 => n - 1 \in DOMAIN blocks
        BY <2>5, <3>1
      <4> QED
        BY <1>3, <2>1, <2>6, <3>1, <4>1 DEF Located
    <3>2. CASE n = Len(blocks) + 1
      <4>1. n > 1 => n - 1 \in DOMAIN blocks
        BY <2>5, <3>2
      <4>2. AheadAfter(b.end)
        BY <1>5, <2>1, <2>2, <2>3
      <4>3. n > 1 => blocks[n - 1].end < b.start
        BY <1>7, <2>3, <4>1 DEF Located
      <4> QED
        BY <2>4, <2>6, <3>2, <4>1, <4>2, <4>3
    <3> QED
      BY <2>5, <2>6, <3>1, <3>2
  <2> QED
    BY <1>1, <2>1, <2>7, LocatedAfter
<1>8. CASE BodyLine
  <2>1. block'.start = block.start /\ block'.name = block.name /\ blocks' = blocks
        /\ in_supdef_body' = in_supdef_body /\ SearchStep
    BY <1>8 DEF BodyLine, Types, Block, SearchStep
  <2>2. StartsRight(block) => StartsRight(block')
    BY <2>1 DEF StartsRight
  <2> QED
    BY <1>1, <1>3, <2>1, <2>2, LocatedAfter DEF Located
<1>9. SearchStep =>
        \/ UNCHANGED <<blocks, in_supdef_body, block>>
        \/ BeginBlock /\ ~in_supdef_body
        \/ EndBlock /\ in_supdef_body /\ EndName[PragmaOf(Line)] = block.name
        \/ BodyLine
  BY DEF SearchStep, ResumeSearch, ReturnEmpty, End, FindImport, RejectImport, PassLine,
         BeginBlock, EndBlock, OutsideLine, found
<1> QED
  BY <1>2, <1>4, <1>6, <1>7, <1>8, <1>9

-----------------------------------------------------------------------------
(***************************************************************************)
(* No text is lost.                                                        *)
(***************************************************************************)

\* A line in a body has the number of that body.
LEMMA BodiesAreNumbered ==
  ASSUME Types
  PROVE  /\ Len(blocks) \in Nat /\ DOMAIN blocks = 1 .. Len(blocks)
         /\ \A n, line : InBody(n, line) => n \in BodyNumbers
<1>1. Len(blocks) \in Nat /\ DOMAIN blocks = 1 .. Len(blocks)
  BY DEF Types
<1>2. DOMAIN blocks \subseteq BodyNumbers /\ Len(blocks) + 1 \in BodyNumbers
  BY <1>1 DEF BodyNumbers
<1> QED
  BY <1>1, <1>2 DEF InBody

\* A step that takes a pragma out of the lines, or nothing, and leaves the bodies.
LEMMA KeptByPragmas ==
  ASSUME Types, Types', Kept, stripped' = stripped, stage' = stage,
         \A n, line : InBody(n, line)' <=> InBody(n, line),
         ToSet(lines') \subseteq ToSet(lines),
         NEW taken, ToSet(lines) \subseteq ToSet(lines') \cup {taken},
         ~(IsText(taken) /\ PragmaOf(taken) # "import") \/ lines' = lines
  PROVE  Kept'
<1>1. \A n, line : (InBody(n, line) => n \in BodyNumbers) /\ (InBody(n, line)' => n \in BodyNumbers')
  <2>1. Len(blocks') \in Nat /\ DOMAIN blocks' = 1 .. Len(blocks')
    BY DEF Types
  <2>2. DOMAIN blocks' \subseteq BodyNumbers' /\ Len(blocks') + 1 \in BodyNumbers'
    BY <2>1 DEF BodyNumbers
  <2> QED
    BY <2>2, BodiesAreNumbered DEF InBody
<1>2. \A n \in BodyNumbers' : \A line \in ToSet(stripped') : InBody(n, line)' =>
        /\ line # <<>> /\ line \notin ToSet(lines')
        /\ \A m \in BodyNumbers' : InBody(m, line)' => m = n
  BY <1>1 DEF Kept
<1>3. stage' = "stripped" =>
        \A line \in ToSet(stripped') : IsText(line) /\ PragmaOf(line) # "import" =>
          line \in ToSet(lines') \/ \E n \in BodyNumbers' : InBody(n, line)'
  BY <1>1 DEF Kept
<1> QED
  BY <1>2, <1>3 DEF Kept

\* Every step keeps each line of text in the lines or in one body.
LEMMA KeptStep ==
  ASSUME TextInv, Types, Types', Turns, Kept, Step
  PROVE  Kept'
<1>1. CASE ~SearchStep
  <2>1. state[SSD] = "created" /\ UNCHANGED <<blocks, in_supdef_body>>
    BY <1>1, TextComesFirst DEF Turns, found, SSD, Coroutines
  <2>2. blocks' = <<>> /\ ~in_supdef_body'
    BY <2>1 DEF Turns, SSD, Coroutines
  <2>3. \A n, line : ~InBody(n, line)'
    BY <2>2 DEF InBody
  <2>4. stage' = "stripped" => lines' = stripped'
    BY <1>1, StripsOrStops DEF Step, SlurpFile, EndStripping
  <2> QED
    BY <2>3, <2>4 DEF Kept
<1>2. SearchStep => stripped' = stripped /\ stage' = stage
  BY SearchesAreLate DEF files
<1>3. AreLines(lines) /\ SI \in Coroutines /\ SSD \in Coroutines
  BY DEF Types, SI, SSD, Coroutines
<1>4. ASSUME NEW c \in Coroutines, AtLine(c), Takes(c)
      PROVE  /\ ToSet(lines') \subseteq ToSet(lines)
             /\ ToSet(lines) \subseteq ToSet(lines') \cup {lines[i[c]]}
             /\ lines[i[c]] # <<>> => lines[i[c]] \notin ToSet(lines')
             /\ lines[i[c]] \in ToSet(lines)
  <2>1. i[c] \in DOMAIN lines /\ lines' = RemoveAt(lines, i[c])
    BY <1>4, AtALine DEF Takes
  <2>2. lines[i[c]] \in ToSet(lines)
    BY <2>1 DEF ToSet
  <2>3. /\ ToSet(lines') \subseteq ToSet(lines)
        /\ ToSet(lines) \subseteq ToSet(lines') \cup {lines[i[c]]}
        /\ lines[i[c]] # <<>> => lines[i[c]] \notin ToSet(lines')
    BY <1>3, <2>1, TakeLine
  <2> QED
    BY <2>2, <2>3
<1>5. CASE SearchStep /\ lines' = lines /\ UNCHANGED <<blocks, in_supdef_body, block>>
  <2>1. \A n, line : InBody(n, line)' <=> InBody(n, line)
    BY <1>5 DEF InBody
  <2> QED
    BY <1>2, <1>5, <2>1, KeptByPragmas
<1>6. CASE FindImport
  <2>1. /\ AtLine(SI) /\ Takes(SI) /\ PragmaOf(lines[i[SI]]) = "import" /\ SearchStep
        /\ UNCHANGED <<blocks, in_supdef_body, block>>
    BY <1>6 DEF FindImport, SearchStep
  <2>2. \A n, line : InBody(n, line)' <=> InBody(n, line)
    BY <2>1 DEF InBody
  <2>3. /\ ToSet(lines') \subseteq ToSet(lines)
        /\ ToSet(lines) \subseteq ToSet(lines') \cup {lines[i[SI]]}
    BY <1>3, <1>4, <2>1
  <2> QED
    BY <1>2, <2>1, <2>2, <2>3, KeptByPragmas
<1>7. CASE BeginBlock /\ ~in_supdef_body
  <2>1. /\ AtLine(SSD) /\ Takes(SSD) /\ PragmaOf(Line) \in DOMAIN BeginName /\ SearchStep
        /\ blocks' = blocks /\ in_supdef_body' = TRUE /\ block'.body = <<>>
    BY <1>7 DEF BeginBlock, SearchStep, NoBlock
  <2>2. \A n, line : InBody(n, line)' <=> InBody(n, line)
    <3>1. ToSet(<<>>) = {}
      BY DEF ToSet
    <3> QED
      BY <1>7, <2>1, <3>1 DEF InBody
  <2>3. /\ ToSet(lines') \subseteq ToSet(lines) /\ ToSet(lines) \subseteq ToSet(lines') \cup {Line}
        /\ ~IsText(Line)
    BY <1>3, <1>4, <2>1 DEF IsText, Line
  <2> QED
    BY <1>2, <2>1, <2>2, <2>3, KeptByPragmas
<1>8. CASE EndBlock /\ in_supdef_body /\ EndName[PragmaOf(Line)] = block.name
  <2> DEFINE b == [block EXCEPT !.end = CurrLine(Line)]
  <2>1. /\ AtLine(SSD) /\ Takes(SSD) /\ PragmaOf(Line) \in DOMAIN EndName /\ SearchStep
        /\ blocks' = Append(blocks, b) /\ in_supdef_body' = FALSE
    BY <1>8 DEF EndBlock, SearchStep
  <2>2. b.body = block.body
    BY DEF Types, Block
  <2> HIDE DEF b
  <2>3. /\ Len(blocks') = Len(blocks) + 1 /\ DOMAIN blocks' = 1 .. Len(blocks) + 1
        /\ blocks'[Len(blocks) + 1] = b
        /\ \A n \in DOMAIN blocks : blocks'[n] = blocks[n]
        /\ DOMAIN blocks = 1 .. Len(blocks) /\ Len(blocks) \in Nat
    BY <2>1 DEF Types
  <2>4. \A n : n \in DOMAIN blocks' <=> n \in DOMAIN blocks \/ n = Len(blocks) + 1
    BY <2>3
  <2>5. Len(blocks) + 1 \notin DOMAIN blocks
    BY <2>3
  <2>6. \A n, line : InBody(n, line)' <=> InBody(n, line)
    BY <1>8, <2>1, <2>2, <2>3, <2>4, <2>5 DEF InBody
  <2>7. /\ ToSet(lines') \subseteq ToSet(lines) /\ ToSet(lines) \subseteq ToSet(lines') \cup {Line}
        /\ ~IsText(Line)
    BY <1>3, <1>4, <2>1 DEF IsText, Line
  <2> QED
    BY <1>2, <2>1, <2>6, <2>7, KeptByPragmas
<1>9. CASE BodyLine
  <2> DEFINE last == Len(blocks) + 1
  <2>1. /\ AtLine(SSD) /\ Takes(SSD) /\ IsText(Line) /\ SearchStep
        /\ blocks' = blocks /\ in_supdef_body /\ in_supdef_body'
        /\ block'.body = Append(block.body, Line)
        /\ block.body \in Seq(Seq(ParsedChar)) /\ Line \in Seq(ParsedChar)
    BY <1>3, <1>9, AtALine DEF BodyLine, SearchStep, Types, Block, Line
  <2>2. ToSet(Append(block.body, Line)) = ToSet(block.body) \cup {Line}
    <3> DEFINE body == block.body
               more == Append(body, Line)
    <3>1. /\ DOMAIN more = 1 .. Len(body) + 1 /\ DOMAIN body = 1 .. Len(body) /\ Len(body) \in Nat
          /\ more[Len(body) + 1] = Line /\ \A n \in 1 .. Len(body) : more[n] = body[n]
      BY <2>1
    <3> HIDE DEF body, more
    <3>2. \A n : n \in DOMAIN more <=> n \in DOMAIN body \/ n = Len(body) + 1
      BY <3>1
    <3>3. ToSet(more) = ToSet(body) \cup {Line}
      BY <3>1, <3>2 DEF ToSet
    <3> QED
      BY <3>3 DEF body, more
  <2>3. last \notin DOMAIN blocks /\ last \in BodyNumbers /\ BodyNumbers' = BodyNumbers
    BY <2>1, BodiesAreNumbered DEF BodyNumbers
  <2>4. \A n, line : InBody(n, line)' <=> InBody(n, line) \/ (n = last /\ line = Line)
    BY <2>1, <2>2 DEF InBody
  <2>5. /\ ToSet(lines') \subseteq ToSet(lines) /\ ToSet(lines) \subseteq ToSet(lines') \cup {Line}
        /\ Line \in ToSet(lines) /\ Line # <<>> /\ Line \notin ToSet(lines')
    BY <1>3, <1>4, <2>1 DEF IsText, Line
  <2> HIDE DEF last
  <2>6. Line \in ToSet(stripped) => \A n \in BodyNumbers : ~InBody(n, Line)
    BY <2>5 DEF Kept
  <2>7. \A n \in BodyNumbers : \A line \in ToSet(stripped) : InBody(n, line)' =>
          /\ line # <<>> /\ line \notin ToSet(lines')
          /\ \A m \in BodyNumbers : InBody(m, line)' => m = n
    BY <2>4, <2>5, <2>6 DEF Kept
  <2>8. stage = "stripped" =>
          \A line \in ToSet(stripped) : IsText(line) /\ PragmaOf(line) # "import" =>
            line \in ToSet(lines') \/ \E n \in BodyNumbers : InBody(n, line)'
    BY <2>3, <2>4, <2>5 DEF Kept
  <2> QED
    BY <1>2, <2>1, <2>3, <2>7, <2>8 DEF Kept
<1>10. SearchStep =>
         \/ lines' = lines /\ UNCHANGED <<blocks, in_supdef_body, block>>
         \/ FindImport
         \/ BeginBlock /\ ~in_supdef_body
         \/ EndBlock /\ in_supdef_body /\ EndName[PragmaOf(Line)] = block.name
         \/ BodyLine
  BY DEF SearchStep, ResumeSearch, ReturnEmpty, End, RejectImport, PassLine, Leaves,
         BeginBlock, EndBlock, OutsideLine, found
<1> QED
  BY <1>1, <1>5, <1>6, <1>7, <1>8, <1>9, <1>10

-----------------------------------------------------------------------------
(***************************************************************************)
(* The blocks are those of the stripped lines.                             *)
(***************************************************************************)

\* There are finitely many pairs of pragmas.
LEMMA PairsAreFinite ==
  ASSUME AreLines(stripped), NEW q
  PROVE  IsFiniteSet(PairsUpTo(q))
<1> DEFINE D == DOMAIN stripped
<1>1. D = 1 .. Len(stripped) /\ Len(stripped) \in Nat
  BY DEF AreLines
<1>2. IsFiniteSet(D)
  BY <1>1, FS_Interval
<1>3. IsFiniteSet(D \X D)
  BY <1>2, FS_Product
<1>4. PairsUpTo(q) \subseteq D \X D
  BY DEF PairsUpTo
<1> QED
  BY <1>3, <1>4, FS_Subset

\* Lines that are skipped are no pragmas of blocks.
LEMMA SkippedLines ==
  ASSUME Scanned, NEW n, stripped[n] \in Skipped
  PROVE  ~Begins(n) /\ ~Ends(n)
<1>1. CASE stripped[n] = <<>>
  <2>1. PragmaOf(stripped[n]) = "none"
    BY <1>1, PragmasStand
  <2> QED
    BY <2>1 DEF Begins, Ends, BeginName, EndName
<1>2. CASE stripped[n] \in ToSet(imported)
  <2>1. PragmaOf(stripped[n]) = "import"
    BY <1>2 DEF Scanned, NoImport, ToSet
  <2> QED
    BY <2>1 DEF Begins, Ends, BeginName, EndName
<1> QED
  BY <1>1, <1>2 DEF Skipped

\* No line both begins and ends a block.
LEMMA BeginsOrEnds ==
  ASSUME NEW n
  PROVE  ~(Begins(n) /\ Ends(n))
  BY DEF Begins, Ends, BeginName, EndName

\* Only an end makes a pair more.
LEMMA PairsStay ==
  ASSUME AreLines(stripped), NEW q \in Nat, NEW p \in Nat, q <= p,
         \A n \in q + 1 .. p : ~Ends(n)
  PROVE  PairsUpTo(p) = PairsUpTo(q)
<1>1. DOMAIN stripped = 1 .. Len(stripped) /\ Len(stripped) \in Nat
  BY DEF AreLines
<1>2. \A n \in DOMAIN stripped : Ends(n) => (n <= p <=> n <= q)
  BY <1>1
<1> QED
  BY <1>2 DEF PairsUpTo

\* An end behind an open begin makes one pair more.
LEMMA PairsGrow ==
  ASSUME AreLines(stripped), NEW q \in Nat, NEW p \in DOMAIN stripped, q < p,
         \A n \in q + 1 .. p - 1 : ~Begins(n) /\ ~Ends(n),
         Ends(p), NEW b \in 1 .. q, Begins(b), NoneBetween(b, q + 1)
  PROVE  /\ PairsUpTo(p) = PairsUpTo(q) \cup {<<b, p>>}
         /\ <<b, p>> \notin PairsUpTo(q)
         /\ \A n \in b + 1 .. p - 1 : n \in b + 1 .. q \/ n \in q + 1 .. p - 1
<1>1. DOMAIN stripped = 1 .. Len(stripped) /\ Len(stripped) \in Nat /\ p \in Nat /\ b \in Nat
      /\ b \in DOMAIN stripped /\ b < p
  BY DEF AreLines
<1>2. \A n \in b + 1 .. p - 1 : n \in b + 1 .. q \/ n \in q + 1 .. p - 1
  BY <1>1
<1>3. NoneBetween(b, p)
  <2>1. \A n \in b + 1 .. q : ~Begins(n) /\ ~Ends(n)
    BY DEF NoneBetween
  <2> QED
    BY <1>2, <2>1 DEF NoneBetween
<1>4. <<b, p>> \in PairsUpTo(p)
  BY <1>1, <1>3 DEF PairsUpTo
<1>5. <<b, p>> \notin PairsUpTo(q)
  BY <1>1 DEF PairsUpTo
<1>6. ASSUME NEW x \in PairsUpTo(p)
      PROVE  x \in PairsUpTo(q) \/ x = <<b, p>>
  <2>1. /\ x \in (DOMAIN stripped) \X (DOMAIN stripped) /\ x[1] < x[2] /\ x[2] <= p
        /\ Begins(x[1]) /\ Ends(x[2]) /\ NoneBetween(x[1], x[2])
    BY DEF PairsUpTo
  <2>2. x[1] \in DOMAIN stripped /\ x[2] \in DOMAIN stripped /\ x = <<x[1], x[2]>>
    BY <2>1
  <2>3. x[1] \in Nat /\ x[2] \in Nat
    BY <1>1, <2>2
  <2>4. CASE x[2] <= q
    BY <2>1, <2>4 DEF PairsUpTo
  <2>5. CASE x[2] > q
    <3>1. x[2] = p
      <4>1. x[2] # p => x[2] \in q + 1 .. p - 1
        BY <1>1, <2>1, <2>3, <2>5
      <4> QED
        BY <2>1, <4>1
    <3>2. ~(x[1] < b)
      <4>1. x[1] < b => b \in x[1] + 1 .. x[2] - 1
        BY <1>1, <2>3, <3>1
      <4> QED
        BY <2>1, <4>1 DEF NoneBetween
    <3>3. ~(b < x[1])
      <4>1. b < x[1] => x[1] \in b + 1 .. p - 1
        BY <1>1, <2>1, <2>3, <3>1
      <4> QED
        BY <1>3, <2>1, <4>1 DEF NoneBetween
    <3> QED
      BY <1>1, <2>2, <2>3, <3>1, <3>2, <3>3
  <2> QED
    BY <2>3, <2>4, <2>5
<1>7. PairsUpTo(q) \subseteq PairsUpTo(p)
  <2>1. \A n \in DOMAIN stripped : n <= q => n <= p
    BY <1>1
  <2> QED
    BY <2>1 DEF PairsUpTo
<1> QED
  BY <1>2, <1>4, <1>5, <1>6, <1>7

\* The stripped line that search_super_defines looks at, and what is behind it.
LEMMA NextLine ==
  ASSUME Types, NEW q \in 0 .. Len(stripped), HasRead(q), AtLine(SSD), Line # <<>>
  PROVE  \E p \in q + 1 .. Len(stripped) :
           /\ stripped[p] = Line
           /\ \A n \in q + 1 .. p - 1 : stripped[n] \in Skipped
           /\ {lines[m] : m \in {a \in Ahead : i[SSD] < a}} \ {<<>>} =
                {stripped[n] : n \in p + 1 .. Len(stripped)} \ Skipped
<1> DEFINE here == i[SSD]
           last == Len(stripped)
<1>1. /\ AreLines(lines) /\ AreLines(stripped) /\ DOMAIN stripped = 1 .. last /\ last \in Nat
      /\ DOMAIN lines = 1 .. Len(lines) /\ Len(lines) \in Nat /\ q \in Nat /\ q <= last
  BY DEF Types, AreLines
<1>2. here \in DOMAIN lines /\ here \in Nat /\ here \in Ahead /\ Line = lines[here]
  BY AtALine DEF Line, Ahead, SSD, Coroutines
<1>3. {lines[n] : n \in Ahead} \ {<<>>} = {stripped[n] : n \in q + 1 .. last} \ Skipped
  BY DEF HasRead
<1>4. /\ \A m \in Ahead : lines[m] # <<>> =>
           lines[m] \notin Skipped /\ \E n \in q + 1 .. last : stripped[n] = lines[m]
      /\ \A n \in q + 1 .. last : stripped[n] \notin Skipped =>
           stripped[n] # <<>> /\ \E m \in Ahead : lines[m] = stripped[n]
  BY <1>3
<1>5. PICK p \in q + 1 .. last : stripped[p] = Line
  BY <1>2, <1>4
<1>6. Line \notin Skipped
  BY <1>2, <1>4
<1>7. p \in Nat /\ p \in DOMAIN stripped /\ q < p
  BY <1>1
<1> HIDE DEF here, last
<1>8. ASSUME NEW n \in q + 1 .. last, stripped[n] \notin Skipped
      PROVE  /\ n \in DOMAIN stripped /\ n \in Nat /\ ~(n < p)
             /\ n # p => \E m \in Ahead : here < m /\ lines[m] = stripped[n]
  <2>1. n \in DOMAIN stripped /\ n \in Nat
    BY <1>1
  <2>2. PICK m \in Ahead : lines[m] = stripped[n]
    BY <1>4, <1>8
  <2>3. stripped[n] # <<>>
    BY <1>4, <1>8
  <2>4. m \in DOMAIN lines /\ m >= here /\ m \in Nat
    BY <1>1, <2>2 DEF Ahead, here
  <2>5. m = here => n = p
    BY <1>1, <1>2, <1>5, <1>7, <2>1, <2>2, <2>3, LinesDiffer
  <2>6. m # here => here < m
    BY <1>2, <2>4
  <2>7. ASSUME n < p, here < m
        PROVE  FALSE
    <3>1. 1 \in DOMAIN stripped[n] /\ 1 \in DOMAIN Line /\ stripped[n][1].line \in Nat /\ Line[1].line \in Nat
      BY <1>1, <1>2, <2>1, <2>3, LineCharacters
    <3>2. Line[1].line < lines[m][1].line
      BY <1>1, <1>2, <2>2, <2>4, <2>7, <3>1 DEF AreLines
    <3>3. stripped[n][1].line < stripped[p][1].line
      BY <1>1, <1>5, <1>7, <2>1, <2>7, <3>1 DEF AreLines
    <3> QED
      BY <1>5, <2>2, <3>1, <3>2, <3>3
  <2> QED
    BY <1>7, <2>1, <2>2, <2>5, <2>6, <2>7
<1>9. \A n \in q + 1 .. p - 1 : stripped[n] \in Skipped
  <2>1. \A n \in q + 1 .. p - 1 : n \in q + 1 .. last /\ n < p
    BY <1>1, <1>7
  <2> QED
    BY <1>8, <2>1
<1>10. ASSUME NEW m \in Ahead, here < m, lines[m] # <<>>
       PROVE  lines[m] \in {stripped[n] : n \in p + 1 .. last} \ Skipped
  <2>1. PICK n \in q + 1 .. last : stripped[n] = lines[m] /\ lines[m] \notin Skipped
    BY <1>4, <1>10
  <2>2. n # p
    <3>1. n = p => m = here
      BY <1>1, <1>2, <1>5, <1>10, <2>1, LinesDiffer DEF Ahead
    <3> QED
      BY <1>2, <1>10, <3>1
  <2>3. n \in Nat /\ ~(n < p)
    BY <1>8, <2>1
  <2>4. n \in p + 1 .. last
    BY <1>1, <1>7, <2>2, <2>3
  <2> QED
    BY <2>1, <2>4
<1>11. ASSUME NEW n \in p + 1 .. last, stripped[n] \notin Skipped
       PROVE  stripped[n] # <<>> /\ \E m \in Ahead : here < m /\ lines[m] = stripped[n]
  <2>1. n \in q + 1 .. last /\ n # p
    BY <1>1, <1>7
  <2> QED
    BY <1>4, <1>8, <1>11, <2>1
<1>12. {lines[m] : m \in {a \in Ahead : here < a}} \ {<<>>} =
         {stripped[n] : n \in p + 1 .. last} \ Skipped
  BY <1>10, <1>11
<1> QED
  BY <1>5, <1>9, <1>12 DEF here, last

\* The stripped lines do not change while they are searched.
LEMMA SameStripped ==
  ASSUME stripped' = stripped
  PROVE  /\ \A n : (Begins(n)' <=> Begins(n)) /\ (Ends(n)' <=> Ends(n))
         /\ \A b, e : NoneBetween(b, e)' <=> NoneBetween(b, e)
         /\ \A q : PairsUpTo(q)' = PairsUpTo(q)
         /\ imported' = imported => Skipped' = Skipped /\ \A b, e : TextBetween(b, e)' = TextBetween(b, e)
<1>1. \A n : (Begins(n)' <=> Begins(n)) /\ (Ends(n)' <=> Ends(n))
  BY DEF Begins, Ends
<1>2. \A b, e : NoneBetween(b, e)' <=> NoneBetween(b, e)
  BY DEF NoneBetween, Begins, Ends
<1>3. \A q : PairsUpTo(q)' = PairsUpTo(q)
  BY DEF PairsUpTo, NoneBetween, Begins, Ends
<1>4. imported' = imported => Skipped' = Skipped /\ \A b, e : TextBetween(b, e)' = TextBetween(b, e)
  BY DEF Skipped, TextBetween
<1> QED
  BY <1>1, <1>2, <1>3, <1>4

\* The same after a step, in words of the stripped lines before it.
LEMMA HasReadAfter ==
  ASSUME stripped' = stripped, imported' = imported, NEW q,
         {lines'[n] : n \in Ahead'} \ {<<>>} = {stripped[n] : n \in q + 1 .. Len(stripped)} \ Skipped,
         Len(blocks') = Cardinality(PairsUpTo(q)),
         \A n \in DOMAIN blocks' : \E p \in PairsUpTo(q) : IsPair(p, blocks'[n]),
         IF in_supdef_body'
         THEN \E b \in 1 .. q :
                /\ Begins(b) /\ BeginName[PragmaOf(stripped[b])] = block'.name
                /\ NoneBetween(b, q + 1)
                /\ TextBetween(b, q + 1) \subseteq ToSet(block'.body)
         ELSE \A b \in 1 .. q : Begins(b) => ~NoneBetween(b, q + 1)
  PROVE  HasRead(q)'
<1>1. /\ \A n : (Begins(n)' <=> Begins(n)) /\ (Ends(n)' <=> Ends(n))
      /\ \A b, e : NoneBetween(b, e)' <=> NoneBetween(b, e)
      /\ PairsUpTo(q)' = PairsUpTo(q)
      /\ Skipped' = Skipped /\ \A b, e : TextBetween(b, e)' = TextBetween(b, e)
  BY SameStripped
<1>2. BlocksUpTo(q)'
  <2>1. \A n \in DOMAIN blocks' : \A p : IsPair(p, blocks'[n]) => IsPair(p, blocks[n])'
    BY <1>1 DEF IsPair
  <2> QED
    BY <1>1, <2>1 DEF BlocksUpTo
<1>3. ({lines[n] : n \in Ahead} \ {<<>>} = {stripped[n] : n \in q + 1 .. Len(stripped)} \ Skipped)'
  BY <1>1
<1>4. CASE in_supdef_body'
  <2>1. PICK b \in 1 .. q :
          /\ Begins(b) /\ BeginName[PragmaOf(stripped[b])] = block'.name
          /\ NoneBetween(b, q + 1)
          /\ TextBetween(b, q + 1) \subseteq ToSet(block'.body)
    BY <1>4
  <2>2. /\ Begins(b)' /\ BeginName[PragmaOf(stripped'[b])] = block'.name
        /\ NoneBetween(b, q + 1)'
        /\ TextBetween(b, q + 1)' \subseteq ToSet(block'.body)
    BY <1>1, <2>1
  <2> QED
    BY <1>2, <1>3, <1>4, <2>2 DEF HasRead
<1>5. CASE ~in_supdef_body'
  <2>1. \A b \in 1 .. q : Begins(b)' => ~NoneBetween(b, q + 1)'
    BY <1>1, <1>5
  <2> QED
    BY <1>2, <1>3, <1>5, <2>1 DEF HasRead
<1> QED
  BY <1>4, <1>5

\* What search_super_defines has read stays read as long as it does nothing.
LEMMA StillRead ==
  ASSUME UNCHANGED <<stripped, imported, lines, blocks, in_supdef_body, block>>,
         i'[SSD] = i[SSD], NEW q, HasRead(q)
  PROVE  HasRead(q)'
<1>1. Ahead' = Ahead
  BY DEF Ahead
<1>2. {lines'[n] : n \in Ahead'} \ {<<>>} = {stripped[n] : n \in q + 1 .. Len(stripped)} \ Skipped
  BY <1>1 DEF HasRead
<1>3. /\ Len(blocks') = Cardinality(PairsUpTo(q))
      /\ \A n \in DOMAIN blocks' : \E p \in PairsUpTo(q) : IsPair(p, blocks'[n])
  BY DEF HasRead, BlocksUpTo
<1> QED
  BY <1>2, <1>3, HasReadAfter DEF HasRead

\* The blocks of all pairs are found when nothing is ahead.
LEMMA AllRead ==
  ASSUME Types, Scanned, NEW q \in 0 .. Len(stripped), HasRead(q), Ahead = {}
  PROVE  BlocksUpTo(Len(stripped))
<1>1. AreLines(stripped) /\ Len(stripped) \in Nat /\ q \in Nat /\ q <= Len(stripped)
  BY DEF Types, AreLines
<1>2. \A n \in q + 1 .. Len(stripped) : stripped[n] \in Skipped
  BY DEF HasRead
<1>3. \A n \in q + 1 .. Len(stripped) : ~Ends(n)
  BY <1>2, SkippedLines
<1>4. PairsUpTo(Len(stripped)) = PairsUpTo(q)
  BY <1>1, <1>3, PairsStay
<1> QED
  BY <1>4 DEF HasRead, BlocksUpTo

\* An import that is found is out of the lines and out of the bodies.
LEMMA BlocksStay ==
  ASSUME stripped' = stripped, blocks' = blocks, ToSet(imported) \subseteq ToSet(imported'),
         NEW q, BlocksUpTo(q)
  PROVE  BlocksUpTo(q)'
<1>1. PairsUpTo(q)' = PairsUpTo(q)
  BY SameStripped
<1>2. \A b, e : TextBetween(b, e)' \subseteq TextBetween(b, e)
  BY DEF TextBetween, Skipped
<1>3. \A n \in DOMAIN blocks : \A p : IsPair(p, blocks[n]) => IsPair(p, blocks[n])'
  BY <1>2 DEF IsPair
<1> QED
  BY <1>1, <1>3 DEF BlocksUpTo

\* A line that is looked at is read: the position p of the stripped line.
LEMMA LineIsRead ==
  ASSUME Types, Scanned, AtLine(SSD), Takes(SSD) \/ Leaves(SSD), Line # <<>>,
         UNCHANGED <<stripped, imported>>, NEW q \in 0 .. Len(stripped), HasRead(q)
  PROVE  \E p \in DOMAIN stripped :
           /\ p \in Nat /\ p \in 0 .. Len(stripped) /\ q \in Nat /\ q < p /\ stripped[p] = Line
           /\ \A n \in q + 1 .. p - 1 : stripped[n] \in Skipped /\ ~Begins(n) /\ ~Ends(n)
           /\ {lines'[n] : n \in Ahead'} \ {<<>>} =
                {stripped[n] : n \in p + 1 .. Len(stripped)} \ Skipped
<1>1. PICK p \in q + 1 .. Len(stripped) :
        /\ stripped[p] = Line
        /\ \A n \in q + 1 .. p - 1 : stripped[n] \in Skipped
        /\ {lines[m] : m \in {a \in Ahead : i[SSD] < a}} \ {<<>>} =
             {stripped[n] : n \in p + 1 .. Len(stripped)} \ Skipped
  BY NextLine
<1>2. /\ \A n \in Ahead' : \E m \in Ahead : i[SSD] < m /\ lines'[n] = lines[m]
      /\ \A m \in Ahead : i[SSD] < m => \E n \in Ahead' : lines'[n] = lines[m]
  BY BehindTheLine
<1>3. {lines'[n] : n \in Ahead'} = {lines[m] : m \in {a \in Ahead : i[SSD] < a}}
  BY <1>2
<1>4. /\ DOMAIN stripped = 1 .. Len(stripped) /\ Len(stripped) \in Nat
  BY DEF Types, AreLines
<1>5. p \in DOMAIN stripped /\ p \in Nat /\ p \in 0 .. Len(stripped) /\ q \in Nat /\ q < p
  BY <1>4
<1>6. \A n \in q + 1 .. p - 1 : ~Begins(n) /\ ~Ends(n)
  BY <1>1, SkippedLines
<1> QED
  BY <1>1, <1>3, <1>5, <1>6

\* The pairs stay when the line is no end.
LEMMA BlocksUpToNext ==
  ASSUME Types, NEW q \in Nat, NEW p \in Nat, q < p, ~Ends(p),
         \A n \in q + 1 .. p - 1 : ~Ends(n), BlocksUpTo(q), blocks' = blocks
  PROVE  /\ Len(blocks') = Cardinality(PairsUpTo(p))
         /\ \A n \in DOMAIN blocks' : \E x \in PairsUpTo(p) : IsPair(x, blocks'[n])
<1>1. \A n \in q + 1 .. p : n = p \/ n \in q + 1 .. p - 1
  OBVIOUS
<1>2. PairsUpTo(p) = PairsUpTo(q)
  BY <1>1, PairsStay DEF Types
<1> QED
  BY <1>2 DEF BlocksUpTo

\* A begin outside a block opens one, at the next line that matters.
LEMMA BeginIsRead ==
  ASSUME Types, Scanned, BeginBlock, ~in_supdef_body, stripped' = stripped,
         NEW q \in 0 .. Len(stripped), HasRead(q)
  PROVE  \E p \in 0 .. Len(stripped) : HasRead(p)'
<1>1. /\ AtLine(SSD) /\ Takes(SSD) /\ PragmaOf(Line) \in DOMAIN BeginName /\ imported' = imported
      /\ blocks' = blocks /\ in_supdef_body' = TRUE /\ block'.name = BeginName[PragmaOf(Line)]
  BY DEF BeginBlock, NoBlock
<1>2. Line # <<>>
  BY <1>1, PragmasStand DEF BeginName
<1>3. PICK p \in DOMAIN stripped :
        /\ p \in Nat /\ p \in 0 .. Len(stripped) /\ q \in Nat /\ q < p /\ stripped[p] = Line
        /\ \A n \in q + 1 .. p - 1 : stripped[n] \in Skipped /\ ~Begins(n) /\ ~Ends(n)
        /\ {lines'[n] : n \in Ahead'} \ {<<>>} =
             {stripped[n] : n \in p + 1 .. Len(stripped)} \ Skipped
  BY <1>1, <1>2, LineIsRead
<1>4. Begins(p) /\ ~Ends(p)
  BY <1>1, <1>3, BeginsOrEnds DEF Begins
<1>5. /\ Len(blocks') = Cardinality(PairsUpTo(p))
      /\ \A n \in DOMAIN blocks' : \E x \in PairsUpTo(p) : IsPair(x, blocks'[n])
  BY <1>1, <1>3, <1>4, BlocksUpToNext DEF HasRead
<1>6. /\ p \in 1 .. p /\ NoneBetween(p, p + 1) /\ TextBetween(p, p + 1) = {}
  <2>1. p \in 1 .. p /\ p + 1 .. (p + 1) - 1 = {}
    BY <1>3
  <2> QED
    BY <2>1 DEF NoneBetween, TextBetween
<1>7. BeginName[PragmaOf(stripped[p])] = block'.name
  BY <1>1, <1>3
<1>8. HasRead(p)'
  BY <1>1, <1>3, <1>4, <1>5, <1>6, <1>7, HasReadAfter
<1> QED
  BY <1>3, <1>8

\* An end inside a block closes it, and its pair is the new one.
LEMMA EndIsRead ==
  ASSUME Types, Scanned, EndBlock, in_supdef_body, EndName[PragmaOf(Line)] = block.name,
         stripped' = stripped, NEW q \in 0 .. Len(stripped), HasRead(q)
  PROVE  \E p \in 0 .. Len(stripped) : HasRead(p)'
<1> DEFINE new == [block EXCEPT !.end = CurrLine(Line)]
<1>1. /\ AtLine(SSD) /\ Takes(SSD) /\ PragmaOf(Line) \in DOMAIN EndName /\ imported' = imported
      /\ blocks' = Append(blocks, new) /\ in_supdef_body' = FALSE
      /\ new.name = block.name /\ new.body = block.body
  BY DEF EndBlock, Types, Block
<1> HIDE DEF new
<1>2. Line # <<>>
  BY <1>1, PragmasStand DEF EndName
<1>3. PICK p \in DOMAIN stripped :
        /\ p \in Nat /\ p \in 0 .. Len(stripped) /\ q \in Nat /\ q < p /\ stripped[p] = Line
        /\ \A n \in q + 1 .. p - 1 : stripped[n] \in Skipped /\ ~Begins(n) /\ ~Ends(n)
        /\ {lines'[n] : n \in Ahead'} \ {<<>>} =
             {stripped[n] : n \in p + 1 .. Len(stripped)} \ Skipped
  BY <1>1, <1>2, LineIsRead
<1>4. Ends(p) /\ ~Begins(p)
  BY <1>1, <1>3, BeginsOrEnds DEF Ends
<1>5. PICK b \in 1 .. q :
        /\ Begins(b) /\ BeginName[PragmaOf(stripped[b])] = block.name
        /\ NoneBetween(b, q + 1)
        /\ TextBetween(b, q + 1) \subseteq ToSet(block.body)
  BY DEF HasRead
<1>6. /\ PairsUpTo(p) = PairsUpTo(q) \cup {<<b, p>>}
      /\ <<b, p>> \notin PairsUpTo(q)
      /\ \A n \in b + 1 .. p - 1 : n \in b + 1 .. q \/ n \in q + 1 .. p - 1
  BY <1>3, <1>4, <1>5, PairsGrow DEF Types
<1>7. BlocksUpTo(q)
  BY DEF HasRead
<1>8. /\ Len(blocks) \in Nat /\ DOMAIN blocks' = 1 .. Len(blocks) + 1 /\ DOMAIN blocks = 1 .. Len(blocks)
      /\ Len(blocks') = Len(blocks) + 1 /\ blocks'[Len(blocks) + 1] = new
      /\ \A n \in DOMAIN blocks : blocks'[n] = blocks[n]
  BY <1>1 DEF Types
<1>9. Len(blocks') = Cardinality(PairsUpTo(p))
  <2>1. IsFiniteSet(PairsUpTo(q))
    BY PairsAreFinite DEF Types
  <2>2. Cardinality(PairsUpTo(q) \cup {<<b, p>>}) = Cardinality(PairsUpTo(q)) + 1
    BY <1>6, <2>1, FS_AddElement
  <2> QED
    BY <1>6, <1>7, <1>8, <2>2 DEF BlocksUpTo
<1>10. TextBetween(b, p) \subseteq ToSet(block.body)
  <2>1. ASSUME NEW n \in b + 1 .. p - 1, stripped[n] \notin Skipped
        PROVE  stripped[n] \in TextBetween(b, q + 1)
    <3>1. n \in b + 1 .. (q + 1) - 1
      BY <1>3, <1>6, <2>1
    <3> QED
      BY <2>1, <3>1 DEF TextBetween
  <2>2. TextBetween(b, p) \subseteq TextBetween(b, q + 1)
    BY <2>1 DEF TextBetween
  <2> QED
    BY <1>5, <2>2
<1>11. IsPair(<<b, p>>, new)
  BY <1>1, <1>3, <1>5, <1>10 DEF IsPair
<1>12. \A n \in DOMAIN blocks' : \E x \in PairsUpTo(p) : IsPair(x, blocks'[n])
  <2> SUFFICES ASSUME NEW n \in DOMAIN blocks'
               PROVE  \E x \in PairsUpTo(p) : IsPair(x, blocks'[n])
    OBVIOUS
  <2>1. CASE n \in DOMAIN blocks
    BY <1>6, <1>7, <1>8, <2>1 DEF BlocksUpTo
  <2>2. CASE n = Len(blocks) + 1
    BY <1>6, <1>8, <1>11, <2>2
  <2> QED
    BY <1>8, <2>1, <2>2
<1>13. \A a \in 1 .. p : Begins(a) => ~NoneBetween(a, p + 1)
  <2> SUFFICES ASSUME NEW a \in 1 .. p, Begins(a)
               PROVE  ~NoneBetween(a, p + 1)
    OBVIOUS
  <2>1. a # p
    BY <1>4
  <2>2. p \in a + 1 .. (p + 1) - 1
    BY <1>3, <2>1
  <2> QED
    BY <1>4, <2>2 DEF NoneBetween
<1>14. HasRead(p)'
  BY <1>1, <1>3, <1>9, <1>12, <1>13, HasReadAfter
<1> QED
  BY <1>3, <1>14

\* A line of text inside a block goes into its body.
LEMMA BodyIsRead ==
  ASSUME Types, Scanned, BodyLine, stripped' = stripped, NEW q \in 0 .. Len(stripped), HasRead(q)
  PROVE  \E p \in 0 .. Len(stripped) : HasRead(p)'
<1>1. /\ AtLine(SSD) /\ Takes(SSD) /\ IsText(Line) /\ imported' = imported /\ blocks' = blocks
      /\ in_supdef_body /\ in_supdef_body' /\ block'.name = block.name
      /\ block'.body = Append(block.body, Line)
      /\ block.body \in Seq(Seq(ParsedChar)) /\ Line \in Seq(ParsedChar)
  BY AtALine DEF BodyLine, Types, Block, Line, SSD, Coroutines
<1>2. PICK p \in DOMAIN stripped :
        /\ p \in Nat /\ p \in 0 .. Len(stripped) /\ q \in Nat /\ q < p /\ stripped[p] = Line
        /\ \A n \in q + 1 .. p - 1 : stripped[n] \in Skipped /\ ~Begins(n) /\ ~Ends(n)
        /\ {lines'[n] : n \in Ahead'} \ {<<>>} =
             {stripped[n] : n \in p + 1 .. Len(stripped)} \ Skipped
  BY <1>1, LineIsRead DEF IsText
<1>3. ~Begins(p) /\ ~Ends(p)
  BY <1>1, <1>2 DEF IsText, Begins, Ends
<1>4. /\ Len(blocks') = Cardinality(PairsUpTo(p))
      /\ \A n \in DOMAIN blocks' : \E x \in PairsUpTo(p) : IsPair(x, blocks'[n])
  BY <1>1, <1>2, <1>3, BlocksUpToNext DEF HasRead
<1>5. PICK b \in 1 .. q :
        /\ Begins(b) /\ BeginName[PragmaOf(stripped[b])] = block.name
        /\ NoneBetween(b, q + 1)
        /\ TextBetween(b, q + 1) \subseteq ToSet(block.body)
  BY <1>1 DEF HasRead
<1>6. b \in 1 .. p /\ \A n \in b + 1 .. (p + 1) - 1 : n \in b + 1 .. (q + 1) - 1 \/ n \in q + 1 .. p - 1 \/ n = p
  BY <1>2
<1>7. NoneBetween(b, p + 1)
  <2>1. \A n \in b + 1 .. (q + 1) - 1 : ~Begins(n) /\ ~Ends(n)
    BY <1>5 DEF NoneBetween
  <2> QED
    BY <1>2, <1>3, <1>6, <2>1 DEF NoneBetween
<1>8. /\ ToSet(block.body) \subseteq ToSet(block'.body) /\ Line \in ToSet(block'.body)
  <2> DEFINE body == block.body
             more == Append(body, Line)
  <2>1. /\ DOMAIN more = 1 .. Len(body) + 1 /\ DOMAIN body = 1 .. Len(body) /\ Len(body) \in Nat
        /\ more[Len(body) + 1] = Line /\ \A n \in 1 .. Len(body) : more[n] = body[n]
    BY <1>1
  <2>2. block'.body = more
    BY <1>1
  <2> HIDE DEF body, more
  <2>3. Len(body) + 1 \in DOMAIN more /\ \A n \in DOMAIN body : n \in DOMAIN more
    BY <2>1
  <2>4. ToSet(body) \subseteq ToSet(more) /\ Line \in ToSet(more)
    BY <2>1, <2>3 DEF ToSet
  <2> QED
    BY <2>2, <2>4 DEF body
<1>9. TextBetween(b, p + 1) \subseteq ToSet(block'.body)
  <2>1. ASSUME NEW n \in b + 1 .. (p + 1) - 1, stripped[n] \notin Skipped
        PROVE  stripped[n] \in TextBetween(b, q + 1) \/ stripped[n] = Line
    <3>1. n \in b + 1 .. (q + 1) - 1 \/ n = p
      BY <1>2, <1>6, <2>1
    <3> QED
      BY <1>2, <2>1, <3>1 DEF TextBetween
  <2>2. TextBetween(b, p + 1) \subseteq TextBetween(b, q + 1) \cup {Line}
    BY <2>1 DEF TextBetween
  <2> QED
    BY <1>5, <1>8, <2>2
<1>10. HasRead(p)'
  BY <1>1, <1>2, <1>4, <1>5, <1>6, <1>7, <1>9, HasReadAfter
<1> QED
  BY <1>2, <1>10

\* A line that is left is empty or outside the blocks.
LEMMA OutsideIsRead ==
  ASSUME Types, Scanned, OutsideLine, stripped' = stripped, NEW q \in 0 .. Len(stripped), HasRead(q)
  PROVE  \E p \in 0 .. Len(stripped) : HasRead(p)'
<1>1. /\ AtLine(SSD) /\ Leaves(SSD) /\ UNCHANGED <<imported, blocks, in_supdef_body, block>>
      /\ Line = <<>> \/ (IsText(Line) /\ ~in_supdef_body)
  BY DEF OutsideLine, found
<1>2. CASE Line = <<>>
  <2>1. /\ i[SSD] \in Ahead /\ lines[i[SSD]] = <<>>
        /\ \A n \in Ahead' : \E m \in Ahead : i[SSD] < m /\ lines'[n] = lines[m]
        /\ \A m \in Ahead : i[SSD] < m => \E n \in Ahead' : lines'[n] = lines[m]
    BY <1>1, <1>2, BehindTheLine DEF Line
  <2>2. \A m \in Ahead : m # i[SSD] => i[SSD] < m
    BY <1>1, AtALine DEF Ahead, Types, AreLines, SSD, Coroutines
  <2>3. {lines'[n] : n \in Ahead'} \ {<<>>} = {lines[n] : n \in Ahead} \ {<<>>}
    BY <2>1, <2>2
  <2>4. HasRead(q)'
    BY <1>1, <2>3, HasReadAfter DEF HasRead, BlocksUpTo
  <2> QED
    BY <2>4
<1>3. CASE Line # <<>>
  <2>1. IsText(Line) /\ ~in_supdef_body
    BY <1>1, <1>3
  <2>2. PICK p \in DOMAIN stripped :
          /\ p \in Nat /\ p \in 0 .. Len(stripped) /\ q \in Nat /\ q < p /\ stripped[p] = Line
          /\ \A n \in q + 1 .. p - 1 : stripped[n] \in Skipped /\ ~Begins(n) /\ ~Ends(n)
          /\ {lines'[n] : n \in Ahead'} \ {<<>>} =
               {stripped[n] : n \in p + 1 .. Len(stripped)} \ Skipped
    BY <1>1, <1>3, LineIsRead
  <2>3. ~Begins(p) /\ ~Ends(p)
    BY <2>1, <2>2 DEF IsText, Begins, Ends
  <2>4. /\ Len(blocks') = Cardinality(PairsUpTo(p))
        /\ \A n \in DOMAIN blocks' : \E x \in PairsUpTo(p) : IsPair(x, blocks'[n])
    BY <1>1, <2>2, <2>3, BlocksUpToNext DEF HasRead
  <2>5. \A b \in 1 .. p : Begins(b) => ~NoneBetween(b, p + 1)
    <3> SUFFICES ASSUME NEW b \in 1 .. p, Begins(b)
                 PROVE  ~NoneBetween(b, p + 1)
      OBVIOUS
    <3>1. b \in 1 .. q
      <4>1. b # p /\ (b \in 1 .. q \/ b = p \/ b \in q + 1 .. p - 1)
        BY <2>2, <2>3
      <4> QED
        BY <2>2, <4>1
    <3>2. ~NoneBetween(b, q + 1)
      BY <2>1, <3>1 DEF HasRead
    <3>3. \A n \in b + 1 .. (q + 1) - 1 : n \in b + 1 .. (p + 1) - 1
      BY <2>2
    <3> QED
      BY <3>2, <3>3 DEF NoneBetween
  <2>6. HasRead(p)'
    BY <1>1, <2>1, <2>2, <2>4, <2>5, HasReadAfter
  <2> QED
    BY <2>2, <2>6
<1> QED
  BY <1>2, <1>3

\* A search that was mixed with the other one stays so.
LEMMA MixedStays ==
  ASSUME Turns, SearchStep, ~mixed'
  PROVE  ~mixed
<1>1. PICK c \in Coroutines : ResumeSearch(c) \/ Moves(c)
  BY SearchesMove
<1> QED
  BY <1>1 DEF ResumeSearch, Moves

\* How the coroutines are after a step, each for itself.
LEMMA StatesAfter ==
  ASSUME Types, Turns, SearchStep
  PROVE  \A c \in Coroutines :
           \/ state'[c] = state[c]
           \/ ResumeSearch(c) /\ state'[c] \in {"empty", "running"}
           \/ End(c) /\ state'[c] = "null"
           \/ state'[c] \in {"error", "suspended"} /\ state[c] = "running"
           \/ state'[c] = "error" /\ state[c] = "empty"
<1>1. /\ state \in [Coroutines -> {"created", "empty", "running", "suspended", "null", "error"}]
      /\ SI \in Coroutines /\ SSD \in Coroutines
  BY DEF Types, ParserTypeOK, SI, SSD, Coroutines
<1>2. ASSUME NEW c \in Coroutines, NEW d \in Coroutines, ResumeSearch(d)
      PROVE  state'[c] = state[c] \/ (ResumeSearch(c) /\ state'[c] \in {"empty", "running"})
  BY <1>1, <1>2 DEF ResumeSearch
<1>3. ASSUME NEW c \in Coroutines, NEW d \in Coroutines, ReturnEmpty(d)
      PROVE  state'[c] = state[c] \/ (state'[c] = "error" /\ state[c] = "empty")
  BY <1>1, <1>3 DEF ReturnEmpty
<1>4. ASSUME NEW c \in Coroutines, NEW d \in Coroutines, End(d)
      PROVE  state'[c] = state[c] \/ (End(c) /\ state'[c] = "null")
  BY <1>1, <1>4 DEF End
<1>5. ASSUME NEW c \in Coroutines, NEW d \in Coroutines, Running(d),
             Yields(d) \/ EndsInError(d) \/ KeepsRunning
      PROVE  state'[c] = state[c] \/ (state'[c] \in {"error", "suspended"} /\ state[c] = "running")
  BY <1>1, <1>5 DEF Running, Yields, EndsInError, KeepsRunning
<1>6. FindImport \/ RejectImport \/ PassLine =>
        Running(SI) /\ (Yields(SI) \/ EndsInError(SI) \/ KeepsRunning)
  BY DEF FindImport, RejectImport, PassLine, AtLine
<1>7. BeginBlock \/ EndBlock \/ BodyLine \/ OutsideLine =>
        Running(SSD) /\ (Yields(SSD) \/ EndsInError(SSD) \/ KeepsRunning)
  BY DEF BeginBlock, EndBlock, BodyLine, OutsideLine, AtLine
<1> QED
  BY <1>1, <1>2, <1>3, <1>4, <1>5, <1>6, <1>7 DEF SearchStep

\* No import is behind search_imports.
LEMMA ImportsStep ==
  ASSUME Types, Turns, Scanned, Step
  PROVE  /\ \A n \in DOMAIN imported' : ~NoImport(imported'[n])
         /\ ~mixed' /\ state'[SI] \in {"running", "suspended"} =>
              \A n \in DOMAIN lines' : n < i'[SI] => NoImport(lines'[n])
         /\ ~mixed' /\ state'[SI] = "null" => \A n \in DOMAIN lines' : NoImport(lines'[n])
<1> DEFINE here == i[SI]
<1>1. /\ AreLines(lines) /\ DOMAIN lines = 1 .. Len(lines) /\ Len(lines) \in Nat
      /\ SI \in Coroutines /\ SSD \in Coroutines /\ SI # SSD
      /\ here \in Nat \ {0} /\ DOMAIN i = Coroutines
      /\ imported \in Seq(Seq(ParsedChar))
  BY DEF Types, ParserTypeOK, AreLines, SI, SSD, Coroutines
<1>2. CASE ~SearchStep
  <2>1. state'[SI] = "created" /\ imported' = imported
    BY <1>1, <1>2, TextComesFirst DEF searches, found, Turns
  <2> QED
    BY <2>1 DEF Scanned
<1>3. CASE SearchStep
  <2>1. ~mixed' => ~mixed
    BY <1>3, MixedStays
  <2>2. AtLine(SI) => here \in DOMAIN lines /\ state[SI] = "running" /\ running = SI
    BY <1>1, AtALine DEF AtLine, Running
  <2>3. CASE FindImport
    <3>1. /\ AtLine(SI) /\ PragmaOf(lines[here]) = "import" /\ i' = i
          /\ imported' = Append(imported, lines[here]) /\ lines' = RemoveAt(lines, here)
          /\ state'[SI] = "suspended"
      BY <1>1, <2>3 DEF FindImport, Takes, Yields, Types, ParserTypeOK
    <3>2. /\ DOMAIN lines' = 1 .. Len(lines) - 1
          /\ \A n \in DOMAIN lines' : lines'[n] = IF n < here THEN lines[n] ELSE lines[n + 1]
      <4>1. here \in DOMAIN lines
        BY <2>2, <3>1
      <4>2. AreLines(lines) /\ lines' = RemoveAt(lines, here)
        BY <1>1, <3>1
      <4> HIDE DEF here
      <4> QED
        BY <4>1, <4>2, TakeLine
    <3>3. \A n \in DOMAIN lines' : n < here => n \in DOMAIN lines /\ lines'[n] = lines[n]
      BY <1>1, <3>2
    <3>4. lines[here] \in Seq(ParsedChar)
      BY <1>1, <3>1, AtALine
    <3>5. \A n \in DOMAIN imported' :
            (n \in DOMAIN imported /\ imported'[n] = imported[n]) \/ imported'[n] = lines[here]
      BY <1>1, <3>1, <3>4
    <3> QED
      BY <2>1, <2>2, <3>1, <3>3, <3>5 DEF Scanned, NoImport
  <2>4. CASE RejectImport \/ PassLine
    <3>1. /\ AtLine(SI) /\ i'[SI] = here + 1 /\ lines' = lines /\ imported' = imported
          /\ state'[SI] # "null"
      BY <1>1, <2>2, <2>4 DEF RejectImport, PassLine, Leaves, Yields, KeepsRunning, found, Types,
                              ParserTypeOK, AtLine, Running
    <3>2. NoImport(lines[here])
      BY <2>4, BadImportsHaveNoPragma DEF RejectImport, PassLine, NoImport
    <3>3. \A n \in DOMAIN lines : n < here + 1 => n < here \/ n = here
      BY <1>1
    <3> QED
      BY <2>1, <2>2, <3>1, <3>2, <3>3 DEF Scanned
  <2>5. CASE \E c \in Coroutines : ReturnEmpty(c) \/ End(c) \/ ResumeSearch(c)
    <3>1. PICK c \in Coroutines : ReturnEmpty(c) \/ End(c) \/ ResumeSearch(c)
      BY <2>5
    <3>2. lines' = lines /\ imported' = imported /\ i' = i
      BY <3>1 DEF ReturnEmpty, End, ResumeSearch, found
    <3>3. CASE state'[SI] = state[SI]
      BY <2>1, <3>2, <3>3 DEF Scanned
    <3>4. CASE ResumeSearch(SI) /\ state'[SI] \in {"empty", "running"}
      <4>1. state[SI] = "suspended" \/ here = 1
        BY <1>1, <3>4 DEF ResumeSearch, Turns
      <4>2. \A n \in DOMAIN lines : ~(n < 1)
        BY <1>1
      <4> QED
        BY <2>1, <3>2, <3>4, <4>1, <4>2 DEF Scanned
    <3>5. CASE End(SI) /\ state'[SI] = "null"
      <4>1. \A n \in DOMAIN lines : n < here
        BY <1>1, <3>5 DEF End
      <4>2. state[SI] = "running"
        BY <3>5 DEF End, Running
      <4> QED
        BY <2>1, <3>2, <3>5, <4>1, <4>2 DEF Scanned
    <3>6. CASE state'[SI] \in {"error", "suspended"} /\ state[SI] = "running"
      BY <2>1, <3>2, <3>6 DEF Scanned
    <3>7. CASE state'[SI] = "error"
      BY <3>2, <3>7 DEF Scanned
    <3> QED
      BY <1>1, <1>3, <3>3, <3>4, <3>5, <3>6, <3>7, StatesAfter
  <2>6. CASE BeginBlock \/ EndBlock \/ BodyLine \/ OutsideLine
    <3>1. running = SSD /\ state[SSD] = "running" /\ AtLine(SSD) /\ imported' = imported
      BY <2>6 DEF BeginBlock, EndBlock, BodyLine, OutsideLine, AtLine, Running, found
    <3>2. state'[SI] = state[SI]
      <4>1. state' = state \/ \E s : state' = [state EXCEPT ![SSD] = s]
        BY <2>6 DEF BeginBlock, EndBlock, BodyLine, OutsideLine, Yields, EndsInError, KeepsRunning
      <4>2. state \in [Coroutines -> {"created", "empty", "running", "suspended", "null", "error"}]
        BY DEF Types, ParserTypeOK
      <4> QED
        BY <1>1, <4>1, <4>2
    <3>3. ~mixed => state[SI] \notin Active
      BY <1>1, <3>1 DEF Turns, Active
    <3>4. lines' = lines \/ lines' = RemoveAt(lines, i[SSD])
      BY <2>6 DEF BeginBlock, EndBlock, BodyLine, OutsideLine, Takes, Leaves
    <3>5. ToSet(lines') \subseteq ToSet(lines)
      <4>1. i[SSD] \in DOMAIN lines
        BY <1>1, <3>1, AtALine
      <4> QED
        BY <1>1, <3>4, <4>1, TakeLine
    <3>6. \A n \in DOMAIN lines' : \E m \in DOMAIN lines : lines'[n] = lines[m]
      BY <3>5 DEF ToSet
    <3> QED
      BY <2>1, <3>1, <3>2, <3>3, <3>6 DEF Scanned, Active
  <2> QED
    BY <1>3, <2>3, <2>4, <2>5, <2>6 DEF SearchStep
<1> QED
  BY <1>2, <1>3

\* Before search_super_defines starts, an import leaves what is ahead of it.
LEMMA ImportIsRead ==
  ASSUME Types, Turns, Scanned, FindImport, state[SSD] = "created", stripped' = stripped,
         NEW q \in 0 .. Len(stripped), HasRead(q)
  PROVE  HasRead(q)'
<1> DEFINE here == i[SI]
           taken == lines[here]
<1>1. /\ AtLine(SI) /\ PragmaOf(taken) = "import" /\ i' = i
      /\ imported' = Append(imported, taken) /\ lines' = RemoveAt(lines, here)
      /\ UNCHANGED <<blocks, in_supdef_body, block>>
  BY DEF FindImport, Takes
<1>2. /\ AreLines(lines) /\ DOMAIN lines = 1 .. Len(lines) /\ Len(lines) \in Nat
      /\ SI \in Coroutines /\ SSD \in Coroutines /\ imported \in Seq(Seq(ParsedChar))
  BY DEF Types, AreLines, SI, SSD, Coroutines
<1>3. here \in DOMAIN lines /\ taken \in Seq(ParsedChar)
  BY <1>1, <1>2, AtALine
<1>4. taken # <<>>
  BY <1>1, PragmasStand
<1>5. i[SSD] = 1 /\ ~in_supdef_body
  BY <1>2 DEF Turns
<1> HIDE DEF taken
<1>6. /\ ToSet(lines') \subseteq ToSet(lines) /\ ToSet(lines) \subseteq ToSet(lines') \cup {taken}
      /\ taken \notin ToSet(lines') /\ DOMAIN lines' = 1 .. Len(lines) - 1
  <2> HIDE DEF here
  <2>1. /\ ToSet(lines') \subseteq ToSet(lines) /\ ToSet(lines) \subseteq ToSet(lines') \cup {lines[here]}
        /\ lines[here] # <<>> => lines[here] \notin ToSet(lines')
        /\ DOMAIN lines' = 1 .. Len(lines) - 1
    BY <1>1, <1>2, <1>3, TakeLine
  <2> QED
    BY <1>4, <2>1 DEF taken
<1>7. ToSet(imported') = ToSet(imported) \cup {taken}
  <2>1. /\ DOMAIN imported' = 1 .. Len(imported) + 1 /\ DOMAIN imported = 1 .. Len(imported)
        /\ Len(imported) \in Nat /\ imported'[Len(imported) + 1] = taken
        /\ \A n \in 1 .. Len(imported) : imported'[n] = imported[n]
    BY <1>1, <1>2, <1>3
  <2>2. /\ Len(imported) + 1 \in DOMAIN imported' /\ \A n \in DOMAIN imported : n \in DOMAIN imported'
        /\ \A n \in DOMAIN imported' : n \in DOMAIN imported \/ n = Len(imported) + 1
    BY <2>1
  <2> QED
    BY <2>1, <2>2 DEF ToSet
<1>8. Ahead = DOMAIN lines /\ Ahead' = DOMAIN lines'
  BY <1>1, <1>2, <1>5, <1>6 DEF Ahead
<1>9. {lines[n] : n \in Ahead} = ToSet(lines) /\ {lines'[n] : n \in Ahead'} = ToSet(lines')
  BY <1>8 DEF ToSet
<1>10. ToSet(lines) \ {<<>>} = {stripped[n] : n \in q + 1 .. Len(stripped)} \ Skipped
  BY <1>9 DEF HasRead
<1>11. Skipped' = Skipped \cup {taken} /\ <<>> \in Skipped
  BY <1>7 DEF Skipped
<1>12. ToSet(lines') \ {<<>>} = {stripped[n] : n \in q + 1 .. Len(stripped)} \ Skipped'
  BY <1>6, <1>10, <1>11
<1>13. BlocksUpTo(q)'
  BY <1>1, <1>7, BlocksStay DEF HasRead
<1>14. ~in_supdef_body' /\ \A b \in 1 .. q : Begins(b)' => ~NoneBetween(b, q + 1)'
  BY <1>1, <1>5, SameStripped DEF HasRead
<1> QED
  BY <1>9, <1>12, <1>13, <1>14 DEF HasRead

\* Nothing is read of the lines as they come from strip_comments.
LEMMA NothingIsRead ==
  ASSUME AreLines(stripped)', lines' = stripped', i'[SSD] = 1, imported' = <<>>,
         blocks' = <<>>, ~in_supdef_body'
  PROVE  HasRead(0)'
<1>1. DOMAIN stripped' = 1 .. Len(stripped') /\ Len(stripped') \in Nat
  BY DEF AreLines
<1>2. Ahead' = 0 + 1 .. Len(stripped')
  BY <1>1 DEF Ahead
<1>3. Skipped' = {<<>>}
  BY DEF Skipped, ToSet
<1>4. ({lines[n] : n \in Ahead} \ {<<>>} = {stripped[n] : n \in 0 + 1 .. Len(stripped)} \ Skipped)'
  BY <1>2, <1>3
<1>5. PairsUpTo(0)' = {}
  <2>1. \A p \in (DOMAIN stripped') \X (DOMAIN stripped') : ~(p[2] <= 0)
    BY <1>1
  <2> QED
    BY <2>1 DEF PairsUpTo
<1>6. BlocksUpTo(0)'
  <2>1. Len(blocks') = 0 /\ DOMAIN blocks' = {}
    OBVIOUS
  <2> QED
    BY <1>5, <2>1, FS_EmptySet DEF BlocksUpTo
<1>7. \A b \in 1 .. 0 : FALSE
  OBVIOUS
<1> QED
  BY <1>4, <1>6, <1>7 DEF HasRead

\* The state of search_super_defines after a step of search_imports.
LEMMA OtherState ==
  ASSUME Types, FindImport \/ RejectImport \/ PassLine
  PROVE  state'[SSD] = state[SSD] /\ i'[SSD] = i[SSD]
<1>1. /\ state \in [Coroutines -> {"created", "empty", "running", "suspended", "null", "error"}]
      /\ DOMAIN i = Coroutines /\ SI \in Coroutines /\ SSD \in Coroutines /\ SI # SSD
  BY DEF Types, ParserTypeOK, SI, SSD, Coroutines
<1>2. state' = state \/ \E s : state' = [state EXCEPT ![SI] = s]
  BY DEF FindImport, RejectImport, PassLine, Yields, KeepsRunning
<1>3. i' = i \/ i' = [i EXCEPT ![SI] = @ + 1]
  BY DEF FindImport, RejectImport, PassLine, Takes, Leaves
<1> QED
  BY <1>1, <1>2, <1>3

\* search_super_defines reads one line after the other.
LEMMA ReadingStep ==
  ASSUME Types, Types', Turns, Scanned, Step, stage' = "stripped",
         state'[SSD] = "created" \/ (~mixed' /\ state'[SSD] \in {"running", "suspended"})
  PROVE  \E q \in 0 .. Len(stripped') : HasRead(q)'
<1>1. /\ SI \in Coroutines /\ SSD \in Coroutines /\ SI # SSD
      /\ state \in [Coroutines -> {"created", "empty", "running", "suspended", "null", "error"}]
  BY DEF Types, ParserTypeOK, SI, SSD, Coroutines
<1>2. CASE ~SearchStep
  <2>1. stage # "stripped" /\ UNCHANGED <<searches, found>>
    BY <1>2, TextComesFirst
  <2>2. state = [c \in Coroutines |-> "created"] /\ imported = <<>>
    BY <2>1 DEF Turns
  <2>3. i[SSD] = 1 /\ blocks = <<>> /\ ~in_supdef_body
    BY <1>1, <2>2 DEF Turns
  <2>4. EndStripping
    BY <1>2, <2>1, StripsOrStops DEF Step, SlurpFile
  <2>5. lines' = stripped'
    BY <2>4 DEF EndStripping
  <2>6. AreLines(stripped)' /\ Len(stripped') \in Nat
    BY DEF Types, AreLines
  <2>7. HasRead(0)'
    BY <2>1, <2>2, <2>3, <2>5, <2>6, NothingIsRead DEF searches, found
  <2> QED
    BY <2>6, <2>7
<1>3. CASE SearchStep
  <2>1. stage = "stripped" /\ stripped' = stripped /\ (~mixed' => ~mixed)
    BY <1>3, SearchesAreLate, MixedStays DEF files
  <2>2. ASSUME state[SSD] = "created" \/ (~mixed /\ state[SSD] \in {"running", "suspended"})
        PROVE  \E q \in 0 .. Len(stripped) : HasRead(q)
    BY <2>1, <2>2 DEF Scanned
  <2>3. ASSUME \E q \in 0 .. Len(stripped) : HasRead(q),
               UNCHANGED <<imported, lines, blocks, in_supdef_body, block>>, i'[SSD] = i[SSD]
        PROVE  \E q \in 0 .. Len(stripped') : HasRead(q)'
    BY <2>1, <2>3, StillRead
  <2>4. CASE RejectImport \/ PassLine
    <3>1. state'[SSD] = state[SSD] /\ i'[SSD] = i[SSD]
      BY <2>4, OtherState
    <3>2. UNCHANGED <<imported, lines, blocks, in_supdef_body, block>>
      BY <2>4 DEF RejectImport, PassLine, Leaves, found
    <3> QED
      BY <2>1, <2>2, <2>3, <3>1, <3>2
  <2>5. CASE FindImport
    <3>1. state'[SSD] = state[SSD]
      BY <2>5, OtherState
    <3>2. state[SSD] = "created"
      <4>1. running = SI /\ state[SI] = "running"
        BY <2>5 DEF FindImport, AtLine, Running
      <4>2. ~mixed => state[SSD] \notin Active
        BY <1>1, <4>1 DEF Turns, Active
      <4> QED
        BY <2>1, <3>1, <4>2 DEF Active
    <3>3. PICK q \in 0 .. Len(stripped) : HasRead(q)
      BY <2>2, <3>2
    <3> QED
      BY <2>1, <2>5, <3>2, <3>3, ImportIsRead
  <2>6. CASE \E c \in Coroutines : ReturnEmpty(c) \/ End(c) \/ ResumeSearch(c)
    <3>1. PICK c \in Coroutines : ReturnEmpty(c) \/ End(c) \/ ResumeSearch(c)
      BY <2>6
    <3>2. UNCHANGED <<imported, lines, blocks, in_supdef_body, block>> /\ i' = i
      BY <3>1 DEF ReturnEmpty, End, ResumeSearch, found
    <3>3. state[SSD] = "created" \/ (~mixed /\ state[SSD] \in {"running", "suspended"})
      <4>1. \/ state'[SSD] = state[SSD]
            \/ ResumeSearch(SSD) /\ state'[SSD] # "created"
            \/ state'[SSD] \in {"null", "error"}
            \/ state[SSD] = "running" /\ state'[SSD] # "created"
        BY <1>1, <1>3, StatesAfter
      <4> QED
        BY <2>1, <4>1 DEF ResumeSearch
    <3> QED
      BY <2>2, <2>3, <3>2, <3>3
  <2>7. CASE BeginBlock \/ EndBlock \/ BodyLine \/ OutsideLine
    <3>1. state[SSD] = "running" /\ mixed' = mixed
      BY <2>7 DEF BeginBlock, EndBlock, BodyLine, OutsideLine, AtLine, Running
    <3>2. state'[SSD] # "created" /\ state'[SSD] # "error"
      BY <1>1, <2>7, <3>1 DEF BeginBlock, EndBlock, BodyLine, OutsideLine, Yields, EndsInError, KeepsRunning
    <3>3. PICK q \in 0 .. Len(stripped) : HasRead(q)
      BY <2>1, <2>2, <3>1, <3>2
    <3>4. \E p \in 0 .. Len(stripped) : HasRead(p)'
      <4>1. CASE BeginBlock
        <5>1. ~in_supdef_body
          BY <1>1, <3>2, <4>1 DEF BeginBlock, EndsInError
        <5> QED
          BY <2>1, <3>3, <4>1, <5>1, BeginIsRead
      <4>2. CASE EndBlock
        <5>1. in_supdef_body /\ EndName[PragmaOf(Line)] = block.name
          BY <1>1, <3>2, <4>2 DEF EndBlock, EndsInError
        <5> QED
          BY <2>1, <3>3, <4>2, <5>1, EndIsRead
      <4>3. CASE BodyLine
        BY <2>1, <3>3, <4>3, BodyIsRead
      <4>4. CASE OutsideLine
        BY <2>1, <3>3, <4>4, OutsideIsRead
      <4> QED
        BY <2>7, <4>1, <4>2, <4>3, <4>4
    <3> QED
      BY <2>1, <3>4
  <2> QED
    BY <1>3, <2>4, <2>5, <2>6, <2>7 DEF SearchStep
<1> QED
  BY <1>2, <1>3

\* search_super_defines ends when it has found the blocks of all pairs.
LEMMA EndStep ==
  ASSUME Types, Turns, Scanned, Step, ~mixed', state'[SSD] = "null"
  PROVE  BlocksUpTo(Len(stripped))'
<1>1. /\ SI \in Coroutines /\ SSD \in Coroutines /\ SI # SSD
      /\ state \in [Coroutines -> {"created", "empty", "running", "suspended", "null", "error"}]
  BY DEF Types, ParserTypeOK, SI, SSD, Coroutines
<1>2. SearchStep
  <2>1. SUFFICES ASSUME ~SearchStep PROVE FALSE
    OBVIOUS
  <2>2. state'[SSD] = state[SSD] /\ state = [c \in Coroutines |-> "created"]
    BY <2>1, TextComesFirst DEF searches, Turns
  <2> QED
    BY <1>1, <2>2
<1>3. stage = "stripped" /\ stripped' = stripped /\ ~mixed
  BY <1>2, SearchesAreLate, MixedStays DEF files
<1>4. CASE End(SSD)
  <2>1. Running(SSD) /\ i[SSD] > Len(lines) /\ UNCHANGED <<blocks, imported>>
    BY <1>4 DEF End, found
  <2>2. PICK q \in 0 .. Len(stripped) : HasRead(q)
    BY <1>3, <2>1 DEF Scanned, Running
  <2>3. Ahead = {}
    <3>1. DOMAIN lines = 1 .. Len(lines) /\ Len(lines) \in Nat /\ i[SSD] \in Nat
      BY <1>1 DEF Types, ParserTypeOK, AreLines
    <3> QED
      BY <2>1, <3>1 DEF Ahead
  <2>4. BlocksUpTo(Len(stripped))
    BY <2>2, <2>3, AllRead
  <2> QED
    BY <1>3, <2>1, <2>4, BlocksStay
<1>5. CASE ~End(SSD)
  <2>1. state[SSD] = "null"
    BY <1>1, <1>2, <1>5, StatesAfter
  <2>2. BlocksUpTo(Len(stripped))
    BY <1>3, <2>1 DEF Scanned
  <2>3. blocks' = blocks
    BY <1>2, <2>1, SearchesChange DEF Running
  <2>4. ToSet(imported) \subseteq ToSet(imported')
    <3>1. imported' = imported \/ \E line \in Seq(ParsedChar) : imported' = Append(imported, line)
      <4>1. CASE FindImport
        <5>1. lines[i[SI]] \in Seq(ParsedChar)
          BY <1>1, <4>1, AtALine DEF FindImport
        <5> QED
          BY <4>1, <5>1 DEF FindImport
      <4>2. CASE ~FindImport
        BY <1>2, <4>2 DEF SearchStep, ResumeSearch, ReturnEmpty, End, RejectImport, PassLine,
                          BeginBlock, EndBlock, BodyLine, OutsideLine, found
      <4> QED
        BY <4>1, <4>2
    <3>2. imported \in Seq(Seq(ParsedChar))
      BY DEF Types
    <3>3. ASSUME NEW line \in Seq(ParsedChar)
          PROVE  \A n \in DOMAIN imported :
                   n \in DOMAIN Append(imported, line) /\ Append(imported, line)[n] = imported[n]
      BY <3>2
    <3>4. \A n \in DOMAIN imported : n \in DOMAIN imported' /\ imported'[n] = imported[n]
      BY <3>1, <3>3
    <3> QED
      BY <3>4 DEF ToSet
  <2> QED
    BY <1>3, <2>2, <2>3, <2>4, BlocksStay
<1> QED
  BY <1>4, <1>5

\* Every step keeps what the searches have read in step with what they found.
LEMMA ScannedStep ==
  ASSUME Types, Types', Turns, Scanned, Step
  PROVE  Scanned'
<1>1. /\ \A n \in DOMAIN imported' : ~NoImport(imported'[n])
      /\ ~mixed' /\ state'[SI] \in {"running", "suspended"} =>
           \A n \in DOMAIN lines' : n < i'[SI] => NoImport(lines'[n])
      /\ ~mixed' /\ state'[SI] = "null" => \A n \in DOMAIN lines' : NoImport(lines'[n])
  BY ImportsStep
<1> QED
  BY <1>1, ReadingStep, EndStep DEF Scanned, NoImport

-----------------------------------------------------------------------------
(***************************************************************************)
(* The invariant.                                                          *)
(***************************************************************************)

\* The invariant holds at the start.
LEMMA InitialState ==
  ASSUME ParserInit
  PROVE  ParserInv
<1>1. /\ stage = "created" /\ lines = <<>> /\ stripped = <<>> /\ imported = <<>> /\ blocks = <<>>
      /\ content = <<>> /\ raw_copy = <<>> /\ pos = 1 /\ in_str_lit = FALSE
      /\ state = [c \in Coroutines |-> "created"] /\ i = [c \in Coroutines |-> 1]
      /\ running = "caller" /\ mixed = FALSE /\ in_supdef_body = FALSE /\ block = NoBlock
  BY DEF ParserInit
<1>2. SI \in Coroutines /\ SSD \in Coroutines /\ SI # SSD /\ "caller" \notin Coroutines
  BY DEF SI, SSD, Coroutines
<1>3. TextInv
  BY InitialText
<1>4. AreLines(lines) /\ AreLines(stripped)
  BY <1>1 DEF AreLines
<1>5. block \in Block /\ imported \in Seq(Seq(ParsedChar)) /\ blocks \in Seq(Block)
  <2>1. NoBlock \in Block
    <3>1. <<>> \in Seq(Seq(ParsedChar))
      OBVIOUS
    <3> QED
      BY <3>1 DEF NoBlock, Block
  <2> QED
    BY <1>1, <2>1
<1>6. ParserTypeOK
  <2>1. Len(raw_copy) = 0 /\ Len(stripped) = 0 /\ DOMAIN content = {} /\ DOMAIN lines = {}
    BY <1>1
  <2>2. i \in [Coroutines -> 1 .. Len(stripped) + 1]
    BY <1>1, <2>1
  <2>3. state \in [Coroutines -> {"created", "empty", "running", "suspended", "null", "error"}]
    BY <1>1
  <2>4. IsParsed(content) /\ pos \in 1 .. Len(raw_copy) + 1
    BY <1>1, <2>1 DEF IsParsed
  <2> QED
    BY <1>1, <2>1, <2>2, <2>3, <2>4 DEF ParserTypeOK
<1>7. Types
  BY <1>1, <1>4, <1>5, <1>6 DEF Types
<1>8. Turns
  BY <1>1, <1>2 DEF Turns, Active
<1>9. Located
  BY <1>1 DEF Located
<1>10. Kept
  BY <1>1 DEF Kept, InBody
<1>11. Scanned
  BY <1>1, <1>2 DEF Scanned
<1> QED
  BY <1>3, <1>7, <1>8, <1>9, <1>10, <1>11 DEF ParserInv

\* Every step of the parser keeps the invariant.
LEMMA InvariantStep ==
  ASSUME ParserInv, [ParserNext]_parserVars
  PROVE  ParserInv'
<1> USE DEF ParserInv
<1>1. CASE ParserNext
  <2>1. Step
    BY <1>1, EverySearchStep
  <2>2. Types'
    BY <2>1, TypesStep
  <2>3. TextInv' /\ Turns' /\ Located' /\ Kept' /\ Scanned'
    BY <2>1, <2>2, TextStep, TurnsStep, LocatedStep, KeptStep, ScannedStep
  <2> QED
    BY <2>2, <2>3
<1>2. CASE UNCHANGED parserVars
  <2>1. /\ UNCHANGED <<file, stage, raw, stripped, raw_copy, pos, in_str_lit, content, lines>>
        /\ UNCHANGED <<state, i, running, mixed, imported, blocks, in_supdef_body, block>>
    BY <1>2 DEF parserVars, files, loop_vars, searches, found
  <2>2. TextInv'
    BY <2>1 DEF TextInv, FileOK, Stripping, InOrder, IsParsed, Ascending, NewlinesDivide,
                OpeningsAreReal, JumpsAreComments, Opens, Follows
  <2>3. Types'
    <3>1. AreLines(lines)' /\ AreLines(stripped)' /\ IsParsed(content)'
      BY <2>1, StillLines DEF Types, ParserTypeOK
    <3> QED
      BY <2>1, <3>1 DEF Types, ParserTypeOK, IsParsed
  <2>4. Turns'
    BY <2>1 DEF Turns
  <2>5. Located'
    BY <2>1 DEF Located, StartsRight, EndsRight, Stands, Opens, IsBeforeAhead, Ahead
  <2>6. Kept'
    BY <2>1 DEF Kept, InBody, BodyNumbers
  <2>7. Scanned'
    <3>1. \A q : (HasRead(q) => HasRead(q)') /\ (BlocksUpTo(q) => BlocksUpTo(q)')
      BY <2>1, StillRead, BlocksStay
    <3> QED
      BY <2>1, <3>1 DEF Scanned, NoImport
  <2> QED
    BY <2>2, <2>3, <2>4, <2>5, <2>6, <2>7
<1> QED
  BY <1>1, <1>2

\* Where the invariant says a pragma stands, the property looks for it.
LEMMA StandsInFile ==
  ASSUME FileOK, NEW line, NEW pragma, Stands(line, pragma)
  PROVE  \E k \in DOMAIN file.text[line] :
           file.text[line][k] = pragma
             \/ (k < Len(file.text[line]) /\ file.text[line][k] = "/" /\ file.text[line][k + 1] = "*")
<1>1. Len(file.text[line]) \in Nat /\ DOMAIN file.text[line] = 1 .. Len(file.text[line])
  BY LinesOfFiles DEF Stands
<1>2. CASE pragma \in ToSet(file.text[line])
  BY <1>2 DEF ToSet
<1>3. CASE Opens(line)
  <2>1. PICK k \in 1 .. Len(file.text[line]) - 1 : file.text[line][k] = "/" /\ file.text[line][k + 1] = "*"
    BY <1>3 DEF Opens
  <2>2. k \in DOMAIN file.text[line] /\ k < Len(file.text[line])
    BY <1>1
  <2> QED
    BY <2>1, <2>2
<1> QED
  BY <1>2, <1>3 DEF Stands

\* Blocks are where their pragmas, or the comments in front of them, are in the file.
LEMMA LocationsFollow ==
  ASSUME TextInv, Located
  PROVE  LocationsAreReal
<1>1. ASSUME NEW line, NEW pragma, Stands(line, pragma)
      PROVE  \E k \in DOMAIN file.text[line] :
               file.text[line][k] = pragma
                 \/ (k < Len(file.text[line]) /\ file.text[line][k] = "/" /\ file.text[line][k + 1] = "*")
  BY <1>1, StandsInFile DEF TextInv
<1>2. ASSUME NEW n \in DOMAIN blocks
      PROVE  /\ \E p \in DOMAIN BeginName : BeginName[p] = blocks[n].name /\ Stands(blocks[n].start, p)
             /\ \E p \in DOMAIN EndName : EndName[p] = blocks[n].name /\ Stands(blocks[n].end, p)
             /\ blocks[n].start < blocks[n].end
             /\ n > 1 => blocks[n - 1].end < blocks[n].start
  BY <1>2 DEF Located, StartsRight, EndsRight
<1> QED
  BY <1>1, <1>2 DEF LocationsAreReal

\* The places a line of text can be in: the lines left, and the bodies by their numbers.
LEMMA BodyElements ==
  ASSUME Types, NEW line
  PROVE  /\ Len(<<lines>> \o Bodies) \in Nat
         /\ DOMAIN (<<lines>> \o Bodies) = 1 .. Len(<<lines>> \o Bodies)
         /\ (<<lines>> \o Bodies)[1] = lines /\ 1 \in DOMAIN (<<lines>> \o Bodies)
         /\ \A n \in BodyNumbers :
              InBody(n, line) <=> /\ n + 1 \in DOMAIN (<<lines>> \o Bodies)
                                  /\ line \in ToSet((<<lines>> \o Bodies)[n + 1])
         /\ \A m \in DOMAIN (<<lines>> \o Bodies) : m # 1 => m - 1 \in BodyNumbers
<1> DEFINE T == Seq(Seq(ParsedChar))
           N == Len(blocks)
           done == [n \in DOMAIN blocks |-> blocks[n].body]
           now == IF in_supdef_body THEN <<block.body>> ELSE <<>>
           both == done \o now
           all == <<lines>> \o both
<1>1. /\ lines \in T /\ N \in Nat /\ DOMAIN blocks = 1 .. N
      /\ \A n \in 1 .. N : blocks[n].body \in T
      /\ block.body \in T /\ in_supdef_body \in BOOLEAN
  <2>1. blocks \in Seq(Block) /\ block \in Block /\ in_supdef_body \in BOOLEAN /\ lines \in T
    BY DEF Types, ParserTypeOK, AreLines
  <2>2. N \in Nat /\ DOMAIN blocks = 1 .. N /\ \A n \in 1 .. N : blocks[n] \in Block
    BY <2>1
  <2>3. \A b \in Block : b.body \in T
    BY DEF Block
  <2> HIDE DEF N, T
  <2> QED
    BY <2>1, <2>2, <2>3
<1> HIDE DEF T, N
<1>2. done \in Seq(T) /\ Len(done) = N /\ \A n \in 1 .. N : done[n] = blocks[n].body
  BY <1>1
<1>3. /\ now \in Seq(T) /\ Len(now) = IF in_supdef_body THEN 1 ELSE 0
      /\ in_supdef_body => now[1] = block.body
  BY <1>1
<1>4. Bodies = both
  BY DEF Bodies
<1> HIDE DEF done, now
<1>5. /\ both \in Seq(T) /\ Len(both) = N + Len(now)
      /\ \A n \in 1 .. N + Len(now) : both[n] = IF n <= N THEN done[n] ELSE now[n - N]
  <2>1. Len(both) = Len(done) + Len(now) /\ \A n \in 1 .. Len(done) + Len(now) :
          both[n] = IF n <= Len(done) THEN done[n] ELSE now[n - Len(done)]
    BY <1>2, <1>3, ConcatProperties
  <2>2. both \in Seq(T)
    BY <1>2, <1>3
  <2> QED
    BY <1>2, <2>1, <2>2
<1> HIDE DEF both
<1>6. /\ all \in Seq(T) /\ Len(all) = 1 + Len(both)
      /\ \A n \in 1 .. 1 + Len(both) : all[n] = IF n <= 1 THEN lines ELSE both[n - 1]
  <2> DEFINE one == <<lines>>
  <2>1. one \in Seq(T) /\ Len(one) = 1 /\ one[1] = lines
    BY <1>1
  <2>2. all = one \o both
    OBVIOUS
  <2> HIDE DEF one, all
  <2>3. Len(all) = Len(one) + Len(both) /\ \A n \in 1 .. Len(one) + Len(both) :
          all[n] = IF n <= Len(one) THEN one[n] ELSE both[n - Len(one)]
    BY <1>5, <2>1, <2>2, ConcatProperties
  <2>4. all \in Seq(T)
    BY <1>5, <2>1, <2>2
  <2>5. Len(both) \in Nat
    BY <1>5
  <2>6. \A n \in 1 .. 1 + Len(both) : n <= 1 => n = 1
    BY <2>5
  <2> QED
    BY <2>1, <2>3, <2>4, <2>6
<1> HIDE DEF all
<1>7. Len(both) \in Nat /\ Len(now) \in Nat /\ Len(all) \in Nat /\ DOMAIN all = 1 .. Len(all)
  BY <1>3, <1>5, <1>6
<1>8. ASSUME NEW n \in BodyNumbers
      PROVE  InBody(n, line) <=> n + 1 \in DOMAIN all /\ line \in ToSet(all[n + 1])
  <2>1. n \in 1 .. N + 1
    BY <1>1 DEF BodyNumbers, N
  <2>2. CASE n \in 1 .. N
    <3>1. n + 1 \in 1 .. 1 + Len(both) /\ ~(n + 1 <= 1) /\ (n + 1) - 1 = n /\ n \in 1 .. N + Len(now)
          /\ n <= N /\ n # N + 1
      BY <1>1, <1>5, <1>7, <2>2
    <3>2. all[n + 1] = blocks[n].body
      BY <1>2, <1>5, <1>6, <2>2, <3>1
    <3>3. n + 1 \in DOMAIN all
      BY <1>6, <1>7, <3>1
    <3> QED
      BY <1>1, <2>2, <3>1, <3>2, <3>3 DEF InBody, N
  <2>3. CASE n = N + 1
    <3>1. n \notin DOMAIN blocks
      BY <1>1, <2>3
    <3>2. CASE in_supdef_body
      <4>1. n + 1 \in 1 .. 1 + Len(both) /\ ~(n + 1 <= 1) /\ (n + 1) - 1 = n /\ n \in 1 .. N + Len(now)
            /\ ~(n <= N) /\ n - N = 1
        BY <1>1, <1>3, <1>5, <1>7, <2>3, <3>2
      <4>2. all[n + 1] = block.body
        BY <1>3, <1>5, <1>6, <3>2, <4>1
      <4>3. n + 1 \in DOMAIN all
        BY <1>6, <1>7, <4>1
      <4> QED
        BY <2>3, <3>1, <3>2, <4>2, <4>3 DEF InBody, N
    <3>3. CASE ~in_supdef_body
      <4>1. n + 1 \notin DOMAIN all
        BY <1>1, <1>3, <1>5, <1>6, <1>7, <2>3, <3>3
      <4> QED
        BY <3>1, <3>3, <4>1 DEF InBody
    <3> QED
      BY <3>2, <3>3
  <2> QED
    BY <1>1, <2>1, <2>2, <2>3
<1>9. ASSUME NEW m \in DOMAIN all, m # 1
      PROVE  m - 1 \in BodyNumbers
  <2>1. m \in 1 .. 1 + N + 1
    BY <1>1, <1>3, <1>5, <1>6, <1>7
  <2> QED
    BY <1>1, <1>9, <2>1 DEF BodyNumbers, N
<1>10. 1 \in DOMAIN all /\ all[1] = lines
  BY <1>6, <1>7
<1> QED
  BY <1>4, <1>7, <1>8, <1>9, <1>10 DEF all

\* A line of text is in one of these places.
LEMMA TextStaysWhole ==
  ASSUME Types, Kept
  PROVE  TextIsKept
<1> DEFINE places == <<lines>> \o Bodies
<1> SUFFICES ASSUME stage = "stripped", NEW n \in DOMAIN stripped,
                    IsText(stripped[n]), PragmaOf(stripped[n]) # "import"
             PROVE  Cardinality({pl \in DOMAIN places : stripped[n] \in ToSet(places[pl])}) = 1
  BY DEF TextIsKept
<1> DEFINE line == stripped[n]
           P == {pl \in DOMAIN places : line \in ToSet(places[pl])}
<1>1. line \in ToSet(stripped)
  BY DEF ToSet
<1>2. /\ Len(places) \in Nat /\ DOMAIN places = 1 .. Len(places)
      /\ places[1] = lines /\ 1 \in DOMAIN places
      /\ \A k \in BodyNumbers : InBody(k, line) <=> k + 1 \in DOMAIN places /\ line \in ToSet(places[k + 1])
      /\ \A m \in DOMAIN places : m # 1 => m - 1 \in BodyNumbers
  <2> HIDE DEF line
  <2> QED
    BY BodyElements
<1>3. /\ \A k \in BodyNumbers : InBody(k, line) =>
           line \notin ToSet(lines) /\ \A m \in BodyNumbers : InBody(m, line) => m = k
      /\ line \in ToSet(lines) \/ \E k \in BodyNumbers : InBody(k, line)
  BY <1>1 DEF Kept
<1>4. \A k \in BodyNumbers : k \in Nat /\ k + 1 # 1
  BY DEF BodyNumbers
<1> HIDE DEF places, line
<1>5. ASSUME NEW m \in P
      PROVE  (m = 1 /\ line \in ToSet(lines)) \/ (m - 1 \in BodyNumbers /\ InBody(m - 1, line) /\ m \in Nat)
  <2>1. m \in DOMAIN places /\ m \in Nat /\ line \in ToSet(places[m])
    BY <1>2
  <2>2. CASE m = 1
    BY <1>2, <2>1, <2>2
  <2>3. CASE m # 1
    <3>1. m - 1 \in BodyNumbers /\ (m - 1) + 1 = m
      BY <1>2, <2>1, <2>3
    <3> QED
      BY <1>2, <2>1, <3>1
  <2> QED
    BY <2>2, <2>3
<1>6. \E m : P = {m}
  <2>1. CASE line \in ToSet(lines)
    <3>1. 1 \in P
      BY <1>2, <2>1
    <3>2. \A m \in P : m = 1
      BY <1>3, <1>5, <2>1
    <3> QED
      BY <3>1, <3>2
  <2>2. CASE line \notin ToSet(lines)
    <3>1. PICK k \in BodyNumbers : InBody(k, line)
      BY <1>3, <2>2
    <3>2. k + 1 \in P
      BY <1>2, <3>1
    <3>3. \A m \in P : m - 1 = k /\ m \in Nat
      BY <1>3, <1>5, <2>2, <3>1
    <3>4. \A m \in P : m = k + 1
      BY <1>4, <3>3
    <3> QED
      BY <3>2, <3>4
  <2> QED
    BY <2>1, <2>2
<1> QED
  BY <1>6, FS_Singleton DEF P, line, places

\* A search that ended found the pairs there are, with their text.
LEMMA PairsAreFound ==
  ASSUME Types, Scanned
  PROVE  BlocksAreExact
<1> DEFINE Is(n, names) == PragmaOf(stripped[n]) \in DOMAIN names
           Pairs == {p \in (DOMAIN stripped) \X (DOMAIN stripped) :
                      /\ p[1] < p[2] /\ Is(p[1], BeginName) /\ Is(p[2], EndName)
                      /\ \A n \in p[1] + 1 .. p[2] - 1 : ~Is(n, BeginName) /\ ~Is(n, EndName)}
           Body(p) == {stripped[n] : n \in p[1] + 1 .. p[2] - 1} \ ({<<>>} \cup ToSet(imported))
<1>1. Pairs = PairsUpTo(Len(stripped))
  <2>1. \A n \in DOMAIN stripped : n <= Len(stripped)
    BY DEF Types, AreLines
  <2> QED
    BY <2>1 DEF PairsUpTo, Begins, Ends, NoneBetween
<1>2. \A p : Body(p) = TextBetween(p[1], p[2])
  BY DEF TextBetween, Skipped
<1>3. ASSUME state[SSD] = "null", ~mixed
      PROVE  /\ Len(blocks) = Cardinality(Pairs)
             /\ \A n \in DOMAIN blocks : \E p \in Pairs :
                  /\ BeginName[PragmaOf(stripped[p[1]])] = blocks[n].name
                  /\ EndName[PragmaOf(stripped[p[2]])] = blocks[n].name
                  /\ Body(p) \subseteq ToSet(blocks[n].body)
  <2>1. BlocksUpTo(Len(stripped))
    BY <1>3 DEF Scanned
  <2> HIDE DEF Pairs, Body
  <2> QED
    BY <1>1, <1>2, <2>1 DEF BlocksUpTo, IsPair
<1>4. state[SI] = "null" /\ ~mixed => \A n \in DOMAIN lines : PragmaOf(lines[n]) # "import"
  BY DEF Scanned, NoImport
<1> QED
  BY <1>3, <1>4 DEF BlocksAreExact

\* What the module promises follows from the invariant.
LEMMA InvariantIsEnough ==
  ASSUME ParserInv
  PROVE  ParserIsExact
<1>1. ParserTypeOK
  BY DEF ParserInv, Types
<1>2. LocationsAreReal
  BY LocationsFollow DEF ParserInv
<1>3. TextIsKept
  BY TextStaysWhole DEF ParserInv
<1>4. BlocksAreExact
  BY PairsAreFound DEF ParserInv
<1> QED
  BY <1>1, <1>2, <1>3, <1>4 DEF ParserIsExact

\* However long a file is, whatever its lines are made of, and in whatever order
\* the two searches of Parser::search_imports and Parser::search_super_defines
\* are resumed: a block is reported at the lines of the file its pragmas stand
\* in; a line that is no pragma is in the file or in the body of one block, never
\* in none or two; and when one search ended before the other began, the blocks
\* are those between a begin and the end of the same name, with all their text.
THEOREM SearchesAreExact == ParserSpec => []ParserIsExact
<1>1. ParserInit => ParserInv
  BY InitialState
<1>2. ParserInv /\ [ParserNext]_parserVars => ParserInv'
  BY InvariantStep
<1>3. ParserInv => ParserIsExact
  BY InvariantIsEnough
<1> QED
  BY <1>1, <1>2, <1>3, PTL DEF ParserSpec
=============================================================================
