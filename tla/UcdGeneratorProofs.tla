------------------------- MODULE UcdGeneratorProofs -------------------------
(***************************************************************************)
(* Proofs about UcdGenerator, for any thread counts, any categories, any   *)
(* well-formed UnicodeData.txt and any number of runs: every task is done  *)
(* once and in order, a run that ends with success left whole files, and   *)
(* the table from which they are made is what the file says.               *)
(***************************************************************************)
EXTENDS UcdGenerator, FiniteSetTheorems, WellFoundedInduction, TLAPS

(***************************************************************************)
(* Numbers                                                                 *)
(***************************************************************************)

\* A non-empty set of numbers has a least element.
LEMMA Least ==
  ASSUME NEW T \in SUBSET Nat, T # {}
  PROVE  \E x \in T : \A y \in T : x <= y
<1> DEFINE R == {ss \in Nat \X Nat : ss[1] < ss[2]}
<1>0. IsWellFoundedOn(R, Nat)
  BY NatLessThanWellFounded DEF OpToRel
<1> HIDE DEF R
<1>1. PICK x \in T : \A y \in T : ~(<<y, x>> \in R)
  BY <1>0, WFMin
<1>2. \A u, v \in Nat : u < v => <<u, v>> \in R
  BY DEF R
<1>3. ASSUME NEW y \in T PROVE x <= y
  <2>1. x \in Nat /\ y \in Nat /\ ~(<<y, x>> \in R)
    BY <1>1
  <2> QED
    BY <2>1, <1>2
<1> QED
  BY <1>3

\* The greatest thread count is one of them.
LEMMA MaxIsOne == MaxThreads \in Threads /\ \A n \in Threads : n <= MaxThreads
<1> DEFINE T == {MaxCp - n : n \in Threads}
<1>1. Threads \subseteq 1 .. MaxCp /\ Threads # {} /\ MaxCp \in Nat
  BY GeneratorAssumption, MaxCpAssumption
<1>2. PICK x \in T : \A y \in T : x <= y
  <2>1. T \subseteq Nat
    BY <1>1
  <2>2. T # {}
    BY <1>1
  <2> QED
    BY <2>1, <2>2, Least
<1>3. PICK n \in Threads : x = MaxCp - n
  OBVIOUS
<1>4. \A k \in Threads : k <= n
  BY <1>1, <1>2, <1>3
<1> QED
  BY <1>4 DEF MaxThreads

\* The processes of a run are processes.
LEMMA Counts ==
  ASSUME NEW n \in Threads
  PROVE  /\ n \in Nat /\ 1 <= n /\ n <= MaxCp /\ MaxCp \in Nat
         /\ n <= MaxThreads /\ MaxThreads \in Nat
         /\ 0 \in Proc /\ 1 .. n - 1 \subseteq Proc \ {0}
BY MaxIsOne, GeneratorAssumption, MaxCpAssumption DEF Proc

(***************************************************************************)
(* Chunks                                                                  *)
(***************************************************************************)

\* The quota, without division.
LEMMA Quotas ==
  ASSUME NEW n \in Threads
  PROVE  /\ Quota(n) \in Nat /\ Quota(n) >= 1
         /\ (MaxCp % n) \in Nat /\ MaxCp = (MaxCp % n) + n * Quota(n)
<1>1. n \in Nat /\ 1 <= n /\ n <= MaxCp /\ MaxCp \in Nat
  BY Counts
<1>2. MaxCp \div n \in Int /\ (MaxCp % n) \in 0 .. n - 1 /\ MaxCp = n * (MaxCp \div n) + (MaxCp % n)
  BY <1>1
<1>3. MaxCp \div n >= 1
  BY <1>1, <1>2
<1> QED
  BY <1>1, <1>2, <1>3 DEF Quota

\* A chunk holds code points only.
LEMMA ChunksAreCodePoints ==
  ASSUME NEW n \in Threads, NEW i \in 0 .. n - 1
  PROVE  /\ ChunkFirst(n, i) \in Nat /\ ChunkLast(n, i) \in Int
         /\ ChunkLast(n, i) <= MaxCp
<1>1. n \in Nat /\ 1 <= n /\ MaxCp \in Nat
  BY Counts
<1> PICK q \in Nat : q = Quota(n)
  BY Quotas
<1> PICK r \in Nat : r = MaxCp % n
  BY Quotas
<1>2. q >= 1 /\ MaxCp = r + n * q
  BY Quotas
<1>3. CASE i = 0
  <2>1. (n - 1) * q \in Nat
    BY <1>1
  <2> QED
    BY <1>1, <1>2, <1>3, <2>1 DEF ChunkFirst, ChunkLast
<1>4. CASE i # 0
  <2>1. (i - 1) * q \in Nat /\ i * q \in Nat
    BY <1>4
  <2>2. i * q <= n * q
    <3>1. i \in Nat /\ n - i \in Nat
      BY <1>1
    <3>2. n * q = i * q + (n - i) * q /\ (n - i) * q \in Nat
      BY <3>1, <1>1
    <3> QED
      BY <3>1, <3>2, <2>1
  <2> QED
    BY <1>1, <1>2, <1>4, <2>1, <2>2 DEF ChunkFirst, ChunkLast
<1> QED
  BY <1>3, <1>4

\* Every code point is in a chunk.
LEMMA ChunksAreAll ==
  ASSUME NEW n \in Threads, NEW cp \in CodePoint
  PROVE  \E i \in 0 .. n - 1 : ChunkFirst(n, i) <= cp /\ cp <= ChunkLast(n, i)
<1>1. n \in Nat /\ 1 <= n /\ MaxCp \in Nat /\ cp \in Nat /\ cp <= MaxCp
  BY Counts DEF CodePoint
<1> PICK q \in Nat : q = Quota(n)
  BY Quotas
<1> PICK r \in Nat : r = MaxCp % n
  BY Quotas
<1>2. q >= 1 /\ MaxCp = r + n * q
  BY Quotas
<1>3. CASE (n - 1) * q <= cp
  BY <1>1, <1>2, <1>3 DEF ChunkFirst, ChunkLast
<1>4. CASE cp < (n - 1) * q
  <2> DEFINE T == {m \in Nat : cp < m * q}
  <2>1. PICK m \in T : \A k \in T : m <= k
    <3>1. n - 1 \in T
      BY <1>1, <1>4
    <3> QED
      BY <3>1, Least
  <2>2. m \in Nat /\ cp < m * q
    OBVIOUS
  <2>3. m # 0
    BY <2>2, <1>1
  <2>4. m <= n - 1
    BY <2>1, <1>1, <1>4
  <2>5. (m - 1) * q <= cp
    <3>1. m - 1 \in Nat /\ m - 1 \notin T
      BY <2>1, <2>2, <2>3
    <3>2. (m - 1) * q \in Nat
      BY <3>1
    <3> QED
      BY <3>1, <3>2, <1>1
  <2>6. m \in 0 .. n - 1
    BY <2>2, <2>4, <1>1
  <2>7. m * q \in Nat
    BY <2>2
  <2>8. ChunkFirst(n, m) <= cp /\ cp <= ChunkLast(n, m)
    BY <2>2, <2>3, <2>5, <2>7, <1>1 DEF ChunkFirst, ChunkLast
  <2> QED
    BY <2>6, <2>8
<1>5. (n - 1) * q \in Nat
  BY <1>1
<1> QED
  BY <1>1, <1>3, <1>4, <1>5

\* Chunks ascend with their numbers, and main's is the last.
LEMMA ChunksAscend ==
  ASSUME NEW n \in Threads, NEW i \in 0 .. n - 1
  PROVE  /\ ChunkFirst(n, i) \in Nat /\ ChunkLast(n, i) \in Nat /\ ChunkLast(n, i) <= MaxCp
         /\ ChunkFirst(n, i) <= ChunkLast(n, i)
         /\ \A j \in 0 .. n - 1 : i # 0 /\ (i < j \/ j = 0) => ChunkLast(n, i) < ChunkFirst(n, j)
<1>1. n \in Nat /\ 1 <= n /\ i \in Nat
  BY Counts
<1> PICK q \in Nat : q = Quota(n)
  BY Quotas
<1> PICK r \in Nat : r = MaxCp % n
  BY Quotas
<1>2. q >= 1 /\ MaxCp = r + n * q
  BY Quotas
<1>3. ChunkLast(n, i) <= MaxCp
  BY ChunksAreCodePoints
<1>4. ASSUME i = 0
      PROVE  /\ ChunkFirst(n, i) \in Nat /\ ChunkLast(n, i) \in Nat
             /\ ChunkFirst(n, i) <= ChunkLast(n, i)
  <2>1. (n - 1) * q \in Nat /\ n * q \in Nat /\ n * q = (n - 1) * q + q
    BY <1>1
  <2> QED
    BY <1>1, <1>4, <2>1 DEF ChunkFirst, ChunkLast
<1>5. ASSUME i # 0
      PROVE  /\ ChunkFirst(n, i) \in Nat /\ ChunkLast(n, i) \in Nat
             /\ ChunkFirst(n, i) <= ChunkLast(n, i)
             /\ \A j \in 0 .. n - 1 : i < j \/ j = 0 => ChunkLast(n, i) < ChunkFirst(n, j)
  <2>1. (i - 1) * q \in Nat /\ i * q \in Nat /\ i * q = (i - 1) * q + q
    BY <1>1, <1>5
  <2>2. ChunkFirst(n, i) = (i - 1) * q /\ ChunkLast(n, i) = i * q - 1
    BY <1>5 DEF ChunkFirst, ChunkLast
  <2>3. ASSUME NEW m \in Nat, i <= m
        PROVE  i * q - 1 < m * q
    <3>1. m - i \in Nat
      BY <1>1, <2>3
    <3>2. (m - i) * q \in Nat /\ m * q = i * q + (m - i) * q
      BY <3>1, <1>1
    <3> QED
      BY <3>2, <2>1
  <2>4. ASSUME NEW j \in 0 .. n - 1, i < j \/ j = 0
        PROVE  ChunkLast(n, i) < ChunkFirst(n, j)
    <3>1. CASE j = 0
      <4>1. n - 1 \in Nat /\ i <= n - 1
        BY <1>1
      <4> QED
        BY <3>1, <4>1, <2>2, <2>3 DEF ChunkFirst
    <3>2. CASE j # 0
      <4>1. j - 1 \in Nat /\ i <= j - 1
        BY <3>2, <2>4, <1>1
      <4> QED
        BY <3>2, <4>1, <2>2, <2>3 DEF ChunkFirst
    <3> QED
      BY <3>1, <3>2
  <2> QED
    BY <2>1, <2>2, <2>4, <1>2
<1> QED
  BY <1>3, <1>4, <1>5

\* A code point is in one chunk.
LEMMA ChunksAreDisjoint ==
  ASSUME NEW n \in Threads, NEW i \in 0 .. n - 1, NEW j \in 0 .. n - 1,
         NEW cp \in Chunk(n, i), cp \in Chunk(n, j)
  PROVE  i = j
<1>1. n \in Nat /\ i \in Nat /\ j \in Nat
  BY Counts
<1>2. /\ ChunkFirst(n, i) \in Nat /\ ChunkLast(n, i) \in Nat
      /\ ChunkFirst(n, j) \in Nat /\ ChunkLast(n, j) \in Nat
      /\ i # 0 /\ (i < j \/ j = 0) => ChunkLast(n, i) < ChunkFirst(n, j)
      /\ j # 0 /\ (j < i \/ i = 0) => ChunkLast(n, j) < ChunkFirst(n, i)
  BY ChunksAscend
<1>3. ChunkFirst(n, i) <= cp /\ cp <= ChunkLast(n, i) /\ ChunkFirst(n, j) <= cp /\ cp <= ChunkLast(n, j)
      /\ cp \in Int
  BY DEF Chunk
<1> QED
  BY <1>1, <1>2, <1>3

(***************************************************************************)
(* Looking up a code point                                                 *)
(***************************************************************************)

Page == <<[cp |-> NoBound, cat |-> "Cn", mark |-> "page"]>>
Texts == {<<>>, Page} \cup {SubSeq(UnicodeData, 1, k) : k \in 1 .. Len(UnicodeData)}

ThreadState == [in : BOOLEAN, start : 0 .. NoBound, end : 0 .. NoBound,
                cat : Category, restart_from : Nat]

\* Cn is a category, and an entry that is not set has none.
LEMMA Categories == "Cn" \in Category /\ "unset" \notin Category
<1>1. DOMAIN Union = {"LC", "L", "M", "N", "P", "S", "Z", "C"}
  BY DEF Union
<1>2. /\ Union["LC"] = {"Lu", "Ll", "Lt"} /\ Union["L"] = {"Lu", "Ll", "Lt", "Lm", "Lo"}
      /\ Union["M"] = {"Mn", "Mc", "Me"} /\ Union["N"] = {"Nd", "Nl", "No"}
      /\ Union["P"] = {"Pc", "Pd", "Ps", "Pe", "Pi", "Pf", "Po"}
      /\ Union["S"] = {"Sm", "Sc", "Sk", "So"} /\ Union["Z"] = {"Zs", "Zl", "Zp"}
      /\ Union["C"] = {"Cc", "Cf", "Cs", "Co", "Cn"}
  BY DEF Union
<1>3. \A u \in DOMAIN Union : "unset" \notin Union[u]
  BY <1>1, <1>2
<1> QED
  BY <1>1, <1>2, <1>3 DEF Category, Single

\* A line of the file.
DataLine == [cp : CodePoint, cat : STRING, mark : {"single", "first", "last"}]

\* UnicodeData.txt is a sequence of lines, and has one.
LEMMA DataLines ==
  /\ UnicodeData \in Seq(DataLine) /\ Len(UnicodeData) \in Nat /\ UnicodeData # <<>>
  /\ Len(UnicodeData) >= 1
  /\ \A k \in 1 .. Len(UnicodeData) : UnicodeData[k] \in DataLine
<1>1. UnicodeData \in Seq(DataLine) /\ UnicodeData # <<>>
  BY GeneratorAssumption DEF DataLine, WellFormed
<1> QED
  BY <1>1

\* The lines a run reads: none, an error page, or a part of the file.
LEMMA TextsAre ==
  ASSUME NEW L \in Texts, L # <<>>, L # Page
  PROVE  /\ Len(L) \in Nat /\ Len(L) >= 1 /\ Len(L) <= Len(UnicodeData)
         /\ \A k \in 1 .. Len(L) : L[k] = UnicodeData[k] /\ L[k] \in DataLine
<1>1. PICK k \in 1 .. Len(UnicodeData) : L = SubSeq(UnicodeData, 1, k)
  BY DEF Texts
<1>2. Len(L) = k /\ \A j \in 1 .. k : L[j] = UnicodeData[j]
  BY <1>1, DataLines
<1> QED
  BY <1>1, <1>2, DataLines

\* An error page is one line that nobody can read.
LEMMA PageIs == /\ Len(Page) = 1 /\ Page[1].mark = "page" /\ Unreadable(Page)
BY DEF Page, Unreadable, Line

\* UnicodeData.txt is a text, and no error page.
LEMMA DataIsText == UnicodeData \in Texts /\ UnicodeData # <<>> /\ UnicodeData # Page
<1>1. SubSeq(UnicodeData, 1, Len(UnicodeData)) = UnicodeData
  BY DataLines
<1>2. Len(UnicodeData) \in 1 .. Len(UnicodeData)
  BY DataLines
<1>3. UnicodeData[1].mark \in {"single", "first", "last"}
  BY DataLines DEF DataLine
<1> QED
  BY <1>1, <1>2, <1>3, DataLines, PageIs DEF Texts

\* The beginning of UnicodeData.txt is a text as well.
LEMMA CutsAreTexts ==
  ASSUME NEW k \in 0 .. Len(UnicodeData) - 1
  PROVE  SubSeq(UnicodeData, 1, k) \in Texts
<1>1. CASE k = 0
  <2>1. SubSeq(UnicodeData, 1, 0) = <<>>
    BY DataLines
  <2> QED
    BY <1>1, <2>1 DEF Texts
<1>2. CASE k # 0
  BY <1>2, DataLines DEF Texts
<1> QED
  BY <1>1, <1>2

\* The first line not below a code point is a line, or there is none.
LEMMA NotBelowIs ==
  ASSUME NEW L, Len(L) \in Nat, NEW from \in Nat, NEW cp,
         \A k \in 1 .. Len(L) : L[k].cp \in Int, cp \in Int
  PROVE  LET l == NotBelow(L, from, cp)
         IN  /\ l \in Nat /\ l <= Len(L)
             /\ l # Len(L) => /\ from <= l /\ l < Len(L)
                              /\ Line(L, l).cp >= cp
                              /\ \A k \in from .. l - 1 : Line(L, k).cp < cp
<1> DEFINE hits == {l \in from .. Len(L) - 1 : Line(L, l).cp >= cp}
<1>1. CASE hits = {}
  BY <1>1 DEF NotBelow, Count
<1>2. CASE hits # {}
  <2>1. hits \subseteq Nat
    OBVIOUS
  <2>2. PICK x \in hits : \A y \in hits : x <= y
    BY <1>2, <2>1, Least
  <2> PICK l : l = NotBelow(L, from, cp)
    OBVIOUS
  <2>3. l = CHOOSE x0 \in hits : \A k \in hits : x0 <= k
    BY <1>2 DEF NotBelow, Count
  <2> HIDE DEF hits
  <2>4. l \in hits /\ \A k \in hits : l <= k
    BY <2>2, <2>3
  <2>5. l \in from .. Len(L) - 1 /\ Line(L, l).cp >= cp
    BY <2>4 DEF hits
  <2>6. ASSUME NEW k \in from .. l - 1 PROVE Line(L, k).cp < cp
    <3>1. k \notin hits
      BY <2>4, <2>5
    <3>2. k \in from .. Len(L) - 1 /\ k + 1 \in 1 .. Len(L)
      BY <2>5
    <3>3. Line(L, k).cp \in Int
      BY <3>2 DEF Line
    <3> QED
      BY <3>1, <3>2, <3>3 DEF hits
  <2> QED
    BY <2>5, <2>6
<1> QED
  BY <1>1, <1>2

\* What a look-up makes of the line it found has its type.
LEMMA FoundIsTyped ==
  ASSUME NEW L \in Texts, L # <<>>, L # Page, NEW t \in ThreadState, NEW cp \in CodePoint,
         NEW entry \in DataLine, NEW l \in Nat, l < Len(L)
  PROVE  LET a == Found(L, t, cp, entry, l)
         IN  a.ok \in BOOLEAN /\ a.cat \in Category /\ a.thread \in ThreadState
<1> PICK a : a = Found(L, t, cp, entry, l)
  OBVIOUS
<1> DEFINE cat == CategoryFromString(entry.cat)
           back == [t EXCEPT !.restart_from = IF l >= 2 THEN l - 2 ELSE 0]
           next == Line(L, l + 1)
<1>1. cat \in Category
  BY Categories DEF CategoryFromString
<1>2. back \in ThreadState
  BY DEF ThreadState
<1>3. CASE entry.mark # "first"
  BY <1>1, <1>2, <1>3 DEF Found, Answer
<1>4. CASE entry.mark = "first" /\ (l + 1 >= Count(L) \/ next.cat # entry.cat)
  BY <1>4, Categories DEF Found, Error
<1>5. CASE entry.mark = "first" /\ ~(l + 1 >= Count(L) \/ next.cat # entry.cat)
  <2>1. next.cp \in 0 .. NoBound
    <3>1. l + 2 \in 1 .. Len(L)
      BY <1>5, TextsAre DEF Count
    <3>2. L[l + 2] \in DataLine /\ next = L[l + 2]
      BY <3>1, TextsAre DEF Line
    <3> QED
      BY <3>2, MaxCpAssumption DEF DataLine, CodePoint, NoBound
  <2> DEFINE e == IF next.mark = "last" THEN next.cp ELSE back.end
  <2>2. cp \in 0 .. NoBound
    BY MaxCpAssumption DEF CodePoint, NoBound
  <2>3. Found(L, t, cp, entry, l) =
          Answer(cat, [back EXCEPT !.in = TRUE, !.start = cp, !.cat = cat, !.end = e])
    BY <1>5 DEF Found
  <2> HIDE DEF cat, back, next
  <2>4. e \in 0 .. NoBound
    BY <2>1, <1>2 DEF ThreadState
  <2> HIDE DEF e
  <2>5. [back EXCEPT !.in = TRUE, !.start = cp, !.cat = cat, !.end = e] \in ThreadState
    BY <1>1, <1>2, <2>2, <2>4 DEF ThreadState
  <2> QED
    BY <1>1, <2>3, <2>5 DEF Answer
<1> QED
  BY <1>3, <1>4, <1>5

\* What a search over the lines gives has its type.
LEMMA SearchIsTyped ==
  ASSUME NEW L \in Texts, L # <<>>, L # Page, NEW t \in ThreadState, NEW cp \in CodePoint
  PROVE  LET a == Search(L, t, cp)
         IN  a.ok \in BOOLEAN /\ a.cat \in Category /\ a.thread \in ThreadState
<1>1. /\ Len(L) \in Nat /\ Len(L) >= 1
      /\ \A k \in 1 .. Len(L) : L[k] \in DataLine /\ L[k].cp \in CodePoint
  BY TextsAre DEF DataLine
<1>2. cp \in Nat /\ MaxCp \in Nat /\ cp <= MaxCp /\ CodePoint = 0 .. MaxCp /\ NoBound = MaxCp + 1
  BY MaxCpAssumption DEF CodePoint, NoBound
<1> DEFINE hint == Line(L, t.restart_from)
           known == HasHint(L, t)
           from == IF known /\ hint.cp < cp THEN t.restart_from ELSE 0
           last == Line(L, Count(L) - 1)
<1> PICK l : l = NotBelow(L, from, cp)
  OBVIOUS
<1>3. t.restart_from \in Nat /\ from \in Nat
  BY DEF ThreadState
<1>4. known => hint \in DataLine
  BY <1>1, <1>3 DEF HasHint, Count, Line
<1>5. last.cp \in CodePoint
  BY <1>1 DEF Line, Count
<1>6. /\ l \in Nat /\ l <= Len(L)
      /\ l # Len(L) => Line(L, l) \in DataLine
  <2>1. \A k \in 1 .. Len(L) : L[k].cp \in Int
    BY <1>1, <1>2
  <2> HIDE DEF from
  <2>2. l \in Nat /\ l <= Len(L)
    BY <2>1, <1>1, <1>2, <1>3, NotBelowIs
  <2> QED
    BY <2>2, <1>1 DEF Line
<1>7. CASE known /\ hint.cp = cp
  <2>1. Search(L, t, cp) = Found(L, t, cp, hint, 0)
    BY <1>7 DEF Search
  <2> HIDE DEF hint, known
  <2> QED
    BY <2>1, <1>1, <1>4, <1>7, FoundIsTyped
<1>8. CASE ~(known /\ hint.cp = cp) /\ l = Count(L)
  <2> PICK s : s = last.cp + 1
    OBVIOUS
  <2>1. Search(L, t, cp) = Answer("Cn", [t EXCEPT !.in = TRUE, !.start = s,
                                                  !.end = MaxCp, !.cat = "Cn"])
    BY <1>8 DEF Search
  <2>2. s \in 0 .. NoBound /\ MaxCp \in 0 .. NoBound
    BY <1>2, <1>5
  <2>3. [t EXCEPT !.in = TRUE, !.start = s, !.end = MaxCp, !.cat = "Cn"] \in ThreadState
    BY <2>2, Categories DEF ThreadState
  <2> QED
    BY <2>1, <2>3, Categories DEF Answer
<1>9. CASE ~(known /\ hint.cp = cp) /\ l # Count(L) /\ Line(L, l).cp = cp
  <2>1. Search(L, t, cp) = Found(L, t, cp, Line(L, l), l)
    BY <1>9 DEF Search
  <2> HIDE DEF hint, known, last
  <2>2. l < Len(L) /\ Line(L, l) \in DataLine
    BY <1>1, <1>6, <1>9 DEF Count
  <2> QED
    BY <2>1, <2>2, <1>6, FoundIsTyped
<1>10. CASE ~(known /\ hint.cp = cp) /\ l # Count(L) /\ Line(L, l).cp # cp
  <2>1. Search(L, t, cp) = Answer("Cn", [t EXCEPT !.restart_from = TwoBefore(L, l)])
    BY <1>10 DEF Search
  <2>2. TwoBefore(L, l) \in Nat
    BY <1>1, <1>6 DEF TwoBefore, Count
  <2>3. [t EXCEPT !.restart_from = TwoBefore(L, l)] \in ThreadState
    BY <2>2 DEF ThreadState
  <2> QED
    BY <2>1, <2>3, Categories DEF Answer
<1> QED
  BY <1>7, <1>8, <1>9, <1>10

\* What a look-up returns and keeps; in an error page it fails.
LEMMA LookupIsTyped ==
  ASSUME NEW L \in Texts, L # <<>>, NEW t \in ThreadState, NEW cp \in CodePoint
  PROVE  LET a == LookupCat(L, t, cp)
         IN  /\ a.ok \in BOOLEAN /\ a.cat \in Category /\ a.thread \in ThreadState
             /\ L = Page /\ t.in = FALSE => ~a.ok /\ a.thread = t
<1> DEFINE t0 == [t EXCEPT !.in = FALSE]
<1>1. t0 \in ThreadState /\ t.cat \in Category
  BY DEF ThreadState
<1>2. CASE InRange(t, cp)
  BY <1>1, <1>2 DEF LookupCat, Answer, InRange
<1>3. CASE ~InRange(t, cp) /\ Unreadable(L)
  BY <1>3, Categories DEF LookupCat, Error
<1>4. CASE ~InRange(t, cp) /\ ~Unreadable(L)
  <2>1. LookupCat(L, t, cp) = Search(L, t0, cp)
    BY <1>4 DEF LookupCat
  <2>2. L # Page
    BY <1>4, PageIs
  <2> HIDE DEF t0
  <2> QED
    BY <2>1, <2>2, <1>1, SearchIsTyped
<1> QED
  BY <1>2, <1>3, <1>4

\* The lines of the file ascend, and a First line is followed by its Last line.
LEMMA DataAscends ==
  /\ \A j, k \in 1 .. Len(UnicodeData) : j < k => UnicodeData[j].cp < UnicodeData[k].cp
  /\ \A k \in 1 .. Len(UnicodeData) : UnicodeData[k].mark = "first" =>
       k < Len(UnicodeData) /\ UnicodeData[k + 1].cat = UnicodeData[k].cat
<1>1. /\ \A k \in 1 .. Len(UnicodeData) - 1 : UnicodeData[k].cp < UnicodeData[k + 1].cp
      /\ DOMAIN UnicodeData = 1 .. Len(UnicodeData)
      /\ \A k \in DOMAIN UnicodeData : UnicodeData[k].mark = "first" =>
           k < Len(UnicodeData) /\ UnicodeData[k + 1].cat = UnicodeData[k].cat
  BY GeneratorAssumption, DataLines DEF WellFormed
<1>2. ASSUME NEW j \in 1 .. Len(UnicodeData), NEW k \in 1 .. Len(UnicodeData), j < k
      PROVE  UnicodeData[j].cp < UnicodeData[k].cp
  <2>1. Len(UnicodeData) \in Nat /\ \A i \in 1 .. Len(UnicodeData) : UnicodeData[i].cp \in Int
    BY DataLines, MaxCpAssumption DEF DataLine, CodePoint
  <2> DEFINE T == {i \in Nat : j < i /\ i <= Len(UnicodeData)
                               /\ ~(UnicodeData[j].cp < UnicodeData[i].cp)}
  <2>2. SUFFICES ASSUME T # {} PROVE FALSE
    BY <1>2
  <2>3. PICK x \in T : \A y \in T : x <= y
    BY <2>2, Least
  <2>4. x \in Nat /\ j < x /\ x <= Len(UnicodeData) /\ ~(UnicodeData[j].cp < UnicodeData[x].cp)
    OBVIOUS
  <2>5. x - 1 \in Nat /\ x - 1 \in 1 .. Len(UnicodeData) - 1 /\ (x - 1) + 1 = x /\ j <= x - 1
    BY <2>1, <2>4
  <2>6. x - 1 \notin T
    BY <2>3, <2>5
  <2>7. UnicodeData[x - 1].cp < UnicodeData[x].cp
    BY <2>5, <1>1
  <2>8. j = x - 1 \/ UnicodeData[j].cp < UnicodeData[x - 1].cp
    BY <2>1, <2>4, <2>5, <2>6
  <2>9. UnicodeData[x - 1].cp \in Int /\ UnicodeData[x].cp \in Int /\ UnicodeData[j].cp \in Int
    BY <2>1, <2>4, <2>5
  <2> QED
    BY <2>4, <2>7, <2>8, <2>9
<1> QED
  BY <1>1, <1>2

\* The hint of a thread is of a line below the code point.
HintBelow(t, cp) ==
  HasHint(UnicodeData, t) => Line(UnicodeData, t.restart_from).cp < cp

\* In the whole file the line of a code point gives a category and a hint below the next code
\* point.
LEMMA FoundSucceeds ==
  ASSUME NEW t \in ThreadState, NEW cp \in CodePoint, NEW l \in Nat, l < Len(UnicodeData),
         Line(UnicodeData, l).cp = cp
  PROVE  LET a == Found(UnicodeData, t, cp, Line(UnicodeData, l), l)
         IN  a.ok /\ HintBelow(a.thread, cp + 1)
<1>1. /\ Len(UnicodeData) \in Nat
      /\ \A k \in 1 .. Len(UnicodeData) : UnicodeData[k] \in DataLine /\ UnicodeData[k].cp \in Int
  BY DataLines, MaxCpAssumption DEF DataLine, CodePoint
<1> DEFINE entry == Line(UnicodeData, l)
           r == IF l >= 2 THEN l - 2 ELSE 0
           next == Line(UnicodeData, l + 1)
           a == Found(UnicodeData, t, cp, entry, l)
<1>2. entry.mark = "first" => l + 1 < Count(UnicodeData) /\ next.cat = entry.cat
  <2>1. l + 1 \in 1 .. Len(UnicodeData) /\ entry = UnicodeData[l + 1] /\ next = UnicodeData[(l + 1) + 1]
    BY <1>1 DEF Line
  <2> QED
    BY <2>1, DataAscends DEF Count
<1>3. a.ok /\ a.thread.restart_from = r
  <2> DEFINE back == [t EXCEPT !.restart_from = r]
  <2>1. back.restart_from = r /\ back = [back EXCEPT !.restart_from = r]
    BY DEF ThreadState
  <2>2. CASE entry.mark # "first"
    BY <2>1, <2>2 DEF Found, Answer
  <2>3. CASE entry.mark = "first"
    <3> DEFINE e == IF next.mark = "last" THEN next.cp ELSE back.end
               c == CategoryFromString(entry.cat)
    <3>1. a = Answer(c, [back EXCEPT !.in = TRUE, !.start = cp, !.cat = c, !.end = e])
      BY <1>1, <1>2, <2>3 DEF Found, Count
    <3> HIDE DEF a, e, c, next, entry
    <3>2. [back EXCEPT !.in = TRUE, !.start = cp, !.cat = c, !.end = e].restart_from = r
      BY DEF ThreadState
    <3> QED
      BY <3>1, <3>2 DEF Answer
  <2> QED
    BY <2>2, <2>3
<1>4. ASSUME 0 < r, r < Count(UnicodeData)
      PROVE  Line(UnicodeData, r).cp < cp + 1
  <2>1. l >= 2 /\ r + 1 \in 1 .. Len(UnicodeData) /\ l + 1 \in 1 .. Len(UnicodeData) /\ r + 1 < l + 1
    BY <1>1, <1>4
  <2>2. UnicodeData[r + 1].cp < UnicodeData[l + 1].cp
    BY <2>1, DataAscends
  <2>3. Line(UnicodeData, r).cp \in Int /\ Line(UnicodeData, r).cp < cp /\ cp \in Int
    BY <2>1, <2>2, <1>1 DEF Line
  <2> QED
    BY <2>3
<1> HIDE DEF a, r
<1> QED
  BY <1>3, <1>4 DEF HintBelow, HasHint, a

\* In the whole file every look-up finds something, if the hint is below it.
LEMMA LookupSucceeds ==
  ASSUME NEW t \in ThreadState, NEW cp \in CodePoint, HintBelow(t, cp)
  PROVE  LET a == LookupCat(UnicodeData, t, cp)
         IN  a.ok /\ HintBelow(a.thread, cp + 1)
<1>1. /\ Len(UnicodeData) \in Nat /\ Len(UnicodeData) >= 1
      /\ \A k \in 1 .. Len(UnicodeData) : UnicodeData[k] \in DataLine /\ UnicodeData[k].cp \in Int
      /\ cp \in Int
  BY DataLines, MaxCpAssumption DEF DataLine, CodePoint
<1>2. ASSUME NEW u, u.restart_from = t.restart_from
      PROVE  HintBelow(u, cp + 1)
  <2>1. ASSUME HasHint(UnicodeData, t)
        PROVE  Line(UnicodeData, t.restart_from).cp < cp + 1
    <3>1. t.restart_from + 1 \in 1 .. Len(UnicodeData)
      BY <1>1, <2>1 DEF HasHint, Count, ThreadState
    <3>2. Line(UnicodeData, t.restart_from).cp \in Int
      BY <3>1, <1>1 DEF Line
    <3> QED
      BY <1>1, <2>1, <3>2 DEF HintBelow
  <2> QED
    BY <1>2, <2>1 DEF HintBelow, HasHint
<1>3. CASE InRange(t, cp)
  BY <1>2, <1>3 DEF LookupCat, Answer
<1>4. CASE ~InRange(t, cp)
  <2> PICK t0 \in ThreadState : t0 = [t EXCEPT !.in = FALSE]
    BY DEF ThreadState
  <2>1. t0.restart_from = t.restart_from /\ t0.restart_from \in Nat
    BY DEF ThreadState
  <2>2. ~Unreadable(UnicodeData)
    BY <1>1 DEF Unreadable, Line, DataLine
  <2>3. LookupCat(UnicodeData, t, cp) = Search(UnicodeData, t0, cp)
    BY <1>4, <2>2 DEF LookupCat
  <2> DEFINE hint == Line(UnicodeData, t0.restart_from)
             known == HasHint(UnicodeData, t0)
             from == IF known /\ hint.cp < cp THEN t0.restart_from ELSE 0
             last == Line(UnicodeData, Count(UnicodeData) - 1)
  <2>4. known => hint.cp < cp /\ hint.cp \in Int
    <3>1. known => t0.restart_from + 1 \in 1 .. Len(UnicodeData)
      BY <1>1, <2>1 DEF HasHint, Count
    <3> QED
      BY <3>1, <1>1, <2>1 DEF HintBelow, HasHint, Line
  <2>5. ~(known /\ hint.cp = cp)
    BY <2>4, <1>1
  <2> PICK l : l = NotBelow(UnicodeData, from, cp)
    OBVIOUS
  <2>6. /\ l \in Nat /\ l <= Len(UnicodeData)
        /\ l # Len(UnicodeData) => /\ from <= l /\ Line(UnicodeData, l).cp >= cp
                                   /\ \A k \in from .. l - 1 : Line(UnicodeData, k).cp < cp
    <3>1. from \in Nat
      BY <2>1
    <3> HIDE DEF from
    <3> QED
      BY <3>1, <1>1, NotBelowIs
  <2>7. CASE l = Count(UnicodeData)
    <3> PICK s : s = last.cp + 1
      OBVIOUS
    <3>1. Search(UnicodeData, t0, cp) =
            Answer("Cn", [t0 EXCEPT !.in = TRUE, !.start = s, !.end = MaxCp, !.cat = "Cn"])
      BY <2>5, <2>7 DEF Search
    <3> PICK u : u = [t0 EXCEPT !.in = TRUE, !.start = s, !.end = MaxCp, !.cat = "Cn"]
      OBVIOUS
    <3>2. u.restart_from = t.restart_from
      BY <2>1 DEF ThreadState
    <3>3. HintBelow(u, cp + 1)
      BY <3>2, <1>2
    <3> QED
      BY <3>1, <3>3, <2>3 DEF Answer
  <2>8. CASE l # Count(UnicodeData) /\ Line(UnicodeData, l).cp = cp
    <3>1. Search(UnicodeData, t0, cp) = Found(UnicodeData, t0, cp, Line(UnicodeData, l), l)
      BY <2>5, <2>8 DEF Search
    <3>2. l < Len(UnicodeData)
      BY <2>6, <2>8, <1>1 DEF Count
    <3> HIDE DEF from, last, hint, known
    <3> QED
      BY <3>1, <3>2, <2>3, <2>6, <2>8, FoundSucceeds
  <2>9. CASE l # Count(UnicodeData) /\ Line(UnicodeData, l).cp # cp
    <3> PICK r : r = TwoBefore(UnicodeData, l)
      OBVIOUS
    <3>1. Search(UnicodeData, t0, cp) = Answer("Cn", [t0 EXCEPT !.restart_from = r])
      BY <2>5, <2>9 DEF Search
    <3> PICK u : u = [t0 EXCEPT !.restart_from = r]
      OBVIOUS
    <3>2. u.restart_from = r
      BY DEF ThreadState
    <3>3. ASSUME 0 < r, r < Count(UnicodeData)
          PROVE  Line(UnicodeData, r).cp < cp + 1
      <4>1. l >= 2 /\ r = l - 2 /\ l < Len(UnicodeData)
        BY <3>3, <2>6, <2>9, <1>1 DEF TwoBefore, Count
      <4>2. r \in Nat /\ r + 1 \in 1 .. Len(UnicodeData)
        BY <4>1, <2>6, <1>1
      <4>3. Line(UnicodeData, r).cp \in Int
        BY <4>2, <1>1 DEF Line
      <4>4. CASE from <= r
        <5>1. from \in Nat
          BY <2>1
        <5> HIDE DEF from, hint, known, last
        <5>2. r \in from .. l - 1 /\ l # Len(UnicodeData)
          BY <5>1, <4>1, <4>2, <4>4, <2>6
        <5>3. Line(UnicodeData, r).cp < cp
          BY <5>2, <2>6
        <5> QED
          BY <5>3, <4>3, <1>1
      <4>5. CASE ~(from <= r)
        <5>1. known /\ hint.cp < cp /\ from = t0.restart_from
          BY <4>5, <4>2
        <5>2. t0.restart_from + 1 \in 1 .. Len(UnicodeData) /\ r + 1 < t0.restart_from + 1
          BY <5>1, <4>5, <4>2, <2>1, <1>1 DEF HasHint, Count
        <5>3. UnicodeData[r + 1].cp < UnicodeData[t0.restart_from + 1].cp
          BY <4>2, <5>2, DataAscends
        <5>4. Line(UnicodeData, r).cp < hint.cp
          BY <5>3 DEF Line
        <5> QED
          BY <5>1, <5>4, <4>3, <2>4, <1>1
      <4> QED
        BY <4>4, <4>5
    <3>4. HintBelow(u, cp + 1)
      BY <3>2, <3>3 DEF HintBelow, HasHint
    <3> QED
      BY <3>1, <3>4, <2>3 DEF Answer
  <2> QED
    BY <2>7, <2>8, <2>9
<1> QED
  BY <1>3, <1>4

(***************************************************************************)
(* What the file says, and what a look-up makes of it                      *)
(***************************************************************************)

\* The line of a code point, and the lines of a range, are the only ones that say something
\* of it.
LEMMA DataIs ==
  /\ Len(UnicodeData) \in Nat /\ Len(UnicodeData) >= 1 /\ DOMAIN UnicodeData = 1 .. Len(UnicodeData)
  /\ \A k \in 1 .. Len(UnicodeData) :
       /\ UnicodeData[k] \in DataLine /\ UnicodeData[k].cp \in Nat /\ UnicodeData[k].cp <= MaxCp
       /\ UnicodeData[k].mark = "first" =>
            k + 1 \in 1 .. Len(UnicodeData) /\ UnicodeData[k + 1].mark = "last"
            /\ UnicodeData[k + 1].cat = UnicodeData[k].cat
  /\ \A j, k \in 1 .. Len(UnicodeData) : j < k => UnicodeData[j].cp < UnicodeData[k].cp
  /\ \A j, k \in 1 .. Len(UnicodeData) : UnicodeData[j].cp <= UnicodeData[k].cp => j <= k
<1>1. Len(UnicodeData) \in Nat /\ Len(UnicodeData) >= 1 /\ DOMAIN UnicodeData = 1 .. Len(UnicodeData)
  BY DataLines
<1>2. \A k \in 1 .. Len(UnicodeData) :
        UnicodeData[k] \in DataLine /\ UnicodeData[k].cp \in Nat /\ UnicodeData[k].cp <= MaxCp
  BY DataLines, MaxCpAssumption DEF DataLine, CodePoint
<1>3. \A k \in 1 .. Len(UnicodeData) : UnicodeData[k].mark = "first" =>
        k < Len(UnicodeData) /\ UnicodeData[k + 1].mark = "last"
        /\ UnicodeData[k + 1].cat = UnicodeData[k].cat
  BY <1>1, GeneratorAssumption DEF WellFormed
<1>4. \A j, k \in 1 .. Len(UnicodeData) : j < k => UnicodeData[j].cp < UnicodeData[k].cp
  BY DataAscends
<1>5. ASSUME NEW j \in 1 .. Len(UnicodeData), NEW k \in 1 .. Len(UnicodeData),
             UnicodeData[j].cp <= UnicodeData[k].cp
      PROVE  j <= k
  <2>1. k < j => UnicodeData[k].cp < UnicodeData[j].cp
    BY <1>4
  <2>2. UnicodeData[j].cp \in Nat /\ UnicodeData[k].cp \in Nat /\ j \in Nat /\ k \in Nat
    BY <1>2
  <2> QED
    BY <1>5, <2>1, <2>2
<1> QED
  BY <1>1, <1>2, <1>3, <1>4, <1>5

\* A code point with a line has the category of that line.
LEMMA LineSays ==
  ASSUME NEW k \in 1 .. Len(UnicodeData)
  PROVE  /\ Inside(UnicodeData, UnicodeData[k].cp) = {}
         /\ CategoryOf(UnicodeData, UnicodeData[k].cp) = UnicodeData[k].cat
<1> PICK cp \in Nat : cp = UnicodeData[k].cp
  BY DataIs
<1>1. ASSUME NEW j \in Inside(UnicodeData, cp)
      PROVE  FALSE
  <2>1. /\ j \in 1 .. Len(UnicodeData) /\ j + 1 \in 1 .. Len(UnicodeData)
        /\ UnicodeData[j].cp < cp /\ cp < UnicodeData[j + 1].cp
    BY DataIs DEF Inside
  <2>2. j \in Nat /\ k \in Nat /\ UnicodeData[j].cp \in Nat /\ UnicodeData[j + 1].cp \in Nat
    BY <2>1, DataIs
  <2>3. j <= k /\ k <= j + 1
    BY <2>1, <2>2, DataIs
  <2>4. k = j \/ k = j + 1
    BY <2>2, <2>3
  <2> QED
    BY <2>1, <2>2, <2>4
<1>2. {j \in DOMAIN UnicodeData : UnicodeData[j].cp = cp} = {k}
  <2>1. ASSUME NEW j \in 1 .. Len(UnicodeData), UnicodeData[j].cp = cp
        PROVE  j = k
    <3>1. j \in Nat /\ k \in Nat /\ j <= k /\ k <= j
      BY <2>1, DataIs
    <3> QED
      BY <3>1
  <2> QED
    BY <2>1, DataIs
<1> DEFINE hits == {j \in DOMAIN UnicodeData : UnicodeData[j].cp = cp} \cup Inside(UnicodeData, cp)
<1>3. hits = {k}
  BY <1>1, <1>2
<1>4. CategoryOf(UnicodeData, cp) = IF hits = {} THEN "Cn" ELSE UnicodeData[CHOOSE j \in hits : TRUE].cat
  BY DEF CategoryOf
<1> QED
  BY <1>1, <1>3, <1>4

\* A code point inside a range is inside no other, and has the category of the range.
LEMMA RangeSays ==
  ASSUME NEW cp \in Nat, NEW k \in Inside(UnicodeData, cp)
  PROVE  /\ Inside(UnicodeData, cp) = {k}
         /\ CategoryOf(UnicodeData, cp) = UnicodeData[k].cat
         /\ \A j \in 1 .. Len(UnicodeData) : UnicodeData[j].cp # cp
<1>1. /\ k \in 1 .. Len(UnicodeData) /\ k + 1 \in 1 .. Len(UnicodeData) /\ k \in Nat
      /\ UnicodeData[k].cp < cp /\ cp < UnicodeData[k + 1].cp
      /\ UnicodeData[k].cp \in Nat /\ UnicodeData[k + 1].cp \in Nat
  BY DataIs DEF Inside
<1>2. ASSUME NEW j \in Inside(UnicodeData, cp)
      PROVE  j = k
  <2>1. /\ j \in 1 .. Len(UnicodeData) /\ j + 1 \in 1 .. Len(UnicodeData) /\ j \in Nat
        /\ UnicodeData[j].cp < cp /\ cp < UnicodeData[j + 1].cp
        /\ UnicodeData[j].cp \in Nat /\ UnicodeData[j + 1].cp \in Nat
    BY DataIs DEF Inside
  <2>2. UnicodeData[j].cp <= UnicodeData[k + 1].cp /\ UnicodeData[k].cp <= UnicodeData[j + 1].cp
    <3> PICK x1 \in Nat, x2 \in Nat : x1 = UnicodeData[j].cp /\ x2 = UnicodeData[j + 1].cp
      BY <2>1
    <3> PICK y1 \in Nat, y2 \in Nat : y1 = UnicodeData[k].cp /\ y2 = UnicodeData[k + 1].cp
      BY <1>1
    <3>1. x1 < cp /\ cp < x2 /\ y1 < cp /\ cp < y2
      BY <1>1, <2>1
    <3> QED
      BY <3>1
  <2>3. j <= k + 1 /\ k <= j + 1
    BY <1>1, <2>1, <2>2, DataIs
  <2>4. j # k + 1 /\ k # j + 1
    <3> PICK x \in Nat, y \in Nat : x = UnicodeData[j].cp /\ y = UnicodeData[k].cp
      BY <1>1, <2>1
    <3>1. x < cp /\ y < cp
      BY <1>1, <2>1
    <3>2. j = k + 1 => cp < x
      BY <1>1
    <3>3. k = j + 1 => cp < y
      BY <2>1
    <3> QED
      BY <3>1, <3>2, <3>3
  <2> QED
    BY <1>1, <2>1, <2>3, <2>4
<1>3. ASSUME NEW j \in 1 .. Len(UnicodeData), UnicodeData[j].cp = cp
      PROVE  FALSE
  BY <1>3, LineSays
<1> DEFINE hits == {j \in DOMAIN UnicodeData : UnicodeData[j].cp = cp} \cup Inside(UnicodeData, cp)
<1>4. hits = {k}
  BY <1>2, <1>3, DataIs
<1>5. CategoryOf(UnicodeData, cp) = IF hits = {} THEN "Cn" ELSE UnicodeData[CHOOSE j \in hits : TRUE].cat
  BY DEF CategoryOf
<1> QED
  BY <1>2, <1>3, <1>4, <1>5

\* A code point that is neither of a line nor inside a range is not assigned.
LEMMA NothingSays ==
  ASSUME NEW cp, Inside(UnicodeData, cp) = {}, \A j \in 1 .. Len(UnicodeData) : UnicodeData[j].cp # cp
  PROVE  CategoryFromString(CategoryOf(UnicodeData, cp)) = "Cn"
<1>1. {j \in DOMAIN UnicodeData : UnicodeData[j].cp = cp} = {}
  BY DataIs
<1>2. CategoryOf(UnicodeData, cp) = "Cn"
  BY <1>1 DEF CategoryOf
<1> QED
  BY <1>2, Categories DEF CategoryFromString

\* The range a thread keeps is one of the file, or what is behind its last line, and its
\* hint is of a line below the range.
TrueRange(t) ==
  t.in =>
    /\ \/ \E k \in 1 .. Len(UnicodeData) - 1 :
            /\ UnicodeData[k].mark = "first"
            /\ t.start = UnicodeData[k].cp /\ t.end = UnicodeData[k + 1].cp
            /\ t.cat = CategoryFromString(UnicodeData[k].cat)
       \/ t.start = UnicodeData[Len(UnicodeData)].cp + 1 /\ t.end = MaxCp /\ t.cat = "Cn"
    /\ HintBelow(t, t.start)

\* A range of the file begins with cp.
BeginsRange(cp) ==
  \E k \in 1 .. Len(UnicodeData) : UnicodeData[k].mark = "first" /\ UnicodeData[k].cp = cp

\* What a thread has read when it looked up cp.
HasRead(a, cp) ==
  /\ a.ok /\ TrueRange(a.thread) /\ HintBelow(a.thread, cp + 1)
  /\ BeginsRange(cp) => a.thread.in /\ a.thread.start = cp
  /\ Inside(UnicodeData, cp) = {} => a.cat = CategoryFromString(CategoryOf(UnicodeData, cp))

\* An answer has read what it keeps.
LEMMA AnswerReads ==
  ASSUME NEW c, NEW t, NEW cp, TrueRange(t), HintBelow(t, cp + 1),
         BeginsRange(cp) => t.in /\ t.start = cp,
         Inside(UnicodeData, cp) = {} => c = CategoryFromString(CategoryOf(UnicodeData, cp))
  PROVE  HasRead(Answer(c, t), cp)
<1> PICK a : a = Answer(c, t)
  OBVIOUS
<1>1. a.ok /\ a.cat = c /\ a.thread = t
  BY DEF Answer
<1> QED
  BY <1>1 DEF HasRead

\* A hint two lines before the line of a code point, or none, is of a line below it.
LEMMA BackIsBelow ==
  ASSUME NEW l \in Nat, l < Len(UnicodeData), NEW t, NEW cp \in Nat,
         t.restart_from \in {0, l - 2, Len(UnicodeData)},
         \A k \in 0 .. l - 1 : Line(UnicodeData, k).cp < cp
  PROVE  HintBelow(t, cp) /\ HintBelow(t, cp + 1)
<1>1. Len(UnicodeData) \in Nat
  BY DataIs
<1>2. ASSUME HasHint(UnicodeData, t)
      PROVE  /\ Line(UnicodeData, t.restart_from).cp < cp
             /\ Line(UnicodeData, t.restart_from).cp < cp + 1
  <2>1. t.restart_from = l - 2 /\ t.restart_from \in 0 .. l - 1
    BY <1>1, <1>2 DEF HasHint, Count
  <2>2. t.restart_from + 1 \in 1 .. Len(UnicodeData)
    BY <1>1, <2>1
  <2>3. Line(UnicodeData, t.restart_from).cp \in Nat
    BY <2>2, DataIs DEF Line
  <2> QED
    BY <2>1, <2>3
<1> QED
  BY <1>2 DEF HintBelow

\* What is made of the line of a code point.
LEMMA FoundReads ==
  ASSUME NEW u \in ThreadState, ~u.in, NEW cp \in CodePoint, NEW l \in Nat,
         l < Len(UnicodeData), Line(UnicodeData, l).cp = cp
  PROVE  HasRead(Found(UnicodeData, u, cp, Line(UnicodeData, l), l), cp)
<1>1. /\ Len(UnicodeData) \in Nat /\ l + 1 \in 1 .. Len(UnicodeData) /\ cp \in Nat
      /\ Line(UnicodeData, l) = UnicodeData[l + 1] /\ UnicodeData[l + 1].cp = cp
  BY DataIs DEF Line, CodePoint
<1> PICK entry : entry = UnicodeData[l + 1]
  OBVIOUS
<1> PICK r \in Nat : r = IF l >= 2 THEN l - 2 ELSE 0
  OBVIOUS
<1> PICK c : c = CategoryFromString(entry.cat)
  OBVIOUS
<1> PICK back \in ThreadState : back = [u EXCEPT !.restart_from = r]
  BY DEF ThreadState
<1>2. back.restart_from = r /\ ~back.in
  BY DEF ThreadState
<1>3. ASSUME NEW t, t.restart_from = r
      PROVE  HintBelow(t, cp) /\ HintBelow(t, cp + 1)
  <2>1. \A k \in 0 .. l - 1 : Line(UnicodeData, k).cp < cp
    <3>1. ASSUME NEW k \in 0 .. l - 1
          PROVE  Line(UnicodeData, k).cp < cp
      <4>1. k + 1 \in 1 .. Len(UnicodeData) /\ k + 1 < l + 1
        BY <1>1
      <4> QED
        BY <4>1, <1>1, DataIs DEF Line
    <3> QED
      BY <3>1
  <2> QED
    BY <2>1, <1>1, <1>3, BackIsBelow
<1>4. Inside(UnicodeData, cp) = {} /\ c = CategoryFromString(CategoryOf(UnicodeData, cp))
  BY <1>1, LineSays
<1>5. CASE entry.mark # "first"
  <2>1. Found(UnicodeData, u, cp, Line(UnicodeData, l), l) = Answer(c, back)
    BY <1>1, <1>5 DEF Found
  <2>2. ~BeginsRange(cp)
    <3>1. ASSUME NEW k \in 1 .. Len(UnicodeData), UnicodeData[k].cp = cp
          PROVE  k = l + 1
      <4>1. k <= l + 1 /\ l + 1 <= k
        BY <1>1, <3>1, DataIs
      <4> QED
        BY <4>1
    <3> QED
      BY <3>1, <1>5 DEF BeginsRange
  <2> QED
    <3>1. TrueRange(back) /\ HintBelow(back, cp + 1)
      BY <1>2, <1>3 DEF TrueRange
    <3> QED
      BY <3>1, <2>1, <2>2, <1>4, AnswerReads
<1>6. CASE entry.mark = "first"
  <2>1. /\ l + 2 \in 1 .. Len(UnicodeData) /\ l + 1 \in 1 .. Len(UnicodeData) - 1 /\ (l + 1) + 1 = l + 2
        /\ UnicodeData[l + 2].mark = "last" /\ UnicodeData[l + 2].cat = entry.cat
    <3>1. /\ (l + 1) + 1 \in 1 .. Len(UnicodeData) /\ UnicodeData[(l + 1) + 1].mark = "last"
          /\ UnicodeData[(l + 1) + 1].cat = entry.cat
      BY <1>1, <1>6, DataIs
    <3>2. (l + 1) + 1 = l + 2
      OBVIOUS
    <3> QED
      BY <3>1, <3>2, <1>1
  <2> PICK e : e = UnicodeData[l + 2].cp
    OBVIOUS
  <2> PICK t : t = [back EXCEPT !.in = TRUE, !.start = cp, !.cat = c, !.end = e]
    OBVIOUS
  <2>2. t.in /\ t.start = cp /\ t.cat = c /\ t.end = e /\ t.restart_from = r
    BY <1>2 DEF ThreadState
  <2>3. Found(UnicodeData, u, cp, Line(UnicodeData, l), l) = Answer(c, t)
    <3> PICK next : next = UnicodeData[l + 2]
      OBVIOUS
    <3>1. Line(UnicodeData, l + 1) = next /\ ~(l + 1 >= Count(UnicodeData))
      BY <2>1 DEF Line, Count
    <3> QED
      BY <3>1, <1>1, <1>6, <2>1 DEF Found
  <2>4. TrueRange(t)
    <3>1. HintBelow(t, t.start)
      BY <1>3, <2>2
    <3>2. /\ UnicodeData[l + 1].mark = "first" /\ t.start = UnicodeData[l + 1].cp
          /\ t.end = UnicodeData[(l + 1) + 1].cp /\ t.cat = CategoryFromString(UnicodeData[l + 1].cat)
      BY <1>1, <1>6, <2>1, <2>2
    <3> QED
      BY <3>1, <3>2, <2>1 DEF TrueRange
  <2> QED
    <3>1. HintBelow(t, cp + 1)
      BY <1>3, <2>2
    <3>2. BeginsRange(cp) => t.in /\ t.start = cp
      BY <2>2
    <3>3. HasRead(Answer(c, t), cp)
      BY <3>1, <3>2, <2>4, <1>4, AnswerReads, Zenon
    <3> QED
      BY <3>3, <2>3, Zenon
<1> QED
  BY <1>5, <1>6

\* A search from a hint below the code point, or else from the first line, finds the first
\* line that is not below it.
LEMMA SearchFinds ==
  ASSUME NEW cp \in Nat, NEW from \in Nat, from < Len(UnicodeData),
         from = 0 \/ Line(UnicodeData, from).cp < cp
  PROVE  LET l == NotBelow(UnicodeData, from, cp)
         IN  /\ l \in Nat /\ l <= Len(UnicodeData)
             /\ \A k \in 0 .. l - 1 : Line(UnicodeData, k).cp < cp
             /\ l # Len(UnicodeData) => Line(UnicodeData, l).cp >= cp
<1>1. /\ Len(UnicodeData) \in Nat
      /\ \A k \in 1 .. Len(UnicodeData) : UnicodeData[k].cp \in Nat
      /\ \A k \in 0 .. Len(UnicodeData) - 1 : Line(UnicodeData, k) = UnicodeData[k + 1]
      /\ \A k \in 0 .. Len(UnicodeData) - 1 : Line(UnicodeData, k).cp \in Nat
  BY DataIs DEF Line
<1> PICK l : l = NotBelow(UnicodeData, from, cp)
  OBVIOUS
<1>2. /\ l \in Nat /\ l <= Len(UnicodeData)
      /\ l # Len(UnicodeData) => /\ from <= l /\ l < Len(UnicodeData)
                                 /\ Line(UnicodeData, l).cp >= cp
                                 /\ \A k \in from .. l - 1 : Line(UnicodeData, k).cp < cp
  BY <1>1, NotBelowIs
<1>3. \A k \in from .. l - 1 : Line(UnicodeData, k).cp < cp
  <2>1. CASE l # Len(UnicodeData)
    BY <2>1, <1>2
  <2>2. CASE l = Len(UnicodeData)
    <3>1. ASSUME NEW k \in from .. l - 1, Line(UnicodeData, k).cp >= cp
          PROVE  FALSE
      <4> DEFINE hits == {j \in from .. Len(UnicodeData) - 1 : Line(UnicodeData, j).cp >= cp}
      <4>1. hits # {} /\ hits \subseteq Nat
        BY <3>1, <2>2
      <4>2. PICK x \in hits : \A y \in hits : x <= y
        BY <4>1, Least
      <4>3. l = CHOOSE y \in hits : \A z \in hits : y <= z
        BY <4>1 DEF NotBelow, Count
      <4> HIDE DEF hits
      <4>4. l \in hits
        BY <4>2, <4>3
      <4> QED
        BY <4>4, <2>2, <1>1 DEF hits
    <3>2. ASSUME NEW k \in from .. l - 1
          PROVE  Line(UnicodeData, k).cp < cp
      <4>1. k \in 0 .. Len(UnicodeData) - 1
        BY <2>2, <1>1
      <4>2. Line(UnicodeData, k).cp \in Nat
        BY <4>1, <1>1
      <4> QED
        BY <3>1, <4>2
    <3> QED
      BY <3>2
  <2> QED
    BY <2>1, <2>2
<1>4. ASSUME NEW k \in 0 .. l - 1
      PROVE  Line(UnicodeData, k).cp < cp
  <2>1. CASE from <= k
    BY <2>1, <1>2, <1>3
  <2>2. CASE k < from
    <3>1. k \in 0 .. Len(UnicodeData) - 1 /\ from \in 0 .. Len(UnicodeData) - 1
      BY <2>2, <1>1, <1>2
    <3>2. /\ k + 1 \in 1 .. Len(UnicodeData) /\ from + 1 \in 1 .. Len(UnicodeData)
          /\ k + 1 < from + 1
      BY <2>2, <3>1
    <3>3. Line(UnicodeData, k).cp < Line(UnicodeData, from).cp
      BY <3>1, <3>2, <1>1, DataIs
    <3>4. Line(UnicodeData, k).cp \in Nat /\ Line(UnicodeData, from).cp \in Nat
      BY <3>1, <1>1
    <3> QED
      BY <2>2, <3>3, <3>4
  <2> QED
    BY <2>1, <2>2
<1> QED
  BY <1>2, <1>4

\* A search finds what the file says: a hint that is not below the code point does no harm
\* but at the First line of a range.
LEMMA SearchReads ==
  ASSUME NEW u \in ThreadState, ~u.in, NEW cp \in CodePoint,
         HintBelow(u, cp) \/ ~BeginsRange(cp)
  PROVE  HasRead(Search(UnicodeData, u, cp), cp)
<1>1. /\ Len(UnicodeData) \in Nat /\ Len(UnicodeData) >= 1 /\ cp \in Nat
      /\ \A k \in 0 .. Len(UnicodeData) - 1 :
           Line(UnicodeData, k) = UnicodeData[k + 1] /\ Line(UnicodeData, k).cp \in Nat
  BY DataIs DEF CodePoint, Line
<1> PICK h : h = u.restart_from
  OBVIOUS
<1> PICK hint : hint = Line(UnicodeData, h)
  OBVIOUS
<1> PICK known \in BOOLEAN : known = HasHint(UnicodeData, u)
  BY DEF HasHint
<1>2. h \in Nat /\ (known => h < Len(UnicodeData) /\ hint.cp \in Nat /\ hint = UnicodeData[h + 1])
  BY <1>1 DEF HasHint, Count, ThreadState
<1> PICK from \in Nat : from = IF known /\ hint.cp < cp THEN h ELSE 0
  BY <1>2
<1>3. from < Len(UnicodeData) /\ (from = 0 \/ Line(UnicodeData, from).cp < cp)
  BY <1>1, <1>2
<1> PICK l : l = NotBelow(UnicodeData, from, cp)
  OBVIOUS
<1>4. /\ l \in Nat /\ l <= Len(UnicodeData)
      /\ \A k \in 0 .. l - 1 : Line(UnicodeData, k).cp < cp
      /\ l # Len(UnicodeData) => Line(UnicodeData, l).cp >= cp
  BY <1>1, <1>3, SearchFinds
<1> PICK last : last = UnicodeData[Len(UnicodeData)]
  OBVIOUS
<1>5. Search(UnicodeData, u, cp) =
        IF known /\ hint.cp = cp THEN Found(UnicodeData, u, cp, hint, 0)
        ELSE IF l = Count(UnicodeData)
        THEN Answer("Cn", [u EXCEPT !.in = TRUE, !.start = last.cp + 1, !.end = MaxCp, !.cat = "Cn"])
        ELSE IF Line(UnicodeData, l).cp = cp
        THEN Found(UnicodeData, u, cp, Line(UnicodeData, l), l)
        ELSE Answer("Cn", [u EXCEPT !.restart_from = TwoBefore(UnicodeData, l)])
  <2>1. Line(UnicodeData, Count(UnicodeData) - 1) = last
    BY <1>1 DEF Count
  <2> QED
    BY <2>1 DEF Search
<1>6. \A k \in 1 .. Len(UnicodeData) : k - 1 \in 0 .. l - 1 => UnicodeData[k].cp < cp
  <2>1. \A k \in 1 .. Len(UnicodeData) : k - 1 \in 0 .. Len(UnicodeData) - 1 /\ (k - 1) + 1 = k
    BY <1>1
  <2> QED
    BY <2>1, <1>1, <1>4
<1>7. CASE known /\ hint.cp = cp
  <2> PICK c : c = CategoryFromString(hint.cat)
    OBVIOUS
  <2> PICK t : t = [u EXCEPT !.restart_from = 0]
    OBVIOUS
  <2>1. t.restart_from = 0 /\ ~t.in
    BY DEF ThreadState
  <2>2. h + 1 \in 1 .. Len(UnicodeData) /\ UnicodeData[h + 1].cp = cp /\ hint = UnicodeData[h + 1]
    BY <1>1, <1>2, <1>7
  <2>3. ~BeginsRange(cp)
    BY <1>1, <1>7 DEF HintBelow
  <2>4. hint.mark # "first"
    BY <2>2, <2>3 DEF BeginsRange
  <2>5. Search(UnicodeData, u, cp) = Answer(c, t)
    BY <1>5, <1>7, <2>4 DEF Found
  <2>6. Inside(UnicodeData, cp) = {} /\ c = CategoryFromString(CategoryOf(UnicodeData, cp))
    BY <2>2, LineSays
  <2>7. HintBelow(t, cp + 1)
    BY <2>1 DEF HintBelow, HasHint
  <2> QED
    <3>1. TrueRange(t)
      BY <2>1 DEF TrueRange
    <3> QED
      BY <3>1, <2>3, <2>5, <2>6, <2>7, AnswerReads
<1>8. CASE ~(known /\ hint.cp = cp) /\ l = Len(UnicodeData)
  <2> PICK s : s = last.cp + 1
    OBVIOUS
  <2> PICK t : t = [u EXCEPT !.in = TRUE, !.start = s, !.end = MaxCp, !.cat = "Cn"]
    OBVIOUS
  <2>1. t.in /\ t.start = s /\ t.end = MaxCp /\ t.cat = "Cn" /\ t.restart_from = h
    BY DEF ThreadState
  <2>2. Search(UnicodeData, u, cp) = Answer("Cn", t)
    BY <1>5, <1>8 DEF Count
  <2>3. \A k \in 1 .. Len(UnicodeData) : UnicodeData[k].cp < cp
    BY <1>1, <1>6, <1>8
  <2>4. \A k \in 1 .. Len(UnicodeData) : UnicodeData[k].cp < cp + 1 /\ UnicodeData[k].cp < s
    <3>1. ASSUME NEW k \in 1 .. Len(UnicodeData)
          PROVE  UnicodeData[k].cp < cp + 1 /\ UnicodeData[k].cp < s
      <4>1. UnicodeData[k].cp \in Nat /\ last.cp \in Nat /\ UnicodeData[k].cp < cp
        BY <2>3, DataIs
      <4>2. UnicodeData[k].cp <= last.cp
        <5>1. k = Len(UnicodeData) \/ k < Len(UnicodeData)
          BY <1>1
        <5>2. Len(UnicodeData) \in 1 .. Len(UnicodeData)
          BY <1>1
        <5> QED
          BY <5>1, <5>2, <4>1, DataIs
      <4> QED
        BY <4>1, <4>2, <1>1
    <3> QED
      BY <3>1
  <2>5. HintBelow(t, cp + 1) /\ HintBelow(t, s)
    <3>1. HasHint(UnicodeData, t) => known
      BY <2>1 DEF HasHint
    <3>2. known => h + 1 \in 1 .. Len(UnicodeData)
      BY <1>1, <1>2
    <3>3. known => hint.cp < cp + 1 /\ hint.cp < s
      BY <3>2, <2>4, <1>2
    <3> QED
      BY <3>1, <3>3, <2>1 DEF HintBelow
  <2>6. ~BeginsRange(cp) /\ \A k \in 1 .. Len(UnicodeData) : UnicodeData[k].cp # cp
    BY <1>1, <2>3, DataIs DEF BeginsRange
  <2>7. Inside(UnicodeData, cp) = {} => "Cn" = CategoryFromString(CategoryOf(UnicodeData, cp))
    BY <2>6, NothingSays
  <2> QED
    <3>1. TrueRange(t)
      BY <2>1, <2>5 DEF TrueRange
    <3> QED
      BY <3>1, <2>2, <2>5, <2>6, <2>7, AnswerReads
<1>9. CASE ~(known /\ hint.cp = cp) /\ l # Len(UnicodeData) /\ Line(UnicodeData, l).cp = cp
  <2>1. Search(UnicodeData, u, cp) = Found(UnicodeData, u, cp, Line(UnicodeData, l), l)
    BY <1>5, <1>9 DEF Count
  <2>2. l < Len(UnicodeData)
    BY <1>1, <1>4, <1>9
  <2> QED
    BY <2>1, <2>2, <1>4, <1>9, FoundReads
<1>10. CASE ~(known /\ hint.cp = cp) /\ l # Len(UnicodeData) /\ Line(UnicodeData, l).cp # cp
  <2> PICK r : r = TwoBefore(UnicodeData, l)
    OBVIOUS
  <2> PICK t : t = [u EXCEPT !.restart_from = r]
    OBVIOUS
  <2>1. t.restart_from = r /\ ~t.in
    BY DEF ThreadState
  <2>2. Search(UnicodeData, u, cp) = Answer("Cn", t)
    BY <1>5, <1>10 DEF Count
  <2>3. r \in {0, l - 2, Len(UnicodeData)} /\ l < Len(UnicodeData)
    BY <1>1, <1>4, <1>10 DEF TwoBefore, Count
  <2>4. HintBelow(t, cp + 1)
    BY <2>1, <2>3, <1>1, <1>4, BackIsBelow
  <2>5. \A k \in 1 .. Len(UnicodeData) : UnicodeData[k].cp # cp
    <3>1. ASSUME NEW k \in 1 .. Len(UnicodeData), UnicodeData[k].cp = cp
          PROVE  FALSE
      <4>1. k - 1 \notin 0 .. l - 1
        BY <3>1, <1>1, <1>6
      <4>2. l + 1 \in 1 .. Len(UnicodeData) /\ l + 1 <= k /\ k \in Nat
        BY <4>1, <2>3, <1>1, <1>4
      <4>3. UnicodeData[l + 1].cp >= cp /\ UnicodeData[l + 1].cp # cp /\ UnicodeData[l + 1].cp \in Nat
        BY <2>3, <1>1, <1>4, <1>10
      <4>4. l + 1 = k \/ UnicodeData[l + 1].cp < UnicodeData[k].cp
        BY <4>2, <1>4, DataIs
      <4> QED
        BY <3>1, <4>3, <4>4, <1>1
    <3> QED
      BY <3>1
  <2>6. ~BeginsRange(cp)
    BY <2>5 DEF BeginsRange
  <2>7. Inside(UnicodeData, cp) = {} => "Cn" = CategoryFromString(CategoryOf(UnicodeData, cp))
    BY <2>5, NothingSays
  <2> QED
    <3>1. TrueRange(t)
      BY <2>1 DEF TrueRange
    <3> QED
      BY <3>1, <2>2, <2>4, <2>6, <2>7, AnswerReads
<1> QED
  BY <1>7, <1>8, <1>9, <1>10

\* A range of the file, or what is behind it, has one category.
LEMMA RangeReads ==
  ASSUME NEW t \in ThreadState, NEW cp \in CodePoint, InRange(t, cp), TrueRange(t)
  PROVE  /\ t.cat = CategoryFromString(CategoryOf(UnicodeData, cp))
         /\ BeginsRange(cp) => t.start = cp
         /\ HintBelow(t, cp + 1)
<1>1. /\ Len(UnicodeData) \in Nat /\ Len(UnicodeData) >= 1 /\ cp \in Nat
      /\ t.in /\ t.start <= cp /\ cp <= t.end /\ t.start \in Nat /\ HintBelow(t, t.start)
  BY DataIs DEF CodePoint, ThreadState, InRange, TrueRange
<1>2. HintBelow(t, cp + 1)
  <2>1. ASSUME HasHint(UnicodeData, t)
        PROVE  Line(UnicodeData, t.restart_from).cp < cp + 1
    <3>1. t.restart_from + 1 \in 1 .. Len(UnicodeData)
      BY <2>1, <1>1 DEF HasHint, Count, ThreadState
    <3>2. Line(UnicodeData, t.restart_from).cp \in Nat
      BY <3>1, DataIs DEF Line
    <3>3. Line(UnicodeData, t.restart_from).cp < t.start
      BY <2>1, <1>1 DEF HintBelow
    <3> QED
      BY <3>2, <3>3, <1>1
  <2> QED
    BY <2>1 DEF HintBelow
<1>3. ASSUME NEW k \in 1 .. Len(UnicodeData) - 1, UnicodeData[k].mark = "first",
             t.start = UnicodeData[k].cp, t.end = UnicodeData[k + 1].cp,
             t.cat = CategoryFromString(UnicodeData[k].cat)
      PROVE  /\ t.cat = CategoryFromString(CategoryOf(UnicodeData, cp))
             /\ BeginsRange(cp) => t.start = cp
  <2>1. /\ k \in 1 .. Len(UnicodeData) /\ k + 1 \in 1 .. Len(UnicodeData) /\ k \in Nat
        /\ UnicodeData[k + 1].cat = UnicodeData[k].cat /\ UnicodeData[k + 1].mark = "last"
        /\ UnicodeData[k].cp \in Nat /\ UnicodeData[k + 1].cp \in Nat
    BY <1>1, <1>3, DataIs
  <2>2. CASE cp = UnicodeData[k].cp
    BY <2>1, <2>2, <1>3, LineSays
  <2>3. CASE cp = UnicodeData[k + 1].cp
    <3>1. ~BeginsRange(cp)
      <4>1. ASSUME NEW j \in 1 .. Len(UnicodeData), UnicodeData[j].mark = "first", UnicodeData[j].cp = cp
            PROVE  FALSE
        <5>1. j <= k + 1 /\ k + 1 <= j /\ j \in Nat
          BY <4>1, <2>1, <2>3, DataIs
        <5>2. j = k + 1
          BY <5>1, <2>1
        <5> QED
          BY <5>2, <4>1, <2>1
      <4> QED
        BY <4>1 DEF BeginsRange
    <3> QED
      BY <3>1, <2>1, <2>3, <1>3, LineSays
  <2>4. CASE cp # UnicodeData[k].cp /\ cp # UnicodeData[k + 1].cp
    <3>1. k \in Inside(UnicodeData, cp)
      BY <2>1, <2>4, <1>1, <1>3 DEF Inside
    <3> QED
      BY <3>1, <1>1, <1>3, RangeSays DEF BeginsRange
  <2> QED
    BY <2>2, <2>3, <2>4
<1>4. ASSUME t.start = UnicodeData[Len(UnicodeData)].cp + 1, t.cat = "Cn"
      PROVE  /\ t.cat = CategoryFromString(CategoryOf(UnicodeData, cp))
             /\ BeginsRange(cp) => t.start = cp
  <2>1. \A k \in 1 .. Len(UnicodeData) : UnicodeData[k].cp < cp
    <3>1. ASSUME NEW k \in 1 .. Len(UnicodeData)
          PROVE  UnicodeData[k].cp < cp
      <4>1. Len(UnicodeData) \in 1 .. Len(UnicodeData) /\ (k = Len(UnicodeData) \/ k < Len(UnicodeData))
        BY <1>1
      <4>2. UnicodeData[k].cp \in Nat /\ UnicodeData[Len(UnicodeData)].cp \in Nat
            /\ UnicodeData[k].cp <= UnicodeData[Len(UnicodeData)].cp
        <5>1. UnicodeData[k].cp \in Nat /\ UnicodeData[Len(UnicodeData)].cp \in Nat
          BY <4>1, DataIs
        <5>2. k < Len(UnicodeData) => UnicodeData[k].cp < UnicodeData[Len(UnicodeData)].cp
          BY <4>1, DataIs
        <5> QED
          BY <4>1, <5>1, <5>2
      <4> QED
        BY <4>2, <1>1, <1>4
    <3> QED
      BY <3>1
  <2>2. \A k \in 1 .. Len(UnicodeData) : UnicodeData[k].cp # cp /\ ~(cp < UnicodeData[k].cp)
    BY <2>1, <1>1, DataIs
  <2>3. Inside(UnicodeData, cp) = {}
    <3>1. ASSUME NEW k \in Inside(UnicodeData, cp)
          PROVE  FALSE
      <4>1. k + 1 \in 1 .. Len(UnicodeData) /\ cp < UnicodeData[k + 1].cp
        BY <1>1 DEF Inside
      <4> QED
        BY <4>1, <2>2
    <3> QED
      BY <3>1
  <2> QED
    BY <2>2, <2>3, <1>4, NothingSays DEF BeginsRange
<1> QED
  BY <1>1, <1>2, <1>3, <1>4 DEF TrueRange

\* A look-up reads what the file says, if the range of the thread is true or lies ahead and its
\* hint is below the code point or does no harm: inside a range it answers from the thread alone.
LEMMA LookupReads ==
  ASSUME NEW t \in ThreadState, NEW cp \in CodePoint,
         TrueRange(t) \/ cp < t.start, HintBelow(t, cp) \/ ~BeginsRange(cp)
  PROVE  LET a == LookupCat(UnicodeData, t, cp)
         IN  /\ HasRead(a, cp)
             /\ InRange(t, cp) =>
                  a.thread = t /\ a.cat = CategoryFromString(CategoryOf(UnicodeData, cp))
<1> PICK a : a = LookupCat(UnicodeData, t, cp)
  OBVIOUS
<1>1. CASE InRange(t, cp)
  <2>1. TrueRange(t)
    BY <1>1 DEF InRange, ThreadState, CodePoint
  <2>2. a = Answer(t.cat, t)
    BY <1>1 DEF LookupCat
  <2>3. a.thread = t /\ a.cat = t.cat
    BY <2>2 DEF Answer
  <2>4. /\ t.cat = CategoryFromString(CategoryOf(UnicodeData, cp))
        /\ BeginsRange(cp) => t.start = cp
        /\ HintBelow(t, cp + 1)
    BY <1>1, <2>1, RangeReads
  <2>5. t.in
    BY <1>1 DEF InRange
  <2>6. HasRead(Answer(t.cat, t), cp)
    BY <2>1, <2>4, <2>5, AnswerReads, Zenon
  <2> QED
    BY <1>1, <2>2, <2>3, <2>4, <2>6
<1>2. CASE ~InRange(t, cp)
  <2> PICK u \in ThreadState : u = [t EXCEPT !.in = FALSE]
    BY DEF ThreadState
  <2>1. u.in = FALSE /\ u.restart_from = t.restart_from
    BY DEF ThreadState
  <2>2. ~Unreadable(UnicodeData)
    BY DataIs DEF Unreadable, Line, DataLine
  <2>3. a = Search(UnicodeData, u, cp)
    BY <1>2, <2>2 DEF LookupCat
  <2>4. HintBelow(u, cp) \/ ~BeginsRange(cp)
    BY <2>1 DEF HintBelow, HasHint
  <2>5. HasRead(Search(UnicodeData, u, cp), cp)
    BY <2>1, <2>4, SearchReads
  <2> QED
    BY <1>2, <2>3, <2>5
<1> QED
  BY <1>1, <1>2

\* Whatever a thread has misread, the range it keeps is a true one or begins no earlier than
\* where it began to misread.
LEMMA LookupBegins ==
  ASSUME NEW t \in ThreadState, NEW cp \in CodePoint, NEW first \in Nat, first <= cp,
         TrueRange(t) \/ first <= t.start
  PROVE  LET v == LookupCat(UnicodeData, t, cp).thread
         IN  TrueRange(v) \/ first <= v.start
<1>1. /\ Len(UnicodeData) \in Nat /\ Len(UnicodeData) >= 1 /\ cp \in Nat
  BY DataIs DEF CodePoint
<1> PICK a : a = LookupCat(UnicodeData, t, cp)
  OBVIOUS
<1> PICK u \in ThreadState : u = [t EXCEPT !.in = FALSE]
  BY DEF ThreadState
<1>2. u.in = FALSE
  BY DEF ThreadState
<1>3. CASE InRange(t, cp)
  BY <1>3 DEF LookupCat, Answer
<1>4. CASE ~InRange(t, cp)
  <2>1. ~Unreadable(UnicodeData)
    BY DataIs DEF Unreadable, Line, DataLine
  <2>2. a = Search(UnicodeData, u, cp)
    BY <1>4, <2>1 DEF LookupCat
  <2>3. ASSUME NEW v, v.in = FALSE
        PROVE  TrueRange(v)
    BY <2>3 DEF TrueRange
  <2>4. ASSUME NEW entry, NEW l, a = Found(UnicodeData, u, cp, entry, l)
        PROVE  TrueRange(a.thread) \/ first <= a.thread.start
    <3> PICK c : c = CategoryFromString(entry.cat)
      OBVIOUS
    <3> PICK r : r = IF l >= 2 THEN l - 2 ELSE 0
      OBVIOUS
    <3> PICK back : back = [u EXCEPT !.restart_from = r]
      OBVIOUS
    <3> PICK e : e = IF Line(UnicodeData, l + 1).mark = "last"
                     THEN Line(UnicodeData, l + 1).cp ELSE back.end
      OBVIOUS
    <3> PICK v : v = [back EXCEPT !.in = TRUE, !.start = cp, !.cat = c, !.end = e]
      OBVIOUS
    <3>1. a = Answer(c, back) \/ a = Error(u) \/ a = Answer(c, v)
      BY <2>4 DEF Found
    <3>2. back.in = FALSE /\ v.start = cp
      BY <1>2 DEF ThreadState
    <3>3. a.thread \in {back, u, v}
      BY <3>1 DEF Answer, Error
    <3> QED
      BY <3>2, <3>3, <2>3, <1>2
  <2> PICK last : last = Line(UnicodeData, Count(UnicodeData) - 1)
    OBVIOUS
  <2> PICK v : v = [u EXCEPT !.in = TRUE, !.start = last.cp + 1, !.end = MaxCp, !.cat = "Cn"]
    OBVIOUS
  <2>5. TrueRange(v)
    <3>1. v.start = last.cp + 1 /\ v.end = MaxCp /\ v.cat = "Cn" /\ v.restart_from = u.restart_from
      BY DEF ThreadState
    <3>2. last = UnicodeData[Len(UnicodeData)] /\ last.cp \in Nat
      BY <1>1, DataIs DEF Line, Count
    <3>3. ASSUME HasHint(UnicodeData, v)
          PROVE  Line(UnicodeData, v.restart_from).cp < v.start
      <4>1. /\ v.restart_from + 1 \in 1 .. Len(UnicodeData)
            /\ v.restart_from + 1 <= Len(UnicodeData) /\ Len(UnicodeData) \in 1 .. Len(UnicodeData)
        BY <3>1, <3>3, <1>1 DEF HasHint, Count, ThreadState
      <4> PICK k \in 1 .. Len(UnicodeData) : k = v.restart_from + 1
        BY <4>1
      <4>2. UnicodeData[k].cp \in Nat /\ UnicodeData[k].cp <= last.cp
        <5>1. k < Len(UnicodeData) => UnicodeData[k].cp < UnicodeData[Len(UnicodeData)].cp
          BY <4>1, DataIs
        <5>2. k = Len(UnicodeData) \/ k < Len(UnicodeData)
          BY <1>1
        <5> QED
          BY <5>1, <5>2, <3>2, DataIs
      <4>3. Line(UnicodeData, v.restart_from) = UnicodeData[k]
        BY DEF Line
      <4> QED
        BY <4>2, <4>3, <3>1, <3>2
    <3>4. HintBelow(v, v.start)
      BY <3>3 DEF HintBelow
    <3> QED
      BY <3>1, <3>2, <3>4 DEF TrueRange
  <2>6. \/ \E entry, l : a = Found(UnicodeData, u, cp, entry, l)
        \/ a = Answer("Cn", v)
        \/ \E r : a = Answer("Cn", [u EXCEPT !.restart_from = r])
    BY <2>2 DEF Search
  <2>7. ASSUME a = Answer("Cn", v)
        PROVE  TrueRange(a.thread)
    BY <2>5, <2>7 DEF Answer
  <2>8. ASSUME NEW r, a = Answer("Cn", [u EXCEPT !.restart_from = r])
        PROVE  TrueRange(a.thread)
    <3>1. [u EXCEPT !.restart_from = r].in = FALSE
      BY <1>2 DEF ThreadState
    <3>2. a.thread = [u EXCEPT !.restart_from = r]
      BY <2>8 DEF Answer
    <3> QED
      BY <3>1, <3>2, <2>3
  <2> QED
    BY <2>4, <2>6, <2>7, <2>8
<1> QED
  BY <1>3, <1>4

\* The chunks of the pool that begin with a range of the file, but for the first that is taken.
Excluded(n, i) == i \in 1 .. n - 2 /\ BeginsRange(ChunkFirst(n, i))

\* Where a thread misreads the whole file.
Amiss(n, i, cp) ==
  Inside(UnicodeData, cp) \cap Inside(UnicodeData, ChunkFirst(n, i)) # {} \/ Excluded(n, i)

\* The range that cp lies inside of began before the chunk, or the thread is in it.
Follows(t, cp, first) ==
  \A k \in Inside(UnicodeData, cp) :
    UnicodeData[k].cp < first \/ (TrueRange(t) /\ t.in /\ t.start = UnicodeData[k].cp)

\* The thread t is about to look up cp, of chunk i, as the file has it.
LooksRight(n, i, t, cp) ==
  IF Excluded(n, i) THEN TrueRange(t) \/ ChunkFirst(n, i) <= t.start
  ELSE /\ TrueRange(t) \/ ChunkLast(n, i) < t.start
       /\ HintBelow(t, cp) \/ ~BeginsRange(cp)
       /\ Follows(t, cp, ChunkFirst(n, i))

\* What a thread looks up rightly is right, and so is its next look-up.
LEMMA LooksOnRight ==
  ASSUME NEW n \in Threads, NEW i \in 0 .. n - 1, NEW t \in ThreadState, NEW cp \in Chunk(n, i),
         LooksRight(n, i, t, cp)
  PROVE  LET a == LookupCat(UnicodeData, t, cp)
         IN  /\ TrueRange(a.thread) \/ ChunkFirst(n, i) <= a.thread.start
             /\ ~Excluded(n, i) => a.ok /\ TrueRange(a.thread)
             /\ LooksRight(n, i, a.thread, cp + 1)
             /\ a.cat = CategoryFromString(CategoryOf(UnicodeData, cp)) \/ Amiss(n, i, cp)
<1> PICK first \in Nat : first = ChunkFirst(n, i)
  BY ChunksAscend
<1> PICK last \in Nat : last = ChunkLast(n, i)
  BY ChunksAscend
<1>1. first <= cp /\ cp <= last /\ cp \in CodePoint /\ cp \in Nat /\ last <= MaxCp
  <2>1. ChunkFirst(n, i) \in Nat /\ ChunkLast(n, i) \in Nat /\ ChunkLast(n, i) <= MaxCp
    BY ChunksAscend
  <2>2. cp \in ChunkFirst(n, i) .. ChunkLast(n, i)
    BY DEF Chunk
  <2> QED
    BY <2>1, <2>2, MaxCpAssumption DEF CodePoint
<1> PICK a : a = LookupCat(UnicodeData, t, cp)
  OBVIOUS
<1>2. t.start \in Nat
  BY DEF ThreadState
<1>3. CASE Excluded(n, i)
  <2>1. TrueRange(t) \/ first <= t.start
    BY <1>3 DEF LooksRight
  <2>2. TrueRange(a.thread) \/ first <= a.thread.start
    BY <2>1, <1>1, LookupBegins
  <2> QED
    BY <2>2, <1>3 DEF LooksRight, Amiss
<1>4. CASE ~Excluded(n, i)
  <2>1. /\ TrueRange(t) \/ last < t.start
        /\ HintBelow(t, cp) \/ ~BeginsRange(cp)
        /\ Follows(t, cp, first)
    BY <1>4 DEF LooksRight
  <2>2. TrueRange(t) \/ cp < t.start
    BY <2>1, <1>1, <1>2
  <2>3. /\ HasRead(a, cp)
        /\ InRange(t, cp) =>
             a.thread = t /\ a.cat = CategoryFromString(CategoryOf(UnicodeData, cp))
    BY <2>1, <2>2, <1>1, LookupReads
  <2>4. a.ok /\ TrueRange(a.thread) /\ HintBelow(a.thread, cp + 1)
        /\ (BeginsRange(cp) => a.thread.in /\ a.thread.start = cp)
        /\ (Inside(UnicodeData, cp) = {} => a.cat = CategoryFromString(CategoryOf(UnicodeData, cp)))
    BY <2>3 DEF HasRead
  <2>5. ASSUME NEW k \in Inside(UnicodeData, cp), UnicodeData[k].cp >= first
        PROVE  InRange(t, cp) /\ a.thread = t /\ TrueRange(t) /\ t.in /\ t.start = UnicodeData[k].cp
    <3>1. /\ k \in 1 .. Len(UnicodeData) /\ k + 1 \in 1 .. Len(UnicodeData) /\ k \in Nat
          /\ UnicodeData[k].cp < cp /\ cp < UnicodeData[k + 1].cp /\ UnicodeData[k].cp \in Nat
          /\ UnicodeData[k + 1].cp \in Nat /\ Len(UnicodeData) \in Nat /\ k <= Len(UnicodeData) - 1
      BY DataIs DEF Inside
    <3>2. TrueRange(t) /\ t.in /\ t.start = UnicodeData[k].cp
      BY <2>1, <2>5, <3>1 DEF Follows
    <3>3. ASSUME NEW j \in 1 .. Len(UnicodeData) - 1, t.start = UnicodeData[j].cp,
                 t.end = UnicodeData[j + 1].cp
          PROVE  cp <= t.end
      <4>1. j \in 1 .. Len(UnicodeData) /\ j \in Nat
        BY <3>1
      <4>2. UnicodeData[j].cp <= UnicodeData[k].cp /\ UnicodeData[k].cp <= UnicodeData[j].cp
        BY <3>1, <3>2, <3>3
      <4>3. j <= k /\ k <= j
        BY <4>1, <4>2, <3>1, DataIs
      <4>4. j = k
        BY <4>1, <4>3, <3>1
      <4> QED
        <5>1. t.end = UnicodeData[k + 1].cp
          BY <4>4, <3>3
        <5> PICK y \in Nat : y = UnicodeData[k + 1].cp
          BY <3>1
        <5>2. cp < y
          BY <3>1
        <5> QED
          BY <5>1, <5>2, <1>1
    <3>4. ASSUME t.start = UnicodeData[Len(UnicodeData)].cp + 1
          PROVE  FALSE
      <4>1. Len(UnicodeData) \in 1 .. Len(UnicodeData) /\ k < Len(UnicodeData)
        BY <3>1
      <4>2. UnicodeData[k].cp < UnicodeData[Len(UnicodeData)].cp
            /\ UnicodeData[Len(UnicodeData)].cp \in Nat
        BY <4>1, <3>1, DataIs
      <4> QED
        BY <4>2, <3>1, <3>2, <3>4
    <3>5. cp <= t.end
      BY <3>2, <3>3, <3>4 DEF TrueRange
    <3>6. InRange(t, cp)
      <4> PICK y \in Nat : y = UnicodeData[k].cp
        BY <3>1
      <4>1. y < cp /\ t.start = y
        BY <3>1, <3>2
      <4>2. t.start <= cp
        BY <4>1, <1>1
      <4> QED
        BY <4>2, <3>2, <3>5 DEF InRange
    <3> QED
      BY <3>2, <3>6, <2>3
  <2>6. a.cat = CategoryFromString(CategoryOf(UnicodeData, cp)) \/ Amiss(n, i, cp)
    <3>1. CASE Inside(UnicodeData, cp) = {}
      BY <3>1, <2>4
    <3>2. ASSUME NEW k \in Inside(UnicodeData, cp), UnicodeData[k].cp < first
          PROVE  Amiss(n, i, cp)
      <4>1. k \in 1 .. Len(UnicodeData) - 1 /\ UnicodeData[k].mark = "first"
            /\ cp < UnicodeData[k + 1].cp /\ UnicodeData[k + 1].cp \in Nat
        BY DataIs DEF Inside
      <4>2. first < UnicodeData[k + 1].cp
        BY <4>1, <1>1
      <4>3. k \in Inside(UnicodeData, first)
        BY <4>1, <4>2, <3>2 DEF Inside
      <4> QED
        BY <4>3 DEF Amiss
    <3>3. ASSUME NEW k \in Inside(UnicodeData, cp), ~(UnicodeData[k].cp < first)
          PROVE  a.cat = CategoryFromString(CategoryOf(UnicodeData, cp))
      <4>1. UnicodeData[k].cp \in Nat
        BY DataIs DEF Inside
      <4> QED
        BY <4>1, <3>3, <2>3, <2>5
    <3> QED
      BY <3>1, <3>2, <3>3
  <2>7. Follows(a.thread, cp + 1, first)
    <3>1. ASSUME NEW k \in Inside(UnicodeData, cp + 1), ~(UnicodeData[k].cp < first)
          PROVE  TrueRange(a.thread) /\ a.thread.in /\ a.thread.start = UnicodeData[k].cp
      <4>1. /\ k \in 1 .. Len(UnicodeData) - 1 /\ k \in 1 .. Len(UnicodeData)
            /\ UnicodeData[k].mark = "first"
            /\ UnicodeData[k].cp < cp + 1 /\ cp + 1 < UnicodeData[k + 1].cp
            /\ UnicodeData[k].cp \in Nat /\ UnicodeData[k + 1].cp \in Nat
        BY DataIs DEF Inside
      <4>2. CASE UnicodeData[k].cp = cp
        <5>1. BeginsRange(cp)
          BY <4>1, <4>2 DEF BeginsRange
        <5> QED
          BY <5>1, <4>2, <2>4
      <4>3. CASE UnicodeData[k].cp # cp
        <5>1. UnicodeData[k].cp < cp /\ cp < UnicodeData[k + 1].cp /\ UnicodeData[k].cp >= first
          BY <4>1, <4>3, <3>1, <1>1
        <5>2. k \in Inside(UnicodeData, cp)
          BY <5>1, <4>1 DEF Inside
        <5> QED
          BY <5>1, <5>2, <2>5
      <4> QED
        BY <4>2, <4>3
    <3> QED
      BY <3>1 DEF Follows
  <2>8. LooksRight(n, i, a.thread, cp + 1)
    BY <2>4, <2>7, <1>4 DEF LooksRight
  <2> QED
    BY <2>4, <2>6, <2>8, <1>4
<1> QED
  BY <1>3, <1>4

\* A thread begins a chunk rightly, if its range is true or lies behind the chunk, and it has no
\* hint where it is the first to take a chunk.
LEMMA BeginsRight ==
  ASSUME NEW n \in Threads, NEW i \in 0 .. n - 1, NEW t \in ThreadState,
         TrueRange(t) \/ ChunkLast(n, i) < t.start,
         i \in {0, n - 1} => t.restart_from = 0
  PROVE  LooksRight(n, i, t, ChunkFirst(n, i))
<1> PICK first \in Nat : first = ChunkFirst(n, i)
  BY ChunksAscend
<1>1. first <= ChunkLast(n, i) /\ ChunkLast(n, i) \in Nat /\ t.start \in Nat /\ n \in Nat
  BY ChunksAscend, Counts DEF ThreadState
<1>2. HintBelow(t, first) \/ ~BeginsRange(first) \/ Excluded(n, i)
  <2>1. CASE i \in {0, n - 1}
    BY <2>1 DEF HintBelow, HasHint
  <2>2. CASE i \notin {0, n - 1}
    BY <2>2, <1>1 DEF Excluded
  <2> QED
    BY <2>1, <2>2
<1>3. Follows(t, first, first)
  BY DEF Follows, Inside
<1> QED
  BY <1>1, <1>2, <1>3 DEF LooksRight

(***************************************************************************)
(* The inductive invariant                                                 *)
(***************************************************************************)

\* Where main is before it has lines, where a process writes a file, where it is not at
\* a task, and where main ends.
Reading == {"start", "read", "fetch", "whole", "page"}
Dumping == {"dir", "readlink", "truncate", "retrieved", "copy", "open", "write"}
Resting == Reading \cup {"none", "idle", "gone", "enqueue", "own", "wait", "cnd_wait"}
Ending == {"exit", "exit_success", "join", "join_success"}

MainPlace ==
  Reading \cup Dumping \cup Ending \cup {"enqueue", "own", "wait", "cnd_wait", "parse", "store"}
WorkerPlace ==
  Dumping \cup {"none", "idle", "gone", "parse", "store", "broadcast", "exit", "join"}

\* The tasks: one per chunk, of which main has the first, and one per file.
Parses(n) == {Parse(i) : i \in 0 .. n - 1}
PoolParses(n) == {Parse(i) : i \in 1 .. n - 1}
Dumps == {Dump(c) : c \in ToSet(Cats)}

\* Main has its places and the workers theirs; a pool is destroyed by who joins it.
PlacesOK ==
  /\ thread_count \in Threads
  /\ pc \in [Proc -> MainPlace \cup WorkerPlace]
  /\ pc[Main] \in MainPlace
  /\ \A w \in Proc \ {Main} : pc[w] \in WorkerPlace /\ (w \notin Worker => pc[w] = "none")
  /\ exiting \in Proc \cup {Nobody} /\ (exiting = Main => pc[Main] \in {"join", "join_success"})

\* The types.
DiskOK ==
  /\ cache \in {"none", "empty", "cut", "page", "whole"}
  /\ runs \in 1 .. MaxRuns /\ torn \in 0 .. MaxRuns
  /\ option \in Options
  /\ status \in {"running", "success", "failure"}
  /\ freed \in BOOLEAN /\ shutdown = freed /\ mtx \in {Main, Nobody}
  /\ waiting \subseteq Proc

LooksOK ==
  /\ lines \in Texts
  /\ thread \in [Proc -> ThreadState]
  /\ cursor \in [Proc -> Nat]
  /\ table \in [CodePoint -> Category \cup {"unset"}]

FilesOK ==
  /\ oks \in [ToSet(Cats) -> BOOLEAN]
  /\ files \in [ToSet(Cats) -> [state : {"none", "open", "cut", "written"}, cps : SUBSET CodePoint]]

\* What a process works on follows from where it is, and it works on lines.
JobsOK ==
  /\ job \in [Proc -> Parses(thread_count) \cup Dumps \cup {NoTask}]
  /\ \A p \in Proc : pc[p] = "parse" => job[p] \in Parses(thread_count)
  /\ \A p \in Proc : pc[p] \in Dumping => job[p] \in Dumps
  /\ \A p \in Proc : pc[p] \in {"store", "broadcast"} => job[p] \in Parses(thread_count) \cup Dumps
  /\ \A p \in Proc : pc[p] \in Resting => job[p] = NoTask
  /\ pc[Main] \in {"parse", "store"} => job[Main] = Parse(0)
  /\ \A w \in Proc \ {Main} : job[w] # Parse(0)

LinesOK ==
  /\ pc[Main] \in Reading => lines = <<>>
  /\ lines = <<>> =>
       /\ pc[Main] \in Reading \cup Ending
       /\ task_queue = <<>> /\ to_enqueue = <<>> /\ finished = {}
       /\ \A p \in Proc : job[p] = NoTask
       /\ \A w \in Proc \ {Main} : pc[w] \in {"none", "idle", "gone"}
       /\ thread[Main].restart_from = 0

\* A task is in one place, and done only where it was reported.
OnceOK ==
  /\ task_queue \in Seq(PoolParses(thread_count) \cup Dumps)
  /\ to_enqueue \in Seq(PoolParses(thread_count) \cup Dumps)
  /\ finished \subseteq Parses(thread_count) \cup Dumps
  /\ \A j, k \in DOMAIN task_queue : task_queue[j] = task_queue[k] => j = k
  /\ \A j, k \in DOMAIN to_enqueue : to_enqueue[j] = to_enqueue[k] => j = k
  /\ \A p, q \in Proc : job[p] = job[q] /\ job[p] # NoTask => p = q
  /\ \A j \in DOMAIN task_queue, k \in DOMAIN to_enqueue : task_queue[j] # to_enqueue[k]
  /\ \A p \in Proc : \A j \in DOMAIN task_queue : task_queue[j] # job[p]
  /\ \A p \in Proc : \A k \in DOMAIN to_enqueue : to_enqueue[k] # job[p]
  /\ \A j \in DOMAIN task_queue : task_queue[j] \notin finished
  /\ \A k \in DOMAIN to_enqueue : to_enqueue[k] \notin finished
  /\ \A p \in Proc : job[p] \in finished => pc[p] = "broadcast"

\* The tasks main has yet to wait for, or to enqueue, are the last of the chunks or of the
\* categories; those before them are done.
WaitsParse ==
  /\ to_wait # <<>> /\ Len(to_wait) <= thread_count
  /\ \A j \in DOMAIN to_wait : to_wait[j] = Parse(thread_count - Len(to_wait) + j - 1)
  /\ \A i \in 0 .. thread_count - Len(to_wait) - 1 : Parse(i) \in finished

WaitsDump ==
  /\ to_wait # <<>> /\ Len(to_wait) <= Len(Cats)
  /\ \A j \in DOMAIN to_wait : to_wait[j] = Dump(Cats[Len(Cats) - Len(to_wait) + j])
  /\ \A i \in 1 .. Len(Cats) - Len(to_wait) : Dump(Cats[i]) \in finished

EnqueuesParse ==
  /\ Len(to_enqueue) < thread_count
  /\ \A k \in DOMAIN to_enqueue : to_enqueue[k] = Parse(Len(to_enqueue) + 1 - k)

EnqueuesDump ==
  /\ Len(to_enqueue) <= Len(Cats)
  /\ \A k \in DOMAIN to_enqueue : to_enqueue[k] = Dump(Cats[Len(Cats) - Len(to_enqueue) + k])

AllParsed == \A i \in 0 .. thread_count - 1 : Parse(i) \in finished
AllDumped == \A c \in ToSet(Cats) : Dump(c) \in finished

\* Main enqueues the chunks, or the files.
EnqueuePhase ==
  /\ thread_count > 1 /\ to_enqueue # <<>>
  /\ \/ /\ WaitsParse /\ Len(to_wait) = thread_count /\ EnqueuesParse
        /\ Parse(0) \notin finished /\ thread[Main].restart_from = 0
     \/ WaitsDump /\ Len(to_wait) = Len(Cats) /\ EnqueuesDump

\* Main works on its own chunk.
OwnPhase ==
  /\ to_enqueue = <<>> /\ Parse(0) \notin finished
  /\ thread_count > 1 => WaitsParse /\ Len(to_wait) = thread_count

WaitPhase == thread_count > 1 /\ to_enqueue = <<>> /\ (WaitsParse \/ WaitsDump)

\* Main has no pool and writes the files itself.
DumpPhase ==
  /\ thread_count = 1 /\ EnqueuesDump /\ Len(to_enqueue) < Len(Cats)
  /\ job[Main] = Dump(Cats[Len(Cats) - Len(to_enqueue)])
  /\ \A i \in 1 .. Len(Cats) - Len(to_enqueue) - 1 : oks[Cats[i]]

ListsOK ==
  /\ to_wait \in Seq(Parses(thread_count) \cup Dumps)
  /\ pc[Main] = "enqueue" => EnqueuePhase
  /\ pc[Main] \in {"own", "parse", "store"} => OwnPhase
  /\ pc[Main] = "own" => thread[Main].restart_from = 0
  /\ pc[Main] \in {"wait", "cnd_wait"} => WaitPhase
  /\ pc[Main] \in Dumping => DumpPhase
  /\ pc[Main] \in {"exit_success", "join_success"} => \A c \in ToSet(Cats) : oks[c]

\* Before main has waited for all the chunks no file is begun; then all chunks are done.
BeforeDumps ==
  \/ pc[Main] \in Reading \cup {"own", "parse", "store"}
  \/ pc[Main] \in {"enqueue", "wait", "cnd_wait"} /\ WaitsParse

NoDumps ==
  /\ \A j \in DOMAIN task_queue : task_queue[j] \notin Dumps
  /\ \A k \in DOMAIN to_enqueue : to_enqueue[k] \notin Dumps
  /\ \A p \in Proc : job[p] \notin Dumps
  /\ finished \cap Dumps = {}

PhasesOK ==
  /\ BeforeDumps =>
       NoDumps /\ out_dir \in {"none", "asked"} /\ \A c \in ToSet(Cats) : ~oks[c]
  /\ NoDumps \/ AllParsed

\* The code points of a chunk are set when its task is done, and those before the
\* cursor of whoever works on it.
SetBelow(i, end) ==
  \A cp \in CodePoint : ChunkFirst(thread_count, i) <= cp /\ cp < end => table[cp] # "unset"

ChunkSet(i) == SetBelow(i, ChunkLast(thread_count, i) + 1)

TableOK ==
  /\ \A p \in Proc : pc[p] = "parse" =>
       ChunkFirst(thread_count, job[p][2]) <= cursor[p] /\ SetBelow(job[p][2], cursor[p])
  /\ \A p \in Proc : pc[p] = "store" /\ job[p] \in Parses(thread_count) => ChunkSet(job[p][2])
  /\ \A i \in 0 .. thread_count - 1 : Parse(i) \in finished => ChunkSet(i)

\* Nobody will write the file of c any more.
Spent(c) ==
  /\ \A j \in DOMAIN task_queue : task_queue[j] # Dump(c)
  /\ \A k \in DOMAIN to_enqueue : to_enqueue[k] # Dump(c)
  /\ \A p \in Proc : job[p] = Dump(c) => pc[p] \notin Dumping

\* A file that was written, as far as its writer knows, stays as it is.
OutputOK ==
  \A c \in ToSet(Cats) : oks[c] =>
    AllParsed /\ Spent(c) /\ files[c] \in {FileOf(c), CutFile} /\ dir_known

\* The two buffers of directories hold what the flags say; while the program's own path
\* is the output directory a file is about to fail, or has failed.
DirsOK ==
  /\ exe \in {"none", "full", "dir"} /\ exe_known \in BOOLEAN /\ dir_known \in BOOLEAN
  /\ option.output_dir => out_dir = "asked" /\ dir_known
  /\ ~option.output_dir =>
       out_dir \in {"none", "full", "dir"} /\ (dir_known <=> out_dir # "none")
  /\ \A p \in Proc : pc[p] \in {"readlink", "truncate", "retrieved", "copy"} => ~option.output_dir
  /\ exe_known => exe # "none"
  /\ \A p \in Proc : pc[p] \in {"truncate", "retrieved", "copy"} => exe # "none"
  /\ \A p \in Proc : pc[p] \in {"open", "write"} => dir_known
  /\ out_dir = "full" => \/ \E p \in Proc : pc[p] = "open"
                         \/ \E c \in ToSet(Cats) : ~oks[c] /\ Spent(c)

\* What main reads is cut only when a run wrote a part of it, and nothing is looked up in an
\* error page.
TextOK ==
  /\ cache = "cut" => torn # 0
  /\ lines \in {<<>>, Page, UnicodeData} \/ torn # 0
  /\ lines \in {<<>>, Page} =>
       /\ \A cp \in CodePoint : table[cp] = "unset"
       /\ \A p \in Proc : thread[p].in = FALSE
  /\ status = "success" => pc[Main] \in {"exit_success", "join_success"}

\* Main's look-ups in the whole file succeed, and so it ends when all is done.
EndOK ==
  lines = UnicodeData =>
    /\ pc[Main] = "parse" => HintBelow(thread[Main], cursor[Main])
    /\ thread_count > 1 /\ pc[Main] \in Ending => AllParsed /\ AllDumped

WorkOK == JobsOK /\ LinesOK /\ OnceOK /\ ListsOK /\ PhasesOK
ResultOK == TableOK /\ OutputOK /\ DirsOK /\ TextOK /\ EndOK
IInv == PlacesOK /\ DiskOK /\ LooksOK /\ FilesOK /\ WorkOK /\ ResultOK

(***************************************************************************)
(* Tasks and places                                                        *)
(***************************************************************************)

\* What tasks are made of.
LEMMA TaskNames ==
  /\ \A i : Parse(i)[1] = "parse" /\ Parse(i)[2] = i
  /\ \A c : Dump(c)[1] = "dump" /\ Dump(c)[2] = c
  /\ NoTask[1] = "none"
BY DEF Parse, Dump, NoTask

\* The tasks that look up a chunk.
LEMMA ParsesAre ==
  ASSUME NEW n
  PROVE  /\ \A t \in Parses(n) : t[1] = "parse" /\ t[2] \in 0 .. n - 1 /\ t = Parse(t[2])
         /\ \A i \in 0 .. n - 1 : Parse(i) \in Parses(n)
         /\ \A t \in PoolParses(n) : t[1] = "parse" /\ t[2] \in 1 .. n - 1 /\ t = Parse(t[2])
         /\ \A i \in 1 .. n - 1 : Parse(i) \in PoolParses(n)
BY TaskNames DEF Parses, PoolParses

\* The tasks that write a file.
LEMMA DumpsAre ==
  /\ \A t \in Dumps : t[1] = "dump" /\ t[2] \in ToSet(Cats) /\ t = Dump(t[2])
  /\ \A c \in ToSet(Cats) : Dump(c) \in Dumps
BY TaskNames DEF Dumps

\* Tasks of different kinds differ, and no task is none.
LEMMA KindsDiffer ==
  ASSUME NEW n \in Nat
  PROVE  /\ PoolParses(n) \subseteq Parses(n) /\ Parse(0) \notin PoolParses(n)
         /\ Parses(n) \cap Dumps = {} /\ PoolParses(n) \cap Dumps = {}
         /\ NoTask \notin Parses(n) /\ NoTask \notin PoolParses(n) /\ NoTask \notin Dumps
         /\ \A i : Parse(i) \notin Dumps
<1>1. PoolParses(n) \subseteq Parses(n)
  BY DEF Parses, PoolParses
<1>2. Parse(0) \notin PoolParses(n)
  BY ParsesAre, TaskNames
<1> QED
  BY <1>1, <1>2, ParsesAre, DumpsAre, TaskNames

\* The categories, one file for each.
LEMMA CatsAre ==
  /\ Len(Cats) \in Nat /\ Len(Cats) >= 1 /\ DOMAIN Cats = 1 .. Len(Cats)
  /\ \A k \in 1 .. Len(Cats) : Cats[k] \in ToSet(Cats)
  /\ \A c \in ToSet(Cats) : \E k \in 1 .. Len(Cats) : c = Cats[k]
  /\ \A j, k \in 1 .. Len(Cats) : Cats[j] = Cats[k] => j = k
  /\ ToSet(Cats) # {}
<1>1. Cats \in Seq(Category) /\ Cats # <<>> /\ \A j, k \in DOMAIN Cats : Cats[j] = Cats[k] => j = k
  BY GeneratorAssumption
<1>2. Len(Cats) \in Nat /\ Len(Cats) >= 1 /\ DOMAIN Cats = 1 .. Len(Cats)
  BY <1>1
<1> QED
  BY <1>1, <1>2 DEF ToSet

\* Places that no part of the work tells apart.
Alike(x, y) ==
  \/ x = y
  \/ x \in Dumping /\ y \in Dumping
  \/ x \in Reading /\ y \in Reading
  \/ x \in {"wait", "cnd_wait"} /\ y \in {"wait", "cnd_wait"}
  \/ x \in {"none", "idle", "gone"} /\ y \in {"none", "idle", "gone"}
  \/ x \in {"exit", "join"} /\ y \in {"exit", "join"}
  \/ x \in {"exit_success", "join_success"} /\ y \in {"exit_success", "join_success"}

\* Places that are alike are alike to every part of the invariant.
LEMMA AlikeIs ==
  ASSUME NEW x, NEW y, Alike(x, y)
  PROVE  /\ x \in Dumping <=> y \in Dumping
         /\ x \in Resting <=> y \in Resting
         /\ x \in Reading <=> y \in Reading
         /\ x \in Ending <=> y \in Ending
         /\ x = "parse" <=> y = "parse"
         /\ x = "store" <=> y = "store"
         /\ x = "broadcast" <=> y = "broadcast"
         /\ x = "enqueue" <=> y = "enqueue"
         /\ x = "own" <=> y = "own"
         /\ x \in {"wait", "cnd_wait"} <=> y \in {"wait", "cnd_wait"}
         /\ x \in {"none", "idle", "gone"} => y \in {"none", "idle", "gone"}
         /\ x \in {"exit_success", "join_success"} <=> y \in {"exit_success", "join_success"}
BY DEF Alike, Dumping, Resting, Reading, Ending

\* A step between such places that leaves the work alone, but for a freed queue.
Quiet ==
  /\ thread_count' = thread_count /\ lines' = lines /\ thread' = thread
  /\ cursor' = cursor /\ table' = table
  /\ task_queue' = task_queue \/ task_queue' = <<>>
  /\ to_enqueue' = to_enqueue /\ to_wait' = to_wait /\ finished' = finished
  /\ job' = job /\ oks' = oks /\ files' = files
  /\ \A p \in Proc : Alike(pc[p], pc'[p])
  /\ Main \in Proc

\* The numbers of tasks are the same when the thread count is.
LEMMA QuietJobs ==
  ASSUME JobsOK, LinesOK, Quiet
  PROVE  JobsOK' /\ LinesOK'
<1>1. JobsOK'
  BY AlikeIs DEF JobsOK, Quiet
<1>2. LinesOK'
  BY AlikeIs DEF LinesOK, Quiet
<1> QED
  BY <1>1, <1>2

\* A quiet step moves no task.
LEMMA QuietOnce ==
  ASSUME OnceOK, Quiet
  PROVE  OnceOK'
<1>1. CASE task_queue' = task_queue
  BY <1>1, AlikeIs DEF OnceOK, Quiet
<1>2. CASE task_queue' = <<>>
  <2>1. DOMAIN task_queue' = {} /\ task_queue' \in Seq(PoolParses(thread_count) \cup Dumps)
    BY <1>2
  <2> QED
    BY <2>1, AlikeIs DEF OnceOK, Quiet
<1> QED
  BY <1>1, <1>2 DEF Quiet

\* A quiet step leaves main's lists.
LEMMA QuietLists ==
  ASSUME ListsOK, Quiet
  PROVE  ListsOK'
<1>1. /\ WaitsParse' = WaitsParse /\ WaitsDump' = WaitsDump
      /\ EnqueuesParse' = EnqueuesParse /\ EnqueuesDump' = EnqueuesDump
  BY DEF Quiet, WaitsParse, WaitsDump, EnqueuesParse, EnqueuesDump
<1>2. EnqueuePhase' = EnqueuePhase /\ OwnPhase' = OwnPhase /\ WaitPhase' = WaitPhase
  BY <1>1 DEF Quiet, EnqueuePhase, OwnPhase, WaitPhase
<1>3. DumpPhase' = DumpPhase
  BY <1>1 DEF Quiet, DumpPhase
<1>4. /\ pc[Main] \in Dumping <=> pc'[Main] \in Dumping
      /\ pc[Main] = "enqueue" <=> pc'[Main] = "enqueue"
      /\ pc[Main] \in {"own", "parse", "store"} <=> pc'[Main] \in {"own", "parse", "store"}
      /\ pc[Main] = "own" <=> pc'[Main] = "own"
      /\ pc[Main] \in {"wait", "cnd_wait"} <=> pc'[Main] \in {"wait", "cnd_wait"}
      /\ pc[Main] \in {"exit_success", "join_success"}
           <=> pc'[Main] \in {"exit_success", "join_success"}
  BY AlikeIs DEF Quiet
<1>5. to_wait' = to_wait /\ thread_count' = thread_count /\ oks' = oks /\ thread' = thread
  BY DEF Quiet
<1> QED
  BY <1>2, <1>3, <1>4, <1>5 DEF ListsOK

\* A quiet step begins no file.
LEMMA QuietPhases ==
  ASSUME PhasesOK, Quiet, out_dir' = out_dir \/ ~BeforeDumps
  PROVE  PhasesOK'
<1>1. WaitsParse' = WaitsParse
  BY DEF Quiet, WaitsParse
<1>2. BeforeDumps' = BeforeDumps
  <2>1. /\ pc[Main] \in Reading \cup {"own", "parse", "store"}
             <=> pc'[Main] \in Reading \cup {"own", "parse", "store"}
        /\ pc[Main] \in {"enqueue", "wait", "cnd_wait"}
             <=> pc'[Main] \in {"enqueue", "wait", "cnd_wait"}
    BY AlikeIs DEF Quiet
  <2> QED
    BY <1>1, <2>1 DEF BeforeDumps
<1>3. NoDumps => NoDumps'
  <2>1. CASE task_queue' = task_queue
    BY <2>1 DEF NoDumps, Quiet
  <2>2. CASE task_queue' = <<>>
    <3>1. DOMAIN task_queue' = {}
      BY <2>2
    <3> QED
      BY <3>1 DEF NoDumps, Quiet
  <2> QED
    BY <2>1, <2>2 DEF Quiet
<1>4. AllParsed' = AllParsed
  BY DEF AllParsed, Quiet
<1> QED
  BY <1>2, <1>3, <1>4 DEF PhasesOK, Quiet

\* A quiet step leaves the table.
LEMMA QuietTable ==
  ASSUME TableOK, Quiet
  PROVE  TableOK'
<1>1. \A i, e : SetBelow(i, e)' = SetBelow(i, e)
  BY DEF SetBelow, Quiet
<1>2. \A i : ChunkSet(i)' = ChunkSet(i)
  BY DEF ChunkSet, SetBelow, Quiet
<1>3. \A p \in Proc : (pc[p] = "parse" <=> pc'[p] = "parse") /\ (pc[p] = "store" <=> pc'[p] = "store")
  BY AlikeIs DEF Quiet
<1>4. job' = job /\ cursor' = cursor /\ thread_count' = thread_count /\ finished' = finished /\ table' = table
  BY DEF Quiet
<1> QED
  BY <1>3, <1>4 DEF TableOK, ChunkSet, SetBelow

\* A quiet step leaves files that were written.
LEMMA QuietOutput ==
  ASSUME OutputOK, Quiet, dir_known => dir_known'
  PROVE  OutputOK' /\ \A c : Spent(c) => Spent(c)'
<1>1. ASSUME NEW c, Spent(c)
      PROVE  Spent(c)'
  <2>1. \A j \in DOMAIN task_queue' : task_queue'[j] # Dump(c)
    <3>1. CASE task_queue' = task_queue
      BY <1>1, <3>1 DEF Spent
    <3>2. CASE task_queue' = <<>>
      BY <3>2
    <3> QED
      BY <3>1, <3>2 DEF Quiet
  <2>2. \A k \in DOMAIN to_enqueue' : to_enqueue'[k] # Dump(c)
    BY <1>1 DEF Spent, Quiet
  <2>3. \A p \in Proc : job'[p] = Dump(c) => pc'[p] \notin Dumping
    BY <1>1, AlikeIs DEF Spent, Quiet
  <2> QED
    BY <2>1, <2>2, <2>3 DEF Spent
<1>2. AllParsed' = AllParsed
  BY DEF AllParsed, Quiet
<1>3. ASSUME NEW c \in ToSet(Cats), oks'[c]
      PROVE  AllParsed' /\ Spent(c)' /\ files'[c] \in {FileOf(c)', CutFile} /\ dir_known'
  <2>1. AllParsed /\ Spent(c) /\ files[c] \in {FileOf(c), CutFile} /\ dir_known
    BY <1>3 DEF OutputOK, Quiet
  <2>2. FileOf(c)' = FileOf(c)
    BY DEF FileOf, Buffer, Quiet
  <2>3. files' = files
    BY DEF Quiet
  <2> QED
    BY <2>1, <2>2, <2>3, <1>1, <1>2
<1>4. OutputOK'
  BY <1>3 DEF OutputOK
<1> QED
  BY <1>1, <1>4

\* A quiet step leaves the look-ups of main.
LEMMA QuietEnd ==
  ASSUME EndOK, Quiet
  PROVE  EndOK'
<1>1. AllParsed' = AllParsed /\ AllDumped' = AllDumped
  BY DEF AllParsed, AllDumped, Quiet
<1>2. (pc[Main] = "parse" <=> pc'[Main] = "parse") /\ (pc[Main] \in Ending <=> pc'[Main] \in Ending)
  BY AlikeIs DEF Quiet
<1>3. lines' = lines /\ thread' = thread /\ cursor' = cursor /\ thread_count' = thread_count
  BY DEF Quiet
<1> QED
  BY <1>1, <1>2, <1>3 DEF EndOK

(***************************************************************************)
(* Steps that leave the work alone                                         *)
(***************************************************************************)

\* There is a main process, and workers besides.
LEMMA ProcIs ==
  ASSUME PlacesOK
  PROVE  /\ thread_count \in Nat /\ 1 <= thread_count /\ thread_count <= MaxCp
         /\ Main \in Proc /\ Worker \subseteq Proc \ {Main}
         /\ \A p \in Proc : p = Main \/ pc[p] = "none" \/ p \in Worker
<1>1. thread_count \in Threads
  BY DEF PlacesOK
<1> QED
  BY <1>1, Counts DEF PlacesOK, Main, Worker

\* One process goes to a place of its own.
LEMMA MovePlaces ==
  ASSUME PlacesOK, NEW p \in Proc, NEW x, pc' = [pc EXCEPT ![p] = x],
         thread_count' = thread_count, exiting' = exiting,
         p = Main => x \in MainPlace /\ exiting # Main,
         p # Main => p \in Worker /\ x \in WorkerPlace
  PROVE  PlacesOK'
<1>1. /\ pc' \in [Proc -> MainPlace \cup WorkerPlace]
      /\ \A q \in Proc : pc'[q] = IF q = p THEN x ELSE pc[q]
  BY DEF PlacesOK
<1>2. Main \in Proc /\ Worker' = Worker
  BY ProcIs DEF Worker
<1>3. pc'[Main] \in MainPlace
  BY <1>1, <1>2 DEF PlacesOK
<1>4. \A w \in Proc \ {Main} : pc'[w] \in WorkerPlace /\ (w \notin Worker' => pc'[w] = "none")
  BY <1>1, <1>2 DEF PlacesOK
<1> QED
  BY <1>1, <1>2, <1>3, <1>4 DEF PlacesOK

\* Where processes run that are not main.
LEMMA WorkerMoves ==
  ASSUME PlacesOK, NEW p \in Proc, pc[p] # "none"
  PROVE  p # Main => p \in Worker /\ pc[p] \in WorkerPlace
BY ProcIs DEF PlacesOK

DirPlace == {"readlink", "truncate", "retrieved", "copy", "open", "write"}

\* Nothing about the directories changes.
LEMMA DirsStay ==
  ASSUME DirsOK, UNCHANGED <<exe, exe_known, out_dir, dir_known>>, option' = option,
         \A p \in Proc : pc'[p] \in DirPlace =>
            pc'[p] = pc[p] \/ (pc'[p] = "write" /\ pc[p] = "open"),
         out_dir = "full" => \/ \E p \in Proc : pc'[p] = "open"
                             \/ \E c \in ToSet(Cats) : ~oks'[c] /\ Spent(c)'
  PROVE  DirsOK'
<1>1. /\ \A p \in Proc : pc'[p] \in {"readlink", "truncate", "retrieved", "copy"} => ~option.output_dir
      /\ \A p \in Proc : pc'[p] \in {"truncate", "retrieved", "copy"} => exe # "none"
      /\ \A p \in Proc : pc'[p] \in {"open", "write"} => dir_known
  BY DEF DirsOK, DirPlace
<1>2. out_dir' = "full" => \/ \E p \in Proc : pc'[p] = "open"
                           \/ \E c \in ToSet(Cats) : ~oks'[c] /\ Spent(c)'
  OBVIOUS
<1> QED
  BY <1>1, <1>2 DEF DirsOK

\* The text stays as it is where nobody reads it.
LEMMA TextStays ==
  ASSUME TextOK, UNCHANGED <<cache, torn, lines, table, thread, status>>,
         pc[Main] \in {"exit_success", "join_success"} => pc'[Main] \in {"exit_success", "join_success"}
  PROVE  TextOK'
BY DEF TextOK

\* A quiet step preserves the invariant, if it keeps the types, the directories and the text.
LEMMA QuietKeeps ==
  ASSUME IInv, Quiet, PlacesOK', DiskOK', DirsOK', TextOK',
         out_dir' = out_dir \/ ~BeforeDumps, dir_known => dir_known'
  PROVE  IInv'
<1>1. LooksOK' /\ FilesOK'
  BY DEF IInv, LooksOK, FilesOK, Quiet
<1>2. JobsOK' /\ LinesOK' /\ OnceOK' /\ ListsOK' /\ PhasesOK'
  BY QuietJobs, QuietOnce, QuietLists, QuietPhases DEF IInv, WorkOK
<1>3. TableOK' /\ OutputOK' /\ EndOK'
  BY QuietTable, QuietOutput, QuietEnd DEF IInv, ResultOK
<1> QED
  BY <1>1, <1>2, <1>3 DEF IInv, WorkOK, ResultOK

\* The same, for a step that leaves the directories, too.
LEMMA QuietMove ==
  ASSUME IInv, Quiet, PlacesOK', DiskOK', TextOK',
         UNCHANGED <<option, dirs>>,
         \A p \in Proc : pc'[p] \in DirPlace =>
            pc'[p] = pc[p] \/ (pc'[p] = "write" /\ pc[p] = "open"),
         \A p \in Proc : pc[p] = "open" => pc'[p] = "open"
  PROVE  IInv'
<1>1. UNCHANGED <<exe, exe_known, out_dir, dir_known>>
  BY DEF dirs
<1>2. OutputOK' /\ \A c : Spent(c) => Spent(c)'
  BY <1>1, QuietOutput DEF IInv, ResultOK
<1>3. out_dir = "full" => \/ \E p \in Proc : pc'[p] = "open"
                          \/ \E c \in ToSet(Cats) : ~oks'[c] /\ Spent(c)'
  <2>1. oks' = oks
    BY DEF Quiet
  <2> QED
    BY <1>2, <2>1 DEF IInv, ResultOK, DirsOK
<1>4. DirsOK'
  BY <1>1, <1>3, DirsStay DEF IInv, ResultOK
<1> QED
  BY <1>1, <1>4, QuietKeeps

\* A step that moves nobody.
LEMMA StillQuiet ==
  ASSUME PlacesOK, pc' = pc,
         UNCHANGED <<thread_count, lines, thread, cursor, table, to_enqueue, to_wait, finished,
                     job, oks, files, task_queue>>
  PROVE  Quiet
BY ProcIs DEF Quiet, Alike

\* A step that moves one process to a place alike.
LEMMA MoveQuiet ==
  ASSUME PlacesOK, NEW p \in Proc, NEW x, pc' = [pc EXCEPT ![p] = x], Alike(pc[p], x),
         UNCHANGED <<thread_count, lines, thread, cursor, table, to_enqueue, to_wait, finished,
                     job, oks, files>>,
         task_queue' = task_queue \/ task_queue' = <<>>
  PROVE  Quiet
<1>1. \A q \in Proc : pc'[q] = IF q = p THEN x ELSE pc[q]
  BY DEF PlacesOK
<1>2. \A q \in Proc : Alike(pc[q], pc'[q])
  BY <1>1 DEF Alike
<1> QED
  BY <1>2, ProcIs DEF Quiet

\* Main looks at a done flag under the mutex, or goes to sleep.
LEMMA WaitKeeps ==
  ASSUME IInv, WaitLook \/ WaitSleep
  PROVE  IInv'
<1>1. PlacesOK /\ DiskOK /\ TextOK /\ Main \in Proc
  BY ProcIs DEF IInv, ResultOK
<1> PICK x : x = (IF pc[Main] = "wait" THEN "cnd_wait" ELSE "wait")
  OBVIOUS
<1>2. /\ pc[Main] \in {"wait", "cnd_wait"} /\ x \in {"wait", "cnd_wait"} /\ exiting' = exiting
      /\ pc' = [pc EXCEPT ![Main] = x]
  BY DEF WaitLook, WaitSleep, Go
<1>3. UNCHANGED <<thread_count, option, lines, thread, cursor, table, to_enqueue, to_wait, finished,
                  job, oks, files, task_queue, cache, torn, runs, status, freed, shutdown>>
      /\ UNCHANGED dirs
  BY DEF WaitLook, WaitSleep, disk, options, look, main, output
<1>4. mtx' \in {Main, Nobody} /\ waiting' \subseteq Proc
  BY <1>1 DEF WaitLook, WaitSleep, DiskOK
<1>5. Quiet
  BY <1>1, <1>2, <1>3, MoveQuiet DEF Alike
<1>6. PlacesOK'
  BY <1>1, <1>2, <1>3, MovePlaces DEF MainPlace, PlacesOK
<1>7. DiskOK'
  BY <1>1, <1>3, <1>4 DEF DiskOK
<1>8. \A p \in Proc : pc'[p] = IF p = Main THEN x ELSE pc[p]
  BY <1>1, <1>2 DEF PlacesOK
<1>9. TextOK'
  BY <1>1, <1>2, <1>3, TextStays
<1> HIDE DEF IInv
<1> QED
  BY <1>2, <1>3, <1>5, <1>6, <1>7, <1>8, <1>9, QuietMove DEF DirPlace

\* A step that moves nobody and leaves all but the outside of the work.
LEMMA StillKeeps ==
  ASSUME IInv, PlacesOK', DiskOK', TextOK', pc' = pc, UNCHANGED <<option, dirs>>,
         UNCHANGED <<thread_count, lines, thread, cursor, table, to_enqueue, to_wait, finished,
                     job, oks, files, task_queue>>
  PROVE  IInv'
<1>1. Quiet
  BY StillQuiet DEF IInv
<1> QED
  BY <1>1, QuietMove

\* Spurious wake-ups, kills, the rest of a process and the end of a join.
LEMMA OutsideKeeps ==
  ASSUME IInv, SpuriousWakeUp \/ Kill \/ Rest \/ (\E p \in Proc : Join(p))
  PROVE  IInv'
<1>1. PlacesOK /\ DiskOK /\ TextOK
  BY DEF IInv, ResultOK
<1>2. /\ pc' = pc /\ UNCHANGED <<option, dirs, exiting>>
      /\ UNCHANGED <<thread_count, lines, thread, cursor, table, to_enqueue, to_wait, finished,
                     job, oks, files, task_queue, runs, freed, shutdown, mtx>>
  BY DEF SpuriousWakeUp, Kill, Rest, Join, vars, disk, options, look, pool, main, output
<1>3. PlacesOK'
  BY <1>1, <1>2 DEF PlacesOK, Worker
<1>4. /\ cache' \in {"none", "empty", "cut", "page", "whole"} /\ torn' \in 0 .. MaxRuns
      /\ waiting' \subseteq Proc /\ status' \in {"running", "success", "failure"}
  BY <1>1 DEF SpuriousWakeUp, Kill, Part, Rest, Join, DiskOK, disk, vars, pool
<1>5. DiskOK'
  BY <1>1, <1>2, <1>4 DEF DiskOK
<1>6. (cache' = "cut" => torn' # 0) /\ (torn # 0 => torn' # 0)
  BY <1>1 DEF SpuriousWakeUp, Kill, Part, Rest, Join, DiskOK, TextOK, disk, vars
<1>7. status' = "success" => pc'[Main] \in {"exit_success", "join_success"}
  <2>1. ASSUME NEW p \in Proc, Join(p), status' = "success"
        PROVE  pc[Main] \in {"exit_success", "join_success"}
    <3>1. pc[p] = "join_success"
      BY <2>1 DEF Join
    <3>2. p = Main
      BY <3>1, <1>1, WorkerMoves DEF WorkerPlace, Dumping
    <3> QED
      BY <3>1, <3>2
  <2>2. ASSUME SpuriousWakeUp \/ Kill \/ Rest, status' = "success"
        PROVE  status = "success"
    BY <2>2 DEF SpuriousWakeUp, Kill, Rest, vars
  <2> QED
    BY <1>1, <1>2, <2>1, <2>2 DEF TextOK
<1>8. TextOK'
  BY <1>1, <1>2, <1>6, <1>7 DEF TextOK
<1> HIDE DEF IInv
<1> QED
  BY <1>2, <1>3, <1>5, <1>8, StillKeeps

\* What a process does for the output directory.
LEMMA DirectoryKeeps ==
  ASSUME IInv, NEW p \in Proc,
         AskDir(p) \/ Readlink(p) \/ Truncate(p) \/ StoreRetrieved(p) \/ CopyDir(p)
  PROVE  IInv'
<1>1. PlacesOK /\ DiskOK /\ TextOK /\ DirsOK
  BY DEF IInv, ResultOK
<1> PICK x : x = pc'[p]
  OBVIOUS
<1>2. /\ pc[p] \in Dumping /\ x \in Dumping /\ exiting' = exiting
      /\ pc' = [pc EXCEPT ![p] = x]
  BY <1>1 DEF AskDir, Readlink, Truncate, StoreRetrieved, CopyDir, Go, Dumping, PlacesOK
<1>3. UNCHANGED <<thread_count, option, lines, thread, cursor, table, to_enqueue, to_wait, finished,
                  job, oks, files, task_queue, cache, torn, runs, status, freed, shutdown,
                  mtx, waiting>>
  BY DEF AskDir, Readlink, Truncate, StoreRetrieved, CopyDir, disk, options, look, pool, main, output
<1>4. Quiet
  BY <1>1, <1>2, <1>3, MoveQuiet DEF Alike
<1>5. PlacesOK'
  <2>1. p = Main => x \in MainPlace /\ exiting # Main
    BY <1>1, <1>2 DEF PlacesOK, MainPlace, Dumping
  <2>2. p # Main => p \in Worker /\ x \in WorkerPlace
    BY <1>1, <1>2, WorkerMoves DEF WorkerPlace, Dumping
  <2> QED
    BY <1>1, <1>2, <1>3, <2>1, <2>2, MovePlaces
<1>6. DiskOK'
  BY <1>1, <1>3 DEF DiskOK
<1>7. \A q \in Proc : pc'[q] = IF q = p THEN x ELSE pc[q]
  BY <1>1, <1>2 DEF PlacesOK
<1>8. TextOK'
  <2>1. pc[Main] \in {"exit_success", "join_success"} => pc'[Main] = pc[Main]
    BY <1>1, <1>2, <1>7, ProcIs DEF Dumping
  <2> QED
    BY <1>1, <1>3, <2>1, TextStays
<1>9. ~BeforeDumps
  <2>1. job[p] \in Dumps
    BY <1>2 DEF IInv, WorkOK, JobsOK
  <2> QED
    BY <2>1 DEF IInv, WorkOK, PhasesOK, NoDumps
<1>10. dir_known => dir_known'
  BY DEF AskDir, Readlink, Truncate, StoreRetrieved, CopyDir, dirs
<1>11. OutputOK' /\ \A c : Spent(c) => Spent(c)'
  BY <1>4, <1>10, QuietOutput DEF IInv, ResultOK
<1>12. DirsOK'
  <2>1. ASSUME out_dir' = out_dir, out_dir = "full", pc[p] # "open"
        PROVE  \/ \E q \in Proc : pc'[q] = "open"
               \/ \E c \in ToSet(Cats) : ~oks'[c] /\ Spent(c)'
    <3>1. CASE \E q \in Proc : pc[q] = "open"
      BY <3>1, <2>1, <1>7
    <3>2. CASE \E c \in ToSet(Cats) : ~oks[c] /\ Spent(c)
      BY <3>2, <1>3, <1>11
    <3> QED
      BY <3>1, <3>2, <2>1, <1>1 DEF DirsOK
  <2>2. CASE AskDir(p)
    <3>1. UNCHANGED <<exe, exe_known, out_dir, dir_known>> /\ pc[p] = "dir"
      BY <2>2 DEF AskDir, dirs
    <3>2. x = IF dir_known THEN "open" ELSE IF exe_known THEN "copy" ELSE "readlink"
      BY <2>2, <1>1 DEF AskDir, Go, PlacesOK
    <3> QED
      BY <3>1, <3>2, <2>1, <1>1, <1>3, <1>7 DEF DirsOK
  <2>3. CASE Readlink(p)
    <3>1. exe' = "full" /\ UNCHANGED <<exe_known, out_dir, dir_known>> /\ pc[p] = "readlink"
      BY <2>3 DEF Readlink
    <3>2. x = "truncate"
      BY <2>3, <1>1 DEF Readlink, Go, PlacesOK
    <3> QED
      BY <3>1, <3>2, <2>1, <1>1, <1>3, <1>7 DEF DirsOK
  <2>4. CASE Truncate(p)
    <3>1. exe' = "dir" /\ UNCHANGED <<exe_known, out_dir, dir_known>> /\ pc[p] = "truncate"
      BY <2>4 DEF Truncate
    <3>2. x = "retrieved"
      BY <2>4, <1>1 DEF Truncate, Go, PlacesOK
    <3> QED
      BY <3>1, <3>2, <2>1, <1>1, <1>3, <1>7 DEF DirsOK
  <2>5. CASE StoreRetrieved(p)
    <3>1. exe_known' = TRUE /\ UNCHANGED <<exe, out_dir, dir_known>> /\ pc[p] = "retrieved"
      BY <2>5 DEF StoreRetrieved
    <3>2. x = "copy"
      BY <2>5, <1>1 DEF StoreRetrieved, Go, PlacesOK
    <3> QED
      BY <3>1, <3>2, <2>1, <1>1, <1>3, <1>7 DEF DirsOK
  <2>6. CASE CopyDir(p)
    <3>1. out_dir' = exe /\ dir_known' = TRUE /\ UNCHANGED <<exe, exe_known>> /\ pc[p] = "copy"
      BY <2>6 DEF CopyDir
    <3>2. x = "open"
      BY <2>6, <1>1 DEF CopyDir, Go, PlacesOK
    <3> QED
      BY <3>1, <3>2, <1>1, <1>3, <1>7 DEF DirsOK
  <2> QED
    BY <2>2, <2>3, <2>4, <2>5, <2>6
<1> HIDE DEF IInv
<1> QED
  BY <1>4, <1>5, <1>6, <1>8, <1>9, <1>10, <1>12, QuietKeeps

(***************************************************************************)
(* The steps of a task                                                     *)
(***************************************************************************)

\* The file a process writes is its own, and not written yet.
LEMMA OwnFile ==
  ASSUME IInv, NEW p \in Proc, pc[p] \in Dumping
  PROVE  /\ job[p][2] \in ToSet(Cats) /\ job[p] = Dump(job[p][2]) /\ job[p] \in Dumps
         /\ ~oks[job[p][2]] /\ ~BeforeDumps /\ AllParsed /\ lines # <<>>
         /\ \A j \in DOMAIN task_queue : task_queue[j] # job[p]
         /\ \A k \in DOMAIN to_enqueue : to_enqueue[k] # job[p]
         /\ \A q \in Proc : job[q] = job[p] => q = p
         /\ job[p] \notin finished /\ job[p] # NoTask
<1>1. job[p] \in Dumps
  BY DEF IInv, WorkOK, JobsOK
<1>2. job[p][2] \in ToSet(Cats) /\ job[p] = Dump(job[p][2]) /\ job[p] # NoTask
  BY <1>1, DumpsAre, TaskNames
<1>3. ~BeforeDumps /\ AllParsed
  BY <1>1 DEF IInv, WorkOK, PhasesOK, NoDumps
<1>4. lines # <<>>
  BY <1>2 DEF IInv, WorkOK, LinesOK
<1>5. ~oks[job[p][2]]
  BY <1>2 DEF IInv, ResultOK, OutputOK, Spent
<1>6. /\ \A j \in DOMAIN task_queue : task_queue[j] # job[p]
      /\ \A k \in DOMAIN to_enqueue : to_enqueue[k] # job[p]
      /\ \A q \in Proc : job[q] = job[p] => q = p
  BY <1>2 DEF IInv, WorkOK, OnceOK
<1>7. job[p] \notin finished
  BY DEF IInv, WorkOK, OnceOK, Dumping
<1> QED
  BY <1>1, <1>2, <1>3, <1>4, <1>5, <1>6, <1>7

\* A process that fails calls exit, and leaves its task undone.
LEMMA FailKeeps ==
  ASSUME IInv, NEW p \in Proc, pc[p] \in Reading \cup Dumping \cup {"parse"},
         pc' = [pc EXCEPT ![p] = "exit"],
         UNCHANGED <<thread_count, option, lines, cursor, table, to_enqueue, to_wait, finished,
                     job, oks, files, task_queue, exiting, dirs>>,
         thread' = thread \/ (lines # <<>> /\ \A q \in Proc : q # p => thread'[q] = thread[q]),
         DiskOK', LooksOK', TextOK',
         lines = UnicodeData /\ p = Main => thread_count = 1
  PROVE  IInv'
<1>1. PlacesOK /\ FilesOK /\ Main \in Proc
  BY ProcIs DEF IInv
<1>2. \A q \in Proc : pc'[q] = IF q = p THEN "exit" ELSE pc[q]
  BY <1>1 DEF PlacesOK
<1>3. PlacesOK'
  <2>1. p = Main => exiting # Main
    BY <1>1 DEF PlacesOK, Reading, Dumping
  <2>2. p # Main => p \in Worker
    BY <1>1, WorkerMoves DEF Reading, Dumping
  <2> QED
    BY <1>1, <2>1, <2>2, MovePlaces DEF MainPlace, WorkerPlace, Ending
<1>4. FilesOK'
  BY <1>1 DEF FilesOK
<1>5. JobsOK'
  <2>1. JobsOK
    BY DEF IInv, WorkOK
  <2> QED
    BY <1>2, <2>1 DEF JobsOK, Dumping, Resting, Reading
<1>6. LinesOK'
  <2>1. LinesOK /\ JobsOK
    BY DEF IInv, WorkOK
  <2>2. thread' = thread \/ lines # <<>>
    OBVIOUS
  <2>3. lines = <<>> => p = Main
    <3>1. lines = <<>> => job[p] = NoTask /\ (p # Main => pc[p] \in {"none", "idle", "gone"})
      BY <2>1 DEF LinesOK
    <3> QED
      BY <3>1 DEF Reading, Dumping
  <2> QED
    BY <1>1, <1>2, <2>1, <2>2, <2>3 DEF LinesOK, Ending, Reading
<1>7. OnceOK'
  <2>1. OnceOK
    BY DEF IInv, WorkOK
  <2>2. job[p] \notin finished
    BY <2>1 DEF OnceOK, Reading, Dumping
  <2> QED
    BY <1>2, <2>1, <2>2 DEF OnceOK
<1>8. ListsOK'
  <2>1. ListsOK
    BY DEF IInv, WorkOK
  <2>2. /\ WaitsParse' = WaitsParse /\ WaitsDump' = WaitsDump
        /\ EnqueuesParse' = EnqueuesParse /\ EnqueuesDump' = EnqueuesDump
    BY DEF WaitsParse, WaitsDump, EnqueuesParse, EnqueuesDump
  <2>3. CASE p = Main
    BY <1>2, <2>1, <2>3 DEF ListsOK, Dumping
  <2>4. CASE p # Main
    <3>1. pc'[Main] = pc[Main] /\ thread'[Main] = thread[Main]
      BY <1>1, <1>2, <2>4
    <3>2. EnqueuePhase' = EnqueuePhase /\ OwnPhase' = OwnPhase /\ WaitPhase' = WaitPhase
      BY <2>2, <3>1 DEF EnqueuePhase, OwnPhase, WaitPhase
    <3>3. DumpPhase' = DumpPhase
      BY <2>2 DEF DumpPhase
    <3> QED
      BY <2>1, <3>1, <3>2, <3>3 DEF ListsOK
  <2> QED
    BY <2>3, <2>4
<1>9. PhasesOK'
  <2>1. PhasesOK
    BY DEF IInv, WorkOK
  <2>2. WaitsParse' = WaitsParse /\ NoDumps' = NoDumps /\ AllParsed' = AllParsed
    BY DEF WaitsParse, NoDumps, AllParsed
  <2>3. BeforeDumps' => BeforeDumps
    BY <1>1, <1>2, <2>2 DEF BeforeDumps, Reading
  <2>4. out_dir' = out_dir
    BY DEF dirs
  <2> QED
    BY <2>1, <2>2, <2>3, <2>4 DEF PhasesOK
<1>10. TableOK'
  <2>1. TableOK
    BY DEF IInv, ResultOK
  <2> QED
    BY <1>2, <2>1 DEF TableOK, ChunkSet, SetBelow
<1>11. \A c : Spent(c) => Spent(c)'
  BY <1>2 DEF Spent, Dumping
<1>12. OutputOK'
  <2>1. OutputOK /\ AllParsed' = AllParsed /\ dir_known' = dir_known
    BY DEF IInv, ResultOK, AllParsed, dirs
  <2>2. \A c : FileOf(c)' = FileOf(c)
    BY DEF FileOf, Buffer
  <2> QED
    BY <1>11, <2>1, <2>2 DEF OutputOK
<1>13. DirsOK'
  <2>1. DirsOK /\ UNCHANGED <<exe, exe_known, out_dir, dir_known>>
    BY DEF IInv, ResultOK, dirs
  <2>2. CASE pc[p] = "open"
    <3>1. /\ job[p][2] \in ToSet(Cats) /\ ~oks[job[p][2]] /\ job[p] = Dump(job[p][2])
          /\ \A j \in DOMAIN task_queue : task_queue[j] # job[p]
          /\ \A k \in DOMAIN to_enqueue : to_enqueue[k] # job[p]
          /\ \A q \in Proc : job[q] = job[p] => q = p
      BY <2>2, OwnFile DEF Dumping
    <3>2. \E c \in ToSet(Cats) : ~oks'[c] /\ Spent(c)'
      <4> PICK c : c = job[p][2]
        OBVIOUS
      <4>1. Spent(c)'
        BY <1>2, <3>1 DEF Spent, Dumping
      <4> QED
        BY <3>1, <4>1
    <3> QED
      BY <1>2, <2>1, <3>2, DirsStay DEF DirPlace
  <2>3. CASE pc[p] # "open"
    <3>1. out_dir = "full" => \/ \E q \in Proc : pc'[q] = "open"
                              \/ \E c \in ToSet(Cats) : ~oks'[c] /\ Spent(c)'
      BY <1>2, <1>11, <2>1, <2>3 DEF DirsOK
    <3> QED
      BY <1>2, <2>1, <3>1, DirsStay DEF DirPlace
  <2> QED
    BY <2>2, <2>3
<1>14. EndOK'
  <2>1. EndOK /\ AllParsed' = AllParsed /\ AllDumped' = AllDumped
    BY DEF IInv, ResultOK, AllParsed, AllDumped
  <2>2. CASE p = Main
    BY <1>1, <1>2, <2>2 DEF EndOK
  <2>3. CASE p # Main
    <3>1. pc'[Main] = pc[Main] /\ thread'[Main] = thread[Main]
      BY <1>1, <1>2, <2>3
    <3> QED
      BY <2>1, <3>1 DEF EndOK
  <2> QED
    BY <2>2, <2>3
<1> HIDE DEF IInv
<1> QED
  BY <1>3, <1>4, <1>5, <1>6, <1>7, <1>8, <1>9, <1>10, <1>12, <1>13, <1>14
  DEF IInv, WorkOK, ResultOK

(***************************************************************************)
(* Getting the lines                                                       *)
(***************************************************************************)

\* What is read from a file is a text: nothing, a page, all lines, or some when it was cut.
LEMMA TextLinesAre ==
  ASSUME NEW text, NEW L \in TextLines(text)
  PROVE  L \in Texts /\ (L \in {<<>>, Page, UnicodeData} \/ text = "cut")
<1>1. CASE text = "whole"
  BY <1>1, DataIsText DEF TextLines
<1>2. CASE text = "cut"
  BY <1>2, CutsAreTexts DEF TextLines
<1>3. CASE text = "page"
  BY <1>3 DEF TextLines, Texts, Page
<1>4. CASE text \notin {"whole", "cut", "page"}
  BY <1>4 DEF TextLines, Texts
<1> QED
  BY <1>1, <1>2, <1>3, <1>4

\* What holds while main has no lines.
LEMMA WhileReading ==
  ASSUME IInv, pc[Main] \in Reading
  PROVE  /\ lines = <<>> /\ task_queue = <<>> /\ to_enqueue = <<>> /\ finished = {}
         /\ \A p \in Proc : job[p] = NoTask
         /\ \A w \in Proc \ {Main} : pc[w] \in {"none", "idle", "gone"}
         /\ thread[Main].restart_from = 0 /\ Main \in Proc
         /\ NoDumps /\ out_dir \in {"none", "asked"} /\ \A c \in ToSet(Cats) : ~oks[c]
         /\ \A cp \in CodePoint : table[cp] = "unset"
         /\ \A p \in Proc : thread[p].in = FALSE
         /\ exiting # Main /\ status # "success" /\ lines # UnicodeData
<1>1. /\ lines = <<>> /\ task_queue = <<>> /\ to_enqueue = <<>> /\ finished = {}
      /\ \A p \in Proc : job[p] = NoTask
      /\ \A w \in Proc \ {Main} : pc[w] \in {"none", "idle", "gone"}
      /\ thread[Main].restart_from = 0
  BY DEF IInv, WorkOK, LinesOK
<1>2. NoDumps /\ out_dir \in {"none", "asked"} /\ \A c \in ToSet(Cats) : ~oks[c]
  BY DEF IInv, WorkOK, PhasesOK, BeforeDumps
<1>3. /\ \A cp \in CodePoint : table[cp] = "unset"
      /\ \A p \in Proc : thread[p].in = FALSE
      /\ status # "success"
  BY <1>1 DEF IInv, ResultOK, TextOK, Reading
<1>4. exiting # Main /\ Main \in Proc
  BY ProcIs DEF IInv, PlacesOK, Reading
<1> QED
  BY <1>1, <1>2, <1>3, <1>4, DataIsText

\* Main has lines, and with them its tasks.
LEMMA UseKeeps ==
  ASSUME IInv, pc[Main] \in Reading, NEW text, UseText(text), lines' # <<>>,
         UNCHANGED <<options, status, thread, cursor, table, pool, job, finished, dirs,
                     output, exiting>>,
         DiskOK', cache' = "cut" => torn' # 0,
         text = "cut" => torn' # 0
  PROVE  IInv'
<1>1. PlacesOK /\ LooksOK /\ FilesOK /\ JobsOK
  BY DEF IInv, WorkOK
<1> PICK n \in Nat : n = thread_count
  BY <1>1, ProcIs
<1> PICK x : x = IF n > 1 THEN "enqueue" ELSE "own"
  OBVIOUS
<1>2. /\ lines = <<>> /\ task_queue = <<>> /\ to_enqueue = <<>> /\ finished = {}
      /\ \A p \in Proc : job[p] = NoTask
      /\ \A w \in Proc \ {Main} : pc[w] \in {"none", "idle", "gone"}
      /\ thread[Main].restart_from = 0 /\ Main \in Proc
      /\ NoDumps /\ out_dir \in {"none", "asked"} /\ \A c \in ToSet(Cats) : ~oks[c]
      /\ \A cp \in CodePoint : table[cp] = "unset"
      /\ \A p \in Proc : thread[p].in = FALSE
      /\ exiting # Main /\ status # "success"
  BY WhileReading
<1>3. UNCHANGED <<thread_count, option, status, thread, cursor, table, task_queue, freed, shutdown,
                  mtx, waiting, job, finished, exe, exe_known, out_dir, dir_known, oks, files, exiting>>
  BY DEF options, pool, dirs, output
<1>4. /\ lines' \in TextLines(text) /\ pc' = [pc EXCEPT ![Main] = x]
      /\ to_enqueue' = [k \in 1 .. n - 1 |-> Parse(n - k)]
      /\ to_wait' = IF n > 1 THEN [k \in 1 .. n |-> Parse(k - 1)] ELSE <<>>
  BY DEF UseText, Go
<1>5. lines' \in Texts /\ (lines' \in {<<>>, Page, UnicodeData} \/ text = "cut")
  BY <1>4, TextLinesAre
<1>6. \A p \in Proc : pc'[p] = IF p = Main THEN x ELSE pc[p]
  BY <1>1, <1>4 DEF PlacesOK
<1>7. n >= 1 /\ Worker' = Worker
  BY <1>1, <1>3, ProcIs DEF Worker
<1>8. PlacesOK'
  BY <1>1, <1>2, <1>3, <1>4, MovePlaces DEF MainPlace
<1>9. LooksOK' /\ FilesOK'
  BY <1>1, <1>3, <1>5 DEF LooksOK, FilesOK
<1>10. JobsOK'
  BY <1>1, <1>2, <1>3, <1>6 DEF JobsOK, Dumping, Resting, Reading
<1>11. LinesOK'
  BY <1>2, <1>6 DEF LinesOK, Reading
<1>12. /\ to_enqueue' \in Seq(PoolParses(n)) /\ Len(to_enqueue') = n - 1
       /\ DOMAIN to_enqueue' = 1 .. n - 1 /\ \A k \in 1 .. n - 1 : to_enqueue'[k] = Parse(n - k)
  <2>1. \A k \in 1 .. n - 1 : Parse(n - k) \in PoolParses(n)
    BY ParsesAre
  <2>2. n - 1 \in Nat
    BY <1>7
  <2> QED
    BY <2>1, <2>2, <1>4
<1>13. n > 1 => /\ to_wait' \in Seq(Parses(n)) /\ Len(to_wait') = n /\ to_wait' # <<>>
                /\ DOMAIN to_wait' = 1 .. n /\ \A k \in 1 .. n : to_wait'[k] = Parse(k - 1)
  <2>1. \A k \in 1 .. n : Parse(k - 1) \in Parses(n)
    BY ParsesAre
  <2>2. ASSUME n > 1
        PROVE  /\ to_wait' \in Seq(Parses(n)) /\ Len(to_wait') = n /\ to_wait' # <<>>
               /\ DOMAIN to_wait' = 1 .. n /\ \A k \in 1 .. n : to_wait'[k] = Parse(k - 1)
    <3>1. to_wait' = [k \in 1 .. n |-> Parse(k - 1)]
      BY <2>2, <1>4
    <3>2. to_wait' \in Seq(Parses(n)) /\ Len(to_wait') = n
      BY <3>1, <2>1
    <3> QED
      BY <3>1, <3>2, <2>2
  <2> QED
    BY <2>2
<1>14. OnceOK'
  <2>1. \A j, k \in 1 .. n - 1 : Parse(n - j) = Parse(n - k) => j = k
    <3> TAKE j \in 1 .. n - 1, k \in 1 .. n - 1
    <3>1. Parse(n - j)[2] = n - j /\ Parse(n - k)[2] = n - k
      BY TaskNames
    <3> QED
      BY <3>1
  <2>2. \A k \in 1 .. n - 1 : to_enqueue'[k] # NoTask
    BY <1>12, TaskNames
  <2>3. to_enqueue' \in Seq(PoolParses(n) \cup Dumps)
    BY <1>12
  <2>4. task_queue' = <<>> /\ DOMAIN task_queue' = {} /\ finished' = {} /\ \A p \in Proc : job'[p] = NoTask
    BY <1>2, <1>3
  <2> QED
    BY <2>1, <2>2, <2>3, <2>4, <1>3, <1>12 DEF OnceOK
<1>15. ListsOK'
  <2>1. n > 1 => WaitsParse' /\ Len(to_wait') = n
    BY <1>3, <1>13 DEF WaitsParse
  <2>2. n > 1 => EnqueuesParse' /\ to_enqueue' # <<>>
    BY <1>3, <1>12 DEF EnqueuesParse
  <2>3. n > 1 => EnqueuePhase'
    BY <2>1, <2>2, <1>2, <1>3 DEF EnqueuePhase
  <2>4. n = 1 => OwnPhase'
    <3>1. n = 1 => to_enqueue' = <<>>
      BY <1>12
    <3> QED
      BY <3>1, <1>2, <1>3 DEF OwnPhase
  <2>5. to_wait' \in Seq(Parses(n) \cup Dumps)
    BY <1>4, <1>7, <1>13
  <2>6. pc'[Main] = x
    BY <1>2, <1>6
  <2> QED
    BY <2>3, <2>4, <2>5, <2>6, <1>2, <1>3, <1>7 DEF ListsOK, Dumping
<1>16. PhasesOK'
  <2>1. NoDumps'
    <3>1. \A k \in DOMAIN to_enqueue' : to_enqueue'[k] \notin Dumps
      BY <1>12, KindsDiffer
    <3> QED
      BY <3>1, <1>2, <1>3 DEF NoDumps
  <2> QED
    BY <2>1, <1>2, <1>3 DEF PhasesOK
<1>17. TableOK'
  BY <1>2, <1>3, <1>6 DEF TableOK
<1>18. OutputOK'
  BY <1>2, <1>3 DEF OutputOK
<1>19. DirsOK'
  <2>1. DirsOK
    BY DEF IInv, ResultOK
  <2> QED
    BY <2>1, <1>2, <1>3, <1>6, DirsStay DEF DirPlace
<1>20. TextOK'
  BY <1>2, <1>3, <1>5 DEF TextOK
<1>21. EndOK'
  BY <1>2, <1>6 DEF EndOK, Ending
<1> HIDE DEF IInv
<1> QED
  BY <1>8, <1>9, <1>10, <1>11, <1>14, <1>15, <1>16, <1>17, <1>18, <1>19, <1>20, <1>21
  DEF IInv, WorkOK, ResultOK

\* Main fails while it gets its lines.
LEMMA ReadingFails ==
  ASSUME IInv, pc[Main] \in Reading, pc' = [pc EXCEPT ![Main] = "exit"],
         lines' = lines, DiskOK', cache' = "cut" => torn' # 0,
         UNCHANGED <<options, status, thread, cursor, table, pool, job, main, finished, dirs,
                     output, exiting>>
  PROVE  IInv'
<1>1. /\ PlacesOK /\ LooksOK /\ lines = <<>> /\ Main \in Proc /\ lines # UnicodeData
      /\ status # "success"
      /\ \A cp \in CodePoint : table[cp] = "unset"
      /\ \A p \in Proc : thread[p].in = FALSE
  BY WhileReading DEF IInv
<1>2. UNCHANGED <<thread_count, option, status, thread, cursor, table, task_queue, job, finished,
                  to_enqueue, to_wait, dirs, oks, files, exiting>>
  BY DEF options, pool, output, main
<1>3. LooksOK'
  BY <1>1, <1>2 DEF LooksOK
<1>4. TextOK'
  BY <1>1, <1>2 DEF TextOK
<1> HIDE DEF IInv
<1> QED
  BY <1>1, <1>2, <1>3, <1>4, FailKeeps

\* Main goes on reading.
LEMMA ReadingGoesOn ==
  ASSUME IInv, pc[Main] \in Reading, NEW x \in Reading, pc' = [pc EXCEPT ![Main] = x],
         lines' = lines, DiskOK', cache' = "cut" => torn' # 0,
         UNCHANGED <<options, status, thread, cursor, table, pool, job, main, finished, dirs,
                     output, exiting>>
  PROVE  IInv'
<1>1. /\ PlacesOK /\ LooksOK /\ lines = <<>> /\ Main \in Proc /\ exiting # Main
      /\ status # "success"
      /\ \A cp \in CodePoint : table[cp] = "unset"
      /\ \A p \in Proc : thread[p].in = FALSE
  BY WhileReading DEF IInv
<1>2. UNCHANGED <<thread_count, option, status, thread, cursor, table, task_queue, job, finished,
                  to_enqueue, to_wait, dirs, oks, files, exiting>>
  BY DEF options, pool, output, main
<1>3. TextOK'
  BY <1>1, <1>2 DEF TextOK
<1>4. PlacesOK'
  BY <1>1, <1>2, MovePlaces DEF MainPlace
<1>5. Quiet
  BY <1>1, <1>2, MoveQuiet DEF Alike
<1>6. \A p \in Proc : pc'[p] = IF p = Main THEN x ELSE pc[p]
  BY <1>1 DEF PlacesOK
<1> HIDE DEF IInv
<1> QED
  BY <1>1, <1>2, <1>3, <1>4, <1>5, <1>6, QuietMove DEF Reading, DirPlace

\* gen_cachedir.
LEMMA GenCachedirKeeps ==
  ASSUME IInv, GenCachedir
  PROVE  IInv'
<1>1. PlacesOK /\ DiskOK /\ TextOK /\ pc[Main] = "start"
  BY DEF IInv, ResultOK, GenCachedir
<1>2. /\ Main \in Proc /\ exiting # Main /\ status # "success"
      /\ \A w \in Proc \ {Main} : pc[w] \in {"none", "idle", "gone"}
  BY <1>1, WhileReading DEF Reading
<1>3. UNCHANGED <<thread_count, option, lines, thread, cursor, table, to_enqueue, to_wait, finished,
                  job, oks, files, task_queue, cache, torn, runs, freed, shutdown, mtx,
                  waiting, dirs, exiting>>
  BY DEF GenCachedir, disk, options, look, pool, main, output
<1>4. CASE pc' = pc /\ status' = "failure"
  <2>1. PlacesOK' /\ DiskOK' /\ TextOK'
    BY <1>1, <1>3, <1>4 DEF PlacesOK, DiskOK, TextOK, Worker
  <2> HIDE DEF IInv
  <2> QED
    BY <2>1, <1>3, <1>4, StillKeeps
<1>5. CASE /\ status' = status
           /\ pc' = [p \in Proc |-> IF p = Main THEN "read"
                                    ELSE IF p \in Worker THEN "idle" ELSE "none"]
  <2>1. \A p \in Proc : Alike(pc[p], pc'[p])
    BY <1>1, <1>2, <1>5 DEF Alike, Reading
  <2>2. Quiet
    BY <2>1, <1>2, <1>3 DEF Quiet
  <2>3. PlacesOK'
    <3>1. pc' \in [Proc -> MainPlace \cup WorkerPlace]
      BY <1>5 DEF MainPlace, WorkerPlace, Reading
    <3>2. /\ pc'[Main] \in MainPlace
          /\ \A w \in Proc \ {Main} : pc'[w] \in WorkerPlace /\ (w \notin Worker => pc'[w] = "none")
      BY <1>2, <1>5 DEF MainPlace, WorkerPlace, Reading
    <3>3. Worker' = Worker
      BY <1>3 DEF Worker
    <3> QED
      BY <3>1, <3>2, <3>3, <1>1, <1>2, <1>3 DEF PlacesOK
  <2>4. DiskOK' /\ TextOK'
    BY <1>1, <1>2, <1>3, <1>5 DEF DiskOK, TextOK
  <2>5. \A p \in Proc : pc[p] # "open" /\ pc'[p] \notin DirPlace
    BY <1>1, <1>2, <1>5 DEF DirPlace
  <2> HIDE DEF IInv
  <2> QED
    BY <2>2, <2>3, <2>4, <2>5, <1>3, QuietMove
<1> QED
  BY <1>4, <1>5 DEF GenCachedir

\* The cached file is read.
LEMMA ReadCacheKeeps ==
  ASSUME IInv, ReadCache
  PROVE  IInv'
<1>1. DiskOK /\ TextOK /\ pc[Main] \in Reading /\ lines = <<>>
  BY WhileReading DEF IInv, ResultOK, ReadCache, Reading
<1>2. UNCHANGED <<disk, options, status, thread, cursor, table, pool, job, finished, dirs,
                  output, exiting>>
  BY DEF ReadCache
<1>3. DiskOK'
  BY <1>1, <1>2 DEF DiskOK, disk, options, pool
<1>4. /\ torn' = torn /\ cache' = cache
      /\ cache = "cut" => torn # 0
  BY <1>1, <1>2 DEF TextOK, disk
<1> HIDE DEF IInv
<1>5. CASE Go(Main, "fetch") /\ UNCHANGED <<lines, main>>
  <2>1. pc' = [pc EXCEPT ![Main] = "fetch"]
    BY <1>5 DEF Go
  <2> QED
    BY <2>1, <1>1, <1>2, <1>3, <1>4, <1>5, ReadingGoesOn DEF Reading
<1>6. CASE UseText(cache) /\ lines' = <<>>
  <2>1. main' = main /\ pc' = [pc EXCEPT ![Main] = "exit"]
    BY <1>6 DEF UseText, Fail, Go
  <2> QED
    BY <2>1, <1>1, <1>2, <1>3, <1>4, <1>6, ReadingFails
<1>7. CASE UseText(cache) /\ lines' # <<>>
  <2> PICK text : text = cache
    OBVIOUS
  <2>1. UseText(text) /\ (text = "cut" => torn' # 0)
    BY <1>4, <1>7
  <2> QED
    BY <2>1, <1>1, <1>2, <1>3, <1>4, <1>7, UseKeeps
<1> QED
  BY <1>5, <1>6, <1>7 DEF ReadCache

\* The cached file is opened for writing, which empties it.
LEMMA OpenCacheKeeps ==
  ASSUME IInv, OpenCache
  PROVE  IInv'
<1>1. DiskOK /\ TextOK /\ pc[Main] \in Reading
  BY DEF IInv, ResultOK, OpenCache, Reading
<1>2. /\ UNCHANGED <<options, status, thread, cursor, table, pool, job, main, finished, dirs,
                     output, exiting>>
      /\ UNCHANGED <<runs, torn>> /\ lines' = lines
  BY DEF OpenCache, look
<1>3. cache' \in {cache, "empty"}
  BY DEF OpenCache
<1>4. DiskOK'
  BY <1>1, <1>2, <1>3 DEF DiskOK, options, pool
<1>5. cache' = "cut" => torn' # 0
  BY <1>1, <1>2, <1>3 DEF TextOK
<1>6. \E x \in {"whole", "page", "exit"} : pc' = [pc EXCEPT ![Main] = x]
  BY DEF OpenCache, Fail, Go
<1> HIDE DEF IInv
<1>7. CASE pc' = [pc EXCEPT ![Main] = "exit"]
  BY <1>1, <1>2, <1>4, <1>5, <1>7, ReadingFails
<1>8. ASSUME NEW x \in {"whole", "page"}, pc' = [pc EXCEPT ![Main] = x]
      PROVE  IInv'
  BY <1>1, <1>2, <1>4, <1>5, <1>8, ReadingGoesOn DEF Reading
<1> QED
  BY <1>6, <1>7, <1>8

\* The cached file is written, in full or not.
LEMMA WriteCacheKeeps ==
  ASSUME IInv, WriteCache
  PROVE  IInv'
<1>1. DiskOK /\ TextOK /\ pc[Main] \in Reading /\ lines = <<>> /\ pc[Main] \in {"whole", "page"}
  BY WhileReading DEF IInv, ResultOK, WriteCache, Reading
<1>2. /\ UNCHANGED <<options, status, thread, cursor, table, pool, job, finished, dirs,
                     output, exiting>>
      /\ runs' = runs
  BY DEF WriteCache
<1>3. /\ cache' \in {"empty", "cut", "page", "whole"} /\ torn' \in 0 .. MaxRuns
      /\ (cache' = "cut" => torn' # 0)
  <2>1. /\ runs \in 1 .. MaxRuns /\ MaxRuns \in Nat
        /\ \/ torn' = 0 /\ cache' = pc[Main]
           \/ torn' = runs /\ cache' \in {"empty", "cut", "page"}
    BY <1>1, GeneratorAssumption DEF WriteCache, WithoutEnd, Part, DiskOK
  <2> QED
    BY <2>1, <1>1
<1>4. DiskOK'
  BY <1>1, <1>2, <1>3 DEF DiskOK, options, pool
<1> HIDE DEF IInv
<1>5. CASE lines' = lines /\ main' = main /\ pc' = [pc EXCEPT ![Main] = "exit"]
  BY <1>1, <1>2, <1>3, <1>4, <1>5, ReadingFails
<1>6. CASE UseText(pc[Main]) /\ lines' # <<>>
  <2> PICK text \in {"whole", "page"} : text = pc[Main]
    BY <1>1
  <2>1. UseText(text) /\ text # "cut"
    BY <1>6
  <2> QED
    BY <2>1, <1>1, <1>2, <1>3, <1>4, <1>6, UseKeeps
<1>7. CASE UseText(pc[Main]) /\ lines' = <<>>
  BY <1>1, <1>5, <1>7 DEF UseText, Fail, Go
<1> QED
  BY <1>5, <1>6, <1>7 DEF WriteCache, Fail, Go

(***************************************************************************)
(* Main and its tasks                                                      *)
(***************************************************************************)

\* Main puts the next task into the pool.
LEMMA EnqueueKeeps ==
  ASSUME IInv, Enqueue
  PROVE  IInv'
<1>1. /\ PlacesOK /\ DiskOK /\ LooksOK /\ FilesOK
      /\ JobsOK /\ LinesOK /\ OnceOK /\ ListsOK /\ PhasesOK
      /\ TableOK /\ OutputOK /\ DirsOK /\ TextOK /\ EndOK
  BY DEF IInv, WorkOK, ResultOK
<1> PICK t : t = Head(to_enqueue)
  OBVIOUS
<1> PICK x : x = pc'[Main]
  OBVIOUS
<1> PICK n \in Nat : n = thread_count
  BY <1>1, ProcIs
<1> PICK L \in Nat : L = Len(to_enqueue)
  BY <1>1 DEF OnceOK
<1>2. UNCHANGED <<thread_count, option, lines, thread, cursor, table, to_wait, finished,
                  job, oks, files, cache, torn, runs, status, freed, shutdown, mtx,
                  exe, exe_known, out_dir, dir_known, exiting>>
  BY DEF Enqueue, disk, options, look, dirs, output
<1>3. /\ pc[Main] = "enqueue" /\ Main \in Proc
      /\ task_queue' = Append(task_queue, t) /\ to_enqueue' = Tail(to_enqueue)
      /\ waiting' \subseteq waiting
  BY <1>1, ProcIs DEF Enqueue, Signal
<1>4. /\ x = IF L > 1 THEN "enqueue" ELSE IF t[1] = "parse" THEN "own" ELSE "wait"
      /\ pc' = [pc EXCEPT ![Main] = x]
  BY <1>1, <1>3 DEF Enqueue, Go, PlacesOK
<1>5. \A p \in Proc : pc'[p] = IF p = Main THEN x ELSE pc[p]
  BY <1>1, <1>4 DEF PlacesOK
<1>6. EnqueuePhase /\ lines # <<>>
  BY <1>1, <1>3 DEF ListsOK, LinesOK, Reading, Ending
<1>7. /\ L >= 1 /\ t = to_enqueue[1] /\ DOMAIN to_enqueue = 1 .. L
      /\ Len(to_enqueue') = L - 1 /\ DOMAIN to_enqueue' = 1 .. L - 1
      /\ \A k \in 1 .. L - 1 : to_enqueue'[k] = to_enqueue[k + 1]
      /\ to_enqueue' \in Seq(PoolParses(n) \cup Dumps) /\ t \in PoolParses(n) \cup Dumps
  BY <1>1, <1>3, <1>6 DEF OnceOK, EnqueuePhase
<1> PICK Q \in Nat : Q = Len(task_queue)
  BY <1>1 DEF OnceOK
<1>8. /\ DOMAIN task_queue = 1 .. Q /\ DOMAIN task_queue' = 1 .. Q + 1
      /\ \A k \in 1 .. Q : task_queue'[k] = task_queue[k]
      /\ task_queue'[Q + 1] = t
      /\ task_queue' \in Seq(PoolParses(n) \cup Dumps)
  BY <1>1, <1>3, <1>7 DEF OnceOK
<1>80. \A k \in 1 .. Q + 1 : (k \in 1 .. Q /\ task_queue'[k] = task_queue[k])
                              \/ (k = Q + 1 /\ task_queue'[k] = t)
  BY <1>8
<1>81. DOMAIN task_queue = 1 .. Q /\ DOMAIN to_enqueue = 1 .. L /\ 1 \in 1 .. L /\ t = to_enqueue[1]
  BY <1>7, <1>8
<1>82. \A k \in 1 .. L - 1 : k + 1 \in 1 .. L /\ k + 1 # 1 /\ to_enqueue'[k] = to_enqueue[k + 1]
  BY <1>7
<1>9. PlacesOK'
  BY <1>1, <1>2, <1>3, <1>4, MovePlaces DEF MainPlace, PlacesOK
<1>10. DiskOK' /\ LooksOK' /\ FilesOK'
  BY <1>1, <1>2, <1>3 DEF DiskOK, LooksOK, FilesOK
<1>11. JobsOK'
  BY <1>1, <1>2, <1>3, <1>4, <1>5 DEF JobsOK, Dumping, Resting, Reading
<1>12. LinesOK'
  BY <1>2, <1>3, <1>4, <1>5, <1>6 DEF LinesOK, Reading
<1> HIDE DEF IInv
<1>13. OnceOK'
  <2>1. /\ \A j, k \in 1 .. Q : task_queue[j] = task_queue[k] => j = k
        /\ \A j, k \in 1 .. L : to_enqueue[j] = to_enqueue[k] => j = k
        /\ \A j \in 1 .. Q, k \in 1 .. L : task_queue[j] # to_enqueue[k]
    BY <1>81, <1>1 DEF OnceOK
  <2>2. /\ \A p \in Proc : \A j \in 1 .. Q : task_queue[j] # job[p]
        /\ \A p \in Proc : \A k \in 1 .. L : to_enqueue[k] # job[p]
    BY <1>81, <1>1 DEF OnceOK
  <2>3. /\ \A j \in 1 .. Q : task_queue[j] \notin finished
        /\ \A k \in 1 .. L : to_enqueue[k] \notin finished
    BY <1>81, <1>1 DEF OnceOK
  <2>4. /\ \A p, q \in Proc : job[p] = job[q] /\ job[p] # NoTask => p = q
        /\ \A p \in Proc : job[p] \in finished => pc[p] = "broadcast"
        /\ finished \subseteq Parses(n) \cup Dumps
    BY <1>1 DEF OnceOK
  <2>5. \A j, k \in 1 .. Q + 1 : task_queue'[j] = task_queue'[k] => j = k
    BY <2>1, <1>80, <1>81
  <2>6. \A j, k \in 1 .. L - 1 : to_enqueue'[j] = to_enqueue'[k] => j = k
    <3> TAKE j \in 1 .. L - 1, k \in 1 .. L - 1
    <3>1. to_enqueue[j + 1] = to_enqueue[k + 1] => j + 1 = k + 1
      BY <2>1, <1>82
    <3> QED
      BY <3>1, <1>82
  <2>7. \A j \in 1 .. Q + 1, k \in 1 .. L - 1 : task_queue'[j] # to_enqueue'[k]
    <3> TAKE j \in 1 .. Q + 1, k \in 1 .. L - 1
    <3>1. /\ k + 1 \in 1 .. L /\ to_enqueue'[k] = to_enqueue[k + 1]
          /\ to_enqueue[k + 1] # to_enqueue[1]
      BY <2>1, <1>81, <1>82
    <3> QED
      BY <3>1, <2>1, <1>80, <1>81
  <2>8. \A p \in Proc : \A j \in 1 .. Q + 1 : task_queue'[j] # job[p]
    BY <2>2, <1>80, <1>81
  <2>9. \A p \in Proc : \A k \in 1 .. L - 1 : to_enqueue'[k] # job[p]
    BY <2>2, <1>82
  <2>10. \A j \in 1 .. Q + 1 : task_queue'[j] \notin finished
    BY <2>3, <1>80, <1>81
  <2>11. \A k \in 1 .. L - 1 : to_enqueue'[k] \notin finished
    BY <2>3, <1>82
  <2>12. \A p \in Proc : job[p] \in finished => pc'[p] = "broadcast"
    BY <2>4, <1>3, <1>5
  <2>13. DOMAIN task_queue' = 1 .. Q + 1 /\ DOMAIN to_enqueue' = 1 .. L - 1
    BY <1>7, <1>8
  <2>14. /\ task_queue' \in Seq(PoolParses(n) \cup Dumps) /\ to_enqueue' \in Seq(PoolParses(n) \cup Dumps)
         /\ thread_count' = n /\ job' = job /\ finished' = finished
    BY <1>2, <1>7, <1>8
  <2> QED
    BY <2>4, <2>5, <2>6, <2>7, <2>8, <2>9, <2>10, <2>11, <2>12, <2>13, <2>14 DEF OnceOK
<1>14. WaitsParse' = WaitsParse /\ WaitsDump' = WaitsDump
  BY <1>2 DEF WaitsParse, WaitsDump
<1>15. (WaitsParse /\ Len(to_wait) = n /\ EnqueuesParse /\ Parse(0) \notin finished
          /\ thread[Main].restart_from = 0 /\ t[1] = "parse")
       \/ (WaitsDump /\ Len(to_wait) = Len(Cats) /\ EnqueuesDump /\ t[1] = "dump")
  <2>1. EnqueuesParse => t[1] = "parse"
    BY <1>7, TaskNames DEF EnqueuesParse
  <2>2. EnqueuesDump => t[1] = "dump"
    BY <1>7, TaskNames DEF EnqueuesDump
  <2> QED
    BY <2>1, <2>2, <1>6 DEF EnqueuePhase
<1>16. (EnqueuesParse => EnqueuesParse') /\ (EnqueuesDump => EnqueuesDump')
  <2>1. ASSUME EnqueuesParse PROVE EnqueuesParse'
    <3>1. ASSUME NEW k \in 1 .. L - 1 PROVE to_enqueue'[k] = Parse((L - 1) + 1 - k)
      <4>1. L + 1 - (k + 1) = (L - 1) + 1 - k
        OBVIOUS
      <4>2. to_enqueue[k + 1] = Parse(L + 1 - (k + 1))
        BY <2>1, <1>81, <1>82 DEF EnqueuesParse
      <4> QED
        BY <4>1, <4>2, <1>82
    <3> QED
      BY <3>1, <2>1, <1>2, <1>7 DEF EnqueuesParse
  <2>2. ASSUME EnqueuesDump PROVE EnqueuesDump'
    <3>1. ASSUME NEW k \in 1 .. L - 1 PROVE to_enqueue'[k] = Dump(Cats[Len(Cats) - (L - 1) + k])
      <4>1. Len(Cats) - L + (k + 1) = Len(Cats) - (L - 1) + k
        BY CatsAre
      <4>2. to_enqueue[k + 1] = Dump(Cats[Len(Cats) - L + (k + 1)])
        BY <2>2, <1>81, <1>82 DEF EnqueuesDump
      <4> QED
        BY <4>1, <4>2, <1>82
    <3>2. L - 1 <= Len(Cats)
      BY <2>2, CatsAre DEF EnqueuesDump
    <3> QED
      BY <3>1, <3>2, <1>7 DEF EnqueuesDump
  <2> QED
    BY <2>1, <2>2
<1>17. ListsOK'
  <2>1. L > 1 => EnqueuePhase'
    BY <1>2, <1>6, <1>7, <1>14, <1>15, <1>16 DEF EnqueuePhase
  <2>2. L = 1 => to_enqueue' = <<>> /\ n > 1
    BY <1>6, <1>7 DEF EnqueuePhase
  <2>3. L = 1 /\ t[1] = "parse" => OwnPhase' /\ thread'[Main].restart_from = 0
    BY <2>2, <1>2, <1>14, <1>15 DEF OwnPhase
  <2>4. L = 1 => WaitPhase'
    BY <2>2, <1>2, <1>14, <1>15 DEF WaitPhase
  <2> QED
    BY <2>1, <2>3, <2>4, <1>1, <1>2, <1>3, <1>4, <1>5, <1>7 DEF ListsOK, Dumping
<1>18. NoDumps => NoDumps'
  BY <1>2, <1>7, <1>8, <1>80, <1>81, <1>82 DEF NoDumps
<1>19. PhasesOK'
  <2>1. BeforeDumps' => WaitsParse
    BY <1>3, <1>4, <1>5, <1>14, <1>15 DEF BeforeDumps, Reading
  <2>2. BeforeDumps' => BeforeDumps
    BY <2>1, <1>3 DEF BeforeDumps
  <2>3. AllParsed' = AllParsed
    BY <1>2 DEF AllParsed
  <2> QED
    BY <2>2, <2>3, <1>1, <1>2, <1>18 DEF PhasesOK
<1>20. TableOK'
  BY <1>1, <1>2, <1>3, <1>4, <1>5 DEF TableOK, ChunkSet, SetBelow
<1>21. \A c : Spent(c) => Spent(c)'
  <2>1. ASSUME NEW c, Spent(c) PROVE Spent(c)'
    <3>1. \A j \in 1 .. Q + 1 : task_queue'[j] # Dump(c)
      BY <2>1, <1>80, <1>81 DEF Spent
    <3>2. \A k \in 1 .. L - 1 : to_enqueue'[k] # Dump(c)
      BY <2>1, <1>81, <1>82 DEF Spent
    <3>3. \A p \in Proc : job'[p] = Dump(c) => pc'[p] \notin Dumping
      BY <2>1, <1>2, <1>3, <1>4, <1>5 DEF Spent, Dumping
    <3> QED
      BY <3>1, <3>2, <3>3, <1>7, <1>8 DEF Spent
  <2> QED
    BY <2>1
<1>22. OutputOK'
  <2>1. AllParsed' = AllParsed /\ \A c : FileOf(c)' = FileOf(c)
    BY <1>2 DEF AllParsed, FileOf, Buffer
  <2> QED
    BY <2>1, <1>1, <1>2, <1>21 DEF OutputOK
<1>23. DirsOK'
  <2>1. out_dir = "full" => \/ \E p \in Proc : pc'[p] = "open"
                            \/ \E c \in ToSet(Cats) : ~oks'[c] /\ Spent(c)'
    BY <1>1, <1>2, <1>3, <1>5, <1>21 DEF DirsOK
  <2>2. \A p \in Proc : pc'[p] \in DirPlace => pc'[p] = pc[p]
    BY <1>4, <1>5 DEF DirPlace
  <2> QED
    BY <2>1, <2>2, <1>1, <1>2, DirsStay
<1>24. TextOK'
  BY <1>1, <1>2, <1>3, TextStays
<1>25. EndOK'
  BY <1>3, <1>4, <1>5 DEF EndOK, Ending
<1> QED
  BY <1>9, <1>10, <1>11, <1>12, <1>13, <1>17, <1>19, <1>20, <1>22, <1>23, <1>24, <1>25
  DEF IInv, WorkOK, ResultOK

\* A process begins with a task that was nowhere but where it comes from.
LEMMA BeginKeeps ==
  ASSUME IInv, NEW p \in Proc, NEW task \in Parses(thread_count) \cup Dumps, Begin(p, task),
         \/ p = Main /\ pc[p] = "own" /\ task = Parse(0)
         \/ p \in Worker /\ pc[p] = "idle" /\ task \in PoolParses(thread_count) \cup Dumps,
         UNCHANGED <<thread_count, option, lines, thread, table, to_enqueue, to_wait, finished,
                     oks, files, cache, torn, status, exiting, dirs>>,
         DiskOK',
         task_queue' \in Seq(PoolParses(thread_count) \cup Dumps),
         \A j \in DOMAIN task_queue' : \E k \in DOMAIN task_queue : task_queue'[j] = task_queue[k],
         \A j, k \in DOMAIN task_queue' : task_queue'[j] = task_queue'[k] => j = k,
         \A j \in DOMAIN task_queue' : task_queue'[j] # task,
         \A k \in DOMAIN to_enqueue : to_enqueue[k] # task,
         \A q \in Proc : job[q] # task,
         task \notin finished, NoDumps => task \notin Dumps,
         \A c : Spent(c) => task # Dump(c),
         lines # <<>>
  PROVE  IInv'
<1>1. /\ PlacesOK /\ DiskOK /\ LooksOK /\ FilesOK
      /\ JobsOK /\ LinesOK /\ OnceOK /\ ListsOK /\ PhasesOK
      /\ TableOK /\ OutputOK /\ DirsOK /\ TextOK /\ EndOK
  BY DEF IInv, WorkOK, ResultOK
<1> PICK x : x = IF task[1] = "parse" THEN "parse" ELSE "dir"
  OBVIOUS
<1> PICK c0 : c0 = IF task[1] = "parse" THEN ChunkFirst(thread_count, task[2]) ELSE cursor[p]
  OBVIOUS
<1>2. /\ job' = [job EXCEPT ![p] = task] /\ pc' = [pc EXCEPT ![p] = x]
      /\ cursor' = [cursor EXCEPT ![p] = c0]
  BY DEF Begin, Go
<1>3. UNCHANGED <<exe, exe_known, out_dir, dir_known>>
  BY DEF dirs
<1>4. /\ \A q \in Proc : pc'[q] = IF q = p THEN x ELSE pc[q]
      /\ \A q \in Proc : job'[q] = IF q = p THEN task ELSE job[q]
      /\ \A q \in Proc : cursor'[q] = IF q = p THEN c0 ELSE cursor[q]
  BY <1>1, <1>2 DEF PlacesOK, JobsOK, LooksOK
<1>5. /\ thread_count \in Nat /\ thread_count \in Threads /\ Main \in Proc
      /\ pc[p] \in {"own", "idle"} /\ (p = Main => pc[p] = "own")
      /\ Main \notin Worker /\ (p # Main => pc[p] = "idle")
  BY <1>1, ProcIs DEF PlacesOK
<1>6. /\ task # NoTask
      /\ \/ x = "parse" /\ task \in Parses(thread_count)
         \/ x = "dir" /\ task \in Dumps /\ p # Main
  BY <1>5, ParsesAre, DumpsAre, KindsDiffer, TaskNames
<1>7. x = "parse" => task[2] \in 0 .. thread_count - 1 /\ c0 = ChunkFirst(thread_count, task[2])
  BY <1>6, ParsesAre, DumpsAre
<1>8. PlacesOK'
  <2>1. p = Main => x \in MainPlace /\ exiting # Main
    BY <1>1, <1>5, <1>6 DEF PlacesOK, MainPlace
  <2>2. p # Main => p \in Worker /\ x \in WorkerPlace
    BY <1>6 DEF WorkerPlace, Dumping
  <2> QED
    BY <1>1, <1>2, <2>1, <2>2, MovePlaces
<1>9. LooksOK' /\ FilesOK'
  <2>1. c0 \in Nat
    BY <1>1, <1>5, <1>6, <1>7, DumpsAre, ChunksAreCodePoints DEF LooksOK
  <2> QED
    BY <2>1, <1>1, <1>2 DEF LooksOK, FilesOK
<1>10. JobsOK'
  <2>1. job' \in [Proc -> Parses(thread_count) \cup Dumps \cup {NoTask}]
    BY <1>1, <1>2 DEF JobsOK
  <2>2. x \notin Resting /\ x \notin {"store", "broadcast"}
    BY <1>6 DEF Resting, Reading
  <2>3. \A w \in Proc \ {Main} : job'[w] # Parse(0)
    BY <1>1, <1>4, <1>5, KindsDiffer DEF JobsOK
  <2>4. pc'[Main] \in {"parse", "store"} => job'[Main] = Parse(0)
    BY <1>1, <1>4, <1>5 DEF JobsOK
  <2>5. \A q \in Proc : /\ pc'[q] = "parse" => job'[q] \in Parses(thread_count)
                        /\ pc'[q] \in Dumping => job'[q] \in Dumps
    BY <1>1, <1>4, <1>6 DEF JobsOK, Dumping
  <2>6. \A q \in Proc : /\ pc'[q] \in {"store", "broadcast"} => job'[q] \in Parses(thread_count) \cup Dumps
                        /\ pc'[q] \in Resting => job'[q] = NoTask
    BY <1>1, <1>4, <2>2 DEF JobsOK
  <2> QED
    BY <2>1, <2>3, <2>4, <2>5, <2>6 DEF JobsOK
<1>11. LinesOK'
  BY <1>1, <1>4, <1>5, <1>6 DEF LinesOK, Reading
<1> HIDE DEF IInv
<1>12. OnceOK'
  <2>1. \A q, r \in Proc : job'[q] = job'[r] /\ job'[q] # NoTask => q = r
    <3>1. \A q, r \in Proc : job[q] = job[r] /\ job[q] # NoTask => q = r
      BY <1>1 DEF OnceOK
    <3> QED
      BY <3>1, <1>4
  <2>2. \A q \in Proc : job'[q] \in finished => pc'[q] = "broadcast"
    <3>1. \A q \in Proc : job[q] \in finished => pc[q] = "broadcast"
      BY <1>1 DEF OnceOK
    <3> QED
      BY <3>1, <1>4
  <2>3. \A q \in Proc : \A k \in DOMAIN to_enqueue : to_enqueue[k] # job'[q]
    <3>1. \A q \in Proc : \A k \in DOMAIN to_enqueue : to_enqueue[k] # job[q]
      BY <1>1 DEF OnceOK
    <3> QED
      BY <3>1, <1>4
  <2>4. \A j \in DOMAIN task_queue', k \in DOMAIN to_enqueue : task_queue'[j] # to_enqueue[k]
    BY <1>1 DEF OnceOK
  <2>5. \A q \in Proc : \A j \in DOMAIN task_queue' : task_queue'[j] # job'[q]
    <3>1. \A q \in Proc : \A j \in DOMAIN task_queue' : task_queue'[j] # job[q]
      BY <1>1 DEF OnceOK
    <3> QED
      BY <3>1, <1>4
  <2>6. \A j \in DOMAIN task_queue' : task_queue'[j] \notin finished
    BY <1>1 DEF OnceOK
  <2> QED
    BY <1>1, <2>1, <2>2, <2>3, <2>4, <2>5, <2>6 DEF OnceOK
<1>13. WaitsParse' = WaitsParse /\ WaitsDump' = WaitsDump
  BY DEF WaitsParse, WaitsDump
<1>14. pc'[Main] = pc[Main] \/ (pc[Main] = "own" /\ pc'[Main] = "parse")
  <2>1. CASE p = Main
    BY <2>1, <1>4, <1>5, <1>6
  <2>2. CASE p # Main
    BY <2>2, <1>4, <1>5
  <2> QED
    BY <2>1, <2>2
<1>15. ListsOK'
  <2>1. EnqueuesParse' = EnqueuesParse /\ EnqueuesDump' = EnqueuesDump
    BY DEF EnqueuesParse, EnqueuesDump
  <2>2. EnqueuePhase' = EnqueuePhase /\ OwnPhase' = OwnPhase /\ WaitPhase' = WaitPhase
    BY <1>13, <2>1 DEF EnqueuePhase, OwnPhase, WaitPhase
  <2>3. pc'[Main] \in Dumping => pc[Main] \in Dumping /\ DumpPhase'
    <3>1. ASSUME pc'[Main] \in Dumping PROVE pc[Main] \in Dumping /\ job'[Main] = job[Main]
      BY <3>1, <1>4, <1>5, <1>14 DEF Dumping
    <3> QED
      BY <3>1, <2>1, <1>1 DEF DumpPhase, ListsOK
  <2> QED
    BY <2>2, <2>3, <1>1, <1>14 DEF ListsOK
<1>16. PhasesOK'
  <2>1. BeforeDumps' = BeforeDumps
    BY <1>13, <1>14 DEF BeforeDumps, Reading
  <2>2. AllParsed' = AllParsed
    BY DEF AllParsed
  <2>3. NoDumps => NoDumps'
    BY <1>4 DEF NoDumps
  <2> QED
    BY <2>1, <2>2, <2>3, <1>1, <1>3 DEF PhasesOK
<1>17. TableOK'
  <2>1. \A i, e : SetBelow(i, e)' = SetBelow(i, e)
    BY DEF SetBelow
  <2>2. x = "parse" => SetBelow(task[2], c0) /\ ChunkFirst(thread_count, task[2]) <= c0
    <3>1. x = "parse" => c0 \in Nat /\ c0 = ChunkFirst(thread_count, task[2])
      BY <1>5, <1>7, ChunksAreCodePoints
    <3> QED
      BY <3>1, <1>5, Counts DEF SetBelow, CodePoint
  <2>3. \A q \in Proc : pc'[q] = "parse" =>
          ChunkFirst(thread_count, job'[q][2]) <= cursor'[q] /\ SetBelow(job'[q][2], cursor'[q])
    BY <2>2, <1>1, <1>4 DEF TableOK
  <2>4. \A q \in Proc : pc'[q] = "store" /\ job'[q] \in Parses(thread_count) => ChunkSet(job'[q][2])
    BY <1>1, <1>4, <1>6 DEF TableOK
  <2> QED
    BY <2>3, <2>4, <1>1 DEF TableOK, ChunkSet, SetBelow
<1>18. \A c : Spent(c) => Spent(c)'
  <2>1. ASSUME NEW c, Spent(c) PROVE Spent(c)'
    <3>1. task # Dump(c)
      BY <2>1
    <3> QED
      BY <2>1, <3>1, <1>4 DEF Spent
  <2> QED
    BY <2>1
<1>19. OutputOK'
  <2>1. AllParsed' = AllParsed /\ \A c : FileOf(c)' = FileOf(c)
    BY DEF AllParsed, FileOf, Buffer
  <2> QED
    BY <2>1, <1>1, <1>3, <1>18 DEF OutputOK
<1>20. DirsOK'
  <2>1. out_dir = "full" => \/ \E q \in Proc : pc'[q] = "open"
                            \/ \E c \in ToSet(Cats) : ~oks'[c] /\ Spent(c)'
    BY <1>1, <1>4, <1>5, <1>18 DEF DirsOK
  <2>2. \A q \in Proc : pc'[q] \in DirPlace => pc'[q] = pc[q]
    BY <1>4, <1>6 DEF DirPlace
  <2> QED
    BY <2>1, <2>2, <1>1, <1>3, DirsStay
<1>21. TextOK'
  BY <1>1, <1>14, TextStays
<1>22. EndOK'
  <2>1. AllParsed' = AllParsed /\ AllDumped' = AllDumped
    BY DEF AllParsed, AllDumped
  <2>2. pc'[Main] \in Ending => pc[Main] \in Ending
    BY <1>14 DEF Ending
  <2>3. pc[Main] = "own" => HintBelow(thread[Main], cursor'[Main])
    BY <1>1 DEF ListsOK, HintBelow, HasHint
  <2>4. pc'[Main] = "parse" /\ pc[Main] # "own" => pc[Main] = "parse" /\ cursor'[Main] = cursor[Main]
    BY <1>4, <1>5, <1>14
  <2> QED
    BY <2>1, <2>2, <2>3, <2>4, <1>1 DEF EndOK
<1> QED
  BY <1>8, <1>9, <1>10, <1>11, <1>12, <1>15, <1>16, <1>17, <1>19, <1>20, <1>21, <1>22
  DEF IInv, WorkOK, ResultOK

\* Main begins its own chunk.
LEMMA ParseOwnKeeps ==
  ASSUME IInv, ParseOwn
  PROVE  IInv'
<1>1. /\ PlacesOK /\ DiskOK /\ JobsOK /\ LinesOK /\ OnceOK /\ ListsOK /\ Main \in Proc
      /\ pc[Main] = "own" /\ thread_count \in Nat /\ thread_count >= 1
  BY ProcIs DEF IInv, WorkOK, ParseOwn
<1>2. /\ UNCHANGED <<thread_count, option, lines, thread, table, to_enqueue, to_wait, finished,
                     oks, files, cache, torn, status, exiting, dirs>>
      /\ UNCHANGED <<runs, freed, shutdown, mtx, waiting, task_queue>>
  BY DEF ParseOwn, disk, options, main, output, pool
<1>3. DiskOK'
  BY <1>1, <1>2 DEF DiskOK
<1> PICK task : task = Parse(0)
  OBVIOUS
<1>4. /\ Begin(Main, task) /\ task \in Parses(thread_count) /\ task \notin Dumps
      /\ task \notin PoolParses(thread_count) \cup Dumps
  BY <1>1, ParsesAre, KindsDiffer DEF ParseOwn
<1>5. \A q \in Proc : job[q] # task
  BY <1>1, KindsDiffer, ParsesAre, TaskNames DEF JobsOK, Resting
<1>6. /\ \A j \in DOMAIN task_queue : task_queue[j] # task
      /\ \A k \in DOMAIN to_enqueue : to_enqueue[k] # task
  <2>1. /\ \A j \in DOMAIN task_queue : task_queue[j] \in PoolParses(thread_count) \cup Dumps
        /\ \A k \in DOMAIN to_enqueue : to_enqueue[k] \in PoolParses(thread_count) \cup Dumps
    BY <1>1 DEF OnceOK
  <2> QED
    BY <2>1, <1>4
<1>7. task \notin finished /\ lines # <<>>
  BY <1>1 DEF ListsOK, OwnPhase, LinesOK, Reading, Ending
<1>8. \A c : task # Dump(c)
  BY TaskNames
<1>9. /\ task_queue' \in Seq(PoolParses(thread_count) \cup Dumps)
      /\ \A j, k \in DOMAIN task_queue' : task_queue'[j] = task_queue'[k] => j = k
      /\ task_queue' = task_queue
  BY <1>1, <1>2 DEF OnceOK
<1> HIDE DEF IInv
<1> QED
  BY <1>1, <1>2, <1>3, <1>4, <1>5, <1>6, <1>7, <1>8, <1>9, BeginKeeps

\* A worker takes the oldest task of the pool.
LEMMA TakeKeeps ==
  ASSUME IInv, NEW w \in Worker, Take(w)
  PROVE  IInv'
<1>1. /\ PlacesOK /\ DiskOK /\ JobsOK /\ LinesOK /\ OnceOK /\ ListsOK /\ TextOK /\ w \in Proc
      /\ pc[w] = "idle" /\ thread_count \in Nat /\ w # Main
  BY ProcIs DEF IInv, WorkOK, ResultOK, Take
<1>2. /\ UNCHANGED <<thread_count, option, lines, thread, table, to_enqueue, to_wait, finished,
                     oks, files, cache, torn, status, exiting, dirs>>
      /\ UNCHANGED <<runs, freed, shutdown, mtx>>
  BY DEF Take, disk, options, main, output, pool
<1>3. waiting' \subseteq Proc
  BY <1>1 DEF Take, DiskOK
<1>4. DiskOK'
  BY <1>1, <1>2, <1>3 DEF DiskOK
<1> HIDE DEF IInv
<1>5. CASE shutdown
  <2>1. pc' = [pc EXCEPT ![w] = "gone"] /\ UNCHANGED <<task_queue, job, cursor>>
    BY <1>5 DEF Take, Go
  <2>2. Quiet
    BY <2>1, <1>1, <1>2, MoveQuiet DEF Alike
  <2>3. PlacesOK'
    BY <2>1, <1>1, <1>2, MovePlaces DEF WorkerPlace
  <2>4. \A q \in Proc : pc'[q] = IF q = w THEN "gone" ELSE pc[q]
    BY <2>1, <1>1 DEF PlacesOK
  <2>5. TextOK'
    BY <2>4, <1>1, <1>2, ProcIs, TextStays
  <2> QED
    BY <1>1, <1>2, <1>4, <2>2, <2>3, <2>4, <2>5, QuietMove DEF DirPlace
<1>6. CASE ~shutdown /\ task_queue = <<>>
  <2>1. UNCHANGED <<pc, task_queue, job, cursor>>
    BY <1>6 DEF Take
  <2>2. PlacesOK' /\ TextOK'
    BY <2>1, <1>1, <1>2 DEF PlacesOK, TextOK, Worker
  <2> QED
    BY <2>1, <2>2, <1>2, <1>4, StillKeeps
<1>7. CASE ~shutdown /\ task_queue # <<>>
  <2> PICK task : task = Head(task_queue)
    OBVIOUS
  <2> PICK n \in Nat : n = Len(task_queue)
    BY <1>1 DEF OnceOK
  <2>1. Begin(w, task) /\ task_queue' = Tail(task_queue)
    BY <1>7 DEF Take
  <2>2. /\ n >= 1 /\ task = task_queue[1] /\ DOMAIN task_queue = 1 .. n /\ 1 \in 1 .. n
        /\ task_queue' \in Seq(PoolParses(thread_count) \cup Dumps) /\ DOMAIN task_queue' = 1 .. n - 1
        /\ \A j \in 1 .. n - 1 : /\ j + 1 \in 1 .. n /\ j + 1 # 1
                                 /\ task_queue'[j] = task_queue[j + 1]
        /\ task \in PoolParses(thread_count) \cup Dumps
    BY <2>1, <1>1, <1>7 DEF OnceOK
  <2>3. /\ \A j, k \in 1 .. n : task_queue[j] = task_queue[k] => j = k
        /\ \A j \in 1 .. n : task_queue[j] \notin finished
        /\ \A j \in 1 .. n, k \in DOMAIN to_enqueue : task_queue[j] # to_enqueue[k]
        /\ \A p \in Proc : \A j \in 1 .. n : task_queue[j] # job[p]
    BY <2>2, <1>1 DEF OnceOK
  <2>4. \A j, k \in DOMAIN task_queue' : task_queue'[j] = task_queue'[k] => j = k
    <3> SUFFICES ASSUME NEW j \in 1 .. n - 1, NEW k \in 1 .. n - 1, task_queue'[j] = task_queue'[k]
                 PROVE  j = k
      BY <2>2
    <3>1. j + 1 = k + 1
      BY <2>2, <2>3
    <3> QED
      BY <3>1
  <2>5. \A j \in DOMAIN task_queue' : \E k \in DOMAIN task_queue : task_queue'[j] = task_queue[k]
    BY <2>2
  <2>6. \A j \in DOMAIN task_queue' : task_queue'[j] # task
    BY <2>2, <2>3
  <2>7. /\ \A k \in DOMAIN to_enqueue : to_enqueue[k] # task
        /\ \A q \in Proc : job[q] # task
        /\ task \notin finished
    BY <2>2, <2>3
  <2>8. (NoDumps => task \notin Dumps) /\ \A c : Spent(c) => task # Dump(c)
    BY <2>2 DEF NoDumps, Spent
  <2>9. lines # <<>>
    BY <1>1, <1>7 DEF LinesOK
  <2>10. task \in Parses(thread_count) \cup Dumps
    BY <2>2, <1>1, KindsDiffer
  <2> QED
    BY <1>1, <1>2, <1>4, <2>1, <2>2, <2>4, <2>5, <2>6, <2>7, <2>8, <2>9, <2>10, BeginKeeps
<1> QED
  BY <1>5, <1>6, <1>7

\* Main reports its own chunk.
LEMMA OwnDoneKeeps ==
  ASSUME IInv, OwnDone
  PROVE  IInv'
<1>1. /\ PlacesOK /\ DiskOK /\ LooksOK /\ FilesOK
      /\ JobsOK /\ LinesOK /\ OnceOK /\ ListsOK /\ PhasesOK
      /\ TableOK /\ OutputOK /\ DirsOK /\ TextOK /\ EndOK
  BY DEF IInv, WorkOK, ResultOK
<1> PICK n \in Nat : n = thread_count
  BY <1>1, ProcIs
<1> PICK t : t = Parse(0)
  OBVIOUS
<1> PICK d : d = Dump(Cats[1])
  OBVIOUS
<1>2. UNCHANGED <<thread_count, option, lines, thread, table, task_queue, to_wait,
                  oks, files, cache, torn, runs, status, freed, shutdown, mtx, waiting,
                  exe, exe_known, out_dir, dir_known, exiting>>
  BY DEF OwnDone, disk, options, pool, dirs, output
<1>3. /\ pc[Main] = "store" /\ Main \in Proc /\ n >= 1 /\ n \in Threads
      /\ finished' = finished \cup {t}
  BY <1>1, ProcIs DEF OwnDone, PlacesOK
<1>4. \/ /\ n > 1 /\ job' = [job EXCEPT ![Main] = NoTask] /\ pc' = [pc EXCEPT ![Main] = "wait"]
         /\ cursor' = cursor /\ to_enqueue' = to_enqueue
      \/ /\ n = 1 /\ job' = [job EXCEPT ![Main] = d] /\ pc' = [pc EXCEPT ![Main] = "dir"]
         /\ to_enqueue' = [k \in 1 .. Len(Cats) - 1 |-> Dump(Cats[k + 1])]
         /\ cursor' = [cursor EXCEPT ![Main] = cursor[Main]]
  BY <1>3, TaskNames DEF OwnDone, Begin, Go
<1>5. /\ t \in Parses(n) /\ t \notin PoolParses(n) /\ t \notin Dumps /\ t # NoTask /\ t[2] = 0
      /\ d \in Dumps /\ d # NoTask /\ \A c : t # Dump(c)
      /\ NoTask \notin Parses(n) /\ NoTask \notin Dumps
  BY <1>3, ParsesAre, KindsDiffer, DumpsAre, CatsAre, TaskNames
<1>6. /\ OwnPhase /\ lines # <<>> /\ job[Main] = t
      /\ NoDumps /\ out_dir \in {"none", "asked"} /\ \A c \in ToSet(Cats) : ~oks[c]
  BY <1>1, <1>3 DEF ListsOK, LinesOK, JobsOK, PhasesOK, BeforeDumps, Reading, Ending
<1> PICK x : x = pc'[Main]
  OBVIOUS
<1> PICK j0 : j0 = job'[Main]
  OBVIOUS
<1>7. /\ pc' = [pc EXCEPT ![Main] = x] /\ job' = [job EXCEPT ![Main] = j0] /\ cursor' = cursor
      /\ \/ n > 1 /\ x = "wait" /\ j0 = NoTask /\ to_enqueue' = to_enqueue
         \/ /\ n = 1 /\ x = "dir" /\ j0 = d
            /\ to_enqueue' = [k \in 1 .. Len(Cats) - 1 |-> Dump(Cats[k + 1])]
  BY <1>1, <1>3, <1>4 DEF PlacesOK, JobsOK, LooksOK
<1>8. /\ \A q \in Proc : pc'[q] = IF q = Main THEN x ELSE pc[q]
      /\ \A q \in Proc : job'[q] = IF q = Main THEN j0 ELSE job[q]
  BY <1>1, <1>7 DEF PlacesOK, JobsOK
<1> HIDE DEF IInv
<1>9. PlacesOK'
  BY <1>1, <1>2, <1>3, <1>7, MovePlaces DEF MainPlace, Dumping, PlacesOK
<1>10. DiskOK' /\ LooksOK' /\ FilesOK'
  BY <1>1, <1>2, <1>7 DEF DiskOK, LooksOK, FilesOK
<1>11. JobsOK'
  <2>1. job' \in [Proc -> Parses(n) \cup Dumps \cup {NoTask}]
    BY <1>1, <1>5, <1>7 DEF JobsOK
  <2>2. \A q \in Proc : /\ pc'[q] = "parse" => job'[q] \in Parses(n)
                        /\ pc'[q] \in {"store", "broadcast"} => job'[q] \in Parses(n) \cup Dumps
                        /\ pc'[q] \in Dumping => job'[q] \in Dumps
                        /\ pc'[q] \in Resting => job'[q] = NoTask
    BY <1>1, <1>5, <1>7, <1>8 DEF JobsOK, Resting, Reading, Dumping
  <2>3. /\ pc'[Main] \notin {"parse", "store"}
        /\ \A w \in Proc \ {Main} : job'[w] # Parse(0)
    BY <1>1, <1>3, <1>7, <1>8 DEF JobsOK
  <2> QED
    BY <2>1, <2>2, <2>3, <1>2 DEF JobsOK
<1>12. LinesOK'
  BY <1>2, <1>3, <1>6, <1>7 DEF LinesOK, Reading
<1>13. \/ to_enqueue' = <<>> /\ n > 1
       \/ /\ n = 1 /\ to_enqueue' \in Seq(Dumps) /\ Len(to_enqueue') = Len(Cats) - 1
          /\ DOMAIN to_enqueue' = 1 .. Len(Cats) - 1
          /\ \A k \in 1 .. Len(Cats) - 1 : to_enqueue'[k] = Dump(Cats[k + 1]) /\ k + 1 \in 1 .. Len(Cats)
  <2>1. CASE n > 1
    BY <2>1, <1>6, <1>7 DEF OwnPhase
  <2>2. CASE n = 1
    <3>1. Len(Cats) - 1 \in Nat /\ \A k \in 1 .. Len(Cats) - 1 : k + 1 \in 1 .. Len(Cats)
      BY CatsAre
    <3>2. \A k \in 1 .. Len(Cats) - 1 : Dump(Cats[k + 1]) \in Dumps
      BY <3>1, CatsAre, DumpsAre
    <3>3. to_enqueue' = [k \in 1 .. Len(Cats) - 1 |-> Dump(Cats[k + 1])]
      BY <2>2, <1>7
    <3> QED
      BY <2>2, <3>1, <3>2, <3>3
  <2> QED
    BY <2>1, <2>2, <1>3
<1>14. \A k \in DOMAIN to_enqueue' : to_enqueue'[k] \in Dumps /\ to_enqueue'[k] # j0
  <2>1. CASE n > 1
    BY <2>1, <1>13
  <2>2. CASE n = 1
    <3>1. ASSUME NEW k \in 1 .. Len(Cats) - 1
          PROVE  to_enqueue'[k] \in Dumps /\ to_enqueue'[k] # d
      <4>1. k + 1 \in 1 .. Len(Cats) /\ 1 \in 1 .. Len(Cats) /\ k + 1 # 1 /\ to_enqueue'[k] = Dump(Cats[k + 1])
        BY <2>2, <1>13, CatsAre
      <4>2. Cats[k + 1] # Cats[1] /\ Cats[k + 1] \in ToSet(Cats)
        BY <4>1, CatsAre
      <4>3. Dump(Cats[k + 1])[2] = Cats[k + 1] /\ d[2] = Cats[1]
        BY TaskNames
      <4> QED
        BY <4>1, <4>2, <4>3, DumpsAre
    <3> QED
      BY <2>2, <3>1, <1>7, <1>13
  <2> QED
    BY <2>1, <2>2, <1>3
<1>15. OnceOK'
  <2>1. /\ task_queue' \in Seq(PoolParses(n) \cup Dumps) /\ finished' \subseteq Parses(n) \cup Dumps
        /\ \A j, k \in DOMAIN task_queue' : task_queue'[j] = task_queue'[k] => j = k
    BY <1>1, <1>2, <1>3, <1>5 DEF OnceOK
  <2>2. to_enqueue' \in Seq(PoolParses(n) \cup Dumps)
    <3>1. CASE to_enqueue' = <<>>
      BY <3>1
    <3>2. CASE to_enqueue' \in Seq(Dumps)
      <4>1. to_enqueue' \in Seq(PoolParses(n) \cup Dumps)
        BY <3>2
      <4> QED
        BY <4>1
    <3> QED
      BY <3>1, <3>2, <1>13
  <2>3. \A j, k \in DOMAIN to_enqueue' : to_enqueue'[j] = to_enqueue'[k] => j = k
    <3>1. CASE n > 1
      BY <3>1, <1>13
    <3>2. CASE n = 1
      <4>1. ASSUME NEW j \in 1 .. Len(Cats) - 1, NEW k \in 1 .. Len(Cats) - 1,
                   Dump(Cats[j + 1]) = Dump(Cats[k + 1])
            PROVE  j = k
        <5>1. Cats[j + 1] = Cats[k + 1]
          BY <4>1, TaskNames
        <5>2. j + 1 \in 1 .. Len(Cats) /\ k + 1 \in 1 .. Len(Cats)
          BY CatsAre
        <5>3. j + 1 = k + 1
          BY <5>1, <5>2, CatsAre
        <5> QED
          BY <5>3, CatsAre
      <4> QED
        BY <3>2, <4>1, <1>13
    <3> QED
      BY <3>1, <3>2, <1>3
  <2>4. \A p, q \in Proc : job'[p] = job'[q] /\ job'[p] # NoTask => p = q
    <3>1. /\ \A p, q \in Proc : job[p] = job[q] /\ job[p] # NoTask => p = q
          /\ \A p \in Proc : job[p] # d
      BY <1>1, <1>5, <1>6 DEF OnceOK, NoDumps
    <3> QED
      BY <3>1, <1>7, <1>8
  <2>5. \A j \in DOMAIN task_queue', k \in DOMAIN to_enqueue' : task_queue'[j] # to_enqueue'[k]
    BY <1>2, <1>6, <1>14 DEF NoDumps
  <2>6. \A p \in Proc : \A j \in DOMAIN task_queue' : task_queue'[j] # job'[p]
    <3>1. \A j \in DOMAIN task_queue : task_queue[j] \notin Dumps /\ task_queue[j] # NoTask
      <4>1. \A j \in DOMAIN task_queue : task_queue[j] \in PoolParses(n) \cup Dumps
        BY <1>1 DEF OnceOK
      <4> QED
        BY <4>1, <1>6, KindsDiffer DEF NoDumps
    <3>2. \A p \in Proc : \A j \in DOMAIN task_queue : task_queue[j] # job[p]
      BY <1>1 DEF OnceOK
    <3> QED
      BY <3>1, <3>2, <1>2, <1>5, <1>7, <1>8
  <2>7. \A p \in Proc : \A k \in DOMAIN to_enqueue' : to_enqueue'[k] # job'[p]
    BY <1>6, <1>8, <1>14 DEF NoDumps
  <2>8. \A j \in DOMAIN task_queue' : task_queue'[j] \notin finished'
    <3>1. \A j \in DOMAIN task_queue : task_queue[j] \notin finished /\ task_queue[j] \in PoolParses(n) \cup Dumps
      BY <1>1 DEF OnceOK
    <3> QED
      BY <3>1, <1>2, <1>3, <1>5
  <2>9. \A k \in DOMAIN to_enqueue' : to_enqueue'[k] \notin finished'
    BY <1>3, <1>5, <1>6, <1>14 DEF NoDumps
  <2>10. \A p \in Proc : job'[p] \in finished' => pc'[p] = "broadcast"
    <3>1. \A p \in Proc : job[p] \in finished => pc[p] = "broadcast"
      BY <1>1 DEF OnceOK
    <3>2. j0 \notin finished'
      BY <1>1, <1>3, <1>5, <1>6, <1>7 DEF NoDumps, OnceOK
    <3>3. \A p \in Proc \ {Main} : job[p] # t
      BY <1>1 DEF JobsOK
    <3> QED
      BY <3>1, <3>2, <3>3, <1>3, <1>8
  <2> QED
    BY <2>1, <2>2, <2>3, <2>4, <2>5, <2>6, <2>7, <2>8, <2>9, <2>10, <1>2 DEF OnceOK
<1>16. AllParsed => AllParsed'
  BY <1>2, <1>3 DEF AllParsed
<1>17. n = 1 => AllParsed'
  BY <1>2, <1>3 DEF AllParsed
<1>18. ListsOK'
  <2>1. CASE n > 1
    <3>1. WaitsParse'
      BY <2>1, <1>2, <1>3, <1>6 DEF OwnPhase, WaitsParse
    <3>2. WaitPhase'
      BY <2>1, <3>1, <1>2, <1>13 DEF WaitPhase
    <3>3. pc'[Main] = "wait"
      BY <2>1, <1>3, <1>7, <1>8
    <3> QED
      BY <3>2, <3>3, <1>1, <1>2 DEF ListsOK, Dumping
  <2>2. CASE n = 1
    <3>1. pc'[Main] = "dir" /\ job'[Main] = d
      BY <2>2, <1>3, <1>7, <1>8
    <3>2. Len(to_enqueue') = Len(Cats) - 1 /\ Len(Cats) - Len(to_enqueue') = 1
      BY <2>2, <1>13, CatsAre
    <3>3. EnqueuesDump'
      <4>1. ASSUME NEW k \in 1 .. Len(Cats) - 1
            PROVE  to_enqueue'[k] = Dump(Cats[Len(Cats) - (Len(Cats) - 1) + k])
        <5>1. Len(Cats) - (Len(Cats) - 1) + k = k + 1
          BY CatsAre
        <5> QED
          BY <5>1, <2>2, <1>13
      <4>2. Len(to_enqueue') <= Len(Cats)
        BY <3>2, CatsAre
      <4> QED
        BY <2>2, <3>2, <4>1, <4>2, <1>13 DEF EnqueuesDump
    <3>4. DumpPhase'
      <4>1. Len(to_enqueue') < Len(Cats)
        BY <3>2, CatsAre
      <4>2. job'[Main] = Dump(Cats[Len(Cats) - Len(to_enqueue')])
        BY <3>1, <3>2
      <4>3. 1 .. Len(Cats) - Len(to_enqueue') - 1 = {}
        BY <3>2
      <4> QED
        BY <2>2, <3>3, <4>1, <4>2, <4>3, <1>2 DEF DumpPhase
    <3> QED
      BY <3>1, <3>4, <1>1, <1>2 DEF ListsOK
  <2> QED
    BY <2>1, <2>2, <1>3
<1>19. PhasesOK'
  <2>1. BeforeDumps' => n > 1
    BY <1>3, <1>7, <1>8 DEF BeforeDumps, Reading
  <2>2. n > 1 => NoDumps'
    BY <1>2, <1>3, <1>5, <1>6, <1>7, <1>8, <1>13 DEF NoDumps
  <2> QED
    BY <2>1, <2>2, <1>2, <1>3, <1>6, <1>17 DEF PhasesOK
<1>20. TableOK'
  <2>1. ChunkSet(0)
    BY <1>1, <1>3, <1>5, <1>6 DEF TableOK
  <2>2. \A i \in 0 .. n - 1 : Parse(i) \in finished' => Parse(i) \in finished \/ i = 0
    BY <1>3, TaskNames
  <2>3. \A i \in 0 .. n - 1 : Parse(i) \in finished' => ChunkSet(i)
    BY <2>1, <2>2, <1>1 DEF TableOK
  <2>4. \A p \in Proc : pc'[p] = "parse" \/ pc'[p] = "store" => pc'[p] = pc[p] /\ job'[p] = job[p]
    BY <1>3, <1>7, <1>8
  <2> QED
    BY <2>3, <2>4, <1>1, <1>2, <1>7 DEF TableOK, ChunkSet, SetBelow
<1>21. OutputOK'
  BY <1>2, <1>6 DEF OutputOK
<1>22. DirsOK'
  <2>1. \A p \in Proc : pc'[p] \in DirPlace => pc'[p] = pc[p]
    BY <1>7, <1>8 DEF DirPlace
  <2> QED
    BY <2>1, <1>1, <1>2, <1>6, DirsStay
<1>23. TextOK'
  BY <1>1, <1>2, <1>3, TextStays
<1>24. EndOK'
  BY <1>3, <1>7, <1>8 DEF EndOK, Ending
<1> QED
  BY <1>9, <1>10, <1>11, <1>12, <1>15, <1>18, <1>19, <1>20, <1>21, <1>22, <1>23, <1>24
  DEF IInv, WorkOK, ResultOK

\* The files, all to be enqueued.
LEMMA DumpList ==
  ASSUME NEW s, s = [k \in DOMAIN Cats |-> Dump(Cats[k])]
  PROVE  /\ s \in Seq(Dumps) /\ Len(s) = Len(Cats) /\ s # <<>> /\ DOMAIN s = 1 .. Len(Cats)
         /\ \A k \in 1 .. Len(Cats) : s[k] = Dump(Cats[k]) /\ s[k] \in Dumps
         /\ \A j, k \in DOMAIN s : s[j] = s[k] => j = k
<1>1. \A k \in 1 .. Len(Cats) : Dump(Cats[k]) \in Dumps
  BY CatsAre, DumpsAre
<1>2. Len(Cats) \in Nat /\ DOMAIN Cats = 1 .. Len(Cats) /\ Len(Cats) >= 1
  BY CatsAre
<1>3. s \in Seq(Dumps) /\ Len(s) = Len(Cats) /\ DOMAIN s = 1 .. Len(Cats)
  BY <1>1, <1>2
<1>4. ASSUME NEW j \in 1 .. Len(Cats), NEW k \in 1 .. Len(Cats), Dump(Cats[j]) = Dump(Cats[k])
      PROVE  j = k
  <2>1. Cats[j] = Cats[k]
    BY <1>4, TaskNames
  <2> QED
    BY <2>1, CatsAre
<1> QED
  BY <1>1, <1>2, <1>3, <1>4

\* What main waits for when it has seen the first task done.
LEMMA WaitsGoOn ==
  ASSUME PlacesOK, to_wait \in Seq(Parses(thread_count) \cup Dumps), Len(to_wait) > 1,
         to_wait' = Tail(to_wait), Head(to_wait) \in finished,
         finished' = finished, thread_count' = thread_count
  PROVE  /\ WaitsParse => WaitsParse'
         /\ WaitsDump => WaitsDump' /\ ~WaitsParse'
<1> PICK n \in Nat : n = thread_count
  BY ProcIs
<1> PICK W \in Nat : W = Len(to_wait)
  OBVIOUS
<1>1. /\ W > 1 /\ DOMAIN to_wait = 1 .. W /\ DOMAIN to_wait' = 1 .. W - 1 /\ Len(to_wait') = W - 1
      /\ to_wait' # <<>> /\ to_wait[1] \in finished
      /\ \A j \in 1 .. W - 1 : j + 1 \in 1 .. W /\ to_wait'[j] = to_wait[j + 1]
  OBVIOUS
<1>0. 1 \in 1 .. W /\ 1 \in 1 .. W - 1
  BY <1>1
<1>2. ASSUME WaitsParse PROVE WaitsParse'
  <2>1. /\ W <= n /\ \A j \in 1 .. W : to_wait[j] = Parse(n - W + j - 1)
        /\ \A i \in 0 .. n - W - 1 : Parse(i) \in finished
    BY <1>1, <1>2 DEF WaitsParse
  <2>2. ASSUME NEW j \in 1 .. W - 1 PROVE to_wait'[j] = Parse(n - (W - 1) + j - 1)
    <3>1. n - W + (j + 1) - 1 = n - (W - 1) + j - 1
      OBVIOUS
    <3>2. to_wait[j + 1] = Parse(n - W + (j + 1) - 1)
      BY <1>0, <1>1, <2>1
    <3> QED
      BY <3>1, <3>2, <1>1
  <2>3. ASSUME NEW i \in 0 .. n - (W - 1) - 1 PROVE Parse(i) \in finished
    <3>1. CASE i = n - W
      <4>1. n - W + 1 - 1 = i
        BY <3>1
      <4>2. to_wait[1] = Parse(n - W + 1 - 1)
        BY <1>0, <1>1, <2>1
      <4> QED
        BY <4>1, <4>2, <1>1
    <3>2. CASE i # n - W
      <4>1. i \in 0 .. n - W - 1
        BY <3>2
      <4> QED
        BY <4>1, <2>1
    <3> QED
      BY <3>1, <3>2
  <2>4. W - 1 <= n /\ thread_count' = n /\ finished' = finished
    BY <2>1
  <2> QED
    BY <1>1, <2>2, <2>3, <2>4 DEF WaitsParse
<1>3. ASSUME WaitsDump PROVE WaitsDump' /\ ~WaitsParse'
  <2> PICK C \in Nat : C = Len(Cats)
    BY CatsAre
  <2>1. /\ W <= C /\ \A j \in 1 .. W : to_wait[j] = Dump(Cats[C - W + j])
        /\ \A i \in 1 .. C - W : Dump(Cats[i]) \in finished
    BY <1>1, <1>3 DEF WaitsDump
  <2>2. ASSUME NEW j \in 1 .. W - 1 PROVE to_wait'[j] = Dump(Cats[C - (W - 1) + j])
    <3>1. C - W + (j + 1) = C - (W - 1) + j
      OBVIOUS
    <3>2. to_wait[j + 1] = Dump(Cats[C - W + (j + 1)])
      BY <1>0, <1>1, <2>1
    <3> QED
      BY <3>1, <3>2, <1>1
  <2>3. ASSUME NEW i \in 1 .. C - (W - 1) PROVE Dump(Cats[i]) \in finished
    <3>1. CASE i = C - W + 1
      <4>1. to_wait[1] = Dump(Cats[C - W + 1])
        BY <1>0, <1>1, <2>1
      <4> QED
        BY <3>1, <4>1, <1>1
    <3>2. CASE i # C - W + 1
      <4>1. i \in 1 .. C - W
        BY <3>2
      <4> QED
        BY <4>1, <2>1
    <3> QED
      BY <3>1, <3>2
  <2>4. ~WaitsParse'
    <3>1. 1 \in DOMAIN to_wait' /\ to_wait'[1] = Dump(Cats[C - (W - 1) + 1])
      BY <1>0, <1>1, <2>2
    <3>2. \A i : to_wait'[1] # Parse(i)
      BY <3>1, TaskNames
    <3> QED
      BY <3>1, <3>2 DEF WaitsParse
  <2>5. W - 1 <= C /\ finished' = finished
    BY <2>1
  <2> QED
    BY <1>1, <2>2, <2>3, <2>4, <2>5 DEF WaitsDump
<1> QED
  BY <1>2, <1>3

\* Main finds a task done and goes on to the next, to the files, or to the end.
LEMMA WaitDoneKeeps ==
  ASSUME IInv, WaitDone
  PROVE  IInv'
<1>1. /\ PlacesOK /\ DiskOK /\ LooksOK /\ FilesOK
      /\ JobsOK /\ LinesOK /\ OnceOK /\ ListsOK /\ PhasesOK
      /\ TableOK /\ OutputOK /\ DirsOK /\ TextOK /\ EndOK
  BY DEF IInv, WorkOK, ResultOK
<1> PICK n \in Nat : n = thread_count
  BY <1>1, ProcIs
<1> PICK W \in Nat : W = Len(to_wait)
  BY <1>1 DEF ListsOK
<1> PICK t : t = Head(to_wait)
  OBVIOUS
<1> PICK x : x = pc'[Main]
  OBVIOUS
<1>2. UNCHANGED <<thread_count, option, lines, thread, cursor, table, task_queue, job, finished,
                  oks, files, cache, torn, runs, status, freed, shutdown, mtx, waiting,
                  exe, exe_known, out_dir, dir_known, exiting>>
  BY DEF WaitDone, disk, options, look, pool, dirs, output
<1>3. /\ pc[Main] = "wait" /\ Main \in Proc /\ t \in finished
  BY <1>1, ProcIs DEF WaitDone
<1>4. pc' = [pc EXCEPT ![Main] = x] /\ x \in {"wait", "enqueue", "exit", "exit_success"}
  BY <1>1, <1>3 DEF WaitDone, Go, PlacesOK
<1>5. \A q \in Proc : pc'[q] = IF q = Main THEN x ELSE pc[q]
  BY <1>1, <1>4 DEF PlacesOK
<1>6. /\ n > 1 /\ to_enqueue = <<>> /\ (WaitsParse \/ WaitsDump) /\ lines # <<>> /\ job[Main] = NoTask
      /\ to_wait \in Seq(Parses(n) \cup Dumps)
  BY <1>1, <1>3 DEF ListsOK, WaitPhase, LinesOK, Reading, Ending, JobsOK, Resting
<1>7. W >= 1 /\ t = to_wait[1] /\ DOMAIN to_wait = 1 .. W
  BY <1>6 DEF WaitsParse, WaitsDump
<1>8. (WaitsParse => t[1] = "parse") /\ (WaitsDump => t[1] = "dump")
  <2>1. 1 \in DOMAIN to_wait
    BY <1>7
  <2>2. WaitsParse => t[1] = "parse"
    BY <2>1, <1>7, TaskNames DEF WaitsParse
  <2>3. WaitsDump => t[1] = "dump"
    BY <2>1, <1>7, TaskNames DEF WaitsDump
  <2> QED
    BY <2>2, <2>3
<1>9. \/ W > 1 /\ to_wait' = Tail(to_wait) /\ x = "wait" /\ to_enqueue' = to_enqueue
      \/ /\ W = 1 /\ WaitsParse /\ x = "enqueue" /\ to_wait' = to_enqueue'
         /\ to_enqueue' = [k \in DOMAIN Cats |-> Dump(Cats[k])]
      \/ /\ W = 1 /\ WaitsDump /\ to_wait' = <<>> /\ to_enqueue' = to_enqueue
         /\ x \in {"exit", "exit_success"} /\ (x = "exit_success" => \A c \in ToSet(Cats) : oks[c])
  <2>1. CASE W > 1
    <3>1. pc' = pc /\ to_wait' = Tail(to_wait) /\ to_enqueue' = to_enqueue
      BY <2>1 DEF WaitDone
    <3> QED
      BY <2>1, <3>1, <1>3, <1>5
  <2>2. CASE W = 1 /\ t[1] = "parse"
    <3>1. /\ to_enqueue' = [k \in DOMAIN Cats |-> Dump(Cats[k])] /\ to_wait' = to_enqueue'
          /\ pc' = [pc EXCEPT ![Main] = "enqueue"]
      BY <2>2 DEF WaitDone, Go
    <3>2. x = "enqueue"
      BY <3>1, <1>1, <1>3 DEF PlacesOK
    <3> QED
      BY <2>2, <3>1, <3>2, <1>6, <1>8
  <2>3. CASE W = 1 /\ t[1] = "dump"
    <3> PICK y : y = IF \A c \in ToSet(Cats) : oks[c] THEN "exit_success" ELSE "exit"
      OBVIOUS
    <3>1. /\ to_wait' = <<>> /\ to_enqueue' = to_enqueue
          /\ pc' = [pc EXCEPT ![Main] = y]
      BY <2>3 DEF WaitDone, Go
    <3>2. x = y
      BY <3>1, <1>1, <1>3 DEF PlacesOK
    <3>3. x \in {"exit", "exit_success"} /\ (x = "exit_success" => \A c \in ToSet(Cats) : oks[c])
      BY <3>2
    <3> QED
      BY <2>3, <3>1, <3>3, <1>6, <1>8
  <2> QED
    BY <2>1, <2>2, <2>3, <1>6, <1>7, <1>8
<1>10. WaitsParse => NoDumps /\ out_dir \in {"none", "asked"} /\ \A c \in ToSet(Cats) : ~oks[c]
  BY <1>1, <1>3 DEF PhasesOK, BeforeDumps
<1>11. W = 1 /\ WaitsParse => AllParsed
  <2> SUFFICES ASSUME W = 1, WaitsParse, NEW i \in 0 .. n - 1 PROVE Parse(i) \in finished
    BY DEF AllParsed
  <2>1. t = Parse(n - 1 + 1 - 1) /\ \A k \in 0 .. n - 1 - 1 : Parse(k) \in finished
    BY <1>7 DEF WaitsParse
  <2>2. n - 1 + 1 - 1 = n - 1
    OBVIOUS
  <2> QED
    BY <2>1, <2>2, <1>3
<1>12. W = 1 /\ WaitsDump => AllDumped /\ AllParsed
  <2> SUFFICES ASSUME W = 1, WaitsDump PROVE AllDumped /\ AllParsed
    OBVIOUS
  <2>1. t = Dump(Cats[Len(Cats) - 1 + 1]) /\ \A k \in 1 .. Len(Cats) - 1 : Dump(Cats[k]) \in finished
    BY <1>7 DEF WaitsDump
  <2>2. Len(Cats) - 1 + 1 = Len(Cats)
    BY CatsAre
  <2>3. \A k \in 1 .. Len(Cats) : Dump(Cats[k]) \in finished
    BY <2>1, <2>2, <1>3, CatsAre
  <2>4. AllDumped
    BY <2>3, CatsAre DEF AllDumped
  <2>5. t \in Dumps
    BY <2>1, <2>2, CatsAre, DumpsAre
  <2> QED
    BY <2>4, <2>5, <1>1, <1>3 DEF PhasesOK, NoDumps
<1> HIDE DEF IInv
<1>13. PlacesOK'
  BY <1>1, <1>2, <1>3, <1>4, MovePlaces DEF MainPlace, Ending, PlacesOK
<1>14. DiskOK' /\ LooksOK' /\ FilesOK'
  BY <1>1, <1>2 DEF DiskOK, LooksOK, FilesOK
<1>15. JobsOK'
  <2>1. \A q \in Proc : /\ pc'[q] = "parse" => job[q] \in Parses(n)
                        /\ pc'[q] \in {"store", "broadcast"} => job[q] \in Parses(n) \cup Dumps
                        /\ pc'[q] \in Dumping => job[q] \in Dumps
                        /\ pc'[q] \in Resting => job[q] = NoTask
    BY <1>1, <1>4, <1>5, <1>6 DEF JobsOK, Dumping
  <2> QED
    BY <2>1, <1>1, <1>2, <1>3, <1>4, <1>5 DEF JobsOK
<1>16. LinesOK'
  BY <1>2, <1>3, <1>4, <1>5, <1>6 DEF LinesOK, Reading
<1>17. \/ to_enqueue' = to_enqueue
       \/ WaitsParse /\ to_enqueue' = [k \in DOMAIN Cats |-> Dump(Cats[k])]
  BY <1>9
<1>18. OnceOK'
  <2>1. CASE to_enqueue' = to_enqueue
    BY <2>1, <1>1, <1>2, <1>3, <1>5, <1>6 DEF OnceOK
  <2>2. CASE WaitsParse /\ to_enqueue' = [k \in DOMAIN Cats |-> Dump(Cats[k])]
    <3>1. /\ to_enqueue' \in Seq(Dumps)
          /\ \A j, k \in DOMAIN to_enqueue' : to_enqueue'[j] = to_enqueue'[k] => j = k
          /\ \A k \in DOMAIN to_enqueue' : to_enqueue'[k] \in Dumps
      BY <2>2, DumpList
    <3>2. to_enqueue' \in Seq(PoolParses(n) \cup Dumps)
      BY <3>1
    <3>3. /\ \A j \in DOMAIN task_queue, k \in DOMAIN to_enqueue' : task_queue[j] # to_enqueue'[k]
          /\ \A p \in Proc : \A k \in DOMAIN to_enqueue' : to_enqueue'[k] # job[p]
          /\ \A k \in DOMAIN to_enqueue' : to_enqueue'[k] \notin finished
      BY <2>2, <3>1, <1>10 DEF NoDumps
    <3>4. \A p \in Proc : job[p] \in finished => pc'[p] = "broadcast"
      BY <1>1, <1>3, <1>5 DEF OnceOK
    <3> QED
      BY <3>1, <3>2, <3>3, <3>4, <1>1, <1>2 DEF OnceOK
  <2> QED
    BY <2>1, <2>2, <1>17
<1>19. x = "enqueue" => EnqueuePhase' /\ ~WaitsParse' /\ to_wait' \in Seq(Parses(n) \cup Dumps)
  <2> SUFFICES ASSUME x = "enqueue"
               PROVE  EnqueuePhase' /\ ~WaitsParse' /\ to_wait' \in Seq(Parses(n) \cup Dumps)
    OBVIOUS
  <2> PICK s : s = [k \in DOMAIN Cats |-> Dump(Cats[k])]
    OBVIOUS
  <2>1. to_enqueue' = s /\ to_wait' = s
    BY <1>9
  <2>2. /\ s \in Seq(Dumps) /\ Len(s) = Len(Cats) /\ s # <<>> /\ DOMAIN s = 1 .. Len(Cats)
        /\ \A k \in 1 .. Len(Cats) : s[k] = Dump(Cats[k])
    BY DumpList
  <2>3. Len(Cats) \in Nat /\ Len(Cats) >= 1 /\ \A k \in 1 .. Len(Cats) : Len(Cats) - Len(Cats) + k = k
    BY CatsAre
  <2>4. WaitsDump' /\ EnqueuesDump'
    BY <2>1, <2>2, <2>3 DEF WaitsDump, EnqueuesDump
  <2>5. ~WaitsParse'
    <3>1. 1 \in DOMAIN to_wait' /\ to_wait'[1] = Dump(Cats[1])
      BY <2>1, <2>2, <2>3
    <3> QED
      BY <3>1, TaskNames DEF WaitsParse
  <2>6. s \in Seq(Parses(n) \cup Dumps)
    BY <2>2
  <2> QED
    BY <2>1, <2>2, <2>4, <2>5, <2>6, <1>2, <1>6 DEF EnqueuePhase
<1>20. x = "wait" => /\ WaitPhase' /\ to_wait' \in Seq(Parses(n) \cup Dumps)
                     /\ WaitsParse' => WaitsParse
  <2> SUFFICES ASSUME x = "wait"
               PROVE  /\ WaitPhase' /\ to_wait' \in Seq(Parses(n) \cup Dumps)
                      /\ WaitsParse' => WaitsParse
    OBVIOUS
  <2>1. W > 1 /\ to_wait' = Tail(to_wait) /\ to_enqueue' = to_enqueue
    <3>1. x # "enqueue" /\ x # "exit" /\ x # "exit_success"
      OBVIOUS
    <3> QED
      BY <3>1, <1>9
  <2>2. (WaitsParse => WaitsParse') /\ (WaitsDump => WaitsDump' /\ ~WaitsParse')
    BY <2>1, <1>1, <1>2, <1>3, <1>6, WaitsGoOn
  <2>3. to_wait' \in Seq(Parses(n) \cup Dumps)
    BY <2>1, <1>6
  <2> QED
    BY <2>1, <2>2, <2>3, <1>2, <1>6 DEF WaitPhase
<1>21. ListsOK'
  <2>1. pc'[Main] = x
    BY <1>3, <1>5
  <2>2. x \in {"exit", "exit_success"} => to_wait' = <<>> /\ <<>> \in Seq(Parses(n) \cup Dumps)
    BY <1>9
  <2>3. x = "exit_success" => \A c \in ToSet(Cats) : oks[c]
    BY <1>9
  <2> QED
    BY <2>1, <2>2, <2>3, <1>2, <1>4, <1>19, <1>20 DEF ListsOK, Dumping
<1>22. PhasesOK'
  <2>1. BeforeDumps' => x = "wait" /\ WaitsParse
    BY <1>3, <1>4, <1>5, <1>19, <1>20 DEF BeforeDumps, Reading
  <2>2. x = "wait" /\ NoDumps => NoDumps'
    BY <1>2, <1>9 DEF NoDumps
  <2>3. AllParsed' = AllParsed
    BY <1>2 DEF AllParsed
  <2>4. NoDumps' \/ AllParsed
    <3>1. CASE x = "enqueue"
      BY <3>1, <1>9, <1>11
    <3>2. CASE x # "enqueue"
      <4>1. to_enqueue' = to_enqueue
        BY <3>2, <1>9
      <4>2. NoDumps => NoDumps'
        BY <4>1, <1>2 DEF NoDumps
      <4> QED
        BY <4>2, <1>1 DEF PhasesOK
    <3> QED
      BY <3>1, <3>2
  <2> QED
    BY <2>1, <2>2, <2>3, <2>4, <1>2, <1>10 DEF PhasesOK
<1>23. TableOK'
  BY <1>1, <1>2, <1>3, <1>4, <1>5 DEF TableOK, ChunkSet, SetBelow
<1>24. \A c \in ToSet(Cats) : Spent(c) => Spent(c)' \/ (WaitsParse /\ x = "enqueue")
  <2>1. ASSUME NEW c, Spent(c), to_enqueue' = to_enqueue PROVE Spent(c)'
    BY <2>1, <1>2, <1>3, <1>4, <1>5 DEF Spent, Dumping
  <2> QED
    BY <2>1, <1>9
<1>25. OutputOK'
  <2>1. AllParsed' = AllParsed /\ \A c : FileOf(c)' = FileOf(c)
    BY <1>2 DEF AllParsed, FileOf, Buffer
  <2> QED
    BY <2>1, <1>1, <1>2, <1>10, <1>24 DEF OutputOK
<1>26. DirsOK'
  <2>1. out_dir = "full" => \/ \E q \in Proc : pc'[q] = "open"
                            \/ \E c \in ToSet(Cats) : ~oks'[c] /\ Spent(c)'
    BY <1>1, <1>2, <1>3, <1>5, <1>10, <1>24 DEF DirsOK
  <2>2. \A q \in Proc : pc'[q] \in DirPlace => pc'[q] = pc[q]
    BY <1>4, <1>5 DEF DirPlace
  <2> QED
    BY <2>1, <2>2, <1>1, <1>2, DirsStay
<1>27. TextOK'
  BY <1>1, <1>2, <1>3, TextStays
<1>28. EndOK'
  <2>1. AllParsed' = AllParsed /\ AllDumped' = AllDumped
    BY <1>2 DEF AllParsed, AllDumped
  <2>2. pc'[Main] = x /\ x # "parse"
    BY <1>3, <1>4, <1>5
  <2>3. x \in Ending => AllParsed /\ AllDumped
    BY <1>9, <1>12 DEF Ending
  <2> QED
    BY <2>1, <2>2, <2>3 DEF EndOK
<1> QED
  BY <1>13, <1>14, <1>15, <1>16, <1>18, <1>21, <1>22, <1>23, <1>25, <1>26, <1>27, <1>28
  DEF IInv, WorkOK, ResultOK

(***************************************************************************)
(* Looking up, and reporting                                               *)
(***************************************************************************)

\* What holds of a process that looks up code points.
LEMMA WhileParsing ==
  ASSUME IInv, NEW p \in Proc, pc[p] = "parse"
  PROVE  /\ job[p] \in Parses(thread_count) /\ job[p][2] \in 0 .. thread_count - 1
         /\ job[p] = Parse(job[p][2]) /\ job[p] \notin finished /\ lines # <<>> /\ lines \in Texts
         /\ \A c \in ToSet(Cats) : ~oks[c]
         /\ ChunkFirst(thread_count, job[p][2]) <= cursor[p]
         /\ SetBelow(job[p][2], cursor[p])
         /\ ChunkLast(thread_count, job[p][2]) \in Int /\ ChunkLast(thread_count, job[p][2]) <= MaxCp
         /\ cursor[p] \in Nat /\ thread[p] \in ThreadState
         /\ thread_count \in Threads
<1>1. JobsOK /\ LinesOK /\ OnceOK /\ TableOK /\ OutputOK /\ LooksOK /\ PlacesOK
  BY DEF IInv, WorkOK, ResultOK
<1>2. thread_count \in Threads /\ thread_count \in Nat
  BY <1>1, ProcIs DEF PlacesOK
<1>3. job[p] \in Parses(thread_count)
  BY <1>1 DEF JobsOK
<1>4. job[p][2] \in 0 .. thread_count - 1 /\ job[p] = Parse(job[p][2])
  BY <1>3, ParsesAre
<1>5. job[p] \notin finished /\ lines # <<>>
  BY <1>1, <1>2, <1>3, KindsDiffer DEF OnceOK, LinesOK
<1>6. \A c \in ToSet(Cats) : ~oks[c]
  BY <1>1, <1>4, <1>5 DEF OutputOK, AllParsed
<1>7. ChunkLast(thread_count, job[p][2]) \in Int /\ ChunkLast(thread_count, job[p][2]) <= MaxCp
  BY <1>2, <1>4, ChunksAreCodePoints
<1> QED
  BY <1>1, <1>2, <1>3, <1>4, <1>5, <1>6, <1>7 DEF TableOK, LooksOK

\* A process looks up the next code point of its chunk.
LEMMA LookUpKeeps ==
  ASSUME IInv, NEW p \in Proc, LookUpNext(p)
  PROVE  IInv'
<1>1. /\ PlacesOK /\ DiskOK /\ LooksOK /\ FilesOK
      /\ JobsOK /\ LinesOK /\ OnceOK /\ ListsOK /\ PhasesOK
      /\ TableOK /\ OutputOK /\ DirsOK /\ TextOK /\ EndOK
  BY DEF IInv, WorkOK, ResultOK
<1> PICK n \in Nat : n = thread_count
  BY <1>1, ProcIs
<1> PICK i : i = job[p][2]
  OBVIOUS
<1> PICK cp : cp = cursor[p]
  OBVIOUS
<1> PICK a : a = LookupCat(lines, thread[p], cp)
  OBVIOUS
<1>2. pc[p] = "parse" /\ Main \in Proc
  BY <1>1, ProcIs DEF LookUpNext
<1>3. UNCHANGED <<thread_count, option, lines, task_queue, to_enqueue, to_wait, job, finished,
                  oks, files, cache, torn, runs, status, freed, shutdown, mtx, waiting,
                  exe, exe_known, out_dir, dir_known, exiting, dirs>>
  BY DEF LookUpNext, disk, options, pool, main, dirs, output
<1>4. /\ job[p] \in Parses(n) /\ i \in 0 .. n - 1 /\ job[p] = Parse(i) /\ job[p] \notin finished
      /\ lines # <<>> /\ lines \in Texts /\ \A c \in ToSet(Cats) : ~oks[c]
      /\ ChunkFirst(n, i) <= cp /\ SetBelow(i, cp)
      /\ ChunkLast(n, i) \in Int /\ ChunkLast(n, i) <= MaxCp
      /\ cp \in Nat /\ thread[p] \in ThreadState
  BY <1>2, WhileParsing
<1>5. DiskOK' /\ FilesOK'
  BY <1>1, <1>3 DEF DiskOK, FilesOK
<1>6. p # Main => p \in Worker
  BY <1>1, <1>2, WorkerMoves
<1>7. p = Main => exiting # Main
  BY <1>1, <1>2 DEF PlacesOK
<1>8. /\ WaitsParse' = WaitsParse /\ WaitsDump' = WaitsDump
      /\ EnqueuesParse' = EnqueuesParse /\ EnqueuesDump' = EnqueuesDump
      /\ AllParsed' = AllParsed /\ AllDumped' = AllDumped /\ NoDumps' = NoDumps
  BY <1>3 DEF WaitsParse, WaitsDump, EnqueuesParse, EnqueuesDump, AllParsed, AllDumped, NoDumps
<1>9. OwnPhase' = OwnPhase /\ WaitPhase' = WaitPhase /\ DumpPhase' = DumpPhase
  BY <1>3, <1>8 DEF OwnPhase, WaitPhase, DumpPhase
<1> HIDE DEF IInv
<1>10. CASE cp > ChunkLast(n, i)
  <2>1. pc' = [pc EXCEPT ![p] = "store"] /\ UNCHANGED <<table, thread, cursor>>
    BY <1>10 DEF LookUpNext, Go
  <2>2. \A q \in Proc : pc'[q] = IF q = p THEN "store" ELSE pc[q]
    BY <2>1, <1>1 DEF PlacesOK
  <2>3. PlacesOK'
    BY <2>1, <1>1, <1>3, <1>6, <1>7, MovePlaces DEF MainPlace, WorkerPlace
  <2>4. LooksOK'
    BY <2>1, <1>1, <1>3 DEF LooksOK
  <2>5. JobsOK'
    <3>1. \A q \in Proc : /\ pc'[q] = "parse" => job[q] \in Parses(n)
                          /\ pc'[q] \in {"store", "broadcast"} => job[q] \in Parses(n) \cup Dumps
                          /\ pc'[q] \in Dumping => job[q] \in Dumps
                          /\ pc'[q] \in Resting => job[q] = NoTask
      BY <2>2, <1>1, <1>4 DEF JobsOK, Dumping, Resting, Reading
    <3>2. pc'[Main] \in {"parse", "store"} => job[Main] = Parse(0)
      BY <2>2, <1>1, <1>2 DEF JobsOK
    <3> QED
      BY <3>1, <3>2, <1>1, <1>3 DEF JobsOK
  <2>6. LinesOK'
    BY <2>1, <2>2, <1>1, <1>2, <1>3, <1>4 DEF LinesOK, Reading
  <2>7. OnceOK'
    <3>1. ASSUME NEW q \in Proc, job[q] \in finished PROVE pc'[q] = "broadcast"
      <4>1. pc[q] = "broadcast"
        BY <1>1, <3>1 DEF OnceOK
      <4> QED
        BY <2>2, <1>4, <3>1, <4>1
    <3> QED
      BY <1>1, <1>3, <3>1 DEF OnceOK
  <2>8. pc'[Main] = pc[Main] \/ (pc[Main] = "parse" /\ pc'[Main] = "store")
    BY <2>2, <1>2
  <2>9. ListsOK'
    <3>1. EnqueuePhase' = EnqueuePhase
      BY <2>1, <1>3, <1>8 DEF EnqueuePhase
    <3> QED
      BY <3>1, <2>1, <2>8, <1>1, <1>3, <1>9 DEF ListsOK, Dumping
  <2>10. PhasesOK'
    <3>1. BeforeDumps' => BeforeDumps
      BY <2>8, <1>8 DEF BeforeDumps, Reading
    <3> QED
      BY <3>1, <1>1, <1>3, <1>8 DEF PhasesOK
  <2>11. TableOK'
    <3>1. ChunkSet(i)
      BY <1>4, <1>10 DEF ChunkSet, SetBelow, CodePoint
    <3>2. \A q \in Proc : pc'[q] = "store" /\ job[q] \in Parses(n) => ChunkSet(job[q][2])
      BY <3>1, <2>2, <1>1 DEF TableOK
    <3>3. \A q \in Proc : pc'[q] = "parse" => pc[q] = "parse"
      BY <2>2
    <3> QED
      BY <3>2, <3>3, <2>1, <1>1, <1>3 DEF TableOK, ChunkSet, SetBelow
  <2>12. OutputOK'
    BY <1>3, <1>4 DEF OutputOK
  <2>13. DirsOK'
    <3>1. \A c : Spent(c) => Spent(c)'
      BY <2>2, <1>3 DEF Spent, Dumping
    <3>2. out_dir = "full" => \/ \E q \in Proc : pc'[q] = "open"
                              \/ \E c \in ToSet(Cats) : ~oks'[c] /\ Spent(c)'
      BY <3>1, <2>2, <1>1, <1>2, <1>3 DEF DirsOK
    <3>3. \A q \in Proc : pc'[q] \in DirPlace => pc'[q] = pc[q]
      BY <2>2 DEF DirPlace
    <3> QED
      BY <3>2, <3>3, <1>1, <1>3, DirsStay
  <2>14. TextOK'
    BY <2>1, <2>8, <1>1, <1>3, TextStays
  <2>15. EndOK'
    BY <2>1, <2>8, <1>1, <1>3, <1>8 DEF EndOK, Ending
  <2> QED
    BY <1>5, <2>3, <2>4, <2>5, <2>6, <2>7, <2>9, <2>10, <2>11, <2>12, <2>13, <2>14, <2>15
    DEF IInv, WorkOK, ResultOK
<1>11. CASE ~(cp > ChunkLast(n, i))
  <2>1. cp \in CodePoint
    BY <1>4, <1>11, MaxCpAssumption DEF CodePoint
  <2>2. /\ a.ok \in BOOLEAN /\ a.cat \in Category /\ a.thread \in ThreadState
        /\ lines = Page /\ thread[p].in = FALSE => ~a.ok /\ a.thread = thread[p]
    BY <2>1, <1>4, LookupIsTyped
  <2>3. lines = UnicodeData /\ p = Main => a.ok /\ HintBelow(a.thread, cp + 1)
    BY <2>1, <1>1, <1>2, <1>4, LookupSucceeds DEF EndOK
  <2>4. thread' = [thread EXCEPT ![p] = a.thread]
    BY <1>11 DEF LookUpNext
  <2>5. thread' \in [Proc -> ThreadState] /\ \A q \in Proc : thread'[q] = IF q = p THEN a.thread ELSE thread[q]
    BY <2>2, <2>4, <1>1 DEF LooksOK
  <2>6. CASE ~a.ok
    <3>1. pc' = [pc EXCEPT ![p] = "exit"] /\ UNCHANGED <<table, cursor>>
      BY <2>6, <1>11 DEF LookUpNext, Fail, Go
    <3>2. LooksOK'
      BY <3>1, <2>5, <1>1, <1>3 DEF LooksOK
    <3>3. TextOK'
      <4>1. lines \in {<<>>, Page} => \A q \in Proc : thread'[q].in = FALSE
        BY <2>2, <2>5, <1>1, <1>4 DEF TextOK
      <4>2. \A q \in Proc : pc'[q] = IF q = p THEN "exit" ELSE pc[q]
        BY <3>1, <1>1 DEF PlacesOK
      <4>3. pc[Main] \in {"exit_success", "join_success"} => pc'[Main] = pc[Main]
        BY <4>2, <1>2
      <4> QED
        BY <3>1, <4>1, <4>3, <1>1, <1>3 DEF TextOK
    <3>4. lines # <<>> /\ \A q \in Proc : q # p => thread'[q] = thread[q]
      BY <2>5, <1>4
    <3>5. ~(lines = UnicodeData /\ p = Main)
      BY <2>3, <2>6
    <3> QED
      BY <3>1, <3>2, <3>3, <3>4, <3>5, <1>2, <1>3, <1>5, FailKeeps
  <2>7. CASE a.ok
    <3>1. /\ pc' = pc /\ table' = [table EXCEPT ![cp] = a.cat]
          /\ cursor' = [cursor EXCEPT ![p] = cp + 1]
      BY <2>7, <1>11 DEF LookUpNext
    <3>2. /\ \A q \in Proc : cursor'[q] = IF q = p THEN cp + 1 ELSE cursor[q]
          /\ \A c \in CodePoint : table'[c] = IF c = cp THEN a.cat ELSE table[c]
      BY <3>1, <2>1, <1>1 DEF LooksOK
    <3>3. LooksOK'
      <4>1. table' \in [CodePoint -> Category \cup {"unset"}]
        BY <3>1, <2>2, <1>1 DEF LooksOK
      <4>2. cursor' \in [Proc -> Nat]
        BY <3>1, <1>1, <1>4 DEF LooksOK
      <4> QED
        BY <4>1, <4>2, <2>5, <1>3, <1>4 DEF LooksOK
    <3>4. PlacesOK' /\ JobsOK' /\ OnceOK'
      BY <3>1, <1>1, <1>3 DEF PlacesOK, JobsOK, OnceOK, Worker
    <3>5. LinesOK'
      BY <3>1, <1>1, <1>3, <1>4 DEF LinesOK
    <3>6. pc[Main] # "parse" => thread'[Main] = thread[Main] /\ cursor'[Main] = cursor[Main]
      BY <3>2, <2>5, <1>2
    <3>7. ListsOK'
      <4>1. pc[Main] # "parse" => EnqueuePhase' = EnqueuePhase
        BY <3>6, <1>3, <1>8 DEF EnqueuePhase
      <4> QED
        BY <4>1, <3>1, <3>6, <1>1, <1>3, <1>9 DEF ListsOK
    <3>8. PhasesOK'
      BY <3>1, <1>1, <1>3, <1>8 DEF PhasesOK, BeforeDumps
    <3>9. \A c \in CodePoint : table[c] # "unset" => table'[c] # "unset"
      BY <3>2, <2>2, Categories
    <3>10. \A k, e : SetBelow(k, e) => SetBelow(k, e)'
      BY <3>9, <1>3 DEF SetBelow
    <3>11. SetBelow(i, cp + 1)'
      BY <3>2, <3>9, <2>1, <2>2, <1>3, <1>4, Categories DEF SetBelow, CodePoint
    <3>12. \A k : ChunkSet(k) => ChunkSet(k)'
      BY <3>9, <1>3 DEF ChunkSet, SetBelow
    <3>13. TableOK'
      <4>1. ASSUME NEW q \in Proc, pc'[q] = "parse"
            PROVE  /\ ChunkFirst(thread_count', job'[q][2]) <= cursor'[q]
                   /\ \A c \in CodePoint :
                        ChunkFirst(thread_count', job'[q][2]) <= c /\ c < cursor'[q] => table'[c] # "unset"
        <5>1. CASE q = p
          <6>1. cursor'[q] = cp + 1 /\ job'[q][2] = i /\ thread_count' = n
            BY <5>1, <3>2, <1>3
          <6>2. ChunkFirst(n, i) <= cp + 1
            <7>1. ChunkFirst(n, i) \in Nat
              BY <1>1, <1>4, ChunksAreCodePoints DEF PlacesOK
            <7> QED
              BY <7>1, <1>4
          <6>3. \A c \in CodePoint : ChunkFirst(n, i) <= c /\ c < cp + 1 => table'[c] # "unset"
            BY <3>11, <1>3 DEF SetBelow
          <6> QED
            BY <6>1, <6>2, <6>3
        <5>2. CASE q # p
          <6>1. cursor'[q] = cursor[q] /\ job'[q] = job[q] /\ thread_count' = n /\ pc[q] = "parse"
            BY <5>2, <4>1, <3>1, <3>2, <1>3
          <6>2. ChunkFirst(n, job[q][2]) <= cursor[q] /\ SetBelow(job[q][2], cursor[q])
            BY <6>1, <1>1 DEF TableOK
          <6>3. \A c \in CodePoint : ChunkFirst(n, job[q][2]) <= c /\ c < cursor[q] => table'[c] # "unset"
            BY <6>2, <3>9 DEF SetBelow
          <6> QED
            BY <6>1, <6>2, <6>3
        <5> QED
          BY <5>1, <5>2
      <4>2. ASSUME NEW q \in Proc, pc'[q] = "store", job'[q] \in Parses(thread_count')
            PROVE  (ChunkSet(job[q][2]))'
        <5>1. ChunkSet(job[q][2])
          BY <4>2, <3>1, <1>1, <1>3 DEF TableOK
        <5>2. job' = job
          BY <1>3
        <5> QED
          BY <5>1, <5>2, <3>9, <1>3 DEF ChunkSet, SetBelow
      <4>3. \A k \in 0 .. thread_count' - 1 : Parse(k) \in finished' => ChunkSet(k)'
        BY <3>12, <1>1, <1>3 DEF TableOK
      <4> QED
        BY <4>1, <4>2, <4>3 DEF TableOK, SetBelow
    <3>14. OutputOK'
      BY <1>3, <1>4 DEF OutputOK
    <3>15. DirsOK'
      <4>1. \A c : Spent(c)' = Spent(c)
        BY <3>1, <1>3 DEF Spent
      <4> QED
        BY <4>1, <3>1, <1>1, <1>3 DEF DirsOK
    <3>16. TextOK'
      <4>1. lines \notin {<<>>, Page}
        BY <2>2, <2>7, <1>1, <1>4 DEF TextOK
      <4> QED
        BY <4>1, <3>1, <1>1, <1>3 DEF TextOK
    <3>17. EndOK'
      <4>1. lines = UnicodeData /\ pc[Main] = "parse" => HintBelow(thread'[Main], cursor'[Main])
        <5>1. CASE p = Main
          BY <5>1, <3>2, <2>3, <2>5, <1>2
        <5>2. CASE p # Main
          <6>1. thread'[Main] = thread[Main] /\ cursor'[Main] = cursor[Main]
            BY <5>2, <3>2, <2>5, <1>2
          <6> QED
            BY <6>1, <1>1 DEF EndOK
        <5> QED
          BY <5>1, <5>2
      <4> QED
        BY <4>1, <3>1, <1>1, <1>3, <1>8 DEF EndOK
    <3> QED
      BY <1>5, <3>3, <3>4, <3>5, <3>7, <3>8, <3>13, <3>14, <3>15, <3>16, <3>17
      DEF IInv, WorkOK, ResultOK
  <2> QED
    BY <2>2, <2>6, <2>7
<1> QED
  BY <1>10, <1>11


\* A worker reports its task, and is idle then.
LEMMA ReportKeeps ==
  ASSUME IInv, NEW w \in Worker, StoreDone(w) \/ Broadcast(w)
  PROVE  IInv'
<1>1. /\ PlacesOK /\ DiskOK /\ LooksOK /\ FilesOK
      /\ JobsOK /\ LinesOK /\ OnceOK /\ ListsOK /\ PhasesOK
      /\ TableOK /\ OutputOK /\ DirsOK /\ TextOK /\ EndOK
  BY DEF IInv, WorkOK, ResultOK
<1> PICK n \in Nat : n = thread_count
  BY <1>1, ProcIs
<1> PICK t : t = job[w]
  OBVIOUS
<1> PICK x : x = pc'[w]
  OBVIOUS
<1> PICK j0 : j0 = job'[w]
  OBVIOUS
<1>2. UNCHANGED <<thread_count, option, lines, thread, cursor, table, task_queue, to_enqueue,
                  to_wait, oks, files, cache, torn, runs, status, freed, shutdown, mtx,
                  exe, exe_known, out_dir, dir_known, exiting>>
  BY DEF StoreDone, Broadcast, disk, options, look, pool, main, dirs, output
<1>3. w \in Proc /\ w # Main /\ Main \in Proc /\ n >= 1 /\ waiting' \subseteq Proc
  BY <1>1, ProcIs DEF StoreDone, Broadcast, DiskOK, pool
<1>4. /\ pc' = [pc EXCEPT ![w] = x] /\ job' = [job EXCEPT ![w] = j0]
      /\ \/ pc[w] = "store" /\ x = "broadcast" /\ j0 = t /\ finished' = finished \cup {t}
         \/ pc[w] = "broadcast" /\ x = "idle" /\ j0 = NoTask /\ finished' = finished
  <2>1. CASE StoreDone(w)
    BY <2>1, <1>1, <1>3 DEF StoreDone, Go, PlacesOK, JobsOK
  <2>2. CASE Broadcast(w)
    BY <2>2, <1>1, <1>3 DEF Broadcast, Go, PlacesOK, JobsOK
  <2> QED
    BY <2>1, <2>2
<1>5. /\ \A q \in Proc : pc'[q] = IF q = w THEN x ELSE pc[q]
      /\ \A q \in Proc : job'[q] = IF q = w THEN j0 ELSE job[q]
  BY <1>1, <1>4 DEF PlacesOK, JobsOK
<1>6. /\ t \in Parses(n) \cup Dumps /\ t # NoTask /\ t # Parse(0) /\ lines # <<>>
      /\ NoTask \notin Parses(n) /\ NoTask \notin Dumps /\ NoTask # Parse(0)
  <2>1. t \in Parses(n) \cup Dumps /\ t # Parse(0)
    BY <1>1, <1>3, <1>4 DEF JobsOK
  <2>2. lines # <<>>
    BY <1>1, <1>3, <1>4 DEF LinesOK
  <2>3. NoTask \notin Parses(n) /\ NoTask \notin Dumps /\ Parse(0) \in Parses(n)
    BY <1>3, KindsDiffer, ParsesAre
  <2> QED
    BY <2>1, <2>2, <2>3
<1>7. finished \subseteq finished' /\ finished' \subseteq finished \cup {t}
  BY <1>4
<1>8. /\ pc'[Main] = pc[Main] /\ job'[Main] = job[Main]
      /\ \A p \in Proc : pc'[p] \in Dumping \cup {"parse", "store"} => pc'[p] = pc[p] /\ job'[p] = job[p]
  BY <1>3, <1>4, <1>5 DEF Dumping
<1> HIDE DEF IInv
<1>9. PlacesOK'
  BY <1>1, <1>2, <1>3, <1>4, MovePlaces DEF WorkerPlace
<1>10. DiskOK' /\ LooksOK' /\ FilesOK'
  BY <1>1, <1>2, <1>3 DEF DiskOK, LooksOK, FilesOK
<1>11. JobsOK'
  <2>1. job' \in [Proc -> Parses(n) \cup Dumps \cup {NoTask}]
    BY <1>1, <1>4, <1>6 DEF JobsOK
  <2>2. \A q \in Proc : /\ pc'[q] = "parse" => job'[q] \in Parses(n)
                        /\ pc'[q] \in {"store", "broadcast"} => job'[q] \in Parses(n) \cup Dumps
                        /\ pc'[q] \in Dumping => job'[q] \in Dumps
    BY <1>1, <1>4, <1>5, <1>6 DEF JobsOK, Dumping
  <2>3. \A q \in Proc : pc'[q] \in Resting => job'[q] = NoTask
    BY <1>1, <1>4, <1>5 DEF JobsOK, Resting, Reading
  <2>4. /\ pc'[Main] \in {"parse", "store"} => job'[Main] = Parse(0)
        /\ \A v \in Proc \ {Main} : job'[v] # Parse(0)
    BY <1>1, <1>4, <1>5, <1>6, <1>8 DEF JobsOK
  <2> QED
    BY <2>1, <2>2, <2>3, <2>4, <1>2 DEF JobsOK
<1>12. LinesOK'
  BY <1>1, <1>2, <1>6, <1>8 DEF LinesOK
<1>13. OnceOK'
  <2>1. /\ task_queue' \in Seq(PoolParses(n) \cup Dumps) /\ to_enqueue' \in Seq(PoolParses(n) \cup Dumps)
        /\ finished' \subseteq Parses(n) \cup Dumps
        /\ \A j, k \in DOMAIN task_queue' : task_queue'[j] = task_queue'[k] => j = k
        /\ \A j, k \in DOMAIN to_enqueue' : to_enqueue'[j] = to_enqueue'[k] => j = k
        /\ \A j \in DOMAIN task_queue', k \in DOMAIN to_enqueue' : task_queue'[j] # to_enqueue'[k]
    BY <1>1, <1>2, <1>6, <1>7 DEF OnceOK
  <2>2. /\ \A p, q \in Proc : job[p] = job[q] /\ job[p] # NoTask => p = q
        /\ \A p \in Proc : \A j \in DOMAIN task_queue : task_queue[j] # job[p]
        /\ \A p \in Proc : \A k \in DOMAIN to_enqueue : to_enqueue[k] # job[p]
        /\ \A j \in DOMAIN task_queue : task_queue[j] \notin finished
        /\ \A k \in DOMAIN to_enqueue : to_enqueue[k] \notin finished
        /\ \A p \in Proc : job[p] \in finished => pc[p] = "broadcast"
        /\ NoTask \notin finished
    BY <1>1, <1>6 DEF OnceOK
  <2>3. \A p, q \in Proc : job'[p] = job'[q] /\ job'[p] # NoTask => p = q
    BY <2>2, <1>4, <1>5
  <2>4. /\ \A j \in DOMAIN task_queue : task_queue[j] # NoTask
        /\ \A k \in DOMAIN to_enqueue : to_enqueue[k] # NoTask
    <3>1. NoTask \notin PoolParses(n) \cup Dumps
      BY <1>6, KindsDiffer
    <3>2. /\ \A j \in DOMAIN task_queue : task_queue[j] \in PoolParses(n) \cup Dumps
          /\ \A k \in DOMAIN to_enqueue : to_enqueue[k] \in PoolParses(n) \cup Dumps
      BY <1>1 DEF OnceOK
    <3> QED
      BY <3>1, <3>2
  <2>5. /\ \A p \in Proc : \A j \in DOMAIN task_queue' : task_queue'[j] # job'[p]
        /\ \A p \in Proc : \A k \in DOMAIN to_enqueue' : to_enqueue'[k] # job'[p]
    BY <2>2, <2>4, <1>2, <1>4, <1>5
  <2>6. /\ \A j \in DOMAIN task_queue' : task_queue'[j] \notin finished'
        /\ \A k \in DOMAIN to_enqueue' : to_enqueue'[k] \notin finished'
    BY <2>2, <1>2, <1>3, <1>7
  <2>7. \A p \in Proc : job'[p] \in finished' => pc'[p] = "broadcast"
    <3>1. ASSUME NEW p \in Proc, job'[p] \in finished'
          PROVE  pc'[p] = "broadcast"
      <4>1. CASE p = w
        BY <4>1, <3>1, <2>2, <1>4, <1>5
      <4>2. CASE p # w
        <5>1. job'[p] = job[p] /\ pc'[p] = pc[p] /\ (job[p] # t \/ job[p] = NoTask)
          BY <4>2, <2>2, <1>3, <1>5
        <5>2. job[p] \in finished
          BY <3>1, <4>2, <5>1, <2>2, <1>5, <1>6, <1>7
        <5> QED
          BY <4>2, <5>2, <2>2, <1>5
      <4> QED
        BY <4>1, <4>2
    <3> QED
      BY <3>1
  <2> QED
    BY <2>1, <2>3, <2>5, <2>6, <2>7, <1>2 DEF OnceOK
<1>14. /\ WaitsParse => WaitsParse'
       /\ WaitsDump => WaitsDump'
       /\ EnqueuesParse => EnqueuesParse'
       /\ EnqueuesDump => EnqueuesDump'
       /\ AllParsed => AllParsed'
       /\ AllDumped => AllDumped'
       /\ WaitsParse' => to_wait # <<>> /\ \A j \in DOMAIN to_wait : to_wait[j] = Parse(n - Len(to_wait) + j - 1)
  BY <1>2, <1>7 DEF WaitsParse, WaitsDump, EnqueuesParse, EnqueuesDump, AllParsed, AllDumped
<1>15. Parse(0) \notin finished => Parse(0) \notin finished'
  BY <1>6, <1>7
<1>16. ListsOK'
  <2>1. EnqueuePhase => EnqueuePhase'
    BY <1>2, <1>14, <1>15 DEF EnqueuePhase
  <2>2. OwnPhase => OwnPhase'
    BY <1>2, <1>14, <1>15 DEF OwnPhase
  <2>3. WaitPhase => WaitPhase'
    BY <1>2, <1>14 DEF WaitPhase
  <2>4. DumpPhase => DumpPhase'
    BY <1>2, <1>8, <1>14 DEF DumpPhase
  <2> QED
    BY <2>1, <2>2, <2>3, <2>4, <1>1, <1>2, <1>8 DEF ListsOK
<1>17. PhasesOK'
  <2>1. NoDumps => NoDumps'
    <3>1. ASSUME NoDumps
          PROVE  NoDumps'
      <4>1. t \notin Dumps /\ j0 \notin Dumps
        BY <3>1, <1>3, <1>4, <1>6 DEF NoDumps
      <4>2. \A p \in Proc : job'[p] \notin Dumps
        BY <3>1, <4>1, <1>5 DEF NoDumps
      <4>3. finished' \cap Dumps = {}
        BY <3>1, <4>1, <1>7 DEF NoDumps
      <4> QED
        BY <3>1, <4>2, <4>3, <1>2 DEF NoDumps
    <3> QED
      BY <3>1
  <2>2. BeforeDumps' /\ pc[Main] \in Reading \cup {"own", "parse", "store"} => BeforeDumps
    BY DEF BeforeDumps
  <2>3. BeforeDumps' /\ pc[Main] \in {"enqueue", "wait", "cnd_wait"} => BeforeDumps
    <3>1. ASSUME WaitsParse', pc[Main] \in {"enqueue", "wait", "cnd_wait"}
          PROVE  WaitsParse
      <4>1. to_wait # <<>> /\ \A j \in DOMAIN to_wait : to_wait[j] = Parse(n - Len(to_wait) + j - 1)
        BY <3>1, <1>14
      <4>2. to_wait \in Seq(Parses(n) \cup Dumps) /\ 1 \in DOMAIN to_wait
        BY <4>1, <1>1 DEF ListsOK
      <4>3. to_wait[1] \notin Dumps
        BY <4>1, <4>2, <1>3, KindsDiffer
      <4>4. ~WaitsDump
        <5>1. ASSUME WaitsDump
              PROVE  FALSE
          <6>1. to_wait[1] = Dump(Cats[Len(Cats) - Len(to_wait) + 1]) /\ Len(to_wait) <= Len(Cats)
            BY <5>1, <4>2 DEF WaitsDump
          <6>2. Len(Cats) - Len(to_wait) + 1 \in 1 .. Len(Cats)
            BY <6>1, <4>1, <4>2, CatsAre
          <6> QED
            BY <6>1, <6>2, <4>3, CatsAre, DumpsAre
        <5> QED
          BY <5>1
      <4> QED
        BY <3>1, <4>4, <1>1 DEF ListsOK, EnqueuePhase, WaitPhase
    <3> QED
      BY <3>1, <1>8 DEF BeforeDumps, Reading
  <2>4. BeforeDumps' => BeforeDumps
    BY <2>2, <2>3, <1>8 DEF BeforeDumps
  <2> QED
    BY <2>1, <2>4, <1>1, <1>2, <1>14 DEF PhasesOK
<1>18. TableOK'
  <2>1. \A i \in 0 .. n - 1 : Parse(i) \in finished' => ChunkSet(i)
    <3>1. ASSUME NEW i \in 0 .. n - 1, Parse(i) \in finished', Parse(i) \notin finished
          PROVE  ChunkSet(i)
      <4>1. Parse(i) = t /\ pc[w] = "store"
        BY <3>1, <1>4
      <4>2. t \in Parses(n) /\ t[2] = i
        BY <4>1, ParsesAre, TaskNames
      <4> QED
        BY <4>1, <4>2, <1>1, <1>3 DEF TableOK
    <3> QED
      BY <3>1, <1>1 DEF TableOK
  <2> QED
    BY <2>1, <1>1, <1>2, <1>8 DEF TableOK, ChunkSet, SetBelow
<1>19. \A c : Spent(c) => Spent(c)'
  BY <1>2, <1>8 DEF Spent
<1>20. OutputOK'
  <2>1. \A c : FileOf(c)' = FileOf(c)
    BY <1>2 DEF FileOf, Buffer
  <2> QED
    BY <2>1, <1>1, <1>2, <1>14, <1>19 DEF OutputOK
<1>21. DirsOK'
  <2>1. \A p \in Proc : pc'[p] \in DirPlace => pc'[p] = pc[p]
    BY <1>8 DEF DirPlace, Dumping
  <2>2. \A p \in Proc : pc[p] = "open" => pc'[p] = "open"
    BY <1>4, <1>5
  <2>3. out_dir = "full" => \/ \E p \in Proc : pc'[p] = "open"
                            \/ \E c \in ToSet(Cats) : ~oks'[c] /\ Spent(c)'
    BY <2>2, <1>1, <1>2, <1>19 DEF DirsOK
  <2> QED
    BY <2>1, <2>3, <1>1, <1>2, DirsStay
<1>22. TextOK'
  BY <1>1, <1>2, <1>8, TextStays
<1>23. EndOK'
  BY <1>1, <1>2, <1>8, <1>14 DEF EndOK
<1> QED
  BY <1>9, <1>10, <1>11, <1>12, <1>13, <1>16, <1>17, <1>18, <1>20, <1>21, <1>22, <1>23
  DEF IInv, WorkOK, ResultOK

(***************************************************************************)
(* The files                                                               *)
(***************************************************************************)

\* The tail of a sequence holds its elements but the first.
LEMMA TailIs ==
  ASSUME NEW S, NEW e \in Seq(S), e # <<>>
  PROVE  /\ Len(e) \in Nat /\ Len(e) >= 1 /\ DOMAIN e = 1 .. Len(e)
         /\ Head(e) = e[1] /\ 1 \in DOMAIN e
         /\ Tail(e) \in Seq(S) /\ Len(Tail(e)) = Len(e) - 1 /\ DOMAIN Tail(e) = 1 .. Len(e) - 1
         /\ \A k \in DOMAIN Tail(e) : k + 1 \in DOMAIN e /\ Tail(e)[k] = e[k + 1]
<1>1. Len(e) \in Nat /\ Len(e) >= 1 /\ DOMAIN e = 1 .. Len(e)
  OBVIOUS
<1>2. Tail(e) \in Seq(S) /\ Len(Tail(e)) = Len(e) - 1 /\ DOMAIN Tail(e) = 1 .. Len(e) - 1
  BY <1>1
<1>3. \A k \in 1 .. Len(e) - 1 : k + 1 \in 1 .. Len(e)
  BY <1>1
<1>4. \A k \in 1 .. Len(e) - 1 : Tail(e)[k] = e[k + 1]
  BY <1>1
<1>5. Head(e) = e[1] /\ 1 \in DOMAIN e
  BY <1>1
<1> QED
  BY <1>1, <1>2, <1>3, <1>4, <1>5

FileState == [state : {"none", "open", "cut", "written"}, cps : SUBSET CodePoint]

\* The states of a file.
LEMMA FileOfIs ==
  /\ \A c : FileOf(c) \in FileState
  /\ [NoFile EXCEPT !.state = "open"] \in FileState /\ CutFile \in FileState
BY DEF FileState, FileOf, NoFile, CutFile

\* Less is left of a list when its head is taken.
LEMMA TailDiffers ==
  ASSUME NEW S, NEW e \in Seq(S), e # <<>>
  PROVE  Tail(e) # e
<1>1. Len(Tail(e)) = Len(e) - 1 /\ Len(e) \in Nat
  OBVIOUS
<1>2. Len(Tail(e)) # Len(e)
  <2> PICK n \in Nat : n = Len(e)
    BY <1>1
  <2> QED
    BY <1>1
<1> QED
  BY <1>2, Zenon

\* A process opens its file; a worker is done with it, well or not; main, when it wrote its
\* file well, is at the end or goes on with the next.
LEMMA FileKeeps ==
  ASSUME IInv, NEW p \in Proc, pc[p] \in {"open", "write"},
         NEW ok \in BOOLEAN, NEW f \in FileState, NEW x, NEW j0,
         pc' = [pc EXCEPT ![p] = x], job' = [job EXCEPT ![p] = j0],
         oks' = [oks EXCEPT ![job[p][2]] = ok], files' = [files EXCEPT ![job[p][2]] = f],
         ok => f \in {FileOf(job[p][2]), CutFile} /\ pc[p] = "write",
         UNCHANGED <<disk, options, status, look, pool, to_wait, finished, dirs, exiting>>,
         \/ p # Main /\ x = "store" /\ j0 = job[p] /\ to_enqueue' = to_enqueue
         \/ /\ x = "write" /\ pc[p] = "open" /\ ~ok /\ out_dir # "full"
            /\ j0 = job[p] /\ to_enqueue' = to_enqueue
         \/ /\ p = Main /\ ok /\ x = "exit_success" /\ to_enqueue = <<>>
            /\ j0 = job[p] /\ to_enqueue' = to_enqueue
         \/ /\ p = Main /\ ok /\ x = "dir" /\ to_enqueue # <<>>
            /\ j0 = Head(to_enqueue) /\ to_enqueue' = Tail(to_enqueue)
  PROVE  IInv'
<1>1. /\ PlacesOK /\ DiskOK /\ LooksOK /\ FilesOK
      /\ JobsOK /\ LinesOK /\ OnceOK /\ ListsOK /\ PhasesOK
      /\ TableOK /\ OutputOK /\ DirsOK /\ TextOK /\ EndOK
  BY DEF IInv, WorkOK, ResultOK
<1> PICK n \in Nat : n = thread_count
  BY <1>1, ProcIs
<1> PICK t : t = job[p]
  OBVIOUS
<1> PICK c : c = t[2]
  OBVIOUS
<1>2. UNCHANGED <<thread_count, option, lines, thread, cursor, table, task_queue,
                  to_wait, finished, cache, torn, runs, status, freed, shutdown, mtx, waiting,
                  exe, exe_known, out_dir, dir_known, exiting>>
  BY DEF disk, options, look, pool, dirs
<1>3. /\ c \in ToSet(Cats) /\ t = Dump(c) /\ t \in Dumps /\ t # NoTask
      /\ ~oks[c] /\ ~BeforeDumps /\ AllParsed /\ lines # <<>> /\ t \notin finished
      /\ \A j \in DOMAIN task_queue : task_queue[j] # t
      /\ \A k \in DOMAIN to_enqueue : to_enqueue[k] # t
      /\ \A q \in Proc : job[q] = t => q = p
  BY OwnFile DEF Dumping
<1>4. /\ \A q \in Proc : pc'[q] = IF q = p THEN x ELSE pc[q]
      /\ \A q \in Proc : job'[q] = IF q = p THEN j0 ELSE job[q]
      /\ \A d \in ToSet(Cats) : oks'[d] = IF d = c THEN ok ELSE oks[d]
      /\ \A d \in ToSet(Cats) : files'[d] = IF d = c THEN f ELSE files[d]
  BY <1>1, <1>3 DEF PlacesOK, JobsOK, FilesOK
<1>5. /\ Main \in Proc /\ n >= 1 /\ pc[p] \in Dumping /\ dir_known
      /\ p # Main => p \in Worker /\ n > 1
      /\ n = 1 <=> p = Main
  <2>1. p # Main => p \in Worker /\ n > 1
    BY <1>1, WorkerMoves DEF Worker
  <2>2. p = Main => n = 1
    BY <1>1 DEF ListsOK, DumpPhase, Dumping
  <2> QED
    BY <2>1, <2>2, <1>1, ProcIs DEF Dumping, DirsOK
<1>6. p # Main => pc[Main] \notin Dumping \cup {"exit_success", "join_success"} /\ x \in {"store", "write"}
  BY <1>1, <1>3, <1>5 DEF ListsOK, DumpPhase
\* The next file of main.
<1>7. to_enqueue' # to_enqueue =>
        /\ p = Main /\ ok /\ x = "dir" /\ j0 \in Dumps /\ j0 # t
        /\ j0 = to_enqueue[1] /\ 1 \in DOMAIN to_enqueue
        /\ Len(to_enqueue) \in Nat /\ Len(to_enqueue) >= 1 /\ DOMAIN to_enqueue = 1 .. Len(to_enqueue)
        /\ Len(to_enqueue') = Len(to_enqueue) - 1 /\ DOMAIN to_enqueue' = 1 .. Len(to_enqueue) - 1
        /\ \A k \in DOMAIN to_enqueue' : k + 1 \in DOMAIN to_enqueue /\ to_enqueue'[k] = to_enqueue[k + 1]
        /\ to_enqueue' \in Seq(PoolParses(n) \cup Dumps)
        /\ DumpPhase /\ n = 1
  <2> SUFFICES ASSUME to_enqueue' # to_enqueue
               PROVE  /\ p = Main /\ ok /\ x = "dir" /\ j0 \in Dumps /\ j0 # t
                      /\ j0 = to_enqueue[1] /\ 1 \in DOMAIN to_enqueue
                      /\ Len(to_enqueue) \in Nat /\ Len(to_enqueue) >= 1
                      /\ DOMAIN to_enqueue = 1 .. Len(to_enqueue)
                      /\ Len(to_enqueue') = Len(to_enqueue) - 1
                      /\ DOMAIN to_enqueue' = 1 .. Len(to_enqueue) - 1
                      /\ \A k \in DOMAIN to_enqueue' :
                           k + 1 \in DOMAIN to_enqueue /\ to_enqueue'[k] = to_enqueue[k + 1]
                      /\ to_enqueue' \in Seq(PoolParses(n) \cup Dumps)
                      /\ DumpPhase /\ n = 1
    OBVIOUS
  <2>1. p = Main /\ ok /\ x = "dir" /\ to_enqueue # <<>> /\ j0 = Head(to_enqueue) /\ to_enqueue' = Tail(to_enqueue)
    OBVIOUS
  <2>2. DumpPhase /\ n = 1
    BY <2>1, <1>1, <1>5 DEF ListsOK
  <2>3. to_enqueue \in Seq(PoolParses(n) \cup Dumps)
    BY <1>1 DEF OnceOK
  <2>4. Len(to_enqueue) \in Nat /\ Len(to_enqueue) >= 1 /\ DOMAIN to_enqueue = 1 .. Len(to_enqueue)
    BY <2>1, <2>3
  <2>5. /\ Len(to_enqueue') = Len(to_enqueue) - 1 /\ DOMAIN to_enqueue' = 1 .. Len(to_enqueue) - 1
        /\ \A k \in DOMAIN to_enqueue' : k + 1 \in DOMAIN to_enqueue /\ to_enqueue'[k] = to_enqueue[k + 1]
        /\ to_enqueue' \in Seq(PoolParses(n) \cup Dumps)
    BY <2>1, <2>3, TailIs
  <2>6. j0 = to_enqueue[1] /\ 1 \in DOMAIN to_enqueue
    BY <2>1, <2>3, TailIs
  <2>7. j0 # t
    BY <2>6, <1>3
  <2>8. j0 \in Dumps
    <3>1. j0 = Dump(Cats[Len(Cats) - Len(to_enqueue) + 1]) /\ Len(to_enqueue) <= Len(Cats)
      BY <2>2, <2>6 DEF DumpPhase, EnqueuesDump
    <3>2. Len(Cats) - Len(to_enqueue) + 1 \in 1 .. Len(Cats)
      BY <3>1, <2>4, CatsAre
    <3> QED
      BY <3>1, <3>2, CatsAre, DumpsAre
  <2> QED
    BY <2>1, <2>2, <2>4, <2>5, <2>6, <2>7, <2>8
<1>8. to_enqueue' = to_enqueue => j0 = t
  BY <1>7
<1>9. j0 \in Dumps /\ (x \in {"store", "write", "dir", "exit_success"})
  BY <1>3, <1>7, <1>8
<1> HIDE DEF IInv
<1>10. PlacesOK'
  <2>1. p = Main => x \in MainPlace /\ exiting # Main
    BY <1>1, <1>5 DEF PlacesOK, MainPlace, Dumping, Ending
  <2>2. p # Main => p \in Worker /\ x \in WorkerPlace
    BY <1>5, <1>6 DEF WorkerPlace, Dumping
  <2> QED
    BY <2>1, <2>2, <1>1, <1>2, MovePlaces
<1>11. DiskOK' /\ LooksOK'
  BY <1>1, <1>2 DEF DiskOK, LooksOK
<1>12. FilesOK'
  BY <1>1, <1>3 DEF FilesOK, FileState
<1>13. JobsOK'
  <2>1. job' \in [Proc -> Parses(n) \cup Dumps \cup {NoTask}]
    BY <1>1, <1>9 DEF JobsOK
  <2>2. \A q \in Proc : /\ pc'[q] = "parse" => job'[q] \in Parses(n)
                        /\ pc'[q] \in {"store", "broadcast"} => job'[q] \in Parses(n) \cup Dumps
                        /\ pc'[q] \in Dumping => job'[q] \in Dumps
                        /\ pc'[q] \in Resting => job'[q] = NoTask
    BY <1>1, <1>4, <1>9 DEF JobsOK, Resting, Reading
  <2>3. j0 # Parse(0)
    BY <1>9, KindsDiffer
  <2>4. pc'[Main] \in {"parse", "store"} => job'[Main] = Parse(0)
    BY <1>1, <1>4, <1>5 DEF JobsOK
  <2>5. \A w \in Proc \ {Main} : job'[w] # Parse(0)
    BY <2>3, <1>1, <1>4 DEF JobsOK
  <2> QED
    BY <2>1, <2>2, <2>4, <2>5, <1>2 DEF JobsOK
<1>14. LinesOK'
  <2>1. pc'[Main] \notin Reading
    BY <1>1, <1>3, <1>4, <1>9 DEF LinesOK, Reading
  <2> QED
    BY <2>1, <1>2, <1>3 DEF LinesOK
<1>15. OnceOK'
  <2>1. OnceOK
    BY <1>1
  <2>2. to_enqueue' \in Seq(PoolParses(n) \cup Dumps)
    BY <2>1, <1>7 DEF OnceOK
  <2>3. \A k \in DOMAIN to_enqueue' :
          \E m \in DOMAIN to_enqueue : to_enqueue'[k] = to_enqueue[m] /\ (to_enqueue' # to_enqueue => m # 1)
    <3>1. CASE to_enqueue' = to_enqueue
      BY <3>1
    <3>2. CASE to_enqueue' # to_enqueue
      <4>1. \A k \in DOMAIN to_enqueue' : k + 1 # 1
        BY <3>2, <1>7
      <4> QED
        BY <3>2, <4>1, <1>7
    <3> QED
      BY <3>1, <3>2
  <2>4. \A j, k \in DOMAIN to_enqueue' : to_enqueue'[j] = to_enqueue'[k] => j = k
    <3>1. CASE to_enqueue' = to_enqueue
      BY <3>1, <2>1 DEF OnceOK
    <3>2. CASE to_enqueue' # to_enqueue
      <4>1. ASSUME NEW j \in DOMAIN to_enqueue', NEW k \in DOMAIN to_enqueue', to_enqueue'[j] = to_enqueue'[k]
            PROVE  j = k
        <5>1. j + 1 = k + 1
          BY <3>2, <4>1, <2>1, <1>7 DEF OnceOK
        <5>2. j \in Int /\ k \in Int
          BY <3>2, <1>7
        <5> QED
          BY <5>1, <5>2
      <4> QED
        BY <4>1
    <3> QED
      BY <3>1, <3>2
  <2>5. \A q, r \in Proc : job'[q] = job'[r] /\ job'[q] # NoTask => q = r
    <3>1. \A q \in Proc : q # p => job[q] # j0
      BY <2>1, <1>3, <1>7, <1>8 DEF OnceOK
    <3> QED
      BY <3>1, <2>1, <1>4 DEF OnceOK
  <2>6. \A j \in DOMAIN task_queue', k \in DOMAIN to_enqueue' : task_queue'[j] # to_enqueue'[k]
    <3>1. \A j \in DOMAIN task_queue, k \in DOMAIN to_enqueue : task_queue[j] # to_enqueue[k]
      BY <2>1 DEF OnceOK
    <3> QED
      BY <3>1, <2>3, <1>2
  <2>7. \A j \in DOMAIN task_queue : task_queue[j] # j0
    <3>1. \A j \in DOMAIN task_queue, k \in DOMAIN to_enqueue : task_queue[j] # to_enqueue[k]
      BY <2>1 DEF OnceOK
    <3> QED
      BY <3>1, <1>3, <1>7, <1>8
  <2>8. \A q \in Proc : \A j \in DOMAIN task_queue' : task_queue'[j] # job'[q]
    BY <2>1, <2>7, <1>2, <1>4 DEF OnceOK
  <2>9. \A q \in Proc : \A k \in DOMAIN to_enqueue' : to_enqueue'[k] # job'[q]
    <3>1. \A q \in Proc : \A k \in DOMAIN to_enqueue : to_enqueue[k] # job[q]
      BY <2>1 DEF OnceOK
    <3>2. \A k \in DOMAIN to_enqueue' : to_enqueue'[k] # j0
      <4>1. CASE to_enqueue' = to_enqueue
        BY <4>1, <1>3, <1>8
      <4>2. CASE to_enqueue' # to_enqueue
        BY <4>2, <2>1, <2>3, <1>7 DEF OnceOK
      <4> QED
        BY <4>1, <4>2
    <3> QED
      BY <3>1, <3>2, <2>3, <1>4
  <2>10. /\ \A j \in DOMAIN task_queue' : task_queue'[j] \notin finished'
         /\ \A k \in DOMAIN to_enqueue' : to_enqueue'[k] \notin finished'
    <3>1. \A k \in DOMAIN to_enqueue : to_enqueue[k] \notin finished
      BY <2>1 DEF OnceOK
    <3> QED
      BY <3>1, <2>1, <2>3, <1>2 DEF OnceOK
  <2>11. \A q \in Proc : job'[q] \in finished' => pc'[q] = "broadcast"
    <3>1. j0 \notin finished
      BY <2>1, <1>3, <1>7, <1>8 DEF OnceOK
    <3> QED
      BY <3>1, <2>1, <1>2, <1>4 DEF OnceOK
  <2>12. /\ task_queue' \in Seq(PoolParses(n) \cup Dumps) /\ finished' \subseteq Parses(n) \cup Dumps
         /\ \A j, k \in DOMAIN task_queue' : task_queue'[j] = task_queue'[k] => j = k
    BY <2>1, <1>2 DEF OnceOK
  <2> QED
    BY <2>2, <2>4, <2>5, <2>6, <2>8, <2>9, <2>10, <2>11, <2>12, <1>2 DEF OnceOK
<1>16. /\ WaitsParse' = WaitsParse /\ WaitsDump' = WaitsDump
       /\ AllParsed' = AllParsed /\ AllDumped' = AllDumped
       /\ \A d : FileOf(d)' = FileOf(d)
  BY <1>2 DEF WaitsParse, WaitsDump, AllParsed, AllDumped, FileOf, Buffer
<1>17. ListsOK'
  <2>1. CASE p # Main
    <3>1. pc'[Main] = pc[Main] /\ job'[Main] = job[Main] /\ pc[Main] \notin Dumping \cup {"exit_success", "join_success"}
          /\ to_enqueue' = to_enqueue
      BY <2>1, <1>4, <1>5, <1>6, <1>7
    <3>2. EnqueuesParse' = EnqueuesParse /\ EnqueuesDump' = EnqueuesDump
      BY <3>1, <1>2 DEF EnqueuesParse, EnqueuesDump
    <3>3. EnqueuePhase' = EnqueuePhase /\ OwnPhase' = OwnPhase /\ WaitPhase' = WaitPhase
      BY <3>1, <3>2, <1>2, <1>16 DEF EnqueuePhase, OwnPhase, WaitPhase
    <3> QED
      BY <3>1, <3>3, <1>1, <1>2 DEF ListsOK
  <2>2. CASE p = Main
    <3>1. DumpPhase /\ n = 1 /\ job[Main] = t
      BY <2>2, <1>1, <1>5 DEF ListsOK
    <3>2. pc'[Main] = x
      BY <2>2, <1>4, <1>5
    <3>3. \A d \in ToSet(Cats) : oks[d] => oks'[d]
      BY <1>3, <1>4
    <3>4. /\ t = Dump(Cats[Len(Cats) - Len(to_enqueue)])
          /\ \A i \in 1 .. Len(Cats) - Len(to_enqueue) - 1 : oks[Cats[i]]
          /\ Len(to_enqueue) \in Nat /\ Len(to_enqueue) < Len(Cats)
      <4>1. to_enqueue \in Seq(PoolParses(n) \cup Dumps)
        BY <1>1 DEF OnceOK
      <4> QED
        BY <3>1, <4>1 DEF DumpPhase
    <3>5. Len(Cats) - Len(to_enqueue) \in 1 .. Len(Cats) /\ c = Cats[Len(Cats) - Len(to_enqueue)]
      BY <3>4, CatsAre, TaskNames
    <3>6. ASSUME ok, NEW i \in 1 .. Len(Cats) - Len(to_enqueue)
          PROVE  oks'[Cats[i]]
      <4>1. i \in 1 .. Len(Cats)
        BY <3>4, <3>6, CatsAre
      <4>2. Cats[i] \in ToSet(Cats)
        BY <4>1, CatsAre
      <4>3. CASE i = Len(Cats) - Len(to_enqueue)
        BY <4>3, <3>5, <3>6, <4>2, <1>4
      <4>4. CASE i # Len(Cats) - Len(to_enqueue)
        <5>1. i \in 1 .. Len(Cats) - Len(to_enqueue) - 1
          <6> PICK m \in Nat, l \in Nat : m = Len(to_enqueue) /\ l = Len(Cats)
            BY <3>4, CatsAre
          <6>1. i \in 1 .. l - m /\ i # l - m
            BY <4>4, <3>6
          <6>2. i \in 1 .. l - m - 1
            BY <6>1
          <6> QED
            BY <6>2
        <5> QED
          BY <5>1, <3>3, <3>4, <4>2
      <4> QED
        BY <4>3, <4>4
    <3>7. CASE x = "write"
      <4>1. to_enqueue' = to_enqueue /\ job'[Main] = t
        BY <3>7, <2>2, <1>4, <1>5, <1>7, <1>8
      <4>2. EnqueuesDump' = EnqueuesDump
        BY <4>1 DEF EnqueuesDump
      <4>3. \A i \in 1 .. Len(Cats) - Len(to_enqueue) - 1 : oks'[Cats[i]]
        <5>1. \A i \in 1 .. Len(Cats) - Len(to_enqueue) - 1 : i \in 1 .. Len(Cats)
          BY <3>4, CatsAre
        <5>2. \A i \in 1 .. Len(Cats) - Len(to_enqueue) - 1 : Cats[i] \in ToSet(Cats)
          BY <5>1, CatsAre
        <5> QED
          BY <5>2, <3>3, <3>4
      <4>4. DumpPhase'
        BY <4>1, <4>2, <4>3, <3>1, <1>2 DEF DumpPhase
      <4> QED
        BY <4>4, <3>2, <3>7, <1>1, <1>2 DEF ListsOK
    <3>8. CASE x = "exit_success"
      <4>1. ok /\ to_enqueue = <<>>
        BY <3>8, <2>2
      <4>2. \A i \in 1 .. Len(Cats) : oks'[Cats[i]]
        BY <4>1, <3>6
      <4>3. \A d \in ToSet(Cats) : oks'[d]
        BY <4>2, CatsAre
      <4> QED
        BY <4>3, <3>2, <3>8, <1>1, <1>2 DEF ListsOK, Dumping
    <3>9. CASE x = "dir"
      <4>1. ok /\ to_enqueue # <<>> /\ to_enqueue' = Tail(to_enqueue) /\ j0 = Head(to_enqueue)
        BY <3>9, <2>2
      <4>2. to_enqueue' # to_enqueue
        <5>1. to_enqueue \in Seq(PoolParses(n) \cup Dumps)
          BY <1>1 DEF OnceOK
        <5> QED
          BY <4>1, <5>1, TailDiffers
      <4> PICK m \in Nat : m = Len(to_enqueue)
        BY <3>4
      <4>3. m >= 1 /\ Len(to_enqueue') = m - 1 /\ DOMAIN to_enqueue' = 1 .. m - 1 /\ m < Len(Cats)
        BY <4>2, <3>4, <1>7
      <4>4. Len(Cats) - (m - 1) = Len(Cats) - m + 1 /\ Len(Cats) - (m - 1) - 1 = Len(Cats) - m
        BY <4>3, CatsAre
      <4>5. \A k \in 1 .. m : to_enqueue[k] = Dump(Cats[Len(Cats) - m + k])
        BY <3>1, <4>2, <1>7 DEF DumpPhase, EnqueuesDump
      <4>6. \A k \in DOMAIN to_enqueue' : to_enqueue'[k] = Dump(Cats[Len(Cats) - Len(to_enqueue') + k])
        <5>1. ASSUME NEW k \in 1 .. m - 1
              PROVE  to_enqueue'[k] = Dump(Cats[Len(Cats) - (m - 1) + k])
          <6>1. k + 1 \in 1 .. m /\ Len(Cats) - m + (k + 1) = Len(Cats) - (m - 1) + k
            BY <4>3, CatsAre
          <6>2. to_enqueue'[k] = to_enqueue[k + 1]
            BY <4>2, <4>3, <1>7
          <6> QED
            BY <6>1, <6>2, <4>5
        <5> QED
          BY <5>1, <4>3
      <4>7. EnqueuesDump' /\ Len(to_enqueue') < Len(Cats)
        <5>1. Len(to_enqueue') < Len(Cats)
          BY <4>3, CatsAre
        <5> QED
          BY <4>6, <5>1, CatsAre DEF EnqueuesDump
      <4>8. job'[Main] = Dump(Cats[Len(Cats) - Len(to_enqueue')])
        <5>1. job'[Main] = to_enqueue[1] /\ 1 \in 1 .. m
          BY <2>2, <4>2, <4>3, <1>4, <1>5, <1>7
        <5> QED
          BY <5>1, <4>3, <4>4, <4>5
      <4>9. \A i \in 1 .. Len(Cats) - Len(to_enqueue') - 1 : oks'[Cats[i]]
        BY <4>1, <4>3, <4>4, <3>6
      <4>10. DumpPhase'
        BY <4>7, <4>8, <4>9, <3>1, <1>2 DEF DumpPhase
      <4> QED
        BY <4>10, <3>2, <3>9, <1>1, <1>2 DEF ListsOK
    <3> QED
      BY <2>2, <3>7, <3>8, <3>9
  <2> QED
    BY <2>1, <2>2
<1>18. PhasesOK'
  <2>1. BeforeDumps' => BeforeDumps
    <3>1. pc'[Main] = pc[Main] \/ pc'[Main] \in {"write", "dir", "exit_success"}
      BY <1>4, <1>5
    <3> QED
      BY <3>1, <1>16 DEF BeforeDumps, Reading
  <2> QED
    BY <2>1, <1>3, <1>16 DEF PhasesOK
<1>19. TableOK'
  <2>1. \A q \in Proc : pc'[q] = "parse" => pc[q] = "parse" /\ job'[q] = job[q]
    BY <1>4, <1>9
  <2>2. \A q \in Proc : pc'[q] = "store" /\ job'[q] \in Parses(n) => pc[q] = "store" /\ job'[q] = job[q]
    <3>1. j0 \notin Parses(n)
      BY <1>9, KindsDiffer
    <3> QED
      BY <3>1, <1>4
  <2> QED
    BY <2>1, <2>2, <1>1, <1>2 DEF TableOK, ChunkSet, SetBelow
<1>20. ASSUME NEW d, Spent(d), d # c
       PROVE  Spent(d)'
  <2>1. \A k \in DOMAIN to_enqueue' : to_enqueue'[k] # Dump(d)
    BY <1>7, <1>20 DEF Spent
  <2>2. j0 # Dump(d)
    <3>1. t # Dump(d)
      BY <1>3, <1>20, TaskNames
    <3> QED
      BY <3>1, <1>7, <1>8, <1>20 DEF Spent
  <2> QED
    BY <2>1, <2>2, <1>2, <1>4, <1>20 DEF Spent
<1>21. ~Spent(c)
  BY <1>3, <1>5 DEF Spent
<1>22. x # "write" => Spent(c)'
  <2>1. ASSUME x # "write"
        PROVE  Spent(c)'
    <3>1. \A k \in DOMAIN to_enqueue' : to_enqueue'[k] # Dump(c)
      BY <1>3, <1>7
    <3>2. ASSUME NEW q \in Proc, job'[q] = Dump(c)
          PROVE  pc'[q] \notin Dumping
      <4>1. q = p
        BY <3>2, <1>3, <1>4
      <4>2. j0 = t
        BY <3>2, <4>1, <1>3, <1>4
      <4>3. x # "dir"
        <5>1. x = "dir" => j0 = Head(to_enqueue) /\ to_enqueue # <<>>
          OBVIOUS
        <5>2. to_enqueue \in Seq(PoolParses(n) \cup Dumps)
          BY <1>1 DEF OnceOK
        <5>3. to_enqueue # <<>> => 1 \in DOMAIN to_enqueue /\ Head(to_enqueue) = to_enqueue[1]
          BY <5>2
        <5> QED
          BY <4>2, <5>1, <5>3, <1>3
      <4> QED
        BY <2>1, <4>1, <4>3, <1>4, <1>9 DEF Dumping
    <3> QED
      BY <3>1, <3>2, <1>2, <1>3 DEF Spent
  <2> QED
    BY <2>1
<1>23. OutputOK'
  <2>1. ASSUME NEW d \in ToSet(Cats), oks'[d]
        PROVE  AllParsed' /\ Spent(d)' /\ files'[d] \in {FileOf(d), CutFile} /\ dir_known'
    <3>1. CASE d = c
      <4>1. ok /\ f \in {FileOf(c), CutFile}
        BY <2>1, <3>1, <1>3, <1>4
      <4> QED
        BY <3>1, <4>1, <1>2, <1>3, <1>4, <1>5, <1>16, <1>22
    <3>2. CASE d # c
      <4>1. AllParsed /\ Spent(d) /\ files[d] \in {FileOf(d), CutFile} /\ dir_known
        BY <2>1, <3>2, <1>1, <1>4 DEF OutputOK
      <4> QED
        BY <3>2, <4>1, <1>2, <1>4, <1>16, <1>20
    <3> QED
      BY <3>1, <3>2
  <2> QED
    BY <2>1, <1>16 DEF OutputOK
<1>24. DirsOK'
  <2>1. \A q \in Proc : pc'[q] \in DirPlace => pc'[q] = pc[q] \/ (pc'[q] = "write" /\ pc[q] = "open")
    BY <1>4, <1>9 DEF DirPlace
  <2>2. ASSUME out_dir = "full"
        PROVE  \/ \E q \in Proc : pc'[q] = "open"
               \/ \E d \in ToSet(Cats) : ~oks'[d] /\ Spent(d)'
    <3>1. CASE \E q \in Proc : q # p /\ pc[q] = "open"
      BY <3>1, <1>4
    <3>2. CASE pc[p] = "open"
      <4>1. x # "write" /\ ~ok
        BY <2>2, <3>2
      <4> QED
        BY <4>1, <1>3, <1>4, <1>22
    <3>3. CASE \E d \in ToSet(Cats) : ~oks[d] /\ Spent(d)
      <4> PICK d \in ToSet(Cats) : ~oks[d] /\ Spent(d)
        BY <3>3
      <4>1. d # c
        BY <1>21
      <4> QED
        BY <4>1, <1>4, <1>20
    <3> QED
      BY <2>2, <3>1, <3>2, <3>3, <1>1 DEF DirsOK
  <2> QED
    BY <2>1, <2>2, <1>1, <1>2, DirsStay
<1>25. TextOK'
  <2>1. pc[Main] \in {"exit_success", "join_success"} => pc'[Main] = pc[Main]
    BY <1>4, <1>5
  <2> QED
    BY <2>1, <1>1, <1>2, TextStays
<1>26. EndOK'
  <2>1. CASE p = Main
    BY <2>1, <1>2, <1>4, <1>5, <1>9 DEF EndOK
  <2>2. CASE p # Main
    <3>1. pc'[Main] = pc[Main]
      BY <2>2, <1>4, <1>5
    <3> QED
      BY <3>1, <1>1, <1>2, <1>16 DEF EndOK
  <2> QED
    BY <2>1, <2>2
<1> QED
  BY <1>10, <1>11, <1>12, <1>13, <1>14, <1>15, <1>17, <1>18, <1>19, <1>23, <1>24, <1>25, <1>26
  DEF IInv, WorkOK, ResultOK

\* A process opens the file of its category.
LEMMA OpenFileKeeps ==
  ASSUME IInv, NEW p \in Proc, OpenFile(p)
  PROVE  IInv'
<1>1. PlacesOK /\ DiskOK /\ LooksOK /\ FilesOK /\ JobsOK /\ ListsOK /\ TextOK /\ Main \in Proc
  BY ProcIs DEF IInv, WorkOK, ResultOK
<1>2. /\ pc[p] = "open" /\ job[p][2] \in ToSet(Cats) /\ ~oks[job[p][2]]
      /\ UNCHANGED <<disk, options, status, look, pool, to_wait, finished, dirs, exiting>>
  BY OwnFile DEF OpenFile, Dumping
<1>3. /\ oks = [oks EXCEPT ![job[p][2]] = FALSE]
      /\ files = [files EXCEPT ![job[p][2]] = files[job[p][2]]]
      /\ files[job[p][2]] \in FileState
      /\ job = [job EXCEPT ![p] = job[p]]
  BY <1>1, <1>2 DEF FilesOK, JobsOK, FileState
\* It fails: so does main when its file does.
<1>4. ASSUME pc' = [pc EXCEPT ![p] = "exit"], oks' = oks, files' = files, job' = job,
             to_enqueue' = to_enqueue
      PROVE  IInv'
  <2>1. UNCHANGED <<thread_count, option, lines, thread, cursor, table, task_queue,
                    to_wait, finished, cache, torn, runs, status, freed, shutdown, mtx, waiting,
                    exiting>> /\ UNCHANGED dirs
    BY <1>2 DEF disk, options, look, pool
  <2>2. DiskOK' /\ LooksOK'
    BY <1>1, <2>1 DEF DiskOK, LooksOK
  <2>3. TextOK'
    <3>1. pc[Main] \in {"exit_success", "join_success"} => pc'[Main] = pc[Main]
      BY <1>1, <1>2, <1>4 DEF PlacesOK
    <3> QED
      BY <3>1, <2>1, <1>1, TextStays
  <2>4. p = Main => thread_count = 1
    BY <1>1, <1>2 DEF ListsOK, DumpPhase, Dumping
  <2>5. pc[p] \in Reading \cup Dumping \cup {"parse"}
    BY <1>2 DEF Dumping
  <2> QED
    BY <1>4, <2>1, <2>2, <2>3, <2>4, <2>5, FailKeeps
<1>5. CASE ~option.language /\ Fail(p) /\ UNCHANGED <<output, job, to_enqueue>>
  BY <1>4, <1>5 DEF Fail, Go, output
<1>6. CASE option.language /\ Written(p, FALSE) /\ UNCHANGED files
  <2>1. CASE p = Main
    BY <2>1, <1>3, <1>4, <1>6 DEF Written, Fail, Go
  <2>2. CASE p # Main
    <3>1. /\ pc' = [pc EXCEPT ![p] = "store"] /\ job' = job /\ to_enqueue' = to_enqueue
          /\ oks' = [oks EXCEPT ![job[p][2]] = FALSE]
          /\ files' = [files EXCEPT ![job[p][2]] = files[job[p][2]]]
      BY <2>2, <1>3, <1>6 DEF Written, Go
    <3> QED
      BY <2>2, <3>1, <1>2, <1>3, FileKeeps
  <2> QED
    BY <2>1, <2>2
<1>7. CASE /\ option.language /\ out_dir # "full"
           /\ files' = [files EXCEPT ![job[p][2]] = [NoFile EXCEPT !.state = "open"]]
           /\ Go(p, "write")
           /\ UNCHANGED <<oks, job, to_enqueue>>
  <2>1. /\ pc' = [pc EXCEPT ![p] = "write"] /\ job' = [job EXCEPT ![p] = job[p]]
        /\ oks' = [oks EXCEPT ![job[p][2]] = FALSE] /\ to_enqueue' = to_enqueue
    BY <1>3, <1>7 DEF Go
  <2>2. [NoFile EXCEPT !.state = "open"] \in FileState
    BY FileOfIs
  <2> QED
    BY <2>1, <2>2, <1>2, <1>7, FileKeeps
<1> QED
  BY <1>5, <1>6, <1>7 DEF OpenFile

\* A process writes the file of its category, in full or not.
LEMMA WriteFileKeeps ==
  ASSUME IInv, NEW p \in Proc, WriteFile(p)
  PROVE  IInv'
<1>1. PlacesOK /\ DiskOK /\ LooksOK /\ FilesOK /\ JobsOK /\ ListsOK /\ TextOK /\ Main \in Proc
  BY ProcIs DEF IInv, WorkOK, ResultOK
<1>2. /\ pc[p] = "write" /\ job[p][2] \in ToSet(Cats) /\ ~oks[job[p][2]]
      /\ UNCHANGED <<disk, options, status, look, pool, to_wait, finished, dirs, exiting>>
  BY OwnFile DEF WriteFile, Dumping
<1>3. /\ oks = [oks EXCEPT ![job[p][2]] = FALSE]
      /\ files = [files EXCEPT ![job[p][2]] = files[job[p][2]]]
      /\ files[job[p][2]] \in FileState
      /\ job = [job EXCEPT ![p] = job[p]]
  BY <1>1, <1>2 DEF FilesOK, JobsOK, FileState
<1>4. CASE /\ \E f \in {FileOf(job[p][2]), CutFile} : files' = [files EXCEPT ![job[p][2]] = f]
           /\ Written(p, TRUE)
  <2> PICK f \in {FileOf(job[p][2]), CutFile} : files' = [files EXCEPT ![job[p][2]] = f]
    BY <1>4
  <2>1. f \in FileState
    BY FileOfIs
  <2>2. oks' = [oks EXCEPT ![job[p][2]] = TRUE] /\ files' = [files EXCEPT ![job[p][2]] = f]
    BY <1>4 DEF Written
  <2>3. CASE p # Main
    <3>1. pc' = [pc EXCEPT ![p] = "store"] /\ job' = job /\ to_enqueue' = to_enqueue
      BY <2>3, <1>4 DEF Written, Go
    <3> QED
      BY <2>1, <2>2, <2>3, <3>1, <1>2, <1>3, FileKeeps
  <2>4. CASE p = Main /\ to_enqueue = <<>>
    <3>1. /\ pc' = [pc EXCEPT ![p] = "exit_success"] /\ to_enqueue' = to_enqueue
          /\ job' = [job EXCEPT ![p] = job[p]]
      BY <2>4, <1>3, <1>4 DEF Written, Go
    <3> HIDE DEF IInv
    <3> QED
      BY <2>1, <2>2, <2>4, <3>1, <1>2, FileKeeps
  <2>5. CASE p = Main /\ to_enqueue # <<>>
    <3>1. /\ pc' = [pc EXCEPT ![p] = "dir"] /\ job' = [job EXCEPT ![p] = Head(to_enqueue)]
          /\ to_enqueue' = Tail(to_enqueue)
      BY <2>5, <1>4 DEF Written, Go
    <3> QED
      BY <2>1, <2>2, <2>5, <3>1, <1>2, FileKeeps
  <2> QED
    BY <2>3, <2>4, <2>5
<1>5. CASE UNCHANGED files /\ Written(p, FALSE)
  <2>1. CASE p = Main
    <3>1. pc' = [pc EXCEPT ![p] = "exit"] /\ oks' = oks /\ files' = files /\ job' = job /\ to_enqueue' = to_enqueue
      BY <2>1, <1>3, <1>5 DEF Written, Fail, Go
    <3>2. UNCHANGED <<thread_count, option, lines, thread, cursor, table, task_queue,
                      to_wait, finished, cache, torn, runs, status, freed, shutdown, mtx, waiting,
                      exiting>> /\ UNCHANGED dirs
      BY <1>2 DEF disk, options, look, pool
    <3>3. DiskOK' /\ LooksOK'
      BY <1>1, <3>2 DEF DiskOK, LooksOK
    <3>4. TextOK'
      <4>1. pc[Main] \in {"exit_success", "join_success"} => pc'[Main] = pc[Main]
        BY <2>1, <1>2
      <4> QED
        BY <4>1, <3>2, <1>1, TextStays
    <3>5. p = Main => thread_count = 1
      BY <1>1, <1>2 DEF ListsOK, DumpPhase, Dumping
    <3>6. pc[p] \in Reading \cup Dumping \cup {"parse"}
      BY <1>2 DEF Dumping
    <3> QED
      BY <3>1, <3>2, <3>3, <3>4, <3>5, <3>6, FailKeeps
  <2>2. CASE p # Main
    <3>1. /\ pc' = [pc EXCEPT ![p] = "store"] /\ job' = job /\ to_enqueue' = to_enqueue
          /\ oks' = [oks EXCEPT ![job[p][2]] = FALSE]
          /\ files' = [files EXCEPT ![job[p][2]] = files[job[p][2]]]
      BY <2>2, <1>3, <1>5 DEF Written, Go
    <3> QED
      BY <2>2, <3>1, <1>2, <1>3, FileKeeps
  <2> QED
    BY <2>1, <2>2
<1> QED
  BY <1>4, <1>5 DEF WriteFile

(***************************************************************************)
(* The beginning and the end of a run                                      *)
(***************************************************************************)

\* A process ends the run.
LEMMA ExitKeeps ==
  ASSUME IInv, NEW p \in Proc, Exit(p)
  PROVE  IInv'
<1>1. PlacesOK /\ DiskOK /\ TextOK /\ Main \in Proc
  BY ProcIs DEF IInv, ResultOK
<1>2. /\ pc[p] \in {"exit", "exit_success"}
      /\ UNCHANGED <<disk, options, look, job, main, finished, output>> /\ UNCHANGED dirs
  BY DEF Exit
<1>3. UNCHANGED <<thread_count, option, lines, thread, cursor, table, to_enqueue, to_wait, finished,
                  job, oks, files, cache, torn, runs>>
  BY <1>2 DEF disk, options, look, main, output
<1>4. pc[p] = "exit_success" => p = Main
  BY <1>1, WorkerMoves DEF WorkerPlace, Dumping
<1>5. CASE /\ status' = (IF pc[p] = "exit" THEN "failure" ELSE "success")
           /\ UNCHANGED <<pc, pool, exiting>>
  <2>1. UNCHANGED <<task_queue, freed, shutdown, mtx, waiting>>
    BY <1>5 DEF pool
  <2>2. PlacesOK'
    BY <1>1, <1>3, <1>5 DEF PlacesOK, Worker
  <2>3. DiskOK'
    BY <1>1, <1>3, <1>5, <2>1 DEF DiskOK
  <2>4. TextOK'
    BY <1>1, <1>2, <1>3, <1>4, <1>5 DEF TextOK
  <2> QED
    BY <1>2, <1>3, <1>5, <2>1, <2>2, <2>3, <2>4, StillKeeps
<1>6. CASE /\ task_queue' = <<>> /\ freed' = TRUE /\ shutdown' = TRUE
           /\ waiting' = {} /\ UNCHANGED mtx /\ exiting' = p
           /\ Go(p, IF pc[p] = "exit" THEN "join" ELSE "join_success")
           /\ UNCHANGED status
  <2> PICK x : x = (IF pc[p] = "exit" THEN "join" ELSE "join_success")
    OBVIOUS
  <2>1. pc' = [pc EXCEPT ![p] = x] /\ x \in {"join", "join_success"} /\ (x = "join_success" => p = Main)
    BY <1>4, <1>6, <1>2 DEF Go
  <2>2. \A q \in Proc : pc'[q] = IF q = p THEN x ELSE pc[q]
    BY <1>1, <2>1 DEF PlacesOK
  <2>3. Quiet
    BY <1>1, <1>2, <1>3, <1>6, <2>1, MoveQuiet DEF Alike
  <2>4. PlacesOK'
    <3>1. p # Main => p \in Worker
      BY <1>1, <1>2, WorkerMoves
    <3>2. pc' \in [Proc -> MainPlace \cup WorkerPlace]
      BY <1>1, <2>1 DEF PlacesOK, MainPlace, Ending
    <3>3. pc'[Main] \in MainPlace /\ (exiting' = Main => pc'[Main] \in {"join", "join_success"})
      BY <1>1, <1>6, <2>1, <2>2 DEF PlacesOK, MainPlace, Ending
    <3>4. \A w \in Proc \ {Main} : pc'[w] \in WorkerPlace /\ (w \notin Worker => pc'[w] = "none")
      BY <1>1, <2>1, <2>2, <3>1 DEF PlacesOK, WorkerPlace
    <3> QED
      BY <1>1, <1>3, <1>6, <3>2, <3>3, <3>4 DEF PlacesOK, Worker
  <2>5. DiskOK'
    BY <1>1, <1>3, <1>6 DEF DiskOK
  <2>6. TextOK'
    <3>1. pc[Main] \in {"exit_success", "join_success"} => pc'[Main] \in {"exit_success", "join_success"}
      BY <1>1, <1>2, <1>6, <2>2
    <3> QED
      BY <3>1, <1>1, <1>3, <1>6, TextStays
  <2>7. \A q \in Proc : (pc'[q] \in DirPlace => pc'[q] = pc[q]) /\ (pc[q] = "open" => pc'[q] = "open")
    BY <1>2, <2>1, <2>2 DEF DirPlace
  <2> QED
    BY <1>2, <1>3, <2>3, <2>4, <2>5, <2>6, <2>7, QuietMove
<1> QED
  BY <1>5, <1>6 DEF Exit

\* What holds when a run begins, the first one or a later one.
Started ==
  /\ cache \in {"none", "empty", "cut", "page", "whole"} /\ (cache = "cut" => torn # 0)
  /\ runs \in 1 .. MaxRuns /\ torn \in 0 .. MaxRuns
  /\ thread_count \in Threads /\ option \in Options /\ status = "running"
  /\ pc = [p \in Proc |-> IF p = Main THEN "start" ELSE "none"]
  /\ lines = <<>> /\ thread = [p \in Proc |-> FreshThread] /\ cursor = [p \in Proc |-> 0]
  /\ table = [cp \in CodePoint |-> "unset"]
  /\ task_queue = <<>> /\ freed = FALSE /\ shutdown = FALSE /\ mtx = Nobody /\ waiting = {}
  /\ job = [p \in Proc |-> NoTask]
  /\ to_enqueue = <<>> /\ to_wait = <<>> /\ finished = {}
  /\ oks = [c \in ToSet(Cats) |-> FALSE] /\ files = [c \in ToSet(Cats) |-> NoFile]
  /\ exe = "none" /\ exe_known = FALSE
  /\ out_dir = (IF option.output_dir THEN "asked" ELSE "none")
  /\ dir_known = option.output_dir
  /\ exiting = Nobody

\* A run begins with the invariant.
LEMMA StartedIs == Started => IInv
<1> SUFFICES ASSUME Started PROVE IInv
  OBVIOUS
<1>1. thread_count \in Nat /\ 1 <= thread_count /\ Main \in Proc
  BY Counts DEF Started, Main
<1> PICK n \in Nat : n = thread_count
  BY <1>1
<1>2. \A p \in Proc : pc[p] = IF p = Main THEN "start" ELSE "none"
  BY DEF Started
<1>3. /\ \A p \in Proc : job[p] = NoTask /\ thread[p] = FreshThread
      /\ \A cp \in CodePoint : table[cp] = "unset"
      /\ \A c \in ToSet(Cats) : ~oks[c]
  BY DEF Started
<1>4. NoTask \notin Parses(n) /\ NoTask \notin Dumps /\ NoTask # Parse(0)
  BY <1>1, KindsDiffer, ParsesAre
<1>5. PlacesOK
  <2>1. pc \in [Proc -> MainPlace \cup WorkerPlace] /\ pc[Main] \in MainPlace
    BY <1>1, <1>2 DEF Started, MainPlace, WorkerPlace, Reading
  <2>2. \A w \in Proc \ {Main} : pc[w] \in WorkerPlace /\ pc[w] = "none"
    BY <1>2 DEF WorkerPlace
  <2>3. exiting = Nobody /\ Nobody # Main
    BY DEF Started, Nobody, Main
  <2> QED
    BY <2>1, <2>2, <2>3 DEF PlacesOK, Started
<1>6. DiskOK
  BY DEF DiskOK, Started
<1>7. LooksOK
  <2>1. FreshThread \in ThreadState
    BY MaxCpAssumption, Categories DEF FreshThread, ThreadState, NoBound
  <2>2. <<>> \in Texts
    BY DEF Texts
  <2> QED
    BY <2>1, <2>2 DEF LooksOK, Started
<1>8. FilesOK
  BY DEF FilesOK, Started, NoFile
<1>9. JobsOK
  <2>1. \A p \in Proc : pc[p] \notin Dumping \cup {"parse", "store", "broadcast"}
    BY <1>2 DEF Dumping
  <2> QED
    BY <2>1, <1>1, <1>3, <1>4 DEF JobsOK, Started
<1>10. LinesOK
  BY <1>1, <1>2, <1>3 DEF LinesOK, Started, Reading, FreshThread
<1>11. OnceOK
  <2>1. DOMAIN task_queue = {} /\ DOMAIN to_enqueue = {} /\ finished = {}
    BY DEF Started
  <2>2. task_queue \in Seq(PoolParses(n) \cup Dumps) /\ to_enqueue \in Seq(PoolParses(n) \cup Dumps)
    BY DEF Started
  <2> QED
    BY <2>1, <2>2, <1>3 DEF OnceOK
<1>12. ListsOK
  <2>1. pc[Main] = "start" /\ to_wait \in Seq(Parses(n) \cup Dumps)
    BY <1>1, <1>2 DEF Started
  <2> QED
    BY <2>1 DEF ListsOK, Dumping
<1>13. PhasesOK
  <2>1. NoDumps
    <3>1. DOMAIN task_queue = {} /\ DOMAIN to_enqueue = {} /\ finished = {}
      BY DEF Started
    <3> QED
      BY <3>1, <1>3, <1>4 DEF NoDumps
  <2> QED
    BY <2>1, <1>3 DEF PhasesOK, Started
<1>14. TableOK
  BY <1>2 DEF TableOK, Started
<1>15. OutputOK
  BY <1>3 DEF OutputOK
<1>16. DirsOK
  <2>1. option.output_dir \in BOOLEAN
    BY GeneratorAssumption DEF Started
  <2> QED
    BY <2>1, <1>2 DEF DirsOK, Started
<1>17. TextOK
  BY <1>3 DEF TextOK, Started, FreshThread
<1>18. EndOK
  BY <1>1, <1>2 DEF EndOK, Ending
<1> QED
  BY <1>5, <1>6, <1>7, <1>8, <1>9, <1>10, <1>11, <1>12, <1>13, <1>14, <1>15, <1>16, <1>17, <1>18
  DEF IInv, WorkOK, ResultOK

\* The first run begins like any other.
LEMMA InitStarts == Init => Started
<1> SUFFICES ASSUME Init PROVE Started
  OBVIOUS
<1>1. /\ cache \in {"none", "empty", "cut", "page", "whole"} /\ (cache = "cut" => torn # 0)
      /\ torn \in 0 .. MaxRuns /\ runs \in 1 .. MaxRuns
  <2>1. 1 \in 1 .. MaxRuns /\ 0 \in 0 .. MaxRuns
    BY GeneratorAssumption
  <2>2. cache = "none" /\ torn = 0 /\ runs = 1
    BY DEF Init
  <2> HIDE DEF Init
  <2> QED
    BY <2>1, <2>2
<1> QED
  BY <1>1 DEF Init, Started

\* Every later run begins so, whatever cache it finds.
LEMMA RerunStarts == IInv /\ Rerun => Started'
<1> SUFFICES ASSUME IInv, Rerun PROVE Started'
  OBVIOUS
<1>1. /\ cache' \in {"none", "empty", "cut", "page", "whole"} /\ (cache' = "cut" => torn' # 0)
      /\ torn' \in 0 .. MaxRuns /\ runs' \in 1 .. MaxRuns
  BY GeneratorAssumption DEF IInv, DiskOK, ResultOK, TextOK, Rerun
<1> QED
  BY <1>1 DEF Rerun, Started

\* The first run begins with the invariant.
LEMMA InitHolds == Init => IInv
BY InitStarts, StartedIs

\* Every later run begins with it.
LEMMA RerunKeeps == IInv /\ Rerun => IInv'
BY RerunStarts, StartedIs, PTL

(***************************************************************************)
(* What is looked up is right                                              *)
(***************************************************************************)

\* The chunks of which the look-up is among the tasks s, and the order they are in.
ChunksIn(s) == {i \in 0 .. MaxCp : \E k \in DOMAIN s : s[k] = Parse(i)}
Descends(s) ==
  \A j, k \in DOMAIN s : \A x, y \in 0 .. MaxCp :
    j < k /\ s[j] = Parse(x) /\ s[k] = Parse(y) => y < x

\* The chunks nobody has begun to look up.
Waiting == ChunksIn(task_queue) \cup ChunksIn(to_enqueue)

\* The pool looks up its chunks from the last one on.
QueuesOK ==
  /\ Descends(task_queue) /\ Descends(to_enqueue)
  /\ \A i \in ChunksIn(task_queue), j \in ChunksIn(to_enqueue) : j < i
OrderOK ==
  /\ QueuesOK
  /\ \A w \in Proc \ {Main} : pc[w] = "parse" => \A i \in Waiting : i < job[w][2]

\* A thread has no hint before there are lines.
FreshOK == pc[Main] \in Reading => \A p \in Proc : thread[p].restart_from = 0

\* What the threads keep of the whole file is right where they are, and will be where they go.
ThreadsOK ==
  /\ TrueRange(thread[Main])
  /\ \A p \in Proc : pc[p] = "parse" =>
       LooksRight(thread_count, job[p][2], thread[p], cursor[p])
  /\ \A w \in Proc \ {Main} : \A i \in Waiting :
       TrueRange(thread[w]) \/ ChunkLast(thread_count, i) < thread[w].start
  /\ thread_count - 1 \in Waiting => \A w \in Proc \ {Main} : thread[w].restart_from = 0

\* What they found is right.
TableRight(n, tab) ==
  \A i \in 0 .. n - 1 : \A cp \in Chunk(n, i) :
    tab[cp] \in {"unset", CategoryFromString(CategoryOf(UnicodeData, cp))} \/ Amiss(n, i, cp)

ReadOK == lines = UnicodeData => ThreadsOK /\ TableRight(thread_count, table)

RightInv == OrderOK /\ FreshOK /\ ReadOK

\* A table that is right is so where the file is not misread.
LEMMA RightIs ==
  ASSUME lines = UnicodeData => TableRight(thread_count, table)
  PROVE  TableIsRight
<1>1. ASSUME lines = UnicodeData, NEW i \in 0 .. thread_count - 1, NEW cp, Amiss(thread_count, i, cp)
      PROVE  Misread(i, cp)
  <2>1. CASE Inside(UnicodeData, cp) \cap Inside(UnicodeData, ChunkFirst(thread_count, i)) # {}
    BY <2>1, <1>1 DEF Misread
  <2>2. CASE Excluded(thread_count, i)
    BY <2>2, <1>1, DataIs DEF Misread, Excluded, BeginsRange
  <2> QED
    BY <2>1, <2>2, <1>1 DEF Amiss
<1>2. ASSUME lines = UnicodeData, NEW i \in 0 .. thread_count - 1, NEW cp \in Chunk(thread_count, i)
      PROVE  \/ table[cp] \in {"unset", CategoryFromString(CategoryOf(lines, cp))}
             \/ Misread(i, cp)
  BY <1>1, <1>2 DEF TableRight
<1> QED
  BY <1>2 DEF TableIsRight

(***************************************************************************)
(* The order of the chunks                                                 *)
(***************************************************************************)

\* A list that loses its first task keeps the order of the others.
LEMMA TailDescends ==
  ASSUME NEW S, NEW s \in Seq(S), s # <<>>
  PROVE  /\ ChunksIn(Tail(s)) \subseteq ChunksIn(s)
         /\ Descends(s) => Descends(Tail(s))
         /\ \A i \in 0 .. MaxCp : Head(s) = Parse(i) => i \in ChunksIn(s)
         /\ \A i \in 0 .. MaxCp : Descends(s) /\ Head(s) = Parse(i) =>
              \A j \in ChunksIn(Tail(s)) : j < i
<1>1. /\ Len(s) \in Nat /\ Len(s) >= 1 /\ DOMAIN s = 1 .. Len(s) /\ 1 \in DOMAIN s /\ Head(s) = s[1]
      /\ DOMAIN Tail(s) = 1 .. Len(s) - 1
      /\ \A k \in 1 .. Len(s) - 1 : Tail(s)[k] = s[k + 1]
  OBVIOUS
<1>2. \A k \in DOMAIN Tail(s) : k + 1 \in DOMAIN s /\ Tail(s)[k] = s[k + 1] /\ 1 < k + 1 /\ k \in Nat
  BY <1>1
<1>3. ChunksIn(Tail(s)) \subseteq ChunksIn(s)
  BY <1>2 DEF ChunksIn
<1>4. ASSUME Descends(s), NEW j \in DOMAIN Tail(s), NEW k \in DOMAIN Tail(s), j < k,
             NEW x \in 0 .. MaxCp, NEW y \in 0 .. MaxCp, Tail(s)[j] = Parse(x), Tail(s)[k] = Parse(y)
      PROVE  y < x
  <2>1. /\ j + 1 \in DOMAIN s /\ k + 1 \in DOMAIN s /\ j + 1 < k + 1
        /\ s[j + 1] = Parse(x) /\ s[k + 1] = Parse(y)
    BY <1>2, <1>4
  <2> QED
    BY <2>1, <1>4 DEF Descends
<1>5. ASSUME Descends(s), NEW i \in 0 .. MaxCp, Head(s) = Parse(i), NEW j \in ChunksIn(Tail(s))
      PROVE  j < i
  <2>1. PICK k \in DOMAIN Tail(s) : Tail(s)[k] = Parse(j) /\ j \in 0 .. MaxCp
    BY DEF ChunksIn
  <2>2. k + 1 \in DOMAIN s /\ 1 < k + 1 /\ s[k + 1] = Parse(j) /\ s[1] = Parse(i)
    BY <2>1, <1>1, <1>2, <1>5
  <2> QED
    BY <2>1, <2>2, <1>1, <1>5 DEF Descends
<1> QED
  BY <1>1, <1>3, <1>4, <1>5 DEF Descends, ChunksIn

\* A list without look-ups is in order.
LEMMA NoChunks ==
  ASSUME NEW s, \A k \in DOMAIN s : \A i \in 0 .. MaxCp : s[k] # Parse(i)
  PROVE  ChunksIn(s) = {} /\ Descends(s)
BY DEF ChunksIn, Descends

\* Lists that lose tasks stay in order.
LEMMA QueuesShrink ==
  ASSUME QueuesOK, Descends(task_queue'), Descends(to_enqueue'),
         ChunksIn(task_queue') \subseteq ChunksIn(task_queue),
         ChunksIn(to_enqueue') \subseteq ChunksIn(to_enqueue)
  PROVE  QueuesOK' /\ Waiting' \subseteq Waiting
<1>1. \A i \in ChunksIn(task_queue'), j \in ChunksIn(to_enqueue') : j < i
  BY DEF QueuesOK
<1>2. QueuesOK'
  BY <1>1 DEF QueuesOK, Descends, ChunksIn
<1>3. Waiting' = ChunksIn(task_queue') \cup ChunksIn(to_enqueue')
  BY DEF Waiting, ChunksIn
<1> QED
  BY <1>2, <1>3 DEF Waiting

\* The chunks that wait are of the pool.
LEMMA WaitingAre ==
  ASSUME IInv
  PROVE  Waiting \subseteq 1 .. thread_count - 1
<1>1. /\ task_queue \in Seq(PoolParses(thread_count) \cup Dumps)
      /\ to_enqueue \in Seq(PoolParses(thread_count) \cup Dumps)
  BY DEF IInv, WorkOK, OnceOK
<1>2. ASSUME NEW s \in Seq(PoolParses(thread_count) \cup Dumps), NEW i \in ChunksIn(s)
      PROVE  i \in 1 .. thread_count - 1
  <2>1. PICK k \in DOMAIN s : s[k] = Parse(i)
    BY DEF ChunksIn
  <2>2. Parse(i) \in PoolParses(thread_count) \cup Dumps
    BY <2>1
  <2>3. Parse(i) \in PoolParses(thread_count)
    BY <2>2, DumpsAre, TaskNames
  <2> QED
    BY <2>3, ParsesAre, TaskNames
<1> QED
  BY <1>1, <1>2 DEF Waiting

(***************************************************************************)
(* Steps that look up nothing                                              *)
(***************************************************************************)

\* A step that looks up nothing and begins no look-up leaves right what is right.
LEMMA NothingLookedUp ==
  ASSUME RightInv, QueuesOK', Waiting' \subseteq Waiting,
         UNCHANGED <<thread_count, lines, thread, table>>,
         \A p \in Proc : pc'[p] = "parse" =>
            pc[p] = "parse" /\ job'[p] = job[p] /\ cursor'[p] = cursor[p],
         pc'[Main] \in Reading => pc[Main] \in Reading
  PROVE  RightInv'
<1>1. OrderOK'
  <2>1. ASSUME NEW w \in Proc \ {Main}, pc'[w] = "parse", NEW i \in Waiting'
        PROVE  i < job'[w][2]
    BY <2>1 DEF RightInv, OrderOK
  <2> QED
    BY <2>1 DEF OrderOK
<1>2. FreshOK'
  BY DEF RightInv, FreshOK
<1>3. ReadOK'
  <2>1. SUFFICES ASSUME lines = UnicodeData
                 PROVE  ThreadsOK' /\ TableRight(thread_count, table)
    BY DEF ReadOK, TableRight
  <2>2. ThreadsOK /\ TableRight(thread_count, table)
    BY <2>1 DEF RightInv, ReadOK
  <2>3. TrueRange(thread'[Main])
    BY <2>2 DEF ThreadsOK
  <2>4. ASSUME NEW p \in Proc, pc'[p] = "parse"
        PROVE  LooksRight(thread_count', job'[p][2], thread'[p], cursor'[p])
    <3>1. LooksRight(thread_count, job[p][2], thread[p], cursor[p])
      BY <2>2, <2>4 DEF ThreadsOK
    <3>2. job'[p] = job[p] /\ cursor'[p] = cursor[p] /\ thread' = thread /\ thread_count' = thread_count
      BY <2>4
    <3> QED
      BY <3>1, <3>2
  <2>5. ASSUME NEW w \in Proc \ {Main}, NEW i \in Waiting'
        PROVE  TrueRange(thread'[w]) \/ ChunkLast(thread_count', i) < thread'[w].start
    BY <2>2 DEF ThreadsOK
  <2>6. thread_count' - 1 \in Waiting' => \A w \in Proc \ {Main} : thread'[w].restart_from = 0
    BY <2>2 DEF ThreadsOK
  <2>7. ThreadsOK'
    BY <2>3, <2>4, <2>5, <2>6 DEF ThreadsOK
  <2> QED
    BY <2>2, <2>7
<1> QED
  BY <1>1, <1>2, <1>3 DEF RightInv

\* The same, for a step that leaves the tasks that wait.
LEMMA NobodyLooks ==
  ASSUME RightInv, UNCHANGED <<thread_count, lines, thread, table, cursor, task_queue, to_enqueue>>,
         \A p \in Proc : pc'[p] = "parse" => pc[p] = "parse" /\ job'[p] = job[p],
         pc'[Main] \in Reading => pc[Main] \in Reading
  PROVE  RightInv'
<1>1. QueuesOK
  BY DEF RightInv, OrderOK
<1>2. QueuesOK' /\ Waiting' \subseteq Waiting
  BY <1>1 DEF QueuesOK, Waiting
<1> QED
  BY <1>2, NothingLookedUp

\* Nobody goes to another place.
LEMMA NobodyMoves ==
  ASSUME RightInv, UNCHANGED <<thread_count, lines, thread, table, cursor, task_queue, to_enqueue>>,
         job' = job, pc' = pc
  PROVE  RightInv'
BY NobodyLooks

\* One process goes to another place.
LEMMA OneMoves ==
  ASSUME RightInv, PlacesOK, NEW p \in Proc, NEW x, pc' = [pc EXCEPT ![p] = x],
         x \notin Reading \cup {"parse"} \/ (pc[p] \in Reading /\ x \in Reading),
         UNCHANGED <<thread_count, lines, thread, table, cursor, task_queue, to_enqueue>>,
         \A q \in Proc \ {p} : job'[q] = job[q]
  PROVE  RightInv'
<1>1. \A q \in Proc : pc'[q] = IF q = p THEN x ELSE pc[q]
  BY DEF PlacesOK
<1>2. x # "parse"
  BY DEF Reading
<1>3. Main \in Proc
  BY ProcIs
<1>4. pc'[Main] \in Reading => pc[Main] \in Reading
  BY <1>1, <1>3
<1> QED
  BY <1>1, <1>2, <1>4, NobodyLooks

\* Main has no pool yet when it has its options.
LEMMA GenCachedirRight ==
  ASSUME IInv, RightInv, GenCachedir
  PROVE  RightInv'
<1>1. UNCHANGED <<thread_count, lines, thread, table, cursor, task_queue, to_enqueue>> /\ job' = job
  BY DEF GenCachedir, options, look, pool, main
<1>2. pc[Main] \in Reading
  BY DEF GenCachedir, Reading
<1>3. \A p \in Proc : pc'[p] = "parse" => pc[p] = "parse"
  BY DEF GenCachedir
<1> QED
  BY <1>1, <1>2, <1>3, NobodyLooks

\* Main has lines: the chunks are to be looked up from the last one on.
LEMMA UseRight ==
  ASSUME IInv, RightInv, pc[Main] \in Reading, NEW text, UseText(text),
         UNCHANGED <<thread_count, thread, table, task_queue, job>>
  PROVE  RightInv'
<1>1. /\ PlacesOK /\ LooksOK /\ LinesOK /\ TextOK /\ Main \in Proc
      /\ thread_count \in Nat /\ 1 <= thread_count /\ thread_count <= MaxCp /\ MaxCp \in Nat
  BY ProcIs, MaxCpAssumption DEF IInv, WorkOK, ResultOK
<1>2. lines = <<>> /\ task_queue = <<>> /\ to_enqueue = <<>>
      /\ \A w \in Proc \ {Main} : pc[w] \in {"none", "idle", "gone"}
  BY <1>1 DEF LinesOK
<1>3. /\ \A p \in Proc : thread[p].in = FALSE /\ thread[p].restart_from = 0
      /\ \A cp \in CodePoint : table[cp] = "unset"
  BY <1>1, <1>2 DEF TextOK, RightInv, FreshOK
<1> PICK x : x = IF lines' = <<>> THEN "exit" ELSE IF thread_count > 1 THEN "enqueue" ELSE "own"
  OBVIOUS
<1>4. pc' = [pc EXCEPT ![Main] = x] /\ x \notin Reading \cup {"parse"}
  BY DEF UseText, Fail, Go, Reading
<1>5. \A p \in Proc : pc'[p] = IF p = Main THEN x ELSE pc[p]
  BY <1>1, <1>4 DEF PlacesOK
<1>6. pc'[Main] \notin Reading /\ \A p \in Proc : pc'[p] # "parse"
  BY <1>1, <1>2, <1>4, <1>5
<1>7. to_enqueue' = to_enqueue \/ to_enqueue' = [k \in 1 .. thread_count - 1 |-> Parse(thread_count - k)]
  BY DEF UseText, main
<1>8. Descends(to_enqueue')
  <2>1. CASE to_enqueue' = to_enqueue
    BY <2>1, <1>2 DEF Descends
  <2>2. CASE to_enqueue' = [k \in 1 .. thread_count - 1 |-> Parse(thread_count - k)]
    <3>1. ASSUME NEW j \in DOMAIN to_enqueue', NEW k \in DOMAIN to_enqueue', j < k,
                 NEW y \in 0 .. MaxCp, NEW z \in 0 .. MaxCp,
                 to_enqueue'[j] = Parse(y), to_enqueue'[k] = Parse(z)
          PROVE  z < y
      <4>1. j \in 1 .. thread_count - 1 /\ k \in 1 .. thread_count - 1
            /\ to_enqueue'[j] = Parse(thread_count - j) /\ to_enqueue'[k] = Parse(thread_count - k)
        BY <2>2
      <4>2. y = thread_count - j /\ z = thread_count - k
        <5>1. Parse(y) = Parse(thread_count - j) /\ Parse(z) = Parse(thread_count - k)
          BY <3>1, <4>1
        <5>2. Parse(y)[2] = Parse(thread_count - j)[2] /\ Parse(z)[2] = Parse(thread_count - k)[2]
          BY <5>1
        <5> QED
          BY <5>2, TaskNames
      <4> QED
        BY <4>1, <4>2, <3>1, <1>1
    <3> QED
      BY <3>1 DEF Descends
  <2> QED
    BY <2>1, <2>2, <1>7
<1>9. ChunksIn(task_queue') = {} /\ Descends(task_queue')
  <2>1. DOMAIN task_queue' = {}
    BY <1>2
  <2> QED
    BY <2>1, NoChunks
<1>10. OrderOK'
  BY <1>6, <1>8, <1>9 DEF OrderOK, QueuesOK
<1>11. FreshOK'
  BY <1>6 DEF FreshOK
<1>12. ReadOK'
  <2>1. \A p \in Proc : TrueRange(thread'[p]) /\ thread'[p].restart_from = 0
    BY <1>3 DEF TrueRange
  <2>2. ThreadsOK'
    BY <2>1, <1>1, <1>6 DEF ThreadsOK
  <2>3. TableRight(thread_count', table')
    <3>1. ASSUME NEW i \in 0 .. thread_count - 1, NEW cp \in Chunk(thread_count, i)
          PROVE  table[cp] = "unset"
      <4>1. thread_count \in Threads
        BY <1>1 DEF PlacesOK
      <4>2. /\ ChunkFirst(thread_count, i) \in Nat /\ ChunkLast(thread_count, i) \in Nat
            /\ ChunkLast(thread_count, i) <= MaxCp
        BY <4>1, ChunksAscend
      <4>3. cp \in CodePoint
        BY <4>2, <1>1 DEF Chunk, CodePoint
      <4> QED
        BY <4>3, <1>3
    <3> QED
      BY <3>1 DEF TableRight
  <2> QED
    BY <2>2, <2>3 DEF ReadOK
<1> QED
  BY <1>10, <1>11, <1>12 DEF RightInv

\* Main gets its file.
LEMMA ReadingRight ==
  ASSUME IInv, RightInv, ReadCache \/ OpenCache \/ WriteCache
  PROVE  RightInv'
<1>1. PlacesOK /\ Main \in Proc
  BY ProcIs DEF IInv
<1>2. CASE ReadCache
  <2>1. /\ pc[Main] = "read" /\ UNCHANGED <<thread_count, thread, table, cursor, task_queue, job>>
    BY <1>2 DEF ReadCache, options, pool
  <2>2. CASE pc' = [pc EXCEPT ![Main] = "fetch"] /\ UNCHANGED <<lines, main>>
    BY <2>1, <2>2, <1>1, OneMoves DEF Reading, main
  <2>3. CASE UseText(cache)
    BY <2>1, <2>3, UseRight DEF Reading
  <2> QED
    BY <1>2, <2>2, <2>3 DEF ReadCache, Go
<1>3. CASE OpenCache
  <2>1. /\ pc[Main] = "fetch"
        /\ UNCHANGED <<thread_count, lines, thread, table, cursor, task_queue, to_enqueue, job>>
    BY <1>3 DEF OpenCache, options, look, pool, main
  <2>2. PICK x \in {"exit", "whole", "page"} : pc' = [pc EXCEPT ![Main] = x]
    BY <1>3 DEF OpenCache, Fail, Go
  <2> QED
    BY <2>1, <2>2, <1>1, OneMoves DEF Reading
<1>4. CASE WriteCache
  <2>1. /\ pc[Main] \in {"whole", "page"}
        /\ UNCHANGED <<thread_count, thread, table, cursor, task_queue, job>>
    BY <1>4 DEF WriteCache, options, pool
  <2>2. CASE pc' = [pc EXCEPT ![Main] = "exit"] /\ UNCHANGED <<lines, main>>
    BY <2>1, <2>2, <1>1, OneMoves DEF Reading, main
  <2>3. CASE UseText(pc[Main])
    BY <2>1, <2>3, UseRight DEF Reading
  <2> QED
    BY <1>4, <2>2, <2>3 DEF WriteCache, Fail, Go
<1> QED
  BY <1>2, <1>3, <1>4

\* Main hands over the chunk that is next to be taken after those in the queue.
LEMMA EnqueueRight ==
  ASSUME IInv, RightInv, Enqueue
  PROVE  RightInv'
<1>1. /\ PlacesOK /\ ListsOK /\ OnceOK /\ Main \in Proc /\ QueuesOK
  BY ProcIs DEF IInv, WorkOK, RightInv, OrderOK
<1>2. /\ pc[Main] = "enqueue" /\ task_queue' = Append(task_queue, Head(to_enqueue))
      /\ to_enqueue' = Tail(to_enqueue)
      /\ UNCHANGED <<thread_count, lines, thread, table, cursor, job>>
  BY DEF Enqueue, options, look
<1>3. \/ pc' = pc
      \/ \E x \in {"own", "wait"} : pc' = [pc EXCEPT ![Main] = x]
  BY DEF Enqueue, Go
<1> PICK S : S = PoolParses(thread_count) \cup Dumps
  OBVIOUS
<1>4. task_queue \in Seq(S) /\ to_enqueue \in Seq(S) /\ to_enqueue # <<>>
  BY <1>1, <1>2 DEF OnceOK, ListsOK, EnqueuePhase
<1> PICK h : h = Head(to_enqueue)
  OBVIOUS
<1>5. /\ ChunksIn(to_enqueue') \subseteq ChunksIn(to_enqueue) /\ Descends(to_enqueue')
      /\ \A i \in 0 .. MaxCp : h = Parse(i) => i \in ChunksIn(to_enqueue)
      /\ \A i \in 0 .. MaxCp : h = Parse(i) => \A j \in ChunksIn(to_enqueue') : j < i
  BY <1>1, <1>2, <1>4, TailDescends DEF QueuesOK
<1>6. /\ Len(task_queue) \in Nat /\ DOMAIN task_queue = 1 .. Len(task_queue)
      /\ DOMAIN task_queue' = 1 .. Len(task_queue) + 1
      /\ \A k \in DOMAIN task_queue : task_queue'[k] = task_queue[k]
      /\ task_queue'[Len(task_queue) + 1] = h
  <2>1. h \in S
    BY <1>4
  <2> QED
    BY <2>1, <1>2, <1>4
<1>7. \A k \in DOMAIN task_queue' :
        (k \in DOMAIN task_queue /\ task_queue'[k] = task_queue[k]) \/ k = Len(task_queue) + 1
  BY <1>6
<1>8. ASSUME NEW i \in ChunksIn(task_queue')
      PROVE  i \in 0 .. MaxCp /\ (i \in ChunksIn(task_queue) \/ h = Parse(i))
  <2>1. PICK k \in DOMAIN task_queue' : task_queue'[k] = Parse(i) /\ i \in 0 .. MaxCp
    BY DEF ChunksIn
  <2> QED
    BY <2>1, <1>6, <1>7 DEF ChunksIn
<1>9. Descends(task_queue')
  <2>1. ASSUME NEW j \in DOMAIN task_queue', NEW k \in DOMAIN task_queue', j < k,
               NEW y \in 0 .. MaxCp, NEW z \in 0 .. MaxCp,
               task_queue'[j] = Parse(y), task_queue'[k] = Parse(z)
        PROVE  z < y
    <3>1. j \in DOMAIN task_queue /\ task_queue[j] = Parse(y)
      BY <2>1, <1>6, <1>7
    <3>2. CASE k \in DOMAIN task_queue /\ task_queue'[k] = task_queue[k]
      BY <2>1, <3>1, <3>2, <1>1 DEF QueuesOK, Descends
    <3>3. CASE k = Len(task_queue) + 1
      <4>1. y \in ChunksIn(task_queue) /\ z \in ChunksIn(to_enqueue)
        BY <2>1, <3>1, <3>3, <1>5, <1>6 DEF ChunksIn
      <4> QED
        BY <4>1, <1>1 DEF QueuesOK
    <3> QED
      BY <3>2, <3>3, <1>7
  <2> QED
    BY <2>1 DEF Descends
<1>10. \A i \in ChunksIn(task_queue'), j \in ChunksIn(to_enqueue') : j < i
  BY <1>1, <1>5, <1>8 DEF QueuesOK
<1>11. QueuesOK'
  BY <1>5, <1>9, <1>10 DEF QueuesOK
<1>12. Waiting' \subseteq Waiting
  BY <1>5, <1>8 DEF Waiting
<1>13. \A p \in Proc : pc'[p] = pc[p] \/ pc'[p] \in {"own", "wait"}
  BY <1>1, <1>3 DEF PlacesOK
<1>14. /\ \A p \in Proc : pc'[p] = "parse" => pc[p] = "parse"
       /\ pc'[Main] \in Reading => pc[Main] \in Reading
  BY <1>1, <1>13 DEF Reading
<1> QED
  BY <1>2, <1>11, <1>12, <1>14, NothingLookedUp

\* A process begins to look up a chunk.
LEMMA BeginRight ==
  ASSUME IInv, RightInv, NEW p \in Proc, NEW i \in 0 .. thread_count - 1,
         QueuesOK', Waiting' \subseteq Waiting, p # Main => \A j \in Waiting' : j < i,
         pc' = [pc EXCEPT ![p] = "parse"], job' = [job EXCEPT ![p] = Parse(i)],
         cursor' = [cursor EXCEPT ![p] = ChunkFirst(thread_count, i)],
         UNCHANGED <<thread_count, lines, thread, table>>,
         lines = UnicodeData =>
           /\ TrueRange(thread[p]) \/ ChunkLast(thread_count, i) < thread[p].start
           /\ i \in {0, thread_count - 1} => thread[p].restart_from = 0
  PROVE  RightInv'
<1>1. PlacesOK /\ LooksOK /\ JobsOK /\ Main \in Proc
  BY ProcIs DEF IInv, WorkOK
<1>2. /\ \A q \in Proc : pc'[q] = IF q = p THEN "parse" ELSE pc[q]
      /\ \A q \in Proc : job'[q] = IF q = p THEN Parse(i) ELSE job[q]
      /\ \A q \in Proc : cursor'[q] = IF q = p THEN ChunkFirst(thread_count, i) ELSE cursor[q]
  BY <1>1 DEF PlacesOK, LooksOK, JobsOK
<1>3. job'[p][2] = i
  BY <1>2, TaskNames
<1>4. OrderOK'
  <2>1. ASSUME NEW w \in Proc \ {Main}, pc'[w] = "parse", NEW j \in Waiting'
        PROVE  j < job'[w][2]
    BY <2>1, <1>2, <1>3 DEF RightInv, OrderOK
  <2> QED
    BY <2>1 DEF OrderOK
<1>5. FreshOK'
  BY <1>1, <1>2 DEF RightInv, FreshOK, Reading
<1>6. ReadOK'
  <2>1. SUFFICES ASSUME lines = UnicodeData
                 PROVE  ThreadsOK' /\ TableRight(thread_count, table)
    BY DEF ReadOK, TableRight
  <2>2. ThreadsOK /\ TableRight(thread_count, table)
    BY <2>1 DEF RightInv, ReadOK
  <2>3. LooksRight(thread_count, i, thread[p], ChunkFirst(thread_count, i))
    <3>1. thread_count \in Threads /\ thread[p] \in ThreadState
      BY <1>1 DEF PlacesOK, LooksOK
    <3> QED
      BY <3>1, <2>1, BeginsRight
  <2>4. ASSUME NEW q \in Proc, pc'[q] = "parse"
        PROVE  LooksRight(thread_count', job'[q][2], thread'[q], cursor'[q])
    <3>1. CASE q = p
      <4>1. cursor'[q] = ChunkFirst(thread_count, i) /\ job'[q][2] = i /\ thread'[q] = thread[p]
            /\ thread_count' = thread_count
        BY <3>1, <1>2, <1>3
      <4> QED
        BY <4>1, <2>3
    <3>2. CASE q # p
      <4>1. LooksRight(thread_count, job[q][2], thread[q], cursor[q])
        BY <2>2, <2>4, <3>2, <1>2 DEF ThreadsOK
      <4>2. job'[q] = job[q] /\ cursor'[q] = cursor[q] /\ thread' = thread /\ thread_count' = thread_count
        BY <3>2, <1>2
      <4> QED
        BY <4>1, <4>2
    <3> QED
      BY <3>1, <3>2
  <2>5. ASSUME NEW w \in Proc \ {Main}, NEW j \in Waiting'
        PROVE  TrueRange(thread'[w]) \/ ChunkLast(thread_count', j) < thread'[w].start
    BY <2>2 DEF ThreadsOK
  <2>6. thread_count' - 1 \in Waiting' => \A w \in Proc \ {Main} : thread'[w].restart_from = 0
    BY <2>2 DEF ThreadsOK
  <2>7. ThreadsOK'
    BY <2>2, <2>4, <2>5, <2>6 DEF ThreadsOK
  <2> QED
    BY <2>2, <2>7
<1> QED
  BY <1>4, <1>5, <1>6 DEF RightInv

\* Main looks up its own chunk, the last one, before it looked up any other.
LEMMA ParseOwnRight ==
  ASSUME IInv, RightInv, ParseOwn
  PROVE  RightInv'
<1>1. /\ PlacesOK /\ ListsOK /\ Main \in Proc /\ QueuesOK
      /\ thread_count \in Nat /\ 1 <= thread_count
  BY ProcIs DEF IInv, WorkOK, RightInv, OrderOK
<1>2. /\ pc[Main] = "own" /\ UNCHANGED <<thread_count, lines, thread, table, task_queue, to_enqueue>>
      /\ pc' = [pc EXCEPT ![Main] = "parse"] /\ job' = [job EXCEPT ![Main] = Parse(0)]
      /\ cursor' = [cursor EXCEPT ![Main] = ChunkFirst(thread_count, 0)]
  BY TaskNames DEF ParseOwn, Begin, Go, options, pool, main
<1>3. thread[Main].restart_from = 0
  BY <1>1, <1>2 DEF ListsOK
<1>4. lines = UnicodeData => TrueRange(thread[Main])
  BY DEF RightInv, ReadOK, ThreadsOK
<1>5. QueuesOK' /\ Waiting' \subseteq Waiting
  BY <1>1, <1>2 DEF QueuesOK, Waiting
<1> QED
  <2>1. 0 \in 0 .. thread_count - 1
    BY <1>1
  <2>2. lines = UnicodeData =>
          /\ TrueRange(thread[Main]) \/ ChunkLast(thread_count, 0) < thread[Main].start
          /\ 0 \in {0, thread_count - 1} => thread[Main].restart_from = 0
    BY <1>3, <1>4
  <2> QED
    BY <2>1, <2>2, <1>1, <1>2, <1>5, BeginRight

\* A worker takes the greatest chunk that waits.
LEMMA TakeRight ==
  ASSUME IInv, RightInv, NEW w \in Worker, Take(w)
  PROVE  RightInv'
<1>1. /\ PlacesOK /\ OnceOK /\ Main \in Proc /\ QueuesOK /\ w \in Proc /\ w # Main
      /\ thread_count \in Nat /\ 1 <= thread_count /\ thread_count <= MaxCp /\ MaxCp \in Nat
  BY ProcIs, MaxCpAssumption DEF IInv, WorkOK, RightInv, OrderOK
<1>2. UNCHANGED <<thread_count, lines, thread, table, to_enqueue>>
  BY DEF Take, options, main
<1>3. CASE pc' = [pc EXCEPT ![w] = "gone"] /\ UNCHANGED <<task_queue, job, cursor>>
  BY <1>1, <1>2, <1>3, OneMoves DEF Reading
<1>4. CASE UNCHANGED <<pc, task_queue, job, cursor>>
  BY <1>1, <1>2, <1>4, NobodyMoves
<1>5. CASE task_queue # <<>> /\ Begin(w, Head(task_queue)) /\ task_queue' = Tail(task_queue)
  <2> PICK S : S = PoolParses(thread_count) \cup Dumps
    OBVIOUS
  <2> PICK h : h = Head(task_queue)
    OBVIOUS
  <2>1. task_queue \in Seq(S) /\ h \in S
    BY <1>1, <1>5 DEF OnceOK
  <2>2. /\ ChunksIn(task_queue') \subseteq ChunksIn(task_queue) /\ Descends(task_queue')
        /\ \A i \in 0 .. MaxCp : h = Parse(i) => i \in ChunksIn(task_queue)
        /\ \A i \in 0 .. MaxCp : h = Parse(i) => \A j \in ChunksIn(task_queue') : j < i
    BY <1>1, <1>5, <2>1, TailDescends DEF QueuesOK
  <2>3. QueuesOK' /\ Waiting' \subseteq Waiting
    BY <1>1, <1>2, <2>2, QueuesShrink DEF QueuesOK
  <2>4. CASE h \in Dumps
    <3>1. h[1] # "parse"
      BY <2>4, DumpsAre
    <3>2. /\ pc' = [pc EXCEPT ![w] = "dir"] /\ job' = [job EXCEPT ![w] = h]
          /\ cursor' = [cursor EXCEPT ![w] = cursor[w]]
      BY <1>5, <3>1 DEF Begin, Go
    <3>3. /\ \A q \in Proc : pc'[q] = IF q = w THEN "dir" ELSE pc[q]
          /\ \A q \in Proc \ {w} : job'[q] = job[q] /\ cursor'[q] = cursor[q]
      BY <3>2, <1>1 DEF PlacesOK, IInv, LooksOK, WorkOK, JobsOK
    <3> QED
      BY <3>3, <1>1, <1>2, <2>3, NothingLookedUp
  <2>5. CASE h \in PoolParses(thread_count)
    <3> PICK i \in 1 .. thread_count - 1 : h = Parse(i)
      BY <2>5, ParsesAre
    <3>1. i \in 0 .. MaxCp /\ i \in 0 .. thread_count - 1 /\ i # 0
      BY <1>1
    <3>2. i \in ChunksIn(task_queue) /\ \A j \in ChunksIn(task_queue') : j < i
      BY <2>2, <3>1
    <3>3. \A j \in Waiting' : j < i
      BY <3>2, <1>1, <1>2 DEF Waiting, QueuesOK
    <3>4. /\ pc' = [pc EXCEPT ![w] = "parse"] /\ job' = [job EXCEPT ![w] = Parse(i)]
          /\ cursor' = [cursor EXCEPT ![w] = ChunkFirst(thread_count, i)]
      BY <1>5, TaskNames DEF Begin, Go
    <3>5. i \in Waiting
      BY <3>2 DEF Waiting
    <3>6. lines = UnicodeData =>
            /\ TrueRange(thread[w]) \/ ChunkLast(thread_count, i) < thread[w].start
            /\ i \in {0, thread_count - 1} => thread[w].restart_from = 0
      BY <3>1, <3>5, <1>1 DEF RightInv, ReadOK, ThreadsOK
    <3> QED
      BY <3>1, <3>3, <3>4, <3>6, <2>3, <1>1, <1>2, BeginRight
  <2> QED
    BY <2>1, <2>4, <2>5
<1> QED
  BY <1>3, <1>4, <1>5 DEF Take, Go

\* A thread looks up a code point.
LEMMA LookUpRight ==
  ASSUME IInv, RightInv, NEW p \in Proc, LookUpNext(p)
  PROVE  RightInv'
<1>1. /\ PlacesOK /\ LooksOK /\ JobsOK /\ LinesOK /\ TableOK /\ Main \in Proc /\ QueuesOK
      /\ thread_count \in Threads
  BY ProcIs DEF IInv, WorkOK, ResultOK, RightInv, OrderOK, PlacesOK
<1> PICK n \in Threads : n = thread_count
  BY <1>1
<1>2. /\ pc[p] = "parse" /\ UNCHANGED <<thread_count, lines, task_queue, to_enqueue, job>>
  BY DEF LookUpNext, options, pool, main
<1> PICK i : i = job[p][2]
  OBVIOUS
<1>3. i \in 0 .. n - 1 /\ job[p] = Parse(i)
  BY <1>1, <1>2, ParsesAre DEF JobsOK
<1> PICK cp : cp = cursor[p]
  OBVIOUS
<1> PICK t \in ThreadState : t = thread[p]
  BY <1>1 DEF LooksOK
<1> PICK a : a = LookupCat(lines, t, cp)
  OBVIOUS
<1>4. CASE pc' = [pc EXCEPT ![p] = "store"] /\ UNCHANGED <<table, thread, cursor>>
  BY <1>1, <1>2, <1>4, OneMoves DEF Reading
<1>5. ASSUME ~(cp > ChunkLast(n, i)), thread' = [thread EXCEPT ![p] = a.thread],
             \/ /\ a.ok /\ table' = [table EXCEPT ![cp] = a.cat]
                /\ cursor' = [cursor EXCEPT ![p] = cp + 1] /\ UNCHANGED pc
             \/ ~a.ok /\ pc' = [pc EXCEPT ![p] = "exit"] /\ UNCHANGED <<table, cursor>>
      PROVE  RightInv'
  <2>1. pc[Main] \notin Reading
    <3>1. CASE p = Main
      BY <3>1, <1>2 DEF Reading
    <3>2. CASE p # Main
      <4>1. lines # <<>>
        BY <3>2, <1>1, <1>2 DEF LinesOK
      <4> QED
        BY <4>1, <1>1 DEF LinesOK
    <3> QED
      BY <3>1, <3>2
  <2>2. \A q \in Proc : pc'[q] = pc[q] \/ (q = p /\ pc'[q] = "exit" /\ ~a.ok)
    BY <1>5, <1>1 DEF PlacesOK
  <2>3. OrderOK'
    <3>1. QueuesOK' /\ Waiting' = Waiting
      BY <1>1, <1>2 DEF QueuesOK, Waiting
    <3>2. ASSUME NEW w \in Proc \ {Main}, pc'[w] = "parse", NEW j \in Waiting
          PROVE  j < job'[w][2]
      BY <3>2, <2>2, <1>2 DEF RightInv, OrderOK
    <3> QED
      BY <3>1, <3>2 DEF OrderOK
  <2>4. FreshOK'
    BY <2>1, <2>2, <1>1 DEF FreshOK, Reading
  <2>5. ReadOK'
    <3>1. SUFFICES ASSUME lines = UnicodeData
                   PROVE  ThreadsOK' /\ TableRight(thread_count', table')
      BY <1>2 DEF ReadOK
    <3>2. ThreadsOK /\ TableRight(n, table)
      BY <3>1 DEF RightInv, ReadOK
    <3> PICK first \in Nat, last \in Nat : first = ChunkFirst(n, i) /\ last = ChunkLast(n, i)
      BY <1>3, ChunksAscend
    <3>3. cp \in Nat /\ first <= cp /\ cp <= last /\ cp \in Chunk(n, i)
      <4>1. cp \in Nat /\ first <= cp
        BY <1>1, <1>2 DEF LooksOK, TableOK
      <4> QED
        BY <4>1, <1>5 DEF Chunk
    <3>4. LooksRight(n, i, t, cp)
      BY <3>2, <1>2 DEF ThreadsOK
    <3>5. /\ TrueRange(a.thread) \/ first <= a.thread.start
          /\ ~Excluded(n, i) => a.ok /\ TrueRange(a.thread)
          /\ LooksRight(n, i, a.thread, cp + 1)
          /\ a.cat = CategoryFromString(CategoryOf(UnicodeData, cp)) \/ Amiss(n, i, cp)
      BY <3>1, <3>3, <3>4, <1>3, LooksOnRight
    <3>6. /\ \A q \in Proc : thread'[q] = IF q = p THEN a.thread ELSE thread[q]
          /\ \A q \in Proc : cursor'[q] = IF q = p /\ a.ok THEN cp + 1 ELSE cursor[q]
      BY <1>5, <1>1 DEF LooksOK
    <3>7. TrueRange(thread'[Main])
      <4>1. CASE p = Main
        <5>1. job[p] = Parse(0)
          BY <4>1, <1>1, <1>2 DEF JobsOK
        <5>2. i = 0
          BY <5>1, TaskNames
        <5>3. ~Excluded(n, i)
          BY <5>2 DEF Excluded
        <5> QED
          BY <4>1, <5>3, <3>5, <3>6, <1>1
      <4>2. CASE p # Main
        BY <4>2, <3>2, <3>6, <1>1 DEF ThreadsOK
      <4> QED
        BY <4>1, <4>2
    <3>8. ASSUME NEW q \in Proc, pc'[q] = "parse"
          PROVE  LooksRight(thread_count', job'[q][2], thread'[q], cursor'[q])
      <4>1. CASE q = p
        <5>1. a.ok
          BY <4>1, <3>8, <1>5, <2>2, <1>1 DEF PlacesOK
        <5>2. thread'[q] = a.thread /\ cursor'[q] = cp + 1 /\ job'[q][2] = i /\ thread_count' = n
          BY <4>1, <5>1, <3>6, <1>2
        <5> QED
          BY <5>2, <3>5
      <4>2. CASE q # p
        <5>1. LooksRight(n, job[q][2], thread[q], cursor[q])
          BY <4>2, <3>2, <3>8, <2>2 DEF ThreadsOK
        <5>2. thread'[q] = thread[q] /\ cursor'[q] = cursor[q] /\ job'[q] = job[q] /\ thread_count' = n
          BY <4>2, <3>6, <1>2
        <5> QED
          BY <5>1, <5>2
      <4> QED
        BY <4>1, <4>2
    <3>9. Waiting' = Waiting /\ Waiting \subseteq 1 .. n - 1 /\ n \in Nat
      BY <1>2, WaitingAre, Counts DEF Waiting
    <3>10. p # Main => \A j \in Waiting : j < i
      BY <1>2 DEF RightInv, OrderOK
    <3>11. ASSUME NEW w \in Proc \ {Main}, NEW j \in Waiting'
           PROVE  TrueRange(thread'[w]) \/ ChunkLast(thread_count', j) < thread'[w].start
      <4>1. CASE w = p
        <5>1. j \in 0 .. n - 1 /\ j # 0 /\ j < i
          BY <4>1, <3>9, <3>10, <3>11
        <5>2. ChunkLast(n, j) < first /\ ChunkLast(n, j) \in Nat
          BY <5>1, <1>3, ChunksAscend
        <5>3. a.thread \in ThreadState
          <6>1. cp \in CodePoint
            BY <3>3, <1>3, ChunksAscend, MaxCpAssumption DEF CodePoint
          <6> QED
            BY <6>1, <3>1, DataIsText, LookupIsTyped
        <5>4. a.thread.start \in Nat
          BY <5>3 DEF ThreadState
        <5> QED
          BY <4>1, <5>2, <5>4, <3>5, <3>6, <1>2
      <4>2. CASE w # p
        BY <4>2, <3>2, <3>6, <3>9, <1>2 DEF ThreadsOK
      <4> QED
        BY <4>1, <4>2
    <3>12. ASSUME thread_count' - 1 \in Waiting', NEW w \in Proc \ {Main}
           PROVE  thread'[w].restart_from = 0
      <4>1. w # p
        BY <3>9, <3>10, <3>12, <1>2, <1>3
      <4> QED
        BY <4>1, <3>2, <3>6, <3>9, <3>12, <1>2 DEF ThreadsOK
    <3>13. ThreadsOK'
      BY <3>7, <3>8, <3>11, <3>12 DEF ThreadsOK
    <3>14. TableRight(thread_count', table')
      <4>1. ASSUME NEW j \in 0 .. n - 1, NEW c \in Chunk(n, j)
            PROVE  \/ table'[c] \in {"unset", CategoryFromString(CategoryOf(UnicodeData, c))}
                   \/ Amiss(n, j, c)
        <5>1. table'[c] = table[c] \/ (c = cp /\ table'[c] = a.cat)
          <6>1. c \in CodePoint
            BY ChunksAscend, MaxCpAssumption DEF Chunk, CodePoint
          <6> QED
            BY <6>1, <1>5, <1>1 DEF LooksOK
        <5>2. CASE table'[c] = table[c]
          BY <5>2, <3>2 DEF TableRight
        <5>3. CASE c = cp /\ table'[c] = a.cat
          <6>1. j = i
            BY <5>3, <3>3, <1>3, ChunksAreDisjoint
          <6> QED
            BY <5>3, <6>1, <3>5
        <5> QED
          BY <5>1, <5>2, <5>3
      <4> QED
        BY <4>1, <1>2 DEF TableRight
    <3> QED
      BY <3>13, <3>14
  <2> QED
    BY <2>3, <2>4, <2>5 DEF RightInv
<1> QED
  BY <1>4, <1>5 DEF LookUpNext, Fail, Go

\* Main reports its chunk, or goes on to the first file.
LEMMA OwnDoneRight ==
  ASSUME IInv, RightInv, OwnDone
  PROVE  RightInv'
<1>1. PlacesOK /\ LooksOK /\ JobsOK /\ Main \in Proc /\ QueuesOK
  BY ProcIs DEF IInv, WorkOK, RightInv, OrderOK
<1>2. pc[Main] = "store" /\ UNCHANGED <<thread_count, lines, thread, table, task_queue>>
  BY DEF OwnDone, options, pool
<1>3. CASE job' = [job EXCEPT ![Main] = NoTask] /\ Go(Main, "wait") /\ UNCHANGED <<cursor, to_enqueue>>
  <2>1. pc' = [pc EXCEPT ![Main] = "wait"] /\ \A q \in Proc \ {Main} : job'[q] = job[q]
    BY <1>1, <1>3 DEF Go, JobsOK
  <2> QED
    BY <2>1, <1>1, <1>2, <1>3, OneMoves DEF Reading
<1>4. CASE /\ Begin(Main, Dump(Cats[1]))
           /\ to_enqueue' = [k \in 1 .. Len(Cats) - 1 |-> Dump(Cats[k + 1])]
  <2>1. /\ pc' = [pc EXCEPT ![Main] = "dir"] /\ job' = [job EXCEPT ![Main] = Dump(Cats[1])]
        /\ cursor' = [cursor EXCEPT ![Main] = cursor[Main]]
    BY <1>4, TaskNames DEF Begin, Go
  <2>2. /\ \A q \in Proc : pc'[q] = IF q = Main THEN "dir" ELSE pc[q]
        /\ \A q \in Proc \ {Main} : job'[q] = job[q] /\ cursor'[q] = cursor[q]
    BY <2>1, <1>1 DEF PlacesOK, LooksOK, JobsOK
  <2>3. \A k \in DOMAIN to_enqueue' : \A i \in 0 .. MaxCp : to_enqueue'[k] # Parse(i)
    BY <1>4, TaskNames
  <2>4. ChunksIn(to_enqueue') = {} /\ Descends(to_enqueue')
    BY <2>3, NoChunks
  <2>5. QueuesOK' /\ Waiting' \subseteq Waiting
    BY <2>4, <1>1, <1>2, QueuesShrink DEF QueuesOK
  <2> QED
    BY <2>2, <2>5, <1>1, <1>2, NothingLookedUp DEF Reading
<1> QED
  BY <1>3, <1>4 DEF OwnDone

\* Main waits, and enqueues the files when it has waited for the chunks.
LEMMA WaitRight ==
  ASSUME IInv, RightInv, WaitDone \/ WaitLook \/ WaitSleep
  PROVE  RightInv'
<1>1. PlacesOK /\ LooksOK /\ JobsOK /\ Main \in Proc /\ QueuesOK
  BY ProcIs DEF IInv, WorkOK, RightInv, OrderOK
<1>2. UNCHANGED <<thread_count, lines, thread, table, cursor, task_queue, job>>
  BY DEF WaitDone, WaitLook, WaitSleep, options, look, pool
<1>3. CASE WaitDone
  <2>1. \/ pc' = pc
        \/ \E x \in {"enqueue", "exit_success", "exit"} : pc' = [pc EXCEPT ![Main] = x]
    BY <1>3 DEF WaitDone, Go
  <2>2. \/ to_enqueue' = to_enqueue
        \/ to_enqueue' = [k \in DOMAIN Cats |-> Dump(Cats[k])]
    BY <1>3 DEF WaitDone
  <2>3. \A q \in Proc : pc'[q] = pc[q] \/ pc'[q] \in {"enqueue", "exit_success", "exit"}
    BY <2>1, <1>1 DEF PlacesOK
  <2>4. CASE to_enqueue' = to_enqueue
    BY <2>3, <2>4, <1>1, <1>2, NobodyLooks DEF Reading
  <2>5. CASE to_enqueue' = [k \in DOMAIN Cats |-> Dump(Cats[k])]
    <3>1. \A k \in DOMAIN to_enqueue' : \A i \in 0 .. MaxCp : to_enqueue'[k] # Parse(i)
      BY <2>5, TaskNames
    <3>2. ChunksIn(to_enqueue') = {} /\ Descends(to_enqueue')
      BY <3>1, NoChunks
    <3>3. QueuesOK' /\ Waiting' \subseteq Waiting
      BY <3>2, <1>1, <1>2, QueuesShrink DEF QueuesOK
    <3> QED
      BY <2>3, <3>3, <1>1, <1>2, NothingLookedUp DEF Reading
  <2> QED
    BY <2>2, <2>4, <2>5
<1>4. CASE WaitLook \/ WaitSleep
  <2>1. to_enqueue' = to_enqueue /\ \E x \in {"wait", "cnd_wait"} : pc' = [pc EXCEPT ![Main] = x]
    BY <1>4 DEF WaitLook, WaitSleep, Go, main
  <2> QED
    BY <2>1, <1>1, <1>2, OneMoves DEF Reading
<1> QED
  BY <1>3, <1>4

\* A worker reports its task, or a process finds its directory.
LEMMA ReportRight ==
  ASSUME IInv, RightInv, NEW p \in Proc,
         \/ StoreDone(p) \/ Broadcast(p)
         \/ AskDir(p) \/ Readlink(p) \/ Truncate(p) \/ StoreRetrieved(p) \/ CopyDir(p)
  PROVE  RightInv'
<1>1. PlacesOK /\ JobsOK
  BY DEF IInv, WorkOK
<1>2. UNCHANGED <<thread_count, lines, thread, table, cursor, task_queue, to_enqueue>>
  BY DEF StoreDone, Broadcast, AskDir, Readlink, Truncate, StoreRetrieved, CopyDir, options, look,
         pool, main
<1>3. \E x \in {"broadcast", "idle"} \cup Dumping : pc' = [pc EXCEPT ![p] = x]
  BY DEF StoreDone, Broadcast, AskDir, Readlink, Truncate, StoreRetrieved, CopyDir, Go, Dumping
<1>4. job' = job \/ job' = [job EXCEPT ![p] = NoTask]
  BY DEF StoreDone, Broadcast, AskDir, Readlink, Truncate, StoreRetrieved, CopyDir
<1>5. \A q \in Proc \ {p} : job'[q] = job[q]
  BY <1>1, <1>4 DEF JobsOK
<1>6. ({"broadcast", "idle"} \cup Dumping) \cap (Reading \cup {"parse"}) = {}
  BY DEF Dumping, Reading
<1> QED
  BY <1>1, <1>2, <1>3, <1>5, <1>6, OneMoves

\* A process is done with its file, and main goes on to the next.
LEMMA WrittenRight ==
  ASSUME IInv, RightInv, NEW p \in Proc, NEW ok, Written(p, ok),
         UNCHANGED <<thread_count, lines, thread, table, cursor, task_queue>>
  PROVE  RightInv'
<1>1. PlacesOK /\ JobsOK /\ OnceOK /\ Main \in Proc /\ QueuesOK
  BY ProcIs DEF IInv, WorkOK, RightInv, OrderOK
<1>2. CASE UNCHANGED <<job, to_enqueue>> /\ \E x \in {"store", "exit", "exit_success"} :
                                              pc' = [pc EXCEPT ![p] = x]
  BY <1>1, <1>2, OneMoves DEF Reading
<1>3. CASE /\ p = Main /\ to_enqueue # <<>> /\ to_enqueue' = Tail(to_enqueue)
           /\ job' = [job EXCEPT ![p] = Head(to_enqueue)] /\ pc' = [pc EXCEPT ![p] = "dir"]
  <2>1. to_enqueue \in Seq(PoolParses(thread_count) \cup Dumps)
    BY <1>1 DEF OnceOK
  <2>2. ChunksIn(to_enqueue') \subseteq ChunksIn(to_enqueue) /\ Descends(to_enqueue')
    BY <2>1, <1>1, <1>3, TailDescends DEF QueuesOK
  <2>3. QueuesOK' /\ Waiting' \subseteq Waiting
    BY <2>2, <1>1, QueuesShrink DEF QueuesOK
  <2>4. /\ \A q \in Proc : pc'[q] = IF q = p THEN "dir" ELSE pc[q]
        /\ \A q \in Proc \ {p} : job'[q] = job[q]
    BY <1>1, <1>3 DEF PlacesOK, JobsOK
  <2> QED
    BY <2>3, <2>4, <1>1, <1>3, NothingLookedUp DEF Reading
<1> QED
  BY <1>2, <1>3 DEF Written, Fail, Go

\* A process opens or writes its file.
LEMMA FileRight ==
  ASSUME IInv, RightInv, NEW p \in Proc, OpenFile(p) \/ WriteFile(p)
  PROVE  RightInv'
<1>1. PlacesOK
  BY DEF IInv
<1>2. UNCHANGED <<thread_count, lines, thread, table, cursor, task_queue>>
  BY DEF OpenFile, WriteFile, options, look, pool
<1>3. CASE OpenFile(p)
  <2>1. CASE UNCHANGED <<job, to_enqueue>> /\ \E x \in {"exit", "write"} : pc' = [pc EXCEPT ![p] = x]
    BY <2>1, <1>1, <1>2, OneMoves DEF Reading
  <2>2. CASE Written(p, FALSE)
    BY <2>2, <1>2, WrittenRight
  <2> QED
    BY <1>3, <2>1, <2>2 DEF OpenFile, Fail, Go
<1>4. CASE WriteFile(p)
  BY <1>2, <1>4, WrittenRight DEF WriteFile
<1> QED
  BY <1>3, <1>4

\* A process ends the run, or what is outside of the work happens.
LEMMA EndRight ==
  ASSUME IInv, RightInv,
         (\E p \in Proc : Exit(p) \/ Join(p)) \/ SpuriousWakeUp \/ Kill \/ Rest \/ UNCHANGED vars
  PROVE  RightInv'
<1>1. PlacesOK /\ QueuesOK /\ Main \in Proc
  BY ProcIs DEF IInv, RightInv, OrderOK
<1>2. CASE pc' = pc /\ UNCHANGED <<thread_count, lines, thread, table, cursor, task_queue, to_enqueue, job>>
  BY <1>2, NobodyMoves
<1>3. CASE (\E p \in Proc : Join(p)) \/ SpuriousWakeUp \/ Kill \/ Rest \/ UNCHANGED vars
  BY <1>2, <1>3 DEF Join, SpuriousWakeUp, Kill, Rest, vars, options, look, pool, main
<1>4. ASSUME NEW p \in Proc, Exit(p)
      PROVE  RightInv'
  <2>1. UNCHANGED <<thread_count, lines, thread, table, cursor, to_enqueue, job>>
    BY <1>4 DEF Exit, options, look, main
  <2>2. CASE UNCHANGED <<pc, pool, exiting>>
    BY <2>1, <2>2, <1>2 DEF pool
  <2>3. CASE task_queue' = <<>> /\ \E x \in {"join", "join_success"} : pc' = [pc EXCEPT ![p] = x]
    <3>1. DOMAIN task_queue' = {}
      BY <2>3
    <3>2. ChunksIn(task_queue') = {} /\ Descends(task_queue')
      BY <3>1, NoChunks
    <3>3. QueuesOK' /\ Waiting' \subseteq Waiting
      BY <3>2, <2>1, <1>1, QueuesShrink DEF QueuesOK
    <3>4. \A q \in Proc : pc'[q] = pc[q] \/ pc'[q] \in {"join", "join_success"}
      BY <2>3, <1>1 DEF PlacesOK
    <3> QED
      BY <3>3, <3>4, <2>1, <1>1, NothingLookedUp DEF Reading
  <2> QED
    BY <1>4, <2>2, <2>3 DEF Exit, Go
<1> QED
  BY <1>3, <1>4

\* A run begins with no chunk looked up.
LEMMA StartedRight == Started => RightInv
<1> SUFFICES ASSUME Started PROVE RightInv
  OBVIOUS
<1>1. DOMAIN task_queue = {} /\ DOMAIN to_enqueue = {} /\ lines = <<>>
  BY DEF Started
<1>2. /\ ChunksIn(task_queue) = {} /\ Descends(task_queue)
      /\ ChunksIn(to_enqueue) = {} /\ Descends(to_enqueue)
  BY <1>1, NoChunks
<1>3. OrderOK
  BY <1>2 DEF OrderOK, QueuesOK, Waiting
<1>4. FreshOK
  BY DEF FreshOK, Started, FreshThread
<1>5. ReadOK
  BY <1>1, DataIsText DEF ReadOK
<1> QED
  BY <1>3, <1>4, <1>5 DEF RightInv

\* Every step leaves the table right.
LEMMA NextRight == IInv /\ RightInv /\ [Next]_vars => RightInv'
<1>1. ASSUME IInv, RightInv, MainStep
      PROVE  RightInv'
  BY <1>1, GenCachedirRight, ReadingRight, EnqueueRight, ParseOwnRight, OwnDoneRight, WaitRight
  DEF MainStep
<1>2. ASSUME IInv, RightInv, NEW w \in Worker, WorkerStep(w)
      PROVE  RightInv'
  <2>1. w \in Proc
    BY <1>2, ProcIs DEF IInv
  <2> QED
    BY <2>1, <1>2, TakeRight, ReportRight DEF WorkerStep
<1>3. ASSUME IInv, RightInv, NEW p \in Proc, OwnStep(p)
      PROVE  RightInv'
  BY <1>3, LookUpRight, ReportRight, FileRight, EndRight DEF OwnStep
<1>4. IInv /\ RightInv /\ (SpuriousWakeUp \/ Kill \/ Rest \/ UNCHANGED vars) => RightInv'
  BY EndRight
<1>5. IInv /\ Rerun => RightInv'
  BY RerunStarts, StartedRight, PTL
<1> HIDE DEF IInv, RightInv
<1> QED
  BY <1>1, <1>2, <1>3, <1>4, <1>5 DEF Next

(***************************************************************************)
(* Who wrote a part of the cache                                           *)
(***************************************************************************)

\* It was an earlier run, as long as this one has not opened the cache for writing, and
\* when this one has other lines than it can have downloaded.
EarlierInv ==
  /\ torn <= runs
  /\ pc[Main] \in {"start", "read"} => torn < runs
  /\ lines \in {<<>>, Page, UnicodeData} \/ torn < runs

\* A step that leaves the cache and the lines, and does not bring main back.
LEMMA EarlierStays ==
  ASSUME PlacesOK, EarlierInv, UNCHANGED <<runs, torn, lines>>,
         \/ pc' = pc
         \/ \E p \in Proc : \E x : x \notin {"start", "read"} /\ pc' = [pc EXCEPT ![p] = x]
  PROVE  EarlierInv'
<1>1. pc'[Main] \in {"start", "read"} => pc'[Main] = pc[Main]
  BY ProcIs DEF PlacesOK
<1> QED
  BY <1>1 DEF EarlierInv

\* Main gets its file.
LEMMA ReadingEarlier ==
  ASSUME IInv, EarlierInv, GenCachedir \/ ReadCache \/ OpenCache \/ WriteCache
  PROVE  EarlierInv'
<1>1. /\ PlacesOK /\ Main \in Proc /\ pc[Main] \in Reading
      /\ runs \in Nat /\ runs >= 1 /\ torn \in Nat
  BY ProcIs, GeneratorAssumption
  DEF IInv, PlacesOK, DiskOK, GenCachedir, ReadCache, OpenCache, WriteCache, Reading
<1>2. lines = <<>>
  BY <1>1, WhileReading
<1>3. CASE GenCachedir
  BY <1>1, <1>3 DEF GenCachedir, EarlierInv, disk, look
<1>4. ASSUME NEW text, UseText(text)
      PROVE  /\ pc'[Main] \notin {"start", "read"}
             /\ lines' \in {<<>>, Page, UnicodeData} \/ text = "cut"
  <2>1. pc'[Main] \notin {"start", "read"}
    BY <1>1, <1>4 DEF UseText, Fail, Go, PlacesOK
  <2>2. lines' \in TextLines(text)
    BY <1>4 DEF UseText
  <2> QED
    BY <2>1, <2>2, TextLinesAre
<1>5. CASE ReadCache
  <2>1. runs' = runs /\ torn' = torn /\ torn < runs
    BY <1>5 DEF ReadCache, EarlierInv, disk
  <2>2. CASE UseText(cache)
    BY <2>1, <2>2, <1>4 DEF EarlierInv
  <2>3. CASE Go(Main, "fetch") /\ UNCHANGED <<lines, main>>
    BY <2>1, <2>3, <1>1 DEF EarlierInv, Go, PlacesOK
  <2> QED
    BY <1>5, <2>2, <2>3 DEF ReadCache
<1>6. CASE OpenCache
  <2>1. UNCHANGED <<runs, torn, lines>>
    BY <1>6 DEF OpenCache, look
  <2>2. \E x \in {"exit", "whole", "page"} : pc' = [pc EXCEPT ![Main] = x]
    BY <1>6 DEF OpenCache, Fail, Go
  <2> QED
    BY <2>1, <2>2, <1>1, EarlierStays
<1>7. CASE WriteCache
  <2>1. runs' = runs /\ torn' \in {0, runs} /\ pc[Main] \in {"whole", "page"}
    BY <1>7 DEF WriteCache
  <2>2. CASE UseText(pc[Main])
    <3>1. PICK text \in {"whole", "page"} : text = pc[Main]
      BY <2>1
    <3>2. /\ pc'[Main] \notin {"start", "read"}
          /\ lines' \in {<<>>, Page, UnicodeData}
      BY <2>2, <3>1, <1>4
    <3> QED
      BY <3>2, <2>1, <1>1 DEF EarlierInv
  <2>3. CASE Fail(Main) /\ UNCHANGED <<lines, main>>
    BY <2>1, <2>3, <1>1, <1>2 DEF EarlierInv, Fail, Go, PlacesOK
  <2> QED
    BY <1>7, <2>2, <2>3 DEF WriteCache
<1> QED
  BY <1>3, <1>5, <1>6, <1>7

\* A process is killed, and the program started again.
LEMMA AgainEarlier ==
  ASSUME IInv, EarlierInv, Kill \/ Rerun
  PROVE  EarlierInv'
<1>1. runs \in Nat /\ runs >= 1 /\ torn \in Nat /\ torn <= runs
  BY GeneratorAssumption DEF IInv, DiskOK, EarlierInv
<1>2. CASE Kill
  <2>1. pc' = pc /\ lines' = lines /\ runs' = runs
    BY <1>2 DEF Kill, look
  <2>2. CASE torn' = torn
    BY <2>1, <2>2 DEF EarlierInv
  <2>3. CASE torn' = runs /\ pc[Main] \in {"whole", "page"}
    <3>1. lines = <<>>
      BY <2>3, WhileReading DEF Reading
    <3> QED
      BY <2>1, <2>3, <3>1, <1>1 DEF EarlierInv
  <2> QED
    BY <1>2, <2>2, <2>3 DEF Kill
<1>3. CASE Rerun
  <2>1. runs' = runs + 1 /\ torn' = torn /\ lines' = <<>>
    BY <1>3 DEF Rerun
  <2> QED
    BY <2>1, <1>1 DEF EarlierInv
<1> QED
  BY <1>2, <1>3

\* Every step leaves it to an earlier run.
LEMMA NextEarlier == IInv /\ EarlierInv /\ [Next]_vars => EarlierInv'
<1> SUFFICES ASSUME IInv, EarlierInv, [Next]_vars PROVE EarlierInv'
  OBVIOUS
<1>1. PlacesOK /\ Main \in Proc /\ Worker \subseteq Proc
  BY ProcIs DEF IInv
<1>2. CASE Enqueue \/ ParseOwn \/ OwnDone \/ WaitDone \/ WaitLook \/ WaitSleep
  <2>1. UNCHANGED <<runs, torn, lines>>
    BY <1>2 DEF Enqueue, ParseOwn, OwnDone, WaitDone, WaitLook, WaitSleep, disk, look
  <2>2. \/ pc' = pc
        \/ \E x \in {"own", "wait", "parse", "dir", "enqueue", "exit", "exit_success", "cnd_wait"} :
             pc' = [pc EXCEPT ![Main] = x]
    BY <1>2 DEF Enqueue, ParseOwn, OwnDone, WaitDone, WaitLook, WaitSleep, Begin, Go
  <2> QED
    BY <2>1, <2>2, <1>1, EarlierStays
<1>3. ASSUME NEW w \in Worker, WorkerStep(w)
      PROVE  EarlierInv'
  <2>1. UNCHANGED <<runs, torn, lines>>
    BY <1>3 DEF WorkerStep, Take, StoreDone, Broadcast, disk, look
  <2>2. \/ pc' = pc
        \/ \E x \in {"gone", "parse", "dir", "broadcast", "idle"} : pc' = [pc EXCEPT ![w] = x]
    BY <1>3 DEF WorkerStep, Take, StoreDone, Broadcast, Begin, Go
  <2> QED
    BY <2>1, <2>2, <1>1, EarlierStays
<1>4. ASSUME NEW p \in Proc, OwnStep(p)
      PROVE  EarlierInv'
  <2>1. UNCHANGED <<runs, torn, lines>>
    BY <1>4 DEF OwnStep, LookUpNext, AskDir, Readlink, Truncate, StoreRetrieved, CopyDir, OpenFile,
                WriteFile, Exit, Join, disk, look
  <2>2. \/ pc' = pc
        \/ \E x \in {"store", "exit", "exit_success", "open", "copy", "readlink", "truncate",
                     "retrieved", "write", "dir", "join", "join_success"} :
             pc' = [pc EXCEPT ![p] = x]
    <3>1. CASE LookUpNext(p) \/ AskDir(p) \/ Readlink(p) \/ Truncate(p) \/ StoreRetrieved(p) \/ CopyDir(p)
      BY <3>1 DEF LookUpNext, AskDir, Readlink, Truncate, StoreRetrieved, CopyDir, Fail, Go
    <3>2. CASE OpenFile(p) \/ WriteFile(p)
      BY <3>2 DEF OpenFile, WriteFile, Written, Fail, Go
    <3>3. CASE Exit(p) \/ Join(p)
      BY <3>3 DEF Exit, Join, Go
    <3> QED
      BY <1>4, <3>1, <3>2, <3>3 DEF OwnStep
  <2> QED
    BY <2>1, <2>2, <1>1, EarlierStays
<1>5. CASE SpuriousWakeUp \/ Rest \/ UNCHANGED vars
  BY <1>1, <1>5, EarlierStays DEF SpuriousWakeUp, Rest, vars, disk, look
<1> HIDE DEF IInv, EarlierInv
<1> QED
  BY <1>2, <1>3, <1>4, <1>5, ReadingEarlier, AgainEarlier DEF Next, MainStep

(***************************************************************************)
(* The theorems                                                            *)
(***************************************************************************)

\* A pool that is destroyed has a thread beside main.
PoolInv == exiting # Nobody => thread_count > 1

\* What is known of the pool is kept.
LEMMA PoolKeeps ==
  ASSUME PoolInv, thread_count \in Nat, thread_count >= 1, [Next]_vars
  PROVE  PoolInv'
<1>1. CASE Rerun
  BY <1>1 DEF Rerun, PoolInv
<1>2. ASSUME NEW p \in Proc, Exit(p)
      PROVE  PoolInv'
  BY <1>2 DEF Exit, PoolInv, options
<1>3. ASSUME UNCHANGED <<options, exiting>>
      PROVE  PoolInv'
  BY <1>3 DEF PoolInv, options
<1>4. CASE MainStep
  <2>1. CASE GenCachedir \/ ReadCache \/ OpenCache \/ WriteCache \/ Enqueue
    BY <2>1, <1>3 DEF GenCachedir, ReadCache, OpenCache, WriteCache, Enqueue
  <2>2. CASE ParseOwn \/ OwnDone \/ WaitDone \/ WaitLook \/ WaitSleep
    BY <2>2, <1>3 DEF ParseOwn, OwnDone, WaitDone, WaitLook, WaitSleep
  <2> QED
    BY <1>4, <2>1, <2>2 DEF MainStep
<1>5. ASSUME NEW w \in Worker, WorkerStep(w)
      PROVE  PoolInv'
  BY <1>3, <1>5 DEF WorkerStep, Take, StoreDone, Broadcast
<1>6. ASSUME NEW p \in Proc, OwnStep(p), ~Exit(p)
      PROVE  PoolInv'
  <2>1. CASE LookUpNext(p) \/ AskDir(p) \/ Readlink(p) \/ Truncate(p) \/ StoreRetrieved(p)
    BY <2>1, <1>3 DEF LookUpNext, AskDir, Readlink, Truncate, StoreRetrieved
  <2>2. CASE CopyDir(p) \/ OpenFile(p) \/ WriteFile(p) \/ Join(p)
    BY <2>2, <1>3 DEF CopyDir, OpenFile, WriteFile, Join
  <2> QED
    BY <1>6, <2>1, <2>2 DEF OwnStep
<1>7. CASE SpuriousWakeUp \/ Kill \/ Rest \/ UNCHANGED vars
  BY <1>3, <1>7 DEF SpuriousWakeUp, Kill, Rest, vars
<1> QED
  BY <1>1, <1>2, <1>4, <1>5, <1>6, <1>7 DEF Next

\* Every step preserves the invariant.
LEMMA NextKeeps == IInv /\ [Next]_vars => IInv'
<1>1. ASSUME IInv, MainStep
      PROVE  IInv'
  BY <1>1, GenCachedirKeeps, ReadCacheKeeps, OpenCacheKeeps, WriteCacheKeeps, EnqueueKeeps,
     ParseOwnKeeps, OwnDoneKeeps, WaitDoneKeeps, WaitKeeps DEF MainStep
<1>2. ASSUME IInv, NEW w \in Worker, WorkerStep(w)
      PROVE  IInv'
  BY <1>2, TakeKeeps, ReportKeeps DEF WorkerStep
<1>3. ASSUME IInv, NEW p \in Proc, OwnStep(p)
      PROVE  IInv'
  BY <1>3, LookUpKeeps, DirectoryKeeps, OpenFileKeeps, WriteFileKeeps, ExitKeeps, OutsideKeeps
  DEF OwnStep
<1>4. IInv /\ (SpuriousWakeUp \/ Kill \/ Rest) => IInv'
  BY OutsideKeeps
<1>5. IInv /\ UNCHANGED vars => IInv'
  <2> SUFFICES ASSUME IInv, UNCHANGED vars PROVE IInv'
    OBVIOUS
  <2>1. PlacesOK /\ DiskOK /\ TextOK
    BY DEF IInv, ResultOK
  <2>2. PlacesOK' /\ DiskOK' /\ TextOK'
    BY <2>1 DEF PlacesOK, DiskOK, TextOK, Worker, vars, disk, options, look, pool
  <2>3. /\ pc' = pc /\ UNCHANGED <<option, dirs>>
        /\ UNCHANGED <<thread_count, lines, thread, cursor, table, to_enqueue, to_wait, finished,
                       job, oks, files, task_queue>>
    BY DEF vars, options, look, pool, main, output
  <2> QED
    BY <2>2, <2>3, StillKeeps
<1>6. IInv /\ Rerun => IInv'
  BY RerunKeeps
<1> HIDE DEF IInv
<1> QED
  BY <1>1, <1>2, <1>3, <1>4, <1>5, <1>6 DEF Next

\* The invariant holds always.
LEMMA Inductive == Spec => [](IInv /\ PoolInv /\ RightInv /\ EarlierInv)
<1>1. Init => PoolInv /\ RightInv /\ EarlierInv
  BY InitStarts, StartedRight DEF Init, PoolInv, EarlierInv
<1>2. IInv /\ PoolInv /\ [Next]_vars => PoolInv'
  <2> SUFFICES ASSUME IInv, PoolInv, [Next]_vars PROVE PoolInv'
    OBVIOUS
  <2>1. thread_count \in Nat /\ thread_count >= 1
    BY ProcIs DEF IInv
  <2> QED
    BY <2>1, PoolKeeps
<1> HIDE DEF IInv, PoolInv, RightInv, EarlierInv
<1> QED
  BY InitHolds, NextKeeps, NextRight, NextEarlier, <1>1, <1>2, PTL DEF Spec

\* When all chunks are parsed, every code point is set.
LEMMA ParsedIsWhole ==
  ASSUME PlacesOK, TableOK, AllParsed
  PROVE  Whole
<1>1. thread_count \in Threads
  BY DEF PlacesOK
<1>2. ASSUME NEW cp \in CodePoint
      PROVE  table[cp] # "unset"
  <2> PICK i \in 0 .. thread_count - 1 :
        ChunkFirst(thread_count, i) <= cp /\ cp <= ChunkLast(thread_count, i)
    BY <1>1, ChunksAreAll
  <2>1. ChunkSet(i)
    BY DEF AllParsed, TableOK
  <2>2. cp < ChunkLast(thread_count, i) + 1
    BY <1>1, ChunksAreCodePoints DEF CodePoint
  <2> QED
    BY <2>1, <2>2 DEF ChunkSet, SetBelow
<1> QED
  BY <1>2 DEF Whole

\* A set of at most one element.
LEMMA AtMostOne ==
  ASSUME NEW S, \A x, y \in S : x = y
  PROVE  Cardinality(S) = IF S = {} THEN 0 ELSE 1
<1>1. CASE S = {}
  BY <1>1, FS_EmptySet
<1>2. CASE S # {}
  <2> PICK x \in S : TRUE
    BY <1>2
  <2>1. S = {x}
    OBVIOUS
  <2> QED
    BY <1>2, <2>1, FS_Singleton
<1> QED
  BY <1>1, <1>2

\* A task is in one place.
LEMMA PlacedOnce ==
  ASSUME OnceOK
  PROVE  TaskInOnePlace
<1>1. ASSUME NEW t \in Tasks
      PROVE  /\ Cardinality({k \in DOMAIN task_queue : task_queue[k] = t})
                + Cardinality({k \in DOMAIN to_enqueue : to_enqueue[k] = t})
                + Cardinality(Doing(t)) <= 1
             /\ t \in finished => /\ t \notin ToSet(task_queue) \cup ToSet(to_enqueue)
                                  /\ \A p \in Doing(t) : pc[p] = "broadcast"
  <2> PICK Q : Q = {k \in DOMAIN task_queue : task_queue[k] = t}
    OBVIOUS
  <2> PICK E : E = {k \in DOMAIN to_enqueue : to_enqueue[k] = t}
    OBVIOUS
  <2> PICK D : D = Doing(t)
    OBVIOUS
  <2>1. t # NoTask
    BY TaskNames DEF Tasks
  <2>2. /\ \A x, y \in Q : x = y
        /\ \A x, y \in E : x = y
    BY DEF OnceOK
  <2>3. \A x, y \in D : x = y
    BY <2>1 DEF OnceOK, Doing
  <2>4. (Q = {} \/ E = {}) /\ (Q = {} \/ D = {}) /\ (E = {} \/ D = {})
    BY DEF OnceOK, Doing
  <2>5. /\ Cardinality(Q) = IF Q = {} THEN 0 ELSE 1
        /\ Cardinality(E) = IF E = {} THEN 0 ELSE 1
        /\ Cardinality(D) = IF D = {} THEN 0 ELSE 1
    BY <2>2, <2>3, AtMostOne
  <2>6. Cardinality(Q) + Cardinality(E) + Cardinality(D) <= 1
    BY <2>4, <2>5
  <2>7. t \in finished => t \notin ToSet(task_queue) \cup ToSet(to_enqueue)
    BY DEF OnceOK, ToSet
  <2>8. t \in finished => \A p \in D : pc[p] = "broadcast"
    BY DEF OnceOK, Doing
  <2> QED
    BY <2>6, <2>7, <2>8
<1> QED
  BY <1>1 DEF TaskInOnePlace

\* Every variable has its type.
LEMMA TypesHold ==
  ASSUME IInv
  PROVE  TypeOK
<1>1. /\ PlacesOK /\ DiskOK /\ LooksOK /\ FilesOK /\ JobsOK /\ OnceOK
  BY DEF IInv, WorkOK
<1> PICK n \in Threads : n = thread_count
  BY <1>1 DEF PlacesOK
<1>2. n \in Nat /\ n <= MaxThreads /\ MaxThreads \in Nat
  BY Counts
<1>3. Parses(n) \subseteq Tasks /\ PoolParses(n) \subseteq Tasks /\ Dumps \subseteq Tasks
  BY <1>2 DEF Parses, PoolParses, Dumps, Tasks
<1>4. task_queue \in Seq(Tasks)
  <2> PICK S : S = PoolParses(n) \cup Dumps
    OBVIOUS
  <2>1. S \subseteq Tasks /\ task_queue \in Seq(S)
    BY <1>1, <1>3 DEF OnceOK
  <2> QED
    BY <2>1
<1>5. job \in [Proc -> Tasks \cup {NoTask}]
  <2> PICK S : S = Parses(n) \cup Dumps \cup {NoTask}
    OBVIOUS
  <2>1. S \subseteq Tasks \cup {NoTask} /\ job \in [Proc -> S]
    BY <1>1, <1>3 DEF JobsOK
  <2> QED
    BY <2>1
<1>6. finished \subseteq Tasks
  BY <1>1, <1>3 DEF OnceOK
<1>7. thread \in [Proc -> ThreadState] /\ table \in [CodePoint -> Category \cup {"unset"}]
  BY <1>1 DEF LooksOK
<1>8. files \in [ToSet(Cats) -> [state : {"none", "open", "cut", "written"}, cps : SUBSET CodePoint]]
  BY <1>1 DEF FilesOK
<1> QED
  BY <1>1, <1>4, <1>5, <1>6, <1>7, <1>8 DEF TypeOK, DiskOK, PlacesOK, ThreadState

\* What is enqueued is done once, whoever does it and whatever fails, and no file is begun
\* before the table is whole; the pool that main destroys at the end has nothing left to
\* do (thread_pool_enqueue, thread_pool_wait_task and thread_pool_func of main.c).
THEOREM TasksAlwaysDone == Spec => []TasksAreDone
<1>1. IInv /\ PoolInv => TasksAreDone
  <2> SUFFICES ASSUME IInv, PoolInv PROVE TasksAreDone
    OBVIOUS
  <2>1. PlacesOK /\ TableOK /\ OnceOK /\ EndOK
    BY DEF IInv, WorkOK, ResultOK
  <2>2. DumpsSeeWholeTable
    <3>1. ASSUME NEW p \in Proc, pc[p] \in {"open", "write"}
          PROVE  Whole
      <4>1. AllParsed
        BY <3>1, OwnFile DEF Dumping
      <4> QED
        BY <4>1, <2>1, ParsedIsWhole
    <3> QED
      BY <3>1 DEF DumpsSeeWholeTable
  <2>3. PoolEndsIdle
    <3>1. ASSUME exiting = Main, lines = UnicodeData
          PROVE  AllParsed /\ AllDumped
      <4>1. thread_count > 1
        BY <3>1 DEF PoolInv, Nobody, Main
      <4>2. pc[Main] \in Ending
        BY <3>1, <2>1 DEF PlacesOK, Ending
      <4> QED
        BY <3>1, <4>1, <4>2, <2>1 DEF EndOK
    <3> QED
      BY <3>1 DEF PoolEndsIdle, AllParsed, AllDumped
  <2> QED
    BY <2>1, <2>2, <2>3, TypesHold, PlacedOnce DEF TasksAreDone
<1> HIDE DEF IInv, PoolInv, RightInv
<1> QED
  BY <1>1, Inductive, PTL

\* A run that ends with EXIT_SUCCESS left for every category a file in the right directory,
\* with the code points of the table, whole unless fclose lost its end; the table is the one
\* of the whole UnicodeData.txt unless an earlier run wrote a part of the cache, by fclose or
\* in a way that it noticed (main, write_to_file and dump_unicode_data_cat of main.c); and at
\* all times what it has of a code point is what that file says, but where it is misread
\* (parse_unicode_lookup_cat).
THEOREM OutputAlwaysComplete == Spec => []OutputIsComplete
<1>1. IInv /\ EarlierInv => SuccessIsComplete /\ CutByAnEarlierRun
  <2> SUFFICES ASSUME IInv, EarlierInv, status = "success"
               PROVE  /\ Whole /\ out_dir \in {"asked", "dir"}
                      /\ \A c \in ToSet(Cats) : files[c] \in {FileOf(c), CutFile}
                      /\ lines # UnicodeData => torn \in 1 .. runs - 1
    BY DEF SuccessIsComplete, CutByAnEarlierRun
  <2>1. PlacesOK /\ TableOK /\ ListsOK /\ OutputOK /\ DirsOK /\ TextOK
    BY DEF IInv, WorkOK, ResultOK
  <2>2. \A c \in ToSet(Cats) : oks[c]
    BY <2>1 DEF TextOK, ListsOK
  <2>3. AllParsed /\ dir_known /\ \A c \in ToSet(Cats) : files[c] \in {FileOf(c), CutFile}
    BY <2>1, <2>2, CatsAre DEF OutputOK
  <2>4. Whole
    BY <2>1, <2>3, ParsedIsWhole
  <2>5. out_dir # "full"
    <3>1. \A p \in Proc : pc[p] # "open"
      BY <2>2, OwnFile DEF Dumping
    <3> QED
      BY <3>1, <2>1, <2>2 DEF DirsOK
  <2>6. out_dir \in {"asked", "dir"}
    BY <2>1, <2>3, <2>5 DEF DirsOK
  <2>7. lines # UnicodeData => torn \in 1 .. runs - 1
    <3>1. 0 \in CodePoint
      BY MaxCpAssumption DEF CodePoint
    <3>2. lines \notin {<<>>, Page}
      BY <3>1, <2>1, <2>4 DEF Whole, TextOK
    <3>3. runs \in Nat /\ torn \in Nat
      BY GeneratorAssumption DEF IInv, DiskOK
    <3> QED
      BY <3>2, <3>3, <2>1 DEF TextOK, EarlierInv
  <2> QED
    BY <2>3, <2>4, <2>6, <2>7
<1>2. RightInv => TableIsRight
  BY RightIs DEF RightInv, ReadOK
<1>3. IInv /\ RightInv /\ EarlierInv => OutputIsComplete
  BY <1>1, <1>2 DEF OutputIsComplete
<1> HIDE DEF IInv, PoolInv, RightInv, EarlierInv
<1> QED
  BY <1>3, Inductive, PTL

=============================================================================
