------------------------ MODULE StaticMemPoolProofs ------------------------
(***************************************************************************)
(* Proofs about StaticMemPool, for any pool, headers, sizes and            *)
(* alignments: what clients have never overlaps, and as long as every      *)
(* allocation could split its chunk the list describes the pool.           *)
(***************************************************************************)
EXTENDS StaticMemPool, SequenceTheorems, WellFoundedInduction, TLAPS

(***************************************************************************)
(* The inductive invariant                                                 *)
(***************************************************************************)

Header == [at : PoolStart .. PoolEnd, lo : Nat, hi : 0 .. PoolEnd, prev : Nat,
           data : Nat, align : Aligns \cup {0}, free : BOOLEAN]

\* A chunk as it should be; its header tells its limits.
Proper(h) ==
  /\ PoolStart <= h.lo /\ h.at = HeaderAt(h.lo)
  /\ h.at + HeaderSize <= h.data /\ h.data < h.hi
  /\ h.free => h.data = h.at + HeaderSize

\* A chunk that was handed out as a whole, or that such a chunk was merged into, ends at
\* null, which every contract refuses.
Anew(h) == h.hi = Null /\ h.data > 0 /\ (~h.free => h.at + HeaderSize <= h.data)

\* Every chunk is proper, but for the last one once a chunk was handed out as a whole.
ChunksOK(list, w) ==
  /\ list \in Seq(Header) /\ list # << >>
  /\ \A i \in DOMAIN list : list[i].free <=> list[i].align = 0
  /\ \A i \in DOMAIN list : ~(w /\ i = Len(list)) => Proper(list[i])
  /\ w => Anew(list[Len(list)])

\* A chunk lies behind those before it.
Apart(list) ==
  \A i, j \in DOMAIN list : i < j =>
    list[i].hi <= list[j].at /\ (Proper(list[j]) => list[i].hi <= list[j].lo)

\* prev is stale only behind a free chunk, which is merged before the field is used.
PrevOK(list) ==
  /\ list[1].prev = Null
  /\ \A i \in DOMAIN list : i > 1 /\ Proper(list[i]) =>
       list[i].prev = list[i - 1].at \/ list[i - 1].free

Tiles(list) ==
  /\ list[1].lo = PoolStart /\ list[Len(list)].hi = PoolEnd
  /\ \A i \in 1 .. Len(list) - 1 : list[i].hi = list[i + 1].lo

\* A list in which a chunk was just freed, and one that was merged.
LooseOK(list, w) ==
  ChunksOK(list, w) /\ Apart(list) /\ PrevOK(list) /\ (~w => Tiles(list))
Merged(list) == \A i \in 1 .. Len(list) - 1 : ~(list[i].free /\ list[i + 1].free)
ListOK(list, w) == LooseOK(list, w) /\ Merged(list)

\* The proper chunks in use, without the link that may be stale.
Unlinked(h) == [h EXCEPT !.prev = Null]
Used(list) == {Unlinked(list[i]) : i \in {k \in DOMAIN list : ~list[k].free /\ list[k].hi # Null}}

\* Clients have what is in use, or what lies behind the header of a chunk that was handed
\* out as a whole.
Blocks(f) ==
  /\ \A p \in DOMAIN f : /\ p \in Nat /\ f[p] \in [size : Sizes, align : Aligns]
                         /\ PoolStart <= p /\ p + f[p].size <= PoolEnd
  /\ \A p, q \in DOMAIN f : p # q => p + f[p].size <= q \/ q + f[q].size <= p

LiveOK(list, w, f) ==
  /\ Blocks(f)
  /\ \A u \in Used(list) : /\ u.data \in DOMAIN f /\ u.data + f[u.data].size <= u.hi
                           /\ f[u.data].align = u.align /\ u.data % u.align = 0
  /\ \A p \in DOMAIN f : \/ \E u \in Used(list) : u.data = p
                         \/ w /\ list[Len(list)].at + HeaderSize <= p

\* A program that died may have died while it handed out a chunk as a whole.
IInv ==
  /\ whole \in BOOLEAN /\ failure \in {"none", "contract", "CAN_SPLIT"} /\ ContractsHold
  /\ \E w \in BOOLEAN : /\ (w => whole) /\ (failure = "none" => w = whole)
                        /\ ListOK(chunks, w) /\ LiveOK(chunks, w, live)

(***************************************************************************)
(* Numbers                                                                 *)
(***************************************************************************)

\* The constants are numbers, and the pool has room for a header.
LEMMA Numbers ==
  /\ PoolStart \in Nat /\ PoolStart > 0 /\ pool_size \in Nat /\ PoolEnd \in Nat
  /\ HeaderAlign \in Nat /\ HeaderAlign > 0 /\ HeaderSize \in Nat /\ HeaderSize > 0
  /\ PoolStart + HeaderSize < PoolEnd /\ Null = 0
  /\ \A s \in Sizes : s \in Nat /\ s > 0
  /\ \A a \in Aligns : a \in Nat /\ a > 0
BY PoolAssumption DEF PoolEnd, Null

\* Division, without division.
LEMMA Divided ==
  ASSUME NEW x \in Nat, NEW a \in Nat, a > 0
  PROVE  /\ x \div a \in Nat /\ x % a \in Nat /\ x % a < a
         /\ x = (x \div a) * a + (x % a)
<1>1. x \div a \in Int /\ x % a \in 0 .. a - 1 /\ x = a * (x \div a) + (x % a)
  OBVIOUS
<1> PICK q \in Int : q = x \div a
  BY <1>1
<1>2. a * q = q * a
  OBVIOUS
<1>3. q >= 0
  <2> SUFFICES ASSUME q <= -1 PROVE FALSE
    OBVIOUS
  <2> PICK d \in Nat : q = -1 - d
    OBVIOUS
  <2>1. a * q = -a - a * d /\ a * d >= 0
    OBVIOUS
  <2> QED
    BY <1>1, <2>1
<1> PICK r \in 0 .. a - 1 : r = x % a
  BY <1>1
<1>4. x = q * a + r
  BY <1>1, <1>2
<1>5. x \div a = q /\ x % a = r
  OBVIOUS
<1>6. q \in Nat /\ r \in Nat /\ r < a
  BY <1>3
<1> QED
  BY <1>4, <1>5, <1>6

\* A multiple leaves no rest.
LEMMA MultiplesLeaveNothing ==
  ASSUME NEW k \in Nat, NEW a \in Nat, a > 0
  PROVE  (k * a) % a = 0
<1> PICK x \in Nat : x = k * a
  OBVIOUS
<1> PICK q \in Nat, r \in Nat : q = x \div a /\ r = x % a
  BY Divided
<1>1. k * a = q * a + r /\ r < a
  BY Divided
<1>2. CASE k <= q
  <2> PICK d \in Nat : q = k + d
    BY <1>2
  <2>1. q * a = k * a + d * a /\ d * a >= 0
    OBVIOUS
  <2> QED
    BY <1>1, <2>1
<1>3. CASE k > q
  <2> PICK d \in Nat : k = q + d + 1
    BY <1>3
  <2>1. k * a = q * a + d * a + a /\ d * a >= 0
    OBVIOUS
  <2> QED
    BY <1>1, <2>1
<1> QED
  BY <1>2, <1>3

\* Aligning gives the next multiple.
LEMMA AlignUpIs ==
  ASSUME NEW p \in Nat, NEW a \in Nat, a > 0
  PROVE  /\ AlignUp(p, a) \in Nat /\ p <= AlignUp(p, a) /\ AlignUp(p, a) < p + a
         /\ AlignUp(p, a) % a = 0
<1> PICK x \in Nat : x = p + a - 1
  OBVIOUS
<1> PICK q \in Nat : q = x \div a
  BY Divided
<1>1. x % a \in Nat /\ x % a < a /\ x = q * a + (x % a)
  BY Divided
<1>2. AlignUp(p, a) = q * a /\ q * a \in Nat
  BY DEF AlignUp
<1>3. (q * a) % a = 0
  BY MultiplesLeaveNothing
<1> QED
  BY <1>1, <1>2, <1>3

\* An aligned address stays where it is.
LEMMA AlignedStays ==
  ASSUME NEW p \in Nat, NEW a \in Nat, a > 0, p % a = 0
  PROVE  AlignUp(p, a) = p
<1> PICK k \in Nat : k = p \div a
  BY Divided
<1>1. p = k * a
  BY Divided
<1> PICK q \in Nat : q = (p + a - 1) \div a
  BY Divided
<1>2. AlignUp(p, a) = q * a
  BY DEF AlignUp
<1>3. p <= q * a /\ q * a < p + a
  BY <1>2, AlignUpIs
<1>4. ~(q < k)
  <2> SUFFICES ASSUME q < k PROVE FALSE
    OBVIOUS
  <2> PICK d \in Nat : k = q + d + 1
    OBVIOUS
  <2>1. k * a = q * a + d * a + a /\ d * a >= 0
    OBVIOUS
  <2> QED
    BY <1>1, <1>3, <2>1
<1>5. ~(q > k)
  <2> SUFFICES ASSUME q > k PROVE FALSE
    OBVIOUS
  <2> PICK d \in Nat : q = k + d + 1
    OBVIOUS
  <2>1. q * a = k * a + d * a + a /\ d * a >= 0
    OBVIOUS
  <2> QED
    BY <1>1, <1>3, <2>1
<1> QED
  BY <1>1, <1>2, <1>4, <1>5

\* A header lies behind what it is put behind.
LEMMA HeaderAtIs ==
  ASSUME NEW lo \in Nat
  PROVE  HeaderAt(lo) \in Nat /\ lo <= HeaderAt(lo)
BY AlignUpIs, Numbers DEF HeaderAt

\* The first header needs no padding.
LEMMA PoolIsAligned == HeaderAt(PoolStart) = PoolStart
BY AlignedStays, Numbers, PoolAssumption DEF HeaderAt

\* A non-empty set of numbers has a least element.
LEMMA Least ==
  ASSUME NEW T \in SUBSET Nat, T # {}
  PROVE  \E x \in T : \A y \in T : x <= y
<1> DEFINE R == {ss \in Nat \X Nat : ss[1] < ss[2]}
<1>0. IsWellFoundedOn(R, Nat)
  BY NatLessThanWellFounded DEF OpToRel
<1> HIDE DEF R
<1>1. PICK x \in T : \A y \in T : ~(<<y, x>> \in R)
  BY <1>0, WFMin
<1>2. \A u, v \in Nat : u < v => <<u, v>> \in R
  BY DEF R
<1>3. ASSUME NEW y \in T PROVE x <= y
  <2>1. x \in Nat /\ y \in Nat /\ ~(<<y, x>> \in R)
    BY <1>1
  <2> QED
    BY <2>1, <1>2
<1> QED
  BY <1>3

\* A set of numbers with 1 and the successors of its elements up to n has all up to n.
LEMMA CountingUp ==
  ASSUME NEW n \in Nat, NEW S, 1 \in S, \A k \in 1 .. n - 1 : k \in S => k + 1 \in S
  PROVE  \A k \in 1 .. n : k \in S
<1> DEFINE T == {k \in 1 .. n : k \notin S}
<1>1. SUFFICES ASSUME T # {} PROVE FALSE
  OBVIOUS
<1>2. PICK x \in T : \A y \in T : x <= y
  <2>1. T \in SUBSET Nat
    OBVIOUS
  <2> HIDE DEF T
  <2> QED
    BY <1>1, <2>1, Least
<1>3. x \in 1 .. n /\ x # 1 /\ x - 1 \in 1 .. n - 1 /\ (x - 1) + 1 = x
  OBVIOUS
<1>4. x - 1 \in S
  <2>1. x - 1 \notin T
    BY <1>2, <1>3
  <2> QED
    BY <1>3, <2>1
<1> QED
  BY <1>3, <1>4

(***************************************************************************)
(* Sequences                                                               *)
(***************************************************************************)

\* The first elements, and the last ones.
LEMMA FirstOnes ==
  ASSUME NEW T, NEW s \in Seq(T), NEW k \in 0 .. Len(s)
  PROVE  /\ SubSeq(s, 1, k) \in Seq(T) /\ Len(SubSeq(s, 1, k)) = k
         /\ DOMAIN SubSeq(s, 1, k) = 1 .. k
         /\ \A j \in 1 .. k : SubSeq(s, 1, k)[j] = s[j]
<1>1. Len(s) \in Nat /\ DOMAIN s = 1 .. Len(s) /\ k \in Nat
  OBVIOUS
<1>2. \A j \in 1 .. k : s[j] \in T
  BY <1>1
<1> PICK r : r = SubSeq(s, 1, k)
  OBVIOUS
<1>3. /\ r \in Seq(T) /\ Len(r) = IF 1 <= k THEN k - 1 + 1 ELSE 0
      /\ \A j \in 1 .. k - 1 + 1 : r[j] = s[1 + j - 1]
  BY <1>1, <1>2, SubSeqProperties
<1>4. Len(r) = k /\ DOMAIN r = 1 .. k
  BY <1>1, <1>3
<1>5. \A j \in 1 .. k : r[j] = s[j]
  BY <1>1, <1>3
<1> QED
  BY <1>3, <1>4, <1>5

\* The last elements of a sequence.
LEMMA LastOnes ==
  ASSUME NEW T, NEW s \in Seq(T), NEW k \in 1 .. Len(s)
  PROVE  /\ SubSeq(s, k + 1, Len(s)) \in Seq(T) /\ Len(SubSeq(s, k + 1, Len(s))) = Len(s) - k
         /\ DOMAIN SubSeq(s, k + 1, Len(s)) = 1 .. Len(s) - k
         /\ \A j \in 1 .. Len(s) - k : SubSeq(s, k + 1, Len(s))[j] = s[k + j]
<1> PICK n \in Nat : n = Len(s)
  OBVIOUS
<1>1. DOMAIN s = 1 .. n /\ k \in 1 .. n
  OBVIOUS
<1>2. \A j \in k + 1 .. n : s[j] \in T
  BY <1>1
<1> PICK r : r = SubSeq(s, k + 1, n)
  OBVIOUS
<1>3. /\ r \in Seq(T) /\ Len(r) = IF k + 1 <= n THEN n - (k + 1) + 1 ELSE 0
      /\ \A j \in 1 .. n - (k + 1) + 1 : r[j] = s[k + 1 + j - 1]
  BY <1>1, <1>2, SubSeqProperties
<1>4. Len(r) = n - k /\ DOMAIN r = 1 .. n - k
  BY <1>1, <1>3
<1>5. \A j \in 1 .. n - k : r[j] = s[k + j]
  BY <1>1, <1>3
<1> QED
  BY <1>3, <1>4, <1>5

\* One sequence behind another.
LEMMA Joined ==
  ASSUME NEW T, NEW c \in Seq(T), NEW b \in Seq(T), NEW r, r = c \o b
  PROVE  /\ r \in Seq(T) /\ Len(r) = Len(c) + Len(b) /\ DOMAIN r = 1 .. Len(c) + Len(b)
         /\ \A j \in 1 .. Len(c) : r[j] = c[j]
         /\ \A j \in 1 .. Len(b) : r[Len(c) + j] = b[j]
<1>1. r \in Seq(T) /\ Len(r) = Len(c) + Len(b)
  OBVIOUS
<1>2. DOMAIN r = 1 .. Len(c) + Len(b)
  BY <1>1
<1>3. ASSUME NEW j \in 1 .. Len(c)
      PROVE  r[j] = c[j]
  OBVIOUS
<1>4. ASSUME NEW j \in 1 .. Len(b)
      PROVE  r[Len(c) + j] = b[j]
  OBVIOUS
<1> QED
  BY <1>1, <1>2, <1>3, <1>4

\* An element in the place of one and all behind it.
LEMMA LastAnew ==
  ASSUME NEW T, NEW s \in Seq(T), NEW i \in 1 .. Len(s), NEW x \in T, NEW r,
         r = Append(SubSeq(s, 1, i - 1), x)
  PROVE  /\ r \in Seq(T) /\ Len(r) = i /\ DOMAIN r = 1 .. i
         /\ \A j \in 1 .. i - 1 : r[j] = s[j]
         /\ r[i] = x
<1> PICK a : a = SubSeq(s, 1, i - 1)
  OBVIOUS
<1>1. i \in Nat /\ i - 1 \in 0 .. Len(s)
  OBVIOUS
<1>2. a \in Seq(T) /\ Len(a) = i - 1 /\ \A j \in 1 .. i - 1 : a[j] = s[j]
  BY <1>1, FirstOnes
<1>3. r = Append(a, x)
  OBVIOUS
<1>4. r \in Seq(T) /\ Len(r) = i /\ DOMAIN r = 1 .. i
  BY <1>1, <1>2, <1>3
<1>5. \A j \in 1 .. i - 1 : r[j] = a[j]
  BY <1>1, <1>2, <1>3
<1>6. r[i] = x
  BY <1>1, <1>2, <1>3
<1> QED
  BY <1>2, <1>4, <1>5, <1>6

\* An element behind all others.
LEMMA OneMore ==
  ASSUME NEW T, NEW s \in Seq(T), NEW x \in T, NEW r, r = Append(s, x)
  PROVE  /\ r \in Seq(T) /\ Len(r) = Len(s) + 1 /\ DOMAIN r = 1 .. Len(s) + 1
         /\ \A j \in 1 .. Len(s) : r[j] = s[j]
         /\ r[Len(s) + 1] = x
OBVIOUS


(***************************************************************************)
(* Lists that grow at their end                                            *)
(***************************************************************************)

\* A list of the first chunks of another and one more.
Begins(L, r, N, x) ==
  r \in Seq(Header) /\ Len(r) = N /\ (\A j \in 1 .. N - 1 : r[j] = L[j]) /\ r[N] = x

\* The chunk x may be the N-th.
Follows(L, N, x, v) ==
  /\ x.free <=> x.align = 0
  /\ (~v => Proper(x)) /\ (v => Anew(x))
  /\ \A j \in 1 .. N - 1 : L[j].hi <= x.at /\ (Proper(x) => L[j].hi <= x.lo)
  /\ N = 1 => x.prev = Null
  /\ N > 1 /\ Proper(x) => x.prev = L[N - 1].at \/ L[N - 1].free
  /\ N > 1 => ~(L[N - 1].free /\ x.free)

SoundUpTo(L, N) ==
  \A j \in 1 .. N - 1 : (L[j].free <=> L[j].align = 0) /\ Proper(L[j])

\* A list stays sound when what begins it and what follows are.
LEMMA SoundBehind ==
  ASSUME NEW L \in Seq(Header), NEW N \in 1 .. Len(L) + 1, NEW r, NEW x, NEW v \in BOOLEAN,
         SoundUpTo(L, N), Apart(L), PrevOK(L), Merged(L), Begins(L, r, N, x), Follows(L, N, x, v)
  PROVE  ChunksOK(r, v) /\ Apart(r) /\ PrevOK(r) /\ Merged(r)
<1>a. /\ r \in Seq(Header) /\ Len(r) = N /\ r[N] = x
      /\ \A j \in 1 .. N - 1 : r[j] = L[j]
  BY DEF Begins
<1>b. /\ x.free <=> x.align = 0
      /\ (~v => Proper(x)) /\ (v => Anew(x))
      /\ \A j \in 1 .. N - 1 : L[j].hi <= x.at /\ (Proper(x) => L[j].hi <= x.lo)
      /\ N = 1 => x.prev = Null
      /\ N > 1 /\ Proper(x) => x.prev = L[N - 1].at \/ L[N - 1].free
      /\ N > 1 => ~(L[N - 1].free /\ x.free)
  BY DEF Follows
<1>c. \A j \in 1 .. N - 1 : (L[j].free <=> L[j].align = 0) /\ Proper(L[j])
  BY DEF SoundUpTo
<1>1. DOMAIN r = 1 .. N /\ N \in Nat /\ N > 0 /\ DOMAIN L = 1 .. Len(L) /\ Len(L) \in Nat
  BY <1>a
<1>2. \A j \in 1 .. N - 1 : j \in DOMAIN L /\ r[j] = L[j] /\ j < N
  BY <1>1, <1>a
<1>3. r # << >>
  BY <1>1, <1>a
<1>4. ASSUME NEW i \in DOMAIN r
      PROVE  r[i].free <=> r[i].align = 0
  <2>1. CASE i = N
    BY <2>1, <1>a, <1>b
  <2>2. CASE i # N
    <3>1. i \in 1 .. N - 1
      BY <1>1, <2>2
    <3> QED
      BY <1>2, <3>1, <1>c
  <2> QED
    BY <2>1, <2>2
<1>5. ASSUME NEW i \in DOMAIN r, ~(v /\ i = Len(r))
      PROVE  Proper(r[i])
  <2>1. CASE i = N
    BY <1>5, <2>1, <1>a, <1>b
  <2>2. CASE i # N
    <3>1. i \in 1 .. N - 1
      BY <1>1, <2>2
    <3> QED
      BY <1>2, <3>1, <1>c
  <2> QED
    BY <2>1, <2>2
<1>6. ChunksOK(r, v)
  <2>1. v => Anew(r[Len(r)])
    BY <1>a, <1>b
  <2>2. r \in Seq(Header)
    BY <1>a
  <2> QED
    BY <1>3, <1>4, <1>5, <2>1, <2>2 DEF ChunksOK
<1>7. Apart(r)
  <2> SUFFICES ASSUME NEW i \in DOMAIN r, NEW j \in DOMAIN r, i < j
               PROVE  r[i].hi <= r[j].at /\ (Proper(r[j]) => r[i].hi <= r[j].lo)
    BY DEF Apart
  <2>1. i \in 1 .. N - 1
    BY <1>1, <1>a
  <2>2. CASE j = N
    BY <2>1, <2>2, <1>a, <1>b
  <2>3. CASE j # N
    <3>1. j \in 1 .. N - 1
      BY <1>1, <2>3
    <3> QED
      BY <1>2, <2>1, <3>1 DEF Apart
  <2> QED
    BY <2>2, <2>3
<1>8. r[1].prev = Null
  <2>1. CASE N = 1
    BY <2>1, <1>a, <1>b
  <2>2. CASE N # 1
    <3>1. 1 \in 1 .. N - 1
      BY <1>1, <2>2
    <3> QED
      BY <1>2, <3>1 DEF PrevOK
  <2> QED
    BY <2>1, <2>2
<1>9. ASSUME NEW i \in DOMAIN r, i > 1, Proper(r[i])
      PROVE  r[i].prev = r[i - 1].at \/ r[i - 1].free
  <2>1. i - 1 \in 1 .. N - 1 /\ r[i - 1] = L[i - 1]
    BY <1>1, <1>9, <1>a
  <2>2. CASE i = N
    BY <1>9, <2>1, <2>2, <1>a, <1>b
  <2>3. CASE i # N
    <3>1. i \in 1 .. N - 1 /\ i \in DOMAIN L /\ r[i] = L[i]
      BY <1>1, <2>3, <1>a
    <3> QED
      BY <1>9, <2>1, <3>1 DEF PrevOK
  <2> QED
    BY <2>2, <2>3
<1>10. PrevOK(r)
  BY <1>8, <1>9 DEF PrevOK
<1>11. Merged(r)
  <2> SUFFICES ASSUME NEW i \in 1 .. Len(r) - 1
               PROVE  ~(r[i].free /\ r[i + 1].free)
    BY DEF Merged
  <2>1. i \in 1 .. N - 1 /\ r[i] = L[i]
    BY <1>1, <1>a
  <2>2. CASE i + 1 = N
    <3>1. i = N - 1 /\ N > 1
      BY <1>1, <2>1, <2>2
    <3> QED
      BY <2>1, <2>2, <3>1, <1>a, <1>b
  <2>3. CASE i + 1 # N
    <3>1. i + 1 \in 1 .. N - 1 /\ r[i + 1] = L[i + 1] /\ i \in 1 .. Len(L) - 1
      BY <1>1, <2>1, <2>3, <1>a
    <3> QED
      BY <2>1, <3>1 DEF Merged
  <2> QED
    BY <2>2, <2>3
<1> QED
  BY <1>6, <1>7, <1>10, <1>11

\* The chunks tile what lies before the last of them.
Tiled(list) ==
  /\ list[1].lo = PoolStart
  /\ \A i \in 1 .. Len(list) - 1 : list[i].hi = list[i + 1].lo

\* A list tiles the pool when it begins like one that does and its last chunk follows.
LEMMA TiledBehind ==
  ASSUME NEW L \in Seq(Header), NEW r \in Seq(Header), NEW N \in 1 .. Len(L) + 1,
         Len(r) = N, \A j \in 1 .. N - 1 : r[j] = L[j], Tiled(L),
         N = 1 => r[N].lo = PoolStart, N > 1 => L[N - 1].hi = r[N].lo
  PROVE  Tiled(r)
<1>1. N \in Nat /\ N > 0 /\ Len(L) \in Nat
  OBVIOUS
<1>2. r[1].lo = PoolStart
  <2>1. CASE N = 1
    BY <2>1
  <2>2. CASE N # 1
    <3>1. 1 \in 1 .. N - 1
      BY <1>1, <2>2
    <3> QED
      BY <3>1 DEF Tiled
  <2> QED
    BY <2>1, <2>2
<1>3. ASSUME NEW i \in 1 .. Len(r) - 1
      PROVE  r[i].hi = r[i + 1].lo
  <2>1. i \in 1 .. N - 1 /\ r[i] = L[i]
    BY <1>1
  <2>2. CASE i + 1 = N
    <3>1. i = N - 1 /\ N > 1
      BY <1>1, <2>1, <2>2
    <3> QED
      BY <2>1, <2>2, <3>1
  <2>3. CASE i + 1 # N
    <3>1. i + 1 \in 1 .. N - 1 /\ r[i + 1] = L[i + 1] /\ i \in 1 .. Len(L) - 1
      BY <1>1, <2>1, <2>3
    <3> QED
      BY <2>1, <3>1 DEF Tiled
  <2> QED
    BY <2>2, <2>3
<1> QED
  BY <1>2, <1>3 DEF Tiled

\* What every header is.
LEMMA HeaderIs ==
  ASSUME NEW h \in Header
  PROVE  /\ h.at \in Nat /\ PoolStart <= h.at /\ h.at <= PoolEnd /\ h.lo \in Nat
         /\ h.hi \in Nat /\ h.hi <= PoolEnd /\ h.prev \in Nat /\ h.data \in Nat
         /\ h.align \in Nat /\ h.free \in BOOLEAN
<1>1. /\ h.at \in PoolStart .. PoolEnd /\ h.hi \in 0 .. PoolEnd /\ h.lo \in Nat
      /\ h.prev \in Nat /\ h.data \in Nat /\ h.align \in Aligns \cup {0}
      /\ h.free \in BOOLEAN
  BY DEF Header
<1>2. h.align \in Nat
  BY <1>1, Numbers
<1> QED
  BY <1>1, <1>2, Numbers

\* What a header is without its link.
LEMMA UnlinkedIs ==
  ASSUME NEW h \in Header
  PROVE  /\ Unlinked(h).at = h.at /\ Unlinked(h).lo = h.lo /\ Unlinked(h).hi = h.hi
         /\ Unlinked(h).data = h.data /\ Unlinked(h).align = h.align
         /\ Unlinked(h).free = h.free
BY DEF Unlinked, Header

\* Setting prev changes prev only.
LEMMA RelinkedIs ==
  ASSUME NEW h \in Header, NEW p \in Nat, NEW g, g = [h EXCEPT !.prev = p]
  PROVE  /\ g \in Header /\ g.prev = p
         /\ g.at = h.at /\ g.lo = h.lo /\ g.hi = h.hi
         /\ g.data = h.data /\ g.align = h.align /\ g.free = h.free
         /\ Unlinked(g) = Unlinked(h) /\ (Proper(g) <=> Proper(h)) /\ (Anew(g) <=> Anew(h))
BY DEF Unlinked, Header, Proper, Anew

\* Sound chunks lie in their order.
LEMMA InOrder ==
  ASSUME NEW L \in Seq(Header), NEW z \in BOOLEAN, ChunksOK(L, z), Apart(L),
         NEW i \in DOMAIN L, NEW j \in DOMAIN L, i < j
  PROVE  /\ Proper(L[i]) /\ L[i].at \in Nat /\ L[j].at \in Nat /\ L[i].hi \in Nat
         /\ L[i].at + HeaderSize < L[i].hi /\ L[i].hi <= L[j].at /\ L[i].at < L[j].at
<1>1. DOMAIN L = 1 .. Len(L) /\ Len(L) \in Nat /\ i # Len(L)
  OBVIOUS
<1>2. Proper(L[i])
  BY <1>1 DEF ChunksOK
<1>3. L[i] \in Header /\ L[j] \in Header
  OBVIOUS
<1>4. /\ L[i].at \in Nat /\ L[j].at \in Nat /\ L[i].hi \in Nat /\ L[i].data \in Nat
  BY <1>3, HeaderIs
<1>5. L[i].at + HeaderSize < L[i].hi
  BY <1>2, <1>4, Numbers DEF Proper
<1>6. L[i].hi <= L[j].at
  BY DEF Apart
<1> QED
  BY <1>2, <1>4, <1>5, <1>6, Numbers

\* The address in a link is that of the last chunk, or of none: the list stays.
LEMMA UpToStays ==
  ASSUME NEW F \in Seq(Header), NEW p,
         F = << >> \/ \A i \in DOMAIN F : F[i].at = p <=> i = Len(F)
  PROVE  UpTo(F, p) = F
<1> DEFINE here == {i \in DOMAIN F : F[i].at = p}
<1>1. CASE here = {}
  BY <1>1 DEF UpTo
<1>2. CASE here # {}
  <2>1. F # << >> /\ DOMAIN F = 1 .. Len(F) /\ Len(F) \in Nat
    BY <1>2
  <2>2. here = {Len(F)}
    BY <1>2, <2>1
  <2>3. (CHOOSE i \in here : TRUE) = Len(F)
    BY <2>2
  <2>4. UpTo(F, p) = SubSeq(F, 1, Len(F))
    BY <1>2, <2>3 DEF UpTo
  <2>5. SubSeq(F, 1, Len(F)) = F
    BY <2>1
  <2> QED
    BY <2>4, <2>5
<1> QED
  BY <1>1, <1>2

(***************************************************************************)
(* The walk that merges free chunks                                        *)
(***************************************************************************)

\* The chunks in use up to the k-th.
UsedTo(list, k) ==
  {Unlinked(list[i]) : i \in {j \in 1 .. k : ~list[j].free /\ list[j].hi # Null}}

\* After k headers of the list, the last chunk of the walk ends where the k-th did.  It has
\* its header at the k-th, or was just merged.
WalkOK(list, w, m, k) ==
  LET n == Len(m.list) IN
  /\ ChunksOK(m.list, w /\ k = Len(list))
  /\ Apart(m.list) /\ PrevOK(m.list) /\ Merged(m.list) /\ (~w => Tiled(m.list))
  /\ m.list[n].hi = list[k].hi /\ m.list[n].free = list[k].free
  /\ m.list[n].at <= list[k].at /\ (m.fresh \/ m.list[n].at = list[k].at)
  /\ Used(m.list) = UsedTo(list, k)

Walked == [list : Seq(Header), fresh : BOOLEAN]

\* One chunk more brings itself, when it is in use.
LEMMA UsedToNext ==
  ASSUME NEW L \in Seq(Header), NEW k \in 1 .. Len(L) - 1
  PROVE  UsedTo(L, k + 1) = UsedTo(L, k) \cup
           (IF ~L[k + 1].free /\ L[k + 1].hi # Null THEN {Unlinked(L[k + 1])} ELSE {})
<1>1. \A j : j \in 1 .. k + 1 <=> j \in 1 .. k \/ j = k + 1
  OBVIOUS
<1>2. {j \in 1 .. k + 1 : ~L[j].free /\ L[j].hi # Null}
        = {j \in 1 .. k : ~L[j].free /\ L[j].hi # Null} \cup
          (IF ~L[k + 1].free /\ L[k + 1].hi # Null THEN {k + 1} ELSE {})
  BY <1>1
<1> QED
  BY <1>2 DEF UsedTo

\* The chunks in use are those up to the last.
LEMMA UsedIs ==
  ASSUME NEW L \in Seq(Header)
  PROVE  Used(L) = UsedTo(L, Len(L))
BY DEF Used, UsedTo

\* The chunks in use of a list that begins like another.
LEMMA UsedBehind ==
  ASSUME NEW L \in Seq(Header), NEW r \in Seq(Header), NEW N \in 1 .. Len(L) + 1,
         \A j \in 1 .. N - 1 : r[j] = L[j]
  PROVE  UsedTo(r, N - 1) = UsedTo(L, N - 1)
<1>1. {j \in 1 .. N - 1 : ~r[j].free /\ r[j].hi # Null}
        = {j \in 1 .. N - 1 : ~L[j].free /\ L[j].hi # Null}
  OBVIOUS
<1> QED
  BY <1>1 DEF UsedTo

\* A free chunk that took in the one behind it.
MergedOf(last, h) == [last EXCEPT !.hi = h.hi, !.data = last.at + HeaderSize, !.align = 0]

\* A chunk and the one merged into it make one that is proper if both are.
LEMMA MergedIs ==
  ASSUME NEW last \in Header, NEW h \in Header, Proper(last), last.free, last.hi <= h.at,
         NEW x, x = MergedOf(last, h)
  PROVE  /\ x.at = last.at /\ x.lo = last.lo /\ x.hi = h.hi /\ x.prev = last.prev
         /\ x.align = 0 /\ x.free /\ x \in Header /\ last.at < h.at
         /\ (Proper(h) => Proper(x)) /\ (Anew(h) => Anew(x))
<1>1. last.data = last.at + HeaderSize /\ last.data < last.hi
  BY DEF Proper
<1>2. /\ x.at = last.at /\ x.lo = last.lo /\ x.hi = h.hi /\ x.prev = last.prev
      /\ x.data = last.data /\ x.align = 0 /\ x.free
  BY <1>1 DEF Header, MergedOf
<1>3. x \in Header
  <2>1. last.data \in Nat /\ h.hi \in 0 .. PoolEnd /\ 0 \in Aligns \cup {0}
    BY DEF Header
  <2> QED
    BY <1>1, <2>1 DEF Header, MergedOf
<1>4. /\ h.at \in Nat /\ h.hi \in Nat /\ h.data \in Nat /\ last.at \in Nat
      /\ last.hi \in Nat /\ last.data \in Nat /\ HeaderSize \in Nat /\ HeaderSize > 0
  BY HeaderIs, Numbers
<1>5. last.at < h.at /\ last.data > 0
  BY <1>1, <1>4
<1>6. ASSUME Proper(h) PROVE Proper(x)
  <2>1. h.at + HeaderSize <= h.data /\ h.data < h.hi
    BY <1>6 DEF Proper
  <2>2. last.data < h.hi
    BY <1>1, <1>4, <2>1
  <2> QED
    BY <1>1, <1>2, <2>2 DEF Proper
<1>7. ASSUME Anew(h) PROVE Anew(x)
  BY <1>2, <1>5, <1>7 DEF Anew
<1> QED
  BY <1>2, <1>3, <1>5, <1>6, <1>7

\* The walk comes to a free chunk behind a free one.
LEMMA AbsorbMerges ==
  ASSUME NEW R, NEW w \in BOOLEAN, LooseOK(R, w), NEW k \in 1 .. Len(R) - 1,
         NEW m \in Walked, WalkOK(R, w, m, k)
  PROVE  m.list[Len(m.list)].free /\ R[k + 1].free =>
           Absorb(m, R[k + 1]) \in Walked /\ WalkOK(R, w, Absorb(m, R[k + 1]), k + 1)
<1>f. SUFFICES ASSUME m.list[Len(m.list)].free, R[k + 1].free
      PROVE  Absorb(m, R[k + 1]) \in Walked /\ WalkOK(R, w, Absorb(m, R[k + 1]), k + 1)
  OBVIOUS
<1>0. R \in Seq(Header) /\ ChunksOK(R, w) /\ Apart(R)
  BY DEF LooseOK, ChunksOK
<1>L. PICK L \in Seq(Header) : L = m.list
  BY DEF Walked
<1> PICK n \in Nat : n = Len(L)
  OBVIOUS
<1>1. /\ ChunksOK(L, FALSE) /\ Apart(L) /\ PrevOK(L) /\ Merged(L) /\ (~w => Tiled(L))
      /\ L[n].hi = R[k].hi /\ L[n].free = R[k].free /\ L[n].at <= R[k].at
      /\ Used(L) = UsedTo(R, k)
  <2>1. (w /\ k = Len(R)) = FALSE
    BY <1>0
  <2> QED
    BY <1>L, <2>1 DEF WalkOK
<1>2. n > 0 /\ n \in DOMAIN L /\ DOMAIN L = 1 .. n /\ n \in 1 .. Len(L) + 1
  <2>1. L # << >>
    BY <1>1 DEF ChunksOK
  <2> QED
    BY <2>1
<1>3. k \in DOMAIN R /\ k + 1 \in DOMAIN R /\ k < k + 1
  BY <1>0
<1>h. PICK h \in Header : h = R[k + 1]
  BY <1>0, <1>3
<1>l. PICK last \in Header : last = L[n]
  BY <1>2
<1>x. PICK x : x = MergedOf(last, h)
  OBVIOUS
<1>r. PICK r : r = Append(SubSeq(L, 1, n - 1), x)
  OBVIOUS
<1>4. last.free /\ h.free
  BY <1>f, <1>L, <1>h, <1>l
<1>5. Proper(last)
  BY <1>1, <1>2, <1>l DEF ChunksOK
<1>m. last.hi <= h.at
  BY <1>0, <1>1, <1>3, <1>h, <1>l DEF Apart
<1>6. /\ x.at = last.at /\ x.lo = last.lo /\ x.hi = h.hi /\ x.prev = last.prev
      /\ x.align = 0 /\ x.free
  BY <1>4, <1>5, <1>m, <1>x, MergedIs
<1>7. /\ x \in Header /\ last.at < h.at
      /\ (Proper(h) => Proper(x)) /\ (Anew(h) => Anew(x))
  BY <1>4, <1>5, <1>m, <1>x, MergedIs
<1>8. /\ r \in Seq(Header) /\ Len(r) = n /\ DOMAIN r = 1 .. n
      /\ \A j \in 1 .. n - 1 : r[j] = L[j]
      /\ r[n] = x
  BY <1>2, <1>7, <1>r, LastAnew
<1>9. n = 1 => last.prev = Null
  BY <1>1, <1>l DEF PrevOK
<1>10. n > 1 => last.prev = L[n - 1].at /\ ~L[n - 1].free
  <2>1. SUFFICES ASSUME n > 1 PROVE last.prev = L[n - 1].at /\ ~L[n - 1].free
    OBVIOUS
  <2>2. last.prev = L[n - 1].at \/ L[n - 1].free
    BY <1>1, <1>2, <1>5, <1>l, <2>1 DEF PrevOK
  <2>3. n - 1 \in 1 .. Len(L) - 1 /\ (n - 1) + 1 = n
    BY <2>1
  <2>4. ~(L[n - 1].free /\ L[(n - 1) + 1].free)
    BY <1>1, <2>3 DEF Merged
  <2> QED
    BY <1>4, <1>l, <2>2, <2>3, <2>4
<1>11. Absorb(m, h) = [list |-> r, fresh |-> TRUE]
  <2>F. PICK F : F = SubSeq(L, 1, n - 1)
    OBVIOUS
  <2>1. /\ F \in Seq(Header) /\ Len(F) = n - 1 /\ DOMAIN F = 1 .. n - 1
        /\ \A j \in 1 .. n - 1 : F[j] = L[j]
    BY <1>2, <2>F, FirstOnes
  <2>2. F = << >> \/ \A i \in DOMAIN F : F[i].at = last.prev <=> i = Len(F)
    <3>1. CASE n = 1
      BY <2>1, <3>1
    <3>2. CASE n # 1
      <4>0. n > 1
        BY <1>2, <3>2
      <4>1. n - 1 \in DOMAIN L /\ L[n - 1].at = last.prev
        BY <1>2, <1>10, <4>0
      <4>2. ASSUME NEW i \in DOMAIN F, i # n - 1
            PROVE  F[i].at # last.prev
        <5>1. i \in DOMAIN L /\ i < n - 1 /\ F[i] = L[i]
          BY <1>2, <2>1, <4>2
        <5>2. L[i].at < L[n - 1].at /\ L[i].at \in Nat /\ L[n - 1].at \in Nat
          BY <1>1, <4>1, <5>1, InOrder
        <5> QED
          BY <4>1, <5>1, <5>2
      <4> QED
        BY <2>1, <4>1, <4>2
    <3> QED
      BY <3>1, <3>2
  <2>3. UpTo(F, last.prev) = F
    BY <2>1, <2>2, UpToStays
  <2>4. Front(m.list) = F
    BY <1>L, <2>F DEF Front
  <2> QED
    BY <1>4, <1>L, <1>l, <1>x, <1>r, <2>3, <2>4, <2>F DEF Absorb, MergedOf
<1>v. PICK v \in BOOLEAN : v = (w /\ k + 1 = Len(R))
  OBVIOUS
<1>13. ~v => Proper(x)
  BY <1>0, <1>3, <1>7, <1>h, <1>v DEF ChunksOK
<1>14. v => Anew(x)
  BY <1>0, <1>3, <1>7, <1>h, <1>v DEF ChunksOK
<1>15. ASSUME NEW j \in 1 .. n - 1
       PROVE  L[j].hi <= x.at /\ (Proper(x) => L[j].hi <= x.lo)
  <2>1. j \in DOMAIN L /\ j < n
    BY <1>2
  <2>2. L[j].hi <= last.at /\ L[j].hi <= last.lo
    BY <1>1, <1>2, <1>5, <1>l, <2>1 DEF Apart
  <2> QED
    BY <1>6, <2>2
<1>16. ChunksOK(r, v) /\ Apart(r) /\ PrevOK(r) /\ Merged(r)
  <2>1. x.free <=> x.align = 0
    BY <1>6
  <2>2. n = 1 => x.prev = Null
    BY <1>6, <1>9
  <2>3. n > 1 /\ Proper(x) => x.prev = L[n - 1].at \/ L[n - 1].free
    BY <1>6, <1>10
  <2>4. n > 1 => ~(L[n - 1].free /\ x.free)
    BY <1>10
  <2>5. \A j \in 1 .. n - 1 : (L[j].free <=> L[j].align = 0) /\ Proper(L[j])
    <3>1. \A j \in 1 .. n - 1 : j \in DOMAIN L /\ j < Len(L)
      BY <1>2
    <3>2. ChunksOK(L, FALSE)
      BY <1>1
    <3> QED
      BY <3>1, <3>2 DEF ChunksOK
  <2> QED
    <3>1. Apart(L) /\ PrevOK(L) /\ Merged(L)
      BY <1>1
    <3>2. Len(r) = n /\ (\A j \in 1 .. n - 1 : r[j] = L[j]) /\ r[n] = x /\ r \in Seq(Header)
      BY <1>8
    <3>3. n \in 1 .. Len(L) + 1
      BY <1>2
    <3>4. SoundUpTo(L, n)
      BY <2>5 DEF SoundUpTo
    <3>5. Begins(L, r, n, x)
      BY <3>2 DEF Begins
    <3>6. Follows(L, n, x, v)
      BY <1>13, <1>14, <1>15, <2>1, <2>2, <2>3, <2>4 DEF Follows
    <3> QED
      BY <3>1, <3>3, <3>4, <3>5, <3>6, SoundBehind
<1>17. ~w => Tiled(r)
  <2>1. SUFFICES ASSUME ~w PROVE Tiled(r)
    OBVIOUS
  <2>2. n = 1 => r[n].lo = PoolStart
    BY <1>1, <1>6, <1>8, <1>l, <2>1 DEF Tiled
  <2>3. n > 1 => L[n - 1].hi = r[n].lo
    <3>1. n > 1 => n - 1 \in 1 .. Len(L) - 1 /\ (n - 1) + 1 = n
      OBVIOUS
    <3> QED
      BY <1>1, <1>6, <1>8, <1>l, <2>1, <3>1 DEF Tiled
  <2>4. Tiled(L)
    BY <1>1, <2>1
  <2> QED
    BY <1>2, <1>8, <2>2, <2>3, <2>4, TiledBehind
<1>18. Used(r) = UsedTo(R, k + 1)
  <2>1. Used(r) = UsedTo(r, n) /\ Used(L) = UsedTo(L, n)
    BY <1>8, UsedIs
  <2>2. UsedTo(r, n) = UsedTo(L, n)
    <3>1. {j \in 1 .. n : ~r[j].free /\ r[j].hi # Null}
            = {j \in 1 .. n - 1 : ~L[j].free /\ L[j].hi # Null}
      <4>1. r[n].free
        BY <1>4, <1>6, <1>8
      <4>2. \A j \in 1 .. n - 1 : r[j] = L[j]
        BY <1>8
      <4>3. \A j \in 1 .. n : j = n \/ j \in 1 .. n - 1
        OBVIOUS
      <4>4. \A j \in 1 .. n - 1 : j \in 1 .. n /\ j # n
        OBVIOUS
      <4> QED
        BY <4>1, <4>2, <4>3, <4>4
    <3>2. {j \in 1 .. n : ~L[j].free /\ L[j].hi # Null}
            = {j \in 1 .. n - 1 : ~L[j].free /\ L[j].hi # Null}
      BY <1>2, <1>4, <1>l
    <3> QED
      BY <1>8, <3>1, <3>2 DEF UsedTo
  <2>3. UsedTo(R, k + 1) = UsedTo(R, k)
    <3>1. R[k + 1].free /\ R \in Seq(Header)
      BY <1>0, <1>4, <1>h
    <3>2. UsedTo(R, k + 1) = UsedTo(R, k) \cup
           (IF ~R[k + 1].free /\ R[k + 1].hi # Null THEN {Unlinked(R[k + 1])} ELSE {})
      BY <3>1, UsedToNext
    <3> QED
      BY <3>1, <3>2
  <2> QED
    BY <1>1, <2>1, <2>2, <2>3
<1>19. r[n].hi = R[k + 1].hi /\ r[n].free = R[k + 1].free /\ r[n].at <= R[k + 1].at
  <2>1. last.at <= h.at
    <3>1. last.at < h.at
      BY <1>7
    <3> QED
      BY <3>1, HeaderIs
  <2>2. r[n].hi = h.hi /\ r[n].at = last.at
    BY <1>6, <1>8
  <2>3. r[n].free = h.free
    <3>1. x.free \in BOOLEAN /\ h.free \in BOOLEAN
      BY <1>7, HeaderIs
    <3>2. x.free = h.free
      BY <1>4, <1>6, <3>1
    <3> QED
      BY <1>8, <3>2
  <2> QED
    BY <1>h, <2>1, <2>2, <2>3
<1>a. PICK a : a = [list |-> r, fresh |-> TRUE]
  OBVIOUS
<1>20. a \in Walked /\ a.list = r /\ a.fresh
  BY <1>8, <1>a DEF Walked
<1>21. WalkOK(R, w, a, k + 1)
  BY <1>8, <1>16, <1>17, <1>18, <1>19, <1>20, <1>v DEF WalkOK
<1> QED
  BY <1>11, <1>20, <1>21, <1>a, <1>h

\* The walk comes to a chunk in use, or to a free one behind one in use.
LEMMA AbsorbAppends ==
  ASSUME NEW R, NEW w \in BOOLEAN, LooseOK(R, w), NEW k \in 1 .. Len(R) - 1,
         NEW m \in Walked, WalkOK(R, w, m, k)
  PROVE  ~(m.list[Len(m.list)].free /\ R[k + 1].free) =>
           Absorb(m, R[k + 1]) \in Walked /\ WalkOK(R, w, Absorb(m, R[k + 1]), k + 1)
<1>f. SUFFICES ASSUME ~(m.list[Len(m.list)].free /\ R[k + 1].free)
      PROVE  Absorb(m, R[k + 1]) \in Walked /\ WalkOK(R, w, Absorb(m, R[k + 1]), k + 1)
  OBVIOUS
<1>0. R \in Seq(Header) /\ ChunksOK(R, w) /\ Apart(R) /\ PrevOK(R) /\ (~w => Tiled(R))
  BY DEF LooseOK, ChunksOK, Tiles, Tiled
<1>L. PICK L \in Seq(Header) : L = m.list
  BY DEF Walked
<1> PICK n \in Nat : n = Len(L)
  OBVIOUS
<1>1. /\ ChunksOK(L, FALSE) /\ Apart(L) /\ PrevOK(L) /\ Merged(L) /\ (~w => Tiled(L))
      /\ L[n].hi = R[k].hi /\ L[n].free = R[k].free /\ (m.fresh \/ L[n].at = R[k].at)
      /\ Used(L) = UsedTo(R, k)
  <2>1. (w /\ k = Len(R)) = FALSE
    BY <1>0
  <2> QED
    BY <1>L, <2>1 DEF WalkOK
<1>2. n > 0 /\ n \in DOMAIN L /\ DOMAIN L = 1 .. n /\ n + 1 \in 1 .. Len(L) + 1
  <2>1. L # << >>
    BY <1>1 DEF ChunksOK
  <2> QED
    BY <2>1
<1>3. k \in DOMAIN R /\ k + 1 \in DOMAIN R /\ k < k + 1
  BY <1>0
<1>h. PICK h \in Header : h = R[k + 1]
  BY <1>0, <1>3
<1>l. PICK last \in Header : last = L[n]
  BY <1>2
<1>4. ~(last.free /\ h.free)
  BY <1>f, <1>L, <1>h, <1>l
<1>5. Proper(last)
  BY <1>1, <1>2, <1>l DEF ChunksOK
<1>x. PICK x : x = IF m.fresh THEN [h EXCEPT !.prev = last.at] ELSE h
  OBVIOUS
<1>6. /\ x \in Header
      /\ x.at = h.at /\ x.lo = h.lo /\ x.hi = h.hi
      /\ x.data = h.data /\ x.align = h.align /\ x.free = h.free
      /\ Unlinked(x) = Unlinked(h) /\ (Proper(x) <=> Proper(h)) /\ (Anew(x) <=> Anew(h))
      /\ x.prev = IF m.fresh THEN last.at ELSE h.prev
  <2>1. CASE m.fresh
    <3>1. last.at \in Nat
      BY HeaderIs
    <3>2. x = [h EXCEPT !.prev = last.at]
      BY <1>x, <2>1
    <3> QED
      BY <2>1, <3>1, <3>2, RelinkedIs
  <2>2. CASE ~m.fresh
    BY <1>x, <2>2
  <2> QED
    BY <2>1, <2>2
<1>r. PICK r : r = Append(L, x)
  OBVIOUS
<1>8. /\ r \in Seq(Header) /\ Len(r) = n + 1 /\ DOMAIN r = 1 .. n + 1
      /\ \A j \in 1 .. n : r[j] = L[j]
      /\ r[n + 1] = x
  BY <1>6, <1>r, OneMore
<1>9. (n + 1) - 1 = n /\ n + 1 > 1
  BY <1>2
<1>10. Absorb(m, h) = [list |-> r, fresh |-> FALSE]
  BY <1>4, <1>L, <1>l, <1>x, <1>r DEF Absorb
<1>11. last.hi <= h.at /\ (Proper(h) => last.hi <= h.lo)
  BY <1>0, <1>1, <1>3, <1>h, <1>l DEF Apart
<1>12. ASSUME NEW j \in 1 .. n
       PROVE  L[j].hi <= x.at /\ (Proper(x) => L[j].hi <= x.lo)
  <2>1. CASE j = n
    BY <1>6, <1>11, <1>l, <2>1
  <2>2. CASE j # n
    <3>1. j \in DOMAIN L /\ j < n
      BY <1>2, <2>2
    <3>2. L[j].hi <= last.at
      BY <1>1, <1>2, <1>l, <3>1 DEF Apart
    <3>3. /\ L[j].hi \in Nat /\ last.at \in Nat /\ last.hi \in Nat /\ last.data \in Nat
          /\ h.at \in Nat /\ h.lo \in Nat /\ HeaderSize \in Nat
      BY <3>1, HeaderIs, Numbers
    <3>4. last.at + HeaderSize <= last.data /\ last.data < last.hi
      BY <1>5 DEF Proper
    <3>a. last.at <= last.hi
      BY <3>3, <3>4
    <3>5. L[j].hi <= last.hi
      BY <3>2, <3>3, <3>a
    <3>6. L[j].hi <= h.at /\ (Proper(h) => L[j].hi <= h.lo)
      BY <1>11, <3>3, <3>5
    <3> QED
      BY <1>6, <3>6
  <2> QED
    BY <2>1, <2>2
<1>v. PICK v \in BOOLEAN : v = (w /\ k + 1 = Len(R))
  OBVIOUS
<1>13. (~v => Proper(x)) /\ (v => Anew(x)) /\ (x.free <=> x.align = 0)
  BY <1>0, <1>3, <1>6, <1>h, <1>v DEF ChunksOK
<1>14. Proper(x) => x.prev = last.at \/ last.free
  <2>1. CASE m.fresh
    BY <1>6, <2>1
  <2>2. CASE ~m.fresh
    <3>1. last.at = R[k].at /\ last.free = R[k].free /\ x.prev = h.prev
      BY <1>1, <1>6, <1>l, <2>2
    <3>2. Proper(h) => h.prev = R[(k + 1) - 1].at \/ R[(k + 1) - 1].free
      BY <1>0, <1>3, <1>h DEF PrevOK
    <3>3. (k + 1) - 1 = k
      OBVIOUS
    <3> QED
      BY <1>6, <3>1, <3>2, <3>3
  <2> QED
    BY <2>1, <2>2
<1>15. ChunksOK(r, v) /\ Apart(r) /\ PrevOK(r) /\ Merged(r)
  <2>1. SoundUpTo(L, n + 1)
    BY <1>1, <1>2, <1>9 DEF SoundUpTo, ChunksOK
  <2>2. Begins(L, r, n + 1, x)
    BY <1>8, <1>9 DEF Begins
  <2>3. ~(L[n].free /\ x.free)
    BY <1>4, <1>6, <1>l
  <2>4. Follows(L, n + 1, x, v)
    BY <1>9, <1>12, <1>13, <1>14, <1>l, <2>3 DEF Follows
  <2>5. Apart(L) /\ PrevOK(L) /\ Merged(L)
    BY <1>1
  <2> QED
    BY <1>2, <2>1, <2>2, <2>4, <2>5, SoundBehind
<1>16. ~w => Tiled(r)
  <2>1. SUFFICES ASSUME ~w PROVE Tiled(r)
    OBVIOUS
  <2>2. L[n].hi = r[n + 1].lo
    <3>1. R[k].hi = R[k + 1].lo
      BY <1>0, <2>1 DEF Tiled
    <3> QED
      BY <1>1, <1>6, <1>8, <1>h, <3>1
  <2>3. Tiled(L)
    BY <1>1, <2>1
  <2>4. n + 1 = 1 => r[n + 1].lo = PoolStart
    BY <1>9
  <2> QED
    BY <1>2, <1>8, <1>9, <2>2, <2>3, <2>4, TiledBehind
<1>17. Used(r) = UsedTo(R, k + 1)
  <2>1. Used(r) = UsedTo(r, n + 1) /\ Used(L) = UsedTo(L, n)
    BY <1>8, UsedIs
  <2>2. UsedTo(r, n + 1) = UsedTo(r, n) \cup
          (IF ~r[n + 1].free /\ r[n + 1].hi # Null THEN {Unlinked(r[n + 1])} ELSE {})
    <3>1. n \in 1 .. Len(r) - 1
      BY <1>2, <1>8
    <3> QED
      BY <1>8, <3>1, UsedToNext
  <2>3. UsedTo(r, n) = UsedTo(L, n)
    <3>1. {j \in 1 .. n : ~r[j].free /\ r[j].hi # Null}
            = {j \in 1 .. n : ~L[j].free /\ L[j].hi # Null}
      BY <1>8
    <3> QED
      BY <1>8, <3>1 DEF UsedTo
  <2>4. UsedTo(R, k + 1) = UsedTo(R, k) \cup
          (IF ~R[k + 1].free /\ R[k + 1].hi # Null THEN {Unlinked(R[k + 1])} ELSE {})
    BY <1>0, UsedToNext
  <2>5. /\ r[n + 1].free = R[k + 1].free /\ r[n + 1].hi = R[k + 1].hi
        /\ Unlinked(r[n + 1]) = Unlinked(R[k + 1])
    BY <1>6, <1>8, <1>h
  <2> QED
    BY <1>1, <2>1, <2>2, <2>3, <2>4, <2>5
<1>18. r[n + 1].hi = R[k + 1].hi /\ r[n + 1].free = R[k + 1].free /\ r[n + 1].at = R[k + 1].at
  BY <1>6, <1>8, <1>h
<1>19. r[n + 1].at <= R[k + 1].at
  BY <1>18, <1>h, HeaderIs
<1>a. PICK a : a = [list |-> r, fresh |-> FALSE]
  OBVIOUS
<1>20. a \in Walked /\ a.list = r
  BY <1>8, <1>a DEF Walked
<1>21. WalkOK(R, w, a, k + 1)
  BY <1>8, <1>15, <1>16, <1>17, <1>18, <1>19, <1>20, <1>v DEF WalkOK
<1> QED
  BY <1>10, <1>20, <1>21, <1>a, <1>h

\* The walk goes header by header.
LEMMA WalkUnfolds ==
  ASSUME NEW R, NEW N \in Nat \ {0}, N = Len(R)
  PROVE  /\ Walk(R)[1] = [list |-> <<R[1]>>, fresh |-> FALSE]
         /\ \A k \in 1 .. N - 1 : Walk(R)[k + 1] = Absorb(Walk(R)[k], R[k + 1])
<1> DEFINE First == [list |-> <<R[1]>>, fresh |-> FALSE]
           Step(g, k) == IF k = 1 THEN First ELSE Absorb(g[k - 1], R[k])
           Defines(g) == g = [k \in 1 .. N |-> Step(g, k)]
           Agrees(n, g) == \A k \in 1 .. n : g[k] = Step(g, k)
           S == {n \in 1 .. N : \E g : Agrees(n, g)}
<1>1. 1 \in S
  <2>1. [k \in 1 .. N |-> First][1] = First
    OBVIOUS
  <2> HIDE DEF First
  <2>2. Agrees(1, [k \in 1 .. N |-> First])
    BY <2>1
  <2> HIDE DEF Agrees
  <2> QED
    BY <2>2
<1>2. ASSUME NEW n \in 1 .. N - 1, n \in S
      PROVE  n + 1 \in S
  <2>1. PICK g : Agrees(n, g)
    BY <1>2
  <2> DEFINE x == Absorb(g[n], R[n + 1])
             h == [k \in 1 .. N |-> IF k = n + 1 THEN x ELSE g[k]]
  <2>2. h[n + 1] = x /\ \A k \in 1 .. n : h[k] = g[k]
    <3> HIDE DEF x
    <3> QED
      OBVIOUS
  <2> HIDE DEF h
  <2>3. ASSUME NEW k \in 1 .. n + 1
        PROVE  h[k] = Step(h, k)
    <3>1. CASE k = n + 1
      <4>1. k # 1 /\ k - 1 = n /\ n \in 1 .. n
        BY <3>1
      <4>2. h[k - 1] = g[n] /\ h[k] = x
        BY <2>2, <3>1, <4>1
      <4> QED
        BY <3>1, <4>1, <4>2
    <3>2. CASE k # n + 1
      <4>1. k \in 1 .. n /\ (k # 1 => k - 1 \in 1 .. n)
        BY <3>2
      <4>2. h[k] = g[k] /\ (k # 1 => h[k - 1] = g[k - 1])
        BY <2>2, <4>1
      <4>3. g[k] = Step(g, k)
        BY <2>1, <4>1
      <4> HIDE DEF First
      <4> QED
        BY <4>2, <4>3
    <3> QED
      BY <3>1, <3>2
  <2>4. Agrees(n + 1, h)
    BY <2>3
  <2>5. n + 1 \in 1 .. N
    OBVIOUS
  <2> HIDE DEF Agrees
  <2> QED
    BY <2>4, <2>5
<1>3. N \in S
  <2>1. N \in Nat /\ N \in 1 .. N
    OBVIOUS
  <2> HIDE DEF S
  <2> QED
    BY <1>1, <1>2, <2>1, CountingUp
<1>4. PICK g : Agrees(N, g)
  BY <1>3
<1>5. \E f : Defines(f)
  <2> DEFINE f == [k \in 1 .. N |-> g[k]]
  <2>1. \A k \in 1 .. N : f[k] = g[k]
    OBVIOUS
  <2>2. f = [k \in 1 .. N |-> f[k]]
    OBVIOUS
  <2> HIDE DEF f
  <2>3. ASSUME NEW k \in 1 .. N
        PROVE  f[k] = Step(f, k)
    <3>1. k # 1 => k - 1 \in 1 .. N
      OBVIOUS
    <3>2. f[k] = g[k] /\ (k # 1 => f[k - 1] = g[k - 1])
      BY <2>1, <3>1
    <3>3. g[k] = Step(g, k)
      BY <1>4
    <3> HIDE DEF First
    <3> QED
      BY <3>2, <3>3
  <2>4. [k \in 1 .. N |-> f[k]] = [k \in 1 .. N |-> Step(f, k)]
    <3> HIDE DEF Step
    <3> QED
      BY <2>3
  <2>5. Defines(f)
    BY <2>2, <2>4
  <2> HIDE DEF Defines
  <2> QED
    BY <2>5
<1> DEFINE f == CHOOSE u : Defines(u)
<1>6. Defines(f)
  BY <1>5
<1>7. Walk(R) = f
  BY DEF Walk
<1> HIDE DEF f
<1>8. ASSUME NEW k \in 1 .. N
      PROVE  f[k] = Step(f, k)
  BY <1>6
<1>9. f[1] = First
  <2> HIDE DEF First
  <2> QED
    BY <1>8
<1>10. ASSUME NEW k \in 1 .. N - 1
       PROVE  f[k + 1] = Absorb(f[k], R[k + 1])
  <2>1. k + 1 \in 1 .. N /\ k + 1 # 1 /\ (k + 1) - 1 = k
    OBVIOUS
  <2> HIDE DEF First
  <2> QED
    BY <1>8, <2>1
<1> QED
  BY <1>7, <1>9, <1>10

\* A merged list is sound when the list was, but for free neighbours; the same chunks are in
\* use, and the last header did not move back.
LEMMA MergeKeeps ==
  ASSUME NEW R, NEW w \in BOOLEAN, LooseOK(R, w), NEW M, M = MergeFreeChunks(R)
  PROVE  /\ ListOK(M, w) /\ Used(M) = Used(R) /\ M[Len(M)].at <= R[Len(R)].at
<1>0. R \in Seq(Header) /\ ChunksOK(R, w) /\ Apart(R) /\ PrevOK(R) /\ R # << >>
  BY DEF LooseOK, ChunksOK
<1> PICK N \in Nat \ {0} : N = Len(R)
  BY <1>0
<1>1. DOMAIN R = 1 .. N /\ 1 \in DOMAIN R
  BY <1>0
<1> DEFINE S == {k \in 1 .. N : Walk(R)[k] \in Walked /\ WalkOK(R, w, Walk(R)[k], k)}
<1>2. 1 \in S
  <2> PICK a : a = [list |-> <<R[1]>>, fresh |-> FALSE]
    OBVIOUS
  <2> PICK L : L = <<R[1]>>
    OBVIOUS
  <2>1. L \in Seq(Header) /\ Len(L) = 1 /\ DOMAIN L = 1 .. 1 /\ L[1] = R[1] /\ L # << >>
    BY <1>0, <1>1
  <2>2. a \in Walked /\ a.list = L
    BY <2>1 DEF Walked
  <2>3. Walk(R)[1] = a
    BY WalkUnfolds
  <2>4. \A i \in DOMAIN L : i = 1
    BY <2>1
  <2>5. ChunksOK(L, w /\ 1 = N)
    <3>1. L[1].free <=> L[1].align = 0
      BY <1>0, <1>1, <2>1 DEF ChunksOK
    <3>2. ~(w /\ 1 = N) => Proper(L[1])
      BY <1>0, <1>1, <2>1 DEF ChunksOK
    <3>3. w /\ 1 = N => Anew(L[1])
      BY <1>0, <1>1, <2>1 DEF ChunksOK
    <3> QED
      BY <2>1, <2>4, <3>1, <3>2, <3>3 DEF ChunksOK
  <2>6. Apart(L)
    BY <2>1, <2>4 DEF Apart
  <2>7. PrevOK(L)
    BY <1>0, <2>1, <2>4 DEF PrevOK
  <2>8. Merged(L)
    BY <2>1 DEF Merged
  <2>9. ~w => Tiled(L)
    BY <2>1 DEF Tiled, LooseOK, Tiles
  <2>10. Used(L) = UsedTo(R, 1)
    <3>1. UsedTo(L, 1) = UsedTo(R, 1)
      BY <2>1 DEF UsedTo
    <3> QED
      BY <2>1, <3>1, UsedIs
  <2>11. L[1].at <= R[1].at
    BY <1>0, <1>1, <2>1, HeaderIs
  <2>12. WalkOK(R, w, a, 1)
    BY <2>1, <2>2, <2>5, <2>6, <2>7, <2>8, <2>9, <2>10, <2>11 DEF WalkOK
  <2> QED
    BY <2>2, <2>3, <2>12
<1>3. ASSUME NEW k \in 1 .. N - 1, k \in S
      PROVE  k + 1 \in S
  <2>1. Walk(R)[k] \in Walked /\ WalkOK(R, w, Walk(R)[k], k)
    BY <1>3
  <2> PICK m : m = Walk(R)[k]
    OBVIOUS
  <2>2. Absorb(m, R[k + 1]) \in Walked /\ WalkOK(R, w, Absorb(m, R[k + 1]), k + 1)
    BY <2>1, AbsorbMerges, AbsorbAppends
  <2>3. Walk(R)[k + 1] = Absorb(m, R[k + 1])
    BY WalkUnfolds
  <2>4. k + 1 \in 1 .. N
    OBVIOUS
  <2> QED
    BY <2>2, <2>3, <2>4
<1>4. N \in S
  <2>1. N \in Nat /\ N \in 1 .. N
    OBVIOUS
  <2> HIDE DEF S
  <2> QED
    BY <1>2, <1>3, <2>1, CountingUp
<1> PICK m \in Walked : m = Walk(R)[N] /\ WalkOK(R, w, m, N)
  BY <1>4
<1>5. M = m.list
  BY DEF MergeFreeChunks
<1>6. /\ ChunksOK(M, w) /\ Apart(M) /\ PrevOK(M) /\ Merged(M) /\ (~w => Tiled(M))
      /\ M[Len(M)].hi = R[N].hi /\ M[Len(M)].at <= R[N].at /\ Used(M) = UsedTo(R, N)
  <2>1. (w /\ N = Len(R)) = w
    OBVIOUS
  <2> QED
    BY <1>5, <2>1 DEF WalkOK
<1>7. ~w => Tiles(M)
  <2>1. ~w => R[N].hi = PoolEnd
    BY DEF LooseOK, Tiles
  <2> QED
    BY <1>6, <2>1 DEF Tiled, Tiles
<1>8. Used(R) = UsedTo(R, N)
  BY <1>0, UsedIs
<1> QED
  BY <1>6, <1>7, <1>8 DEF ListOK, LooseOK

(***************************************************************************)
(* The chunk that is handed out                                            *)
(***************************************************************************)

\* A chunk whose room may be asked is proper, if it is free.
LEMMA RoomIsProper ==
  ASSUME NEW R, NEW w \in BOOLEAN, ChunksOK(R, w), NEW i \in DOMAIN R, RoomContract(R[i])
  PROVE  Proper(R[i])
<1>1. R[i] \in Header
  BY DEF ChunksOK
<1> PICK h \in Header : h = R[i]
  BY <1>1
<1>2. h.hi >= h.data
  BY DEF RoomContract
<1>3. ~Anew(h)
  BY <1>2, HeaderIs, Numbers DEF Anew
<1> QED
  BY <1>3 DEF ChunksOK

\* What a free chunk of the pool is asked.
Room(h, size, align) ==
  h \in Header /\ Proper(h) /\ h.free /\ EnoughRoom(h, size, align)

\* The numbers of a chunk that is large enough.
LEMMA RoomIs ==
  ASSUME NEW size \in Sizes, NEW align \in Aligns, NEW h, Room(h, size, align),
         NEW A, A = AlignUp(h.data, align), NEW e, e = DataEnd(h, size, align)
  PROVE  /\ A \in Nat /\ e \in Nat /\ e = A + size /\ A < e /\ h.data <= A /\ A % align = 0
         /\ e <= h.hi /\ h.data + size <= h.hi /\ h.lo <= h.at /\ h.at < h.data
         /\ h.data = h.at + HeaderSize
<1>1. /\ h.hi \in Nat /\ h.lo \in Nat /\ h.at \in Nat /\ h.data \in Nat
      /\ size \in Nat /\ size > 0 /\ align \in Nat /\ align > 0
      /\ HeaderSize \in Nat /\ HeaderSize > 0
  BY HeaderIs, Numbers DEF Room
<1>2. A \in Nat /\ h.data <= A /\ A % align = 0
  BY <1>1, AlignUpIs
<1>3. e = A + size
  BY DEF DataEnd
<1>4. h.hi - h.data >= (A - h.data) + size
  BY DEF Room, EnoughRoom, DataRoom, Padding
<1>5. e <= h.hi /\ h.data + size <= h.hi
  BY <1>1, <1>2, <1>3, <1>4
<1>6. h.at = HeaderAt(h.lo) /\ h.data = h.at + HeaderSize
  BY DEF Room, Proper
<1>7. h.lo <= h.at
  BY <1>1, <1>6, HeaderAtIs
<1> QED
  BY <1>1, <1>2, <1>3, <1>5, <1>6, <1>7

\* The two chunks of a split.
LEMMA HalvesAre ==
  ASSUME NEW size \in Sizes, NEW align \in Aligns, NEW h, Room(h, size, align),
         CanSplit(h, size, align), SplitAssertion(h, size, align),
         NEW u, u = InUse(h, size, align),
         NEW v, v = FreeHeader(DataEnd(h, size, align), h.hi, h.at)
  PROVE  /\ u \in Header /\ Proper(u) /\ ~u.free /\ u.align = align
         /\ u.at = h.at /\ u.lo = h.lo /\ u.prev = h.prev
         /\ u.data = AlignUp(h.data, align) /\ u.hi = DataEnd(h, size, align)
         /\ v \in Header /\ Proper(v) /\ v.free /\ v.align = 0
         /\ v.prev = h.at /\ v.hi = h.hi /\ v.lo = u.hi /\ u.hi <= v.at
         /\ h.lo <= v.lo /\ h.lo <= v.at /\ u.hi <= h.hi
<1> PICK A : A = AlignUp(h.data, align)
  OBVIOUS
<1> PICK e : e = DataEnd(h, size, align)
  OBVIOUS
<1>0. h \in Header /\ Proper(h) /\ h.free
  BY DEF Room
<1>1. /\ A \in Nat /\ e \in Nat /\ e = A + size /\ A < e /\ h.data <= A /\ A % align = 0
      /\ e <= h.hi /\ h.lo <= h.at /\ h.at < h.data
      /\ h.data = h.at + HeaderSize
  BY RoomIs
<1> PICK at \in Nat : at = HeaderAt(e) /\ e <= at
  BY <1>1, HeaderAtIs
<1>2. at + HeaderSize < h.hi
  <2>1. at + HeaderSize <= h.hi /\ at + HeaderSize # h.hi
    BY DEF CanSplit, SplitAssertion, NewData
  <2> QED
    BY <1>0, <2>1, HeaderIs, Numbers
<1>3. /\ h.hi \in Nat /\ h.hi <= PoolEnd /\ h.lo \in Nat /\ h.at \in Nat /\ h.data \in Nat
      /\ PoolStart <= h.at /\ h.at <= PoolEnd /\ h.prev \in Nat
  BY <1>0, HeaderIs
<1>4. /\ u.at = h.at /\ u.lo = h.lo /\ u.prev = h.prev
      /\ u.data = A /\ u.hi = e /\ u.align = align /\ u.free = FALSE
  BY <1>0 DEF InUse, Header
<1>5. /\ v.at = at /\ v.lo = e /\ v.hi = h.hi /\ v.prev = h.at /\ v.data = at + HeaderSize
      /\ v.align = 0 /\ v.free = TRUE
  BY DEF FreeHeader
<1>6. e \in 0 .. PoolEnd /\ at \in PoolStart .. PoolEnd /\ at + HeaderSize \in Nat
  BY <1>1, <1>2, <1>3, Numbers
<1>7. u \in Header
  BY <1>0, <1>1, <1>6 DEF InUse, Header
<1>8. v \in Header
  <2>1. v = [at |-> at, lo |-> e, hi |-> h.hi, prev |-> h.at, data |-> at + HeaderSize,
             align |-> 0, free |-> TRUE]
    BY DEF FreeHeader
  <2>2. h.hi \in 0 .. PoolEnd
    BY <1>3, Numbers
  <2>3. /\ at \in PoolStart .. PoolEnd /\ e \in Nat /\ h.hi \in 0 .. PoolEnd /\ h.at \in Nat
        /\ at + HeaderSize \in Nat /\ 0 \in Aligns \cup {0} /\ TRUE \in BOOLEAN
    BY <1>1, <1>3, <1>6, <2>2
  <2>4. \A a, b, c, d, k : a \in PoolStart .. PoolEnd /\ b \in Nat /\ c \in 0 .. PoolEnd
          /\ d \in Nat /\ k \in Nat =>
          [at |-> a, lo |-> b, hi |-> c, prev |-> d, data |-> k, align |-> 0, free |-> TRUE]
            \in Header
    BY DEF Header
  <2> QED
    BY <2>1, <2>3, <2>4
<1>9. Proper(u)
  <2>1. PoolStart <= h.lo /\ h.at = HeaderAt(h.lo)
    BY <1>0 DEF Proper
  <2>2. h.at + HeaderSize <= A
    BY <1>1, <1>3
  <2> QED
    BY <1>1, <1>4, <2>1, <2>2 DEF Proper
<1>10. Proper(v)
  <2>1. PoolStart <= e
    BY <1>1, <1>3, Numbers
  <2>2. at + HeaderSize <= at + HeaderSize
    BY <1>6
  <2> QED
    BY <1>2, <1>5, <2>1, <2>2 DEF Proper
<1>11. h.lo <= e /\ h.lo <= at
  BY <1>1, <1>3
<1> QED
  BY <1>1, <1>4, <1>5, <1>7, <1>8, <1>9, <1>10, <1>11

\* A list in which two chunks took the place of the i-th.
Cut(R, i, u, v, C) ==
  /\ C \in Seq(Header) /\ Len(C) = Len(R) + 1 /\ DOMAIN C = 1 .. Len(R) + 1
  /\ \A j \in 1 .. i - 1 : C[j] = R[j]
  /\ C[i] = u /\ C[i + 1] = v
  /\ \A j \in i + 1 .. Len(R) : C[j + 1] = R[j]

\* The two fill the place of the one.
Halves(h, u, v) ==
  /\ u \in Header /\ Proper(u) /\ ~u.free /\ u.align # 0
  /\ u.at = h.at /\ u.lo = h.lo /\ u.prev = h.prev
  /\ v \in Header /\ Proper(v) /\ v.free /\ v.align = 0
  /\ v.prev = h.at /\ v.hi = h.hi /\ v.lo = u.hi /\ u.hi <= v.at
  /\ h.lo <= v.lo /\ h.lo <= v.at /\ u.hi <= h.hi

\* Where a place of the new list is in the old one.
Place(R, i, u, v, C, j) ==
  \/ j < i /\ j \in DOMAIN R /\ C[j] = R[j]
  \/ j = i /\ C[j] = u
  \/ j = i + 1 /\ C[j] = v
  \/ j > i + 1 /\ j - 1 > i /\ j - 1 \in DOMAIN R /\ C[j] = R[j - 1]

\* Every chunk of a list in which one was cut is an old one or one of the halves.
LEMMA CutPlaces ==
  ASSUME NEW R \in Seq(Header), NEW i \in DOMAIN R, NEW u, NEW v, NEW C, Cut(R, i, u, v, C),
         NEW j \in DOMAIN C
  PROVE  Place(R, i, u, v, C, j)
<1> PICK n \in Nat : n = Len(R)
  OBVIOUS
<1>1. DOMAIN C = 1 .. n + 1 /\ DOMAIN R = 1 .. n /\ i \in 1 .. n /\ j \in 1 .. n + 1
  BY DEF Cut
<1>2. CASE j < i
  <2>1. j \in 1 .. i - 1 /\ j \in 1 .. n
    BY <1>1, <1>2
  <2> QED
    BY <1>1, <1>2, <2>1 DEF Cut, Place
<1>3. CASE j = i \/ j = i + 1
  BY <1>3 DEF Cut, Place
<1>4. CASE j > i + 1
  <2>1. j - 1 \in i + 1 .. n /\ (j - 1) + 1 = j /\ j - 1 > i /\ j - 1 \in 1 .. n
    BY <1>1, <1>4
  <2>2. C[(j - 1) + 1] = R[j - 1]
    BY <2>1 DEF Cut
  <2> QED
    BY <1>1, <1>4, <2>1, <2>2 DEF Place
<1> QED
  BY <1>1, <1>2, <1>3, <1>4

\* What lies behind the two halves has moved by one place.
LEMMA CutBehind ==
  ASSUME NEW R \in Seq(Header), NEW i \in DOMAIN R, NEW u, NEW v, NEW C, Cut(R, i, u, v, C)
  PROVE  \A j \in DOMAIN C : j > i + 1 => j - 1 \in DOMAIN R /\ C[j] = R[j - 1]
<1> SUFFICES ASSUME NEW j \in DOMAIN C, j > i + 1
             PROVE  j - 1 \in DOMAIN R /\ C[j] = R[j - 1]
  OBVIOUS
<1>1. DOMAIN C = 1 .. Len(R) + 1 /\ DOMAIN R = 1 .. Len(R) /\ i \in 1 .. Len(R)
      /\ Len(R) \in Nat
  BY DEF Cut
<1>2. j - 1 \in i + 1 .. Len(R) /\ (j - 1) + 1 = j /\ j - 1 \in 1 .. Len(R)
  BY <1>1
<1>3. C[(j - 1) + 1] = R[j - 1]
  BY <1>2 DEF Cut
<1> QED
  BY <1>1, <1>2, <1>3

\* Cutting a chunk keeps the chunks proper.
LEMMA CutKeepsChunks ==
  ASSUME NEW R, NEW w \in BOOLEAN, ChunksOK(R, w), NEW i \in DOMAIN R, Proper(R[i]),
         NEW u, NEW v, NEW C, Cut(R, i, u, v, C), Halves(R[i], u, v)
  PROVE  ChunksOK(C, w) /\ (w => C[Len(C)] = R[Len(R)])
<1>1. R \in Seq(Header)
  BY DEF ChunksOK
<1> PICK n \in Nat : n = Len(R)
  BY <1>1
<1>2. /\ C \in Seq(Header) /\ Len(C) = n + 1 /\ DOMAIN C = 1 .. n + 1 /\ DOMAIN R = 1 .. n
      /\ i \in 1 .. n /\ C # << >>
  BY <1>1 DEF Cut
<1>3. w => i # n /\ C[n + 1] = R[n]
  <2>1. SUFFICES ASSUME w PROVE i # n /\ C[n + 1] = R[n]
    OBVIOUS
  <2>2. Anew(R[n])
    BY <2>1 DEF ChunksOK
  <2>3. i # n
    <3>1. R[i] \in Header
      BY <1>1
    <3>2. ~(Proper(R[i]) /\ Anew(R[i]))
      BY <3>1, HeaderIs DEF Proper, Anew, Null
    <3> QED
      BY <2>2, <3>2
  <2>4. n \in i + 1 .. Len(R)
    BY <1>2, <2>3
  <2> QED
    BY <2>3, <2>4 DEF Cut
<1>4. ASSUME NEW j \in DOMAIN C
      PROVE  C[j].free <=> C[j].align = 0
  <2>1. \A k \in DOMAIN R : R[k].free <=> R[k].align = 0
    BY DEF ChunksOK
  <2>2. (u.free <=> u.align = 0) /\ (v.free <=> v.align = 0)
    BY DEF Halves
  <2>3. \/ j \in DOMAIN R /\ C[j] = R[j]
        \/ C[j] = u \/ C[j] = v
        \/ j - 1 \in DOMAIN R /\ C[j] = R[j - 1]
    <3>1. Place(R, i, u, v, C, j)
      BY <1>1, CutPlaces
    <3> QED
      BY <3>1 DEF Place
  <2> QED
    BY <2>1, <2>2, <2>3
<1>5. ASSUME NEW j \in DOMAIN C, ~(w /\ j = Len(C))
      PROVE  Proper(C[j])
  <2>1. CASE j < i /\ j \in DOMAIN R /\ C[j] = R[j]
    BY <1>2, <2>1 DEF ChunksOK
  <2>2. CASE j = i \/ j = i + 1
    BY <2>2 DEF Halves, Cut
  <2>3. CASE j - 1 \in DOMAIN R /\ C[j] = R[j - 1]
    <3>1. ~(w /\ j - 1 = Len(R))
      BY <1>2, <1>5
    <3> QED
      BY <2>3, <3>1 DEF ChunksOK
  <2> QED
    BY <1>1, <2>1, <2>2, <2>3, CutPlaces DEF Place
<1>6. w => Anew(C[Len(C)])
  BY <1>2, <1>3 DEF ChunksOK
<1> QED
  BY <1>2, <1>3, <1>4, <1>5, <1>6 DEF ChunksOK

\* The numbers of two chunks, one behind the other.
Behind(g, h) == g.hi <= h.at /\ (Proper(h) => g.hi <= h.lo)

\* Cutting a chunk keeps them apart.
LEMMA CutKeepsApart ==
  ASSUME NEW R \in Seq(Header), Apart(R), NEW i \in DOMAIN R, Proper(R[i]),
         NEW u, NEW v, NEW C, Cut(R, i, u, v, C), Halves(R[i], u, v)
  PROVE  Apart(C)
<1> SUFFICES ASSUME NEW j \in DOMAIN C, NEW k \in DOMAIN C, j < k
             PROVE  Behind(C[j], C[k])
  BY DEF Apart, Behind
<1> PICK n \in Nat : n = Len(R)
  OBVIOUS
<1>0. DOMAIN C = 1 .. n + 1 /\ DOMAIN R = 1 .. n /\ i \in 1 .. n
  BY DEF Cut
<1>1. \A p, q \in DOMAIN R : p < q => Behind(R[p], R[q])
  BY DEF Apart, Behind
<1> PICK h \in Header : h = R[i]
  OBVIOUS
<1>2. Halves(h, u, v) /\ Proper(h)
  OBVIOUS
<1>3. \A g \in Header : Behind(g, h) => Behind(g, u) /\ Behind(g, v)
  <2> SUFFICES ASSUME NEW g \in Header, Behind(g, h) PROVE Behind(g, u) /\ Behind(g, v)
    OBVIOUS
  <2>1. g.hi <= h.at /\ g.hi <= h.lo
    BY <1>2 DEF Behind
  <2>2. u.at = h.at /\ u.lo = h.lo /\ h.lo <= v.lo /\ h.lo <= v.at /\ v \in Header
    BY <1>2 DEF Halves
  <2>3. g.hi \in Nat /\ h.lo \in Nat /\ v.lo \in Nat /\ v.at \in Nat
    BY <2>2, HeaderIs
  <2>4. g.hi <= v.at /\ g.hi <= v.lo
    BY <2>1, <2>2, <2>3
  <2> QED
    BY <2>1, <2>2, <2>4 DEF Behind
<1>4. \A g \in Header : Behind(h, g) => Behind(u, g) /\ Behind(v, g)
  <2> SUFFICES ASSUME NEW g \in Header, Behind(h, g) PROVE Behind(u, g) /\ Behind(v, g)
    OBVIOUS
  <2>1. u.hi <= h.hi /\ v.hi = h.hi /\ u \in Header
    BY <1>2 DEF Halves
  <2>2. u.hi \in Nat /\ h.hi \in Nat /\ g.at \in Nat /\ g.lo \in Nat
    BY <2>1, HeaderIs
  <2>3. h.hi <= g.at /\ (Proper(g) => h.hi <= g.lo)
    BY DEF Behind
  <2>4. u.hi <= g.at /\ (Proper(g) => u.hi <= g.lo)
    BY <2>1, <2>2, <2>3
  <2> QED
    BY <2>1, <2>3, <2>4 DEF Behind
<1>5. Behind(u, v)
  <2>1. v.lo = u.hi /\ u.hi <= v.at /\ u \in Header
    BY <1>2 DEF Halves
  <2> QED
    BY <2>1, HeaderIs DEF Behind
<1>6. CASE j < i /\ C[j] = R[j]
  <2>1. j \in DOMAIN R /\ R[j] \in Header
    BY <1>0, <1>6
  <2>2. CASE k < i /\ C[k] = R[k] /\ k \in DOMAIN R
    BY <1>1, <1>6, <2>1, <2>2
  <2>3. CASE C[k] = u \/ C[k] = v
    BY <1>1, <1>3, <1>6, <2>1, <2>3
  <2>4. CASE k - 1 > i /\ k - 1 \in DOMAIN R /\ C[k] = R[k - 1]
    <3>1. j < k - 1
      BY <1>0, <1>6, <2>4
    <3> QED
      BY <1>1, <1>6, <2>1, <2>4, <3>1
  <2>5. \/ k < i /\ k \in DOMAIN R /\ C[k] = R[k]
        \/ C[k] = u \/ C[k] = v
        \/ k - 1 > i /\ k - 1 \in DOMAIN R /\ C[k] = R[k - 1]
    <3>1. Place(R, i, u, v, C, k)
      BY CutPlaces
    <3> QED
      BY <3>1 DEF Place
  <2> QED
    BY <2>2, <2>3, <2>4, <2>5
<1>7. CASE j = i /\ C[j] = u
  <2>1. CASE k = i + 1 /\ C[k] = v
    BY <1>5, <1>7, <2>1
  <2>2. CASE k - 1 > i /\ k - 1 \in DOMAIN R /\ C[k] = R[k - 1]
    <3>1. Behind(h, R[k - 1]) /\ R[k - 1] \in Header
      BY <1>1, <2>2
    <3> QED
      BY <1>4, <1>7, <2>2, <3>1
  <2>3. k > i
    BY <1>7
  <2> QED
    BY <1>0, <2>1, <2>2, <2>3, CutPlaces DEF Place
<1>8. CASE j = i + 1 /\ C[j] = v
  <2>1. k > i + 1
    BY <1>8
  <2>2. k - 1 > i /\ k - 1 \in DOMAIN R /\ C[k] = R[k - 1]
    BY <1>0, <2>1, CutPlaces DEF Place
  <2>3. Behind(h, R[k - 1]) /\ R[k - 1] \in Header
    BY <1>1, <2>2
  <2> QED
    BY <1>4, <1>8, <2>2, <2>3
<1>9. CASE j > i + 1 /\ j - 1 > i /\ j - 1 \in DOMAIN R /\ C[j] = R[j - 1]
  <2>1. k > i + 1
    BY <1>0, <1>9
  <2>2. k - 1 > i /\ k - 1 \in DOMAIN R /\ C[k] = R[k - 1]
    BY <1>0, <2>1, CutPlaces DEF Place
  <2>3. j - 1 < k - 1
    BY <1>0
  <2> QED
    BY <1>1, <1>9, <2>2, <2>3
<1> QED
  <2>1. Place(R, i, u, v, C, j)
    BY CutPlaces
  <2>2. \/ j < i /\ C[j] = R[j]
        \/ j = i /\ C[j] = u
        \/ j = i + 1 /\ C[j] = v
        \/ j > i + 1 /\ j - 1 > i /\ j - 1 \in DOMAIN R /\ C[j] = R[j - 1]
    BY <2>1 DEF Place
  <2> QED
    BY <1>6, <1>7, <1>8, <1>9, <2>2

\* Cutting a free chunk keeps the links, and leaves no free neighbours.
LEMMA CutKeepsLinks ==
  ASSUME NEW R \in Seq(Header), PrevOK(R), Merged(R), NEW i \in DOMAIN R, R[i].free,
         Proper(R[i]), NEW u, NEW v, NEW C, Cut(R, i, u, v, C), Halves(R[i], u, v)
  PROVE  PrevOK(C) /\ Merged(C)
<1> PICK n \in Nat : n = Len(R)
  OBVIOUS
<1>0. DOMAIN C = 1 .. n + 1 /\ DOMAIN R = 1 .. n /\ i \in 1 .. n /\ Len(C) = n + 1
  BY DEF Cut
<1>1. /\ ~u.free /\ u.at = R[i].at /\ u.prev = R[i].prev /\ v.free /\ v.prev = R[i].at
  BY DEF Halves
<1>2. C[i] = u /\ C[i + 1] = v
  BY DEF Cut
<1>b. \A j \in DOMAIN C : j > i + 1 => j - 1 \in DOMAIN R /\ C[j] = R[j - 1]
  BY CutBehind
<1>3. C[1].prev = Null
  <2>1. CASE i = 1
    BY <1>1, <1>2, <2>1 DEF PrevOK
  <2>2. CASE i # 1
    <3>1. C[1] = R[1]
      BY <1>0, <2>2 DEF Cut
    <3> QED
      BY <3>1 DEF PrevOK
  <2> QED
    BY <2>1, <2>2
<1>4. ASSUME NEW j \in DOMAIN C, j > 1, Proper(C[j])
      PROVE  C[j].prev = C[j - 1].at \/ C[j - 1].free
  <2>0. j - 1 \in DOMAIN C
    BY <1>0, <1>4
  <2>1. CASE j < i \/ j = i
    <3>1. j \in DOMAIN R /\ j - 1 < i /\ C[j - 1] = R[j - 1]
      <4>1. j \in 1 .. n /\ j - 1 \in 1 .. i - 1
        BY <1>0, <1>4, <2>1
      <4> QED
        BY <1>0, <4>1 DEF Cut
    <3>2. C[j].prev = R[j].prev /\ Proper(R[j])
      <4>1. CASE j = i
        BY <1>1, <1>2, <4>1
      <4>2. CASE j < i
        <5>1. j \in 1 .. i - 1
          BY <1>0, <4>2
        <5>2. C[j] = R[j]
          BY <5>1 DEF Cut
        <5> QED
          BY <1>4, <5>2
      <4> QED
        BY <2>1, <4>1, <4>2
    <3> QED
      BY <1>4, <3>1, <3>2 DEF PrevOK
  <2>2. CASE j = i + 1
    <3>1. j - 1 = i
      BY <1>0, <2>2
    <3> QED
      BY <1>1, <1>2, <2>2, <3>1
  <2>3. CASE j = i + 2
    <3>1. j - 1 = i + 1
      BY <1>0, <2>3
    <3> QED
      BY <1>1, <1>2, <3>1
  <2>4. CASE j > i + 2
    <3>1. j - 1 \in DOMAIN R /\ C[j] = R[j - 1]
      <4>1. j > i + 1
        BY <1>0, <2>4
      <4> QED
        BY <4>1, <1>b
    <3>2. (j - 1) - 1 \in DOMAIN R /\ C[j - 1] = R[(j - 1) - 1]
      <4>1. j - 1 > i + 1
        BY <1>0, <2>4
      <4> QED
        BY <2>0, <4>1, <1>b
    <3>3. j - 1 > 1
      BY <1>0, <2>4
    <3>4. R[j - 1].prev = R[(j - 1) - 1].at \/ R[(j - 1) - 1].free
      BY <1>4, <3>1, <3>3 DEF PrevOK
    <3> QED
      BY <3>1, <3>2, <3>4
  <2> QED
    BY <1>0, <2>1, <2>2, <2>3, <2>4
<1>5. ASSUME NEW j \in 1 .. Len(C) - 1, C[j].free, C[j + 1].free
      PROVE  FALSE
  <2>0. j \in DOMAIN C /\ j + 1 \in DOMAIN C /\ (j + 1) - 1 = j
    BY <1>0
  <2>1. CASE j < i
    <3>1. j + 1 # i
      BY <1>1, <1>2, <1>5
    <3>2. j + 1 < i
      BY <1>0, <2>1, <3>1
    <3>3. C[j] = R[j] /\ C[j + 1] = R[j + 1] /\ j \in 1 .. n - 1
      BY <1>0, <2>1, <3>2 DEF Cut
    <3> QED
      BY <1>5, <3>3 DEF Merged
  <2>2. CASE j = i
    BY <1>1, <1>2, <1>5, <2>2
  <2>3. CASE j = i + 1
    <3>1. C[j + 1] = R[j] /\ j \in DOMAIN R
      <4>1. j + 1 > i + 1
        BY <1>0, <2>3
      <4>2. C[j + 1] = R[(j + 1) - 1] /\ (j + 1) - 1 \in DOMAIN R
        BY <2>0, <4>1, <1>b
      <4> QED
        BY <2>0, <4>2
    <3>2. i \in 1 .. n - 1 /\ R[i + 1].free
      BY <1>0, <1>5, <2>3, <3>1
    <3> QED
      BY <3>2 DEF Merged
  <2>4. CASE j > i + 1
    <3>1. C[j + 1] = R[j] /\ j \in DOMAIN R
      <4>1. j + 1 > i + 1
        BY <1>0, <2>4
      <4>2. C[j + 1] = R[(j + 1) - 1] /\ (j + 1) - 1 \in DOMAIN R
        BY <2>0, <4>1, <1>b
      <4> QED
        BY <2>0, <4>2
    <3>2. C[j] = R[j - 1] /\ j - 1 \in DOMAIN R
      BY <2>0, <2>4, <1>b
    <3>3. j - 1 \in 1 .. n - 1 /\ (j - 1) + 1 = j
      BY <1>0, <3>1, <3>2
    <3> QED
      BY <1>5, <3>1, <3>2, <3>3 DEF Merged
  <2> QED
    BY <1>0, <2>1, <2>2, <2>3, <2>4
<1> QED
  BY <1>3, <1>4, <1>5 DEF PrevOK, Merged

\* Cutting a chunk keeps the pool tiled.
LEMMA CutKeepsTiles ==
  ASSUME NEW R \in Seq(Header), Tiles(R), NEW i \in DOMAIN R,
         NEW u, NEW v, NEW C, Cut(R, i, u, v, C), Halves(R[i], u, v)
  PROVE  Tiles(C)
<1> PICK n \in Nat : n = Len(R)
  OBVIOUS
<1>0. DOMAIN C = 1 .. n + 1 /\ DOMAIN R = 1 .. n /\ i \in 1 .. n /\ Len(C) = n + 1
  BY DEF Cut
<1>1. u.lo = R[i].lo /\ v.lo = u.hi /\ v.hi = R[i].hi
  BY DEF Halves
<1>2. C[i] = u /\ C[i + 1] = v
  BY DEF Cut
<1>3. \A j \in 1 .. n - 1 : R[j].hi = R[j + 1].lo
  BY DEF Tiles
<1>4. C[1].lo = PoolStart
  <2>1. CASE i = 1
    BY <1>1, <1>2, <2>1 DEF Tiles
  <2>2. CASE i # 1
    <3>1. C[1] = R[1]
      BY <1>0, <2>2 DEF Cut
    <3> QED
      BY <3>1 DEF Tiles
  <2> QED
    BY <2>1, <2>2
<1>5. C[n + 1].hi = PoolEnd
  <2>1. CASE i = n
    BY <1>1, <1>2, <2>1 DEF Tiles
  <2>2. CASE i # n
    <3>1. n \in i + 1 .. Len(R)
      BY <1>0, <2>2
    <3>2. C[n + 1] = R[n]
      BY <3>1 DEF Cut
    <3> QED
      BY <3>2 DEF Tiles
  <2> QED
    BY <2>1, <2>2
<1>6. ASSUME NEW j \in 1 .. n
      PROVE  C[j].hi = C[j + 1].lo
  <2>0. j \in DOMAIN C /\ j + 1 \in DOMAIN C /\ (j + 1) - 1 = j
    BY <1>0
  <2>1. CASE j < i
    <3>1. C[j] = R[j] /\ j \in 1 .. n - 1
      BY <1>0, <2>1 DEF Cut
    <3>2. C[j + 1].lo = R[j + 1].lo
      <4>1. CASE j + 1 = i
        BY <1>1, <1>2, <4>1
      <4>2. CASE j + 1 # i
        <5>1. j + 1 \in 1 .. i - 1
          BY <1>0, <2>1, <4>2
        <5> QED
          BY <5>1 DEF Cut
      <4> QED
        BY <4>1, <4>2
    <3> QED
      BY <1>3, <3>1, <3>2
  <2>2. CASE j = i
    BY <1>1, <1>2, <2>2
  <2>3. CASE j > i
    <3>1. C[j + 1] = R[j]
      <4>1. j \in i + 1 .. Len(R)
        BY <1>0, <2>3
      <4> QED
        BY <4>1 DEF Cut
    <3>2. j - 1 \in 1 .. n - 1 /\ (j - 1) + 1 = j
      BY <1>0, <2>3
    <3>3. C[j].hi = R[j - 1].hi
      <4>1. CASE j = i + 1
        <5>1. j - 1 = i
          BY <1>0, <4>1
        <5> QED
          BY <1>1, <1>2, <4>1, <5>1
      <4>2. CASE j # i + 1
        <5>1. j - 1 \in i + 1 .. Len(R)
          BY <1>0, <2>3, <4>2
        <5>2. C[(j - 1) + 1] = R[j - 1]
          BY <5>1 DEF Cut
        <5> QED
          BY <3>2, <5>2
      <4> QED
        BY <4>1, <4>2
    <3> QED
      BY <1>3, <3>1, <3>2, <3>3
  <2> QED
    BY <1>0, <2>1, <2>2, <2>3
<1> QED
  BY <1>0, <1>4, <1>5, <1>6 DEF Tiles

\* The chunks in use, one by one.
LEMMA InUsed ==
  ASSUME NEW L, NEW x
  PROVE  x \in Used(L) <=>
           \E k \in DOMAIN L : ~L[k].free /\ L[k].hi # Null /\ x = Unlinked(L[k])
BY DEF Used

\* Cutting a free chunk brings one chunk into use.
LEMMA CutUses ==
  ASSUME NEW R \in Seq(Header), NEW i \in DOMAIN R, R[i].free,
         NEW u, NEW v, NEW C, Cut(R, i, u, v, C), Halves(R[i], u, v)
  PROVE  \A x : x \in Used(C) <=> x \in Used(R) \/ x = Unlinked(u)
<1> PICK n \in Nat : n = Len(R)
  OBVIOUS
<1>0. DOMAIN C = 1 .. n + 1 /\ DOMAIN R = 1 .. n /\ i \in 1 .. n
  BY DEF Cut
<1>1. C[i] = u /\ C[i + 1] = v /\ i \in DOMAIN C
  BY <1>0 DEF Cut
<1>2. ~u.free /\ v.free /\ u.hi # Null
  <2>1. u \in Header /\ Proper(u) /\ ~u.free /\ v.free
    BY DEF Halves
  <2> QED
    BY <2>1, HeaderIs, Numbers DEF Proper
<1>3. ASSUME NEW x, x \in Used(C)
      PROVE  x \in Used(R) \/ x = Unlinked(u)
  <2>1. PICK k \in DOMAIN C : ~C[k].free /\ C[k].hi # Null /\ x = Unlinked(C[k])
    BY <1>3, InUsed
  <2>2. Place(R, i, u, v, C, k)
    BY CutPlaces
  <2>3. C[k] # v
    BY <1>2, <2>1
  <2>4. C[k] = u \/ \E j \in DOMAIN R : C[k] = R[j]
    BY <2>2, <2>3 DEF Place
  <2> QED
    BY <2>1, <2>4, InUsed
<1>4. ASSUME NEW x, x \in Used(R)
      PROVE  x \in Used(C)
  <2>1. PICK j \in DOMAIN R : ~R[j].free /\ R[j].hi # Null /\ x = Unlinked(R[j])
    BY <1>4, InUsed
  <2>2. j # i
    BY <2>1
  <2>3. CASE j < i
    <3>1. C[j] = R[j] /\ j \in DOMAIN C
      BY <1>0, <2>3 DEF Cut
    <3> QED
      BY <2>1, <3>1, InUsed
  <2>4. CASE j > i
    <3>1. C[j + 1] = R[j] /\ j + 1 \in DOMAIN C
      BY <1>0, <2>4 DEF Cut
    <3> QED
      BY <2>1, <3>1, InUsed
  <2> QED
    BY <1>0, <2>2, <2>3, <2>4
<1>5. Unlinked(u) \in Used(C)
  BY <1>1, <1>2, InUsed
<1> QED
  BY <1>3, <1>4, <1>5

\* What the code splices in place of a chunk is a cut.
LEMMA CutIs ==
  ASSUME NEW s \in Seq(Header), NEW i \in DOMAIN s, NEW x \in Header, NEW y \in Header, NEW r
  PROVE  r = SubSeq(s, 1, i - 1) \o <<x, y>> \o SubSeq(s, i + 1, Len(s)) => Cut(s, i, x, y, r)
<1>h. SUFFICES ASSUME r = SubSeq(s, 1, i - 1) \o <<x, y>> \o SubSeq(s, i + 1, Len(s))
      PROVE  Cut(s, i, x, y, r)
  OBVIOUS
<1> PICK n \in Nat : n = Len(s)
  OBVIOUS
<1>a. PICK a : a = SubSeq(s, 1, i - 1)
  OBVIOUS
<1>b. PICK b : b = SubSeq(s, i + 1, n)
  OBVIOUS
<1>c. PICK c : c = a \o <<x, y>>
  OBVIOUS
<1>1. i \in 1 .. n /\ i \in Nat /\ i - 1 \in 0 .. n
  OBVIOUS
<1>2. a \in Seq(Header) /\ Len(a) = i - 1 /\ \A j \in 1 .. i - 1 : a[j] = s[j]
  BY <1>1, <1>a, FirstOnes
<1>3. b \in Seq(Header) /\ Len(b) = n - i /\ \A j \in 1 .. n - i : b[j] = s[i + j]
  BY <1>b, LastOnes
<1>4. <<x, y>> \in Seq(Header) /\ Len(<<x, y>>) = 2
  OBVIOUS
<1>c1. /\ c \in Seq(Header) /\ Len(c) = Len(a) + Len(<<x, y>>)
       /\ \A j \in 1 .. Len(a) : c[j] = a[j]
       /\ \A j \in 1 .. Len(<<x, y>>) : c[Len(a) + j] = <<x, y>>[j]
  BY <1>2, <1>4, <1>c, Joined
<1>5. c \in Seq(Header) /\ Len(c) = i + 1
  BY <1>1, <1>2, <1>4, <1>c1
<1>6. c[i] = x /\ c[i + 1] = y
  <2>1. Len(a) + 1 = i /\ Len(a) + 2 = i + 1 /\ 1 \in 1 .. 2 /\ 2 \in 1 .. 2
    BY <1>1, <1>2
  <2>2. c[Len(a) + 1] = <<x, y>>[1] /\ c[Len(a) + 2] = <<x, y>>[2]
    BY <1>c1, <1>4, <2>1
  <2> QED
    BY <2>1, <2>2
<1>7. \A j \in 1 .. i - 1 : c[j] = s[j]
  <2>1. \A j \in 1 .. i - 1 : c[j] = a[j]
    BY <1>2, <1>c1
  <2> QED
    BY <1>2, <2>1
<1>8. r = c \o b
  BY <1>a, <1>b, <1>c, <1>h
<1>9. /\ r \in Seq(Header) /\ Len(r) = Len(c) + Len(b) /\ DOMAIN r = 1 .. Len(c) + Len(b)
      /\ \A j \in 1 .. Len(c) : r[j] = c[j]
      /\ \A j \in 1 .. Len(b) : r[Len(c) + j] = b[j]
  <2>1. c \in Seq(Header) /\ b \in Seq(Header)
    BY <1>3, <1>5
  <2>2. r = c \o b
    BY <1>8
  <2> QED
    BY <2>1, <2>2, Joined
<1>10. Len(c) + Len(b) = n + 1
  <2>1. Len(c) = i + 1 /\ Len(b) = n - i
    BY <1>3, <1>5
  <2>2. i \in Int /\ n \in Int
    BY <1>1
  <2>3. \A e, m \in Int : (e + 1) + (m - e) = m + 1
    OBVIOUS
  <2> QED
    BY <2>1, <2>2, <2>3
<1>11. ASSUME NEW j \in i + 1 .. n
       PROVE  r[j + 1] = s[j]
  <2>0. i \in Int /\ j \in Int /\ i + 1 <= j /\ j <= n
    BY <1>1
  <2>1. j - i \in 1 .. n - i /\ i + (j - i) = j /\ (i + 1) + (j - i) = j + 1
    BY <2>0
  <2>2. r[(i + 1) + (j - i)] = b[j - i]
    BY <1>3, <1>5, <1>9, <2>1
  <2>3. b[j - i] = s[j]
    BY <1>3, <2>1
  <2> QED
    BY <2>1, <2>2, <2>3
<1>12. ASSUME NEW j \in 1 .. i - 1
       PROVE  r[j] = s[j]
  <2>1. j \in 1 .. Len(c)
    BY <1>1, <1>5
  <2> QED
    BY <1>7, <1>9, <2>1
<1>13. r[i] = x /\ r[i + 1] = y
  <2>1. i \in 1 .. Len(c) /\ i + 1 \in 1 .. Len(c)
    BY <1>1, <1>5
  <2> QED
    BY <1>6, <1>9, <2>1
<1>14. r \in Seq(Header) /\ Len(r) = n + 1 /\ DOMAIN r = 1 .. n + 1
  BY <1>9, <1>10
<1> QED
  BY <1>11, <1>12, <1>13, <1>14 DEF Cut

\* A split keeps the list sound.
LEMMA SplitKeeps ==
  ASSUME NEW R, NEW w \in BOOLEAN, ListOK(R, w), NEW size \in Sizes, NEW align \in Aligns,
         NEW i \in DOMAIN R, Room(R[i], size, align),
         CanSplit(R[i], size, align), SplitAssertion(R[i], size, align),
         NEW C, C = Split(R, i, size, align), NEW u, u = InUse(R[i], size, align)
  PROVE  /\ ListOK(C, w) /\ (w => C[Len(C)] = R[Len(R)])
         /\ \A x : x \in Used(C) <=> x \in Used(R) \/ x = Unlinked(u)
         /\ i \in DOMAIN C /\ C[i] = u
         /\ \A j \in DOMAIN R : j # i => \E k \in DOMAIN C : C[k] = R[j]
<1> PICK h : h = R[i]
  OBVIOUS
<1> PICK v : v = FreeHeader(DataEnd(h, size, align), h.hi, h.at)
  OBVIOUS
<1>0. R \in Seq(Header) /\ h.free /\ Proper(h)
  BY DEF ListOK, LooseOK, ChunksOK, Room
<1>1. Halves(h, u, v)
  <2>1. align # 0
    BY Numbers
  <2> QED
    BY <2>1, HalvesAre DEF Halves
<1>2. Cut(R, i, u, v, C)
  <2>1. u \in Header /\ v \in Header
    BY <1>1 DEF Halves
  <2>2. C = SubSeq(R, 1, i - 1) \o <<u, v>> \o SubSeq(R, i + 1, Len(R))
    BY DEF Split
  <2> QED
    BY <1>0, <2>1, <2>2, CutIs
<1>3. ChunksOK(C, w) /\ (w => C[Len(C)] = R[Len(R)])
  BY <1>0, <1>1, <1>2, CutKeepsChunks DEF ListOK, LooseOK
<1>4. Apart(C)
  BY <1>0, <1>1, <1>2, CutKeepsApart DEF ListOK, LooseOK
<1>5. PrevOK(C) /\ Merged(C)
  BY <1>0, <1>1, <1>2, CutKeepsLinks DEF ListOK, LooseOK
<1>6. ~w => Tiles(C)
  BY <1>0, <1>1, <1>2, CutKeepsTiles DEF ListOK, LooseOK
<1>7. \A x : x \in Used(C) <=> x \in Used(R) \/ x = Unlinked(u)
  BY <1>0, <1>1, <1>2, CutUses
<1>8. i \in DOMAIN C /\ C[i] = u
  BY <1>0, <1>2 DEF Cut
<1>9. ASSUME NEW j \in DOMAIN R, j # i
      PROVE  \E k \in DOMAIN C : C[k] = R[j]
  <2>1. DOMAIN R = 1 .. Len(R) /\ Len(R) \in Nat /\ DOMAIN C = 1 .. Len(R) + 1
    BY <1>0, <1>2 DEF Cut
  <2>2. CASE j < i
    BY <1>2, <2>1, <2>2 DEF Cut
  <2>3. CASE j > i
    <3>1. j + 1 \in DOMAIN C /\ C[j + 1] = R[j]
      BY <1>2, <2>1, <2>3 DEF Cut
    <3> QED
      BY <3>1
  <2> QED
    BY <1>9, <2>1, <2>2, <2>3
<1> QED
  BY <1>3, <1>4, <1>5, <1>6, <1>7, <1>8, <1>9 DEF ListOK, LooseOK

\* A chunk that is handed out as a whole ends a sound list.
LEMMA TakeWholeKeeps ==
  ASSUME NEW R, NEW w \in BOOLEAN, ListOK(R, w), NEW align \in Aligns,
         NEW i \in DOMAIN R, Proper(R[i]), NEW W, W = TakeWhole(R, i, align)
  PROVE  /\ ListOK(W, TRUE) /\ W[Len(W)].at = R[i].at
         /\ Used(W) = UsedTo(R, i - 1)
<1>0. R \in Seq(Header) /\ ChunksOK(R, w) /\ Apart(R) /\ PrevOK(R) /\ Merged(R)
  BY DEF ListOK, LooseOK, ChunksOK
<1> PICK n \in Nat : n = Len(R)
  BY <1>0
<1>1. DOMAIN R = 1 .. n /\ i \in 1 .. n
  BY <1>0
<1>h. PICK h \in Header : h = R[i]
  BY <1>0
<1>d. PICK d \in Nat : d = AlignUp(h.at + HeaderSize, align) /\ h.at + HeaderSize <= d
  <2>1. h.at + HeaderSize \in Nat /\ align \in Nat /\ align > 0
    BY HeaderIs, Numbers
  <2> QED
    BY <2>1, AlignUpIs
<1>x. PICK x : x = [at |-> h.at, lo |-> 0, hi |-> 0, prev |-> 0, data |-> d, align |-> align,
                    free |-> FALSE]
  OBVIOUS
<1>2. /\ x.at = h.at /\ x.lo = 0 /\ x.hi = 0 /\ x.prev = 0 /\ x.data = d /\ x.align = align
      /\ x.free = FALSE
  BY <1>x
<1>3. x \in Header
  <2>1. h.at \in PoolStart .. PoolEnd /\ align \in Aligns \cup {0}
    BY DEF Header
  <2>2. \A a, b, c : a \in PoolStart .. PoolEnd /\ b \in Nat /\ c \in Aligns \cup {0} =>
          [at |-> a, lo |-> 0, hi |-> 0, prev |-> 0, data |-> b, align |-> c, free |-> FALSE]
            \in Header
    BY Numbers DEF Header
  <2> QED
    BY <1>x, <2>1, <2>2
<1>4. W = Append(SubSeq(R, 1, i - 1), x)
  BY <1>x, <1>h, <1>d DEF TakeWhole, Null
<1>5. /\ W \in Seq(Header) /\ Len(W) = i /\ DOMAIN W = 1 .. i
      /\ \A j \in 1 .. i - 1 : W[j] = R[j]
      /\ W[i] = x
  BY <1>0, <1>1, <1>3, <1>4, LastAnew
<1>6. ASSUME NEW j \in 1 .. i - 1
      PROVE  (R[j].free <=> R[j].align = 0) /\ Proper(R[j]) /\ R[j].hi <= h.at
  <2>1. j \in DOMAIN R /\ j < i /\ j # Len(R)
    BY <1>1
  <2> QED
    BY <1>0, <1>h, <2>1 DEF ChunksOK, Apart
<1>7. ~Proper(x)
  BY <1>2, Numbers DEF Proper
<1>8. Anew(x)
  <2>1. d > 0 /\ h.at + HeaderSize <= d
    BY <1>d, HeaderIs, Numbers
  <2> QED
    BY <1>2, <2>1 DEF Anew, Null
<1>9. ListOK(W, TRUE)
  <2>1. SoundUpTo(R, i)
    BY <1>6 DEF SoundUpTo
  <2>2. Begins(R, W, i, x)
    BY <1>5 DEF Begins
  <2>3. Follows(R, i, x, TRUE)
    <3>1. x.align # 0
      BY <1>2, Numbers
    <3> QED
      BY <1>2, <1>6, <1>7, <1>8, <3>1 DEF Follows, Null
  <2>4. i \in 1 .. Len(R) + 1
    BY <1>1
  <2>5. ChunksOK(W, TRUE) /\ Apart(W) /\ PrevOK(W) /\ Merged(W)
    BY <1>0, <2>1, <2>2, <2>3, <2>4, SoundBehind
  <2> QED
    BY <2>5 DEF ListOK, LooseOK
<1>10. Used(W) = UsedTo(R, i - 1)
  <2>1. {j \in 1 .. i : ~W[j].free /\ W[j].hi # Null}
          = {j \in 1 .. i - 1 : ~R[j].free /\ R[j].hi # Null}
    BY <1>1, <1>2, <1>5 DEF Null
  <2>2. \A j \in 1 .. i - 1 : W[j] = R[j]
    BY <1>5
  <2> QED
    BY <1>5, <2>1, <2>2 DEF Used, UsedTo
<1> QED
  BY <1>2, <1>5, <1>9, <1>10, <1>h

(***************************************************************************)
(* What clients have                                                       *)
(***************************************************************************)

\* Where a chunk in use is.
LEMMA UsedPlace ==
  ASSUME NEW R, NEW w \in BOOLEAN, ChunksOK(R, w), NEW u, u \in Used(R)
  PROVE  \E j \in DOMAIN R :
           /\ R[j] \in Header /\ ~R[j].free /\ Proper(R[j]) /\ u = Unlinked(R[j])
           /\ u.data = R[j].data /\ u.hi = R[j].hi /\ u.align = R[j].align
           /\ R[j].at + HeaderSize <= u.data /\ u.data < u.hi
<1>0. R \in Seq(Header)
  BY DEF ChunksOK
<1>1. PICK j \in DOMAIN R : ~R[j].free /\ R[j].hi # Null /\ u = Unlinked(R[j])
  BY InUsed
<1> PICK h \in Header : h = R[j]
  BY <1>0
<1>2. Proper(h)
  BY <1>1 DEF ChunksOK, Anew
<1>3. u.data = h.data /\ u.hi = h.hi /\ u.align = h.align
  BY <1>1, UnlinkedIs
<1>4. h.at + HeaderSize <= h.data /\ h.data < h.hi
  BY <1>2 DEF Proper
<1> QED
  BY <1>1, <1>2, <1>3, <1>4

\* A client's block in the chunk h, or behind the header of the last one.
Holds(h, f, q) ==
  /\ h \in Header /\ ~h.free /\ Proper(h) /\ h.data = q
  /\ h.at + HeaderSize <= q /\ q + f[q].size <= h.hi

\* A client's block lies in a chunk in use or behind the header of the one handed out as a
\* whole.
LEMMA BlockPlace ==
  ASSUME NEW R, NEW w \in BOOLEAN, ChunksOK(R, w), NEW f, LiveOK(R, w, f), NEW q \in DOMAIN f
  PROVE  /\ q \in Nat /\ f[q].size \in Nat /\ f[q].size > 0
         /\ \/ \E j \in DOMAIN R : Holds(R[j], f, q)
            \/ w /\ R[Len(R)].at + HeaderSize <= q
<1>1. q \in Nat /\ f[q] \in [size : Sizes, align : Aligns]
  BY DEF LiveOK, Blocks
<1>2. f[q].size \in Nat /\ f[q].size > 0
  BY <1>1, Numbers
<1>3. ASSUME NEW u \in Used(R), u.data = q
      PROVE  \E j \in DOMAIN R : Holds(R[j], f, q)
  <2>1. q + f[q].size <= u.hi
    BY <1>3 DEF LiveOK
  <2>2. PICK j \in DOMAIN R :
           /\ R[j] \in Header /\ ~R[j].free /\ Proper(R[j]) /\ u = Unlinked(R[j])
           /\ u.data = R[j].data /\ u.hi = R[j].hi /\ u.align = R[j].align
           /\ R[j].at + HeaderSize <= u.data /\ u.data < u.hi
    BY UsedPlace
  <2>3. Holds(R[j], f, q)
    BY <1>3, <2>1, <2>2 DEF Holds
  <2> QED
    BY <2>3
<1>4. (\E u \in Used(R) : u.data = q) \/ (w /\ R[Len(R)].at + HeaderSize <= q)
  BY DEF LiveOK
<1> QED
  BY <1>1, <1>2, <1>3, <1>4

\* A proper chunk that is not the client's own is apart from the block.
LEMMA ApartFromOthers ==
  ASSUME NEW R, NEW w \in BOOLEAN, ChunksOK(R, w), Apart(R), NEW f, LiveOK(R, w, f),
         NEW q \in DOMAIN f, NEW i \in DOMAIN R, Proper(R[i]), ~Holds(R[i], f, q)
  PROVE  \/ q + f[q].size <= R[i].lo /\ q + f[q].size <= R[i].at
         \/ R[i].hi <= q
<1>0. R \in Seq(Header) /\ Len(R) \in Nat /\ DOMAIN R = 1 .. Len(R) /\ R # << >>
  BY DEF ChunksOK
<1> PICK h \in Header : h = R[i]
  BY <1>0
<1> PICK s \in Nat : s = f[q].size /\ s > 0 /\ q \in Nat
  BY BlockPlace
<1>1. /\ h.at \in Nat /\ h.lo \in Nat /\ h.hi \in Nat /\ HeaderSize \in Nat
  BY HeaderIs, Numbers
<1>2. ASSUME NEW j \in DOMAIN R, Holds(R[j], f, q)
      PROVE  (q + s <= h.lo /\ q + s <= h.at) \/ h.hi <= q
  <2>1. j # i
    BY <1>2
  <2>2. /\ R[j].at \in Nat /\ R[j].hi \in Nat
    BY <1>0, HeaderIs
  <2>3. R[j].at + HeaderSize <= q /\ q + s <= R[j].hi
    BY <1>2 DEF Holds
  <2>4. CASE j < i
    <3>1. R[j].hi <= h.at /\ R[j].hi <= h.lo
      BY <2>4 DEF Apart
    <3> QED
      BY <1>1, <2>2, <2>3, <3>1
  <2>5. CASE i < j
    <3>1. h.hi <= R[j].at
      BY <2>5 DEF Apart
    <3> QED
      BY <1>1, <2>2, <2>3, <3>1
  <2> QED
    BY <1>0, <2>1, <2>4, <2>5
<1>3. ASSUME w, R[Len(R)].at + HeaderSize <= q
      PROVE  h.hi <= q
  <2>1. i # Len(R)
    <3>1. ~(Anew(h) /\ Proper(h))
      BY HeaderIs DEF Anew, Proper, Null
    <3> QED
      BY <1>3, <3>1 DEF ChunksOK
  <2>2. i < Len(R) /\ Len(R) \in DOMAIN R
    BY <1>0, <2>1
  <2>3. h.hi <= R[Len(R)].at
    BY <2>2 DEF Apart
  <2>4. R[Len(R)].at \in Nat
    BY <1>0, <2>2, HeaderIs
  <2> QED
    BY <1>1, <1>3, <2>3, <2>4
<1> QED
  BY <1>2, <1>3, BlockPlace

\* The chunk found for a pointer is in use, and the pointer is its data or lies in it.
LEMMA MatchesIs ==
  ASSUME NEW h, NEW p, Matches(h, p)
  PROVE  ~h.free /\ (h.data = p \/ (h.lo <= p /\ p < h.hi))
BY DEF Matches, InChunk

\* A chunk that matches a client's pointer is the client's: it has the pointer for data.
LEMMA FoundIs ==
  ASSUME NEW R, NEW w \in BOOLEAN, ChunksOK(R, w), Apart(R), NEW f, LiveOK(R, w, f),
         NEW p \in DOMAIN f, NEW i \in DOMAIN R, Matches(R[i], p)
  PROVE  ~R[i].free /\ R[i].data = p
<1>0. R \in Seq(Header)
  BY DEF ChunksOK
<1> PICK h \in Header : h = R[i]
  BY <1>0
<1>1. ~h.free /\ (h.data = p \/ (h.lo <= p /\ p < h.hi))
  <2>1. Matches(h, p)
    OBVIOUS
  <2> QED
    BY <2>1, MatchesIs
<1>2. SUFFICES ASSUME h.lo <= p, p < h.hi PROVE h.data = p
  BY <1>1
<1>3. p \in Nat /\ f[p].size \in Nat /\ f[p].size > 0
  BY BlockPlace
<1>4. h.hi \in Nat /\ h.lo \in Nat
  BY HeaderIs
<1>5. Proper(h)
  <2>1. h.hi # 0
    BY <1>2, <1>3, <1>4
  <2> QED
    BY <2>1 DEF ChunksOK, Anew, Null
<1>6. ~(p + f[p].size <= h.lo) /\ ~(h.hi <= p)
  BY <1>2, <1>3, <1>4
<1>7. Holds(h, f, p)
  BY <1>5, <1>6, ApartFromOthers
<1> QED
  BY <1>7 DEF Holds

Minus(f, p) == [q \in DOMAIN f \ {p} |-> f[q]]

\* The header of a chunk that is freed.
Released(h) == [h EXCEPT !.free = TRUE, !.align = 0, !.data = HeaderAt(h.lo) + HeaderSize]

\* Releasing a chunk changes whether it is free and its alignment.
LEMMA ReleasedIs ==
  ASSUME NEW h \in Header, Proper(h) \/ Anew(h), NEW g, g = Released(h)
  PROVE  /\ g \in Header /\ g.at = h.at /\ g.lo = h.lo /\ g.hi = h.hi /\ g.prev = h.prev
         /\ g.free = TRUE /\ g.align = 0
         /\ (Proper(h) <=> Proper(g)) /\ (Anew(h) => Anew(g))
<1> PICK d \in Nat : d = HeaderAt(h.lo) + HeaderSize /\ d > 0
  <2>1. h.lo \in Nat
    BY HeaderIs
  <2> QED
    BY <2>1, HeaderAtIs, Numbers
<1>1. /\ g.at = h.at /\ g.lo = h.lo /\ g.hi = h.hi /\ g.prev = h.prev
      /\ g.free = TRUE /\ g.align = 0 /\ g.data = d
  BY DEF Header, Released
<1>2. g \in Header
  BY DEF Header, Released
<1>3. /\ h.at \in Nat /\ h.hi \in Nat /\ h.data \in Nat /\ HeaderSize \in Nat
  BY HeaderIs, Numbers
<1>4. ASSUME Proper(h) PROVE Proper(g)
  <2>1. /\ PoolStart <= h.lo /\ h.at = HeaderAt(h.lo)
        /\ h.at + HeaderSize <= h.data /\ h.data < h.hi
    BY <1>4 DEF Proper
  <2>2. d = h.at + HeaderSize /\ d < h.hi
    BY <1>3, <2>1
  <2>3. h.at + HeaderSize <= d
    BY <1>3, <2>2
  <2> QED
    BY <1>1, <2>1, <2>2, <2>3 DEF Proper
<1>5. ASSUME Anew(h) PROVE Anew(g)
  BY <1>1, <1>5 DEF Anew
<1>6. ASSUME Proper(g) PROVE Proper(h)
  <2>1. d < h.hi
    BY <1>1, <1>6 DEF Proper
  <2>2. ~Anew(h)
    BY <1>3, <2>1 DEF Anew, Null
  <2> QED
    BY <2>2
<1> QED
  BY <1>1, <1>2, <1>4, <1>5, <1>6

\* A chunk is freed: what is left is sound, but for free neighbours.
LEMMA ReleaseKeeps ==
  ASSUME NEW R, NEW w \in BOOLEAN, LooseOK(R, w), NEW i \in DOMAIN R,
         NEW Q, Q = Release(R, i)
  PROVE  /\ LooseOK(Q, w) /\ Q[Len(Q)].at = R[Len(R)].at
         /\ DOMAIN Q = DOMAIN R /\ Q[i].free
         /\ \A k \in DOMAIN R : k # i => Q[k] = R[k]
<1>0. /\ R \in Seq(Header) /\ Len(R) \in Nat /\ DOMAIN R = 1 .. Len(R) /\ R # << >>
      /\ ChunksOK(R, w) /\ Apart(R) /\ PrevOK(R)
  BY DEF LooseOK, ChunksOK
<1>h. PICK h \in Header : h = R[i]
  BY <1>0
<1>g. PICK g : g = Released(h)
  OBVIOUS
<1>1. Proper(h) \/ Anew(h)
  BY <1>0, <1>h DEF ChunksOK
<1>2. /\ g \in Header /\ g.at = h.at /\ g.lo = h.lo /\ g.hi = h.hi /\ g.prev = h.prev
      /\ g.free = TRUE /\ g.align = 0
      /\ (Proper(h) <=> Proper(g)) /\ (Anew(h) => Anew(g))
  BY <1>1, <1>g, ReleasedIs
<1>3. Q = [R EXCEPT ![i] = g]
  <2>1. \A x : [R EXCEPT ![i].free = TRUE, ![i].align = 0, ![i].data = x]
               = [R EXCEPT ![i] = [R[i] EXCEPT !.free = TRUE, !.align = 0, !.data = x]]
    BY <1>0
  <2> QED
    BY <2>1, <1>g, <1>h DEF Release, Released
<1>4. /\ Q \in Seq(Header) /\ Len(Q) = Len(R) /\ DOMAIN Q = DOMAIN R /\ Q # << >>
      /\ Q[i] = g /\ \A k \in DOMAIN R : k # i => Q[k] = R[k]
  <2>1. Q \in Seq(Header) /\ Len(Q) = Len(R) /\ DOMAIN Q = DOMAIN R
    BY <1>0, <1>2, <1>3
  <2>2. Q[i] = g /\ \A k \in DOMAIN R : k # i => Q[k] = R[k]
    BY <1>0, <1>3
  <2> QED
    BY <1>0, <2>1, <2>2
<1>5. ASSUME NEW k \in DOMAIN R
      PROVE  /\ Q[k].at = R[k].at /\ Q[k].lo = R[k].lo /\ Q[k].hi = R[k].hi
             /\ Q[k].prev = R[k].prev /\ (Proper(R[k]) <=> Proper(Q[k]))
             /\ (Anew(R[k]) => Anew(Q[k]))
  BY <1>2, <1>4, <1>h
<1>6. ASSUME NEW k \in DOMAIN R
      PROVE  (Q[k].free <=> Q[k].align = 0) /\ (R[k].free => Q[k].free)
  BY <1>0, <1>2, <1>4 DEF ChunksOK
<1>7. ChunksOK(Q, w)
  <2>1. \A k \in DOMAIN Q : Q[k].free <=> Q[k].align = 0
    BY <1>4, <1>6
  <2>2. \A k \in DOMAIN Q : ~(w /\ k = Len(Q)) => Proper(Q[k])
    BY <1>0, <1>4, <1>5 DEF ChunksOK
  <2>3. Len(R) \in DOMAIN R
    BY <1>0
  <2>4. w => Anew(Q[Len(Q)])
    BY <1>0, <1>4, <1>5, <2>3 DEF ChunksOK
  <2> QED
    BY <1>4, <2>1, <2>2, <2>4 DEF ChunksOK
<1>8. Apart(Q)
  <2> SUFFICES ASSUME NEW j \in DOMAIN R, NEW k \in DOMAIN R, j < k
               PROVE  Q[j].hi <= Q[k].at /\ (Proper(Q[k]) => Q[j].hi <= Q[k].lo)
    BY <1>4 DEF Apart
  <2>1. R[j].hi <= R[k].at /\ (Proper(R[k]) => R[j].hi <= R[k].lo)
    BY <1>0 DEF Apart
  <2> QED
    BY <1>5, <2>1
<1>9. PrevOK(Q)
  <2>1. 1 \in DOMAIN R
    BY <1>0
  <2>2. Q[1].prev = Null
    BY <1>0, <1>5, <2>1 DEF PrevOK
  <2>3. ASSUME NEW k \in DOMAIN Q, k > 1, Proper(Q[k])
        PROVE  Q[k].prev = Q[k - 1].at \/ Q[k - 1].free
    <3>1. k \in DOMAIN R /\ k - 1 \in DOMAIN R
      BY <1>0, <1>4, <2>3
    <3>2. R[k].prev = R[k - 1].at \/ R[k - 1].free
      BY <1>0, <1>5, <2>3, <3>1 DEF PrevOK
    <3> QED
      BY <1>5, <1>6, <3>1, <3>2
  <2> QED
    BY <2>2, <2>3 DEF PrevOK
<1>10. ~w => Tiles(Q)
  <2>1. SUFFICES ASSUME ~w PROVE Tiles(Q)
    OBVIOUS
  <2>2. Tiles(R)
    BY <2>1 DEF LooseOK
  <2>3. 1 \in DOMAIN R /\ Len(R) \in DOMAIN R
    BY <1>0
  <2>4. \A k \in 1 .. Len(R) - 1 : k \in DOMAIN R /\ k + 1 \in DOMAIN R
    BY <1>0
  <2> QED
    BY <1>4, <1>5, <2>2, <2>3, <2>4 DEF Tiles
<1>11. Q[Len(Q)].at = R[Len(R)].at
  <2>1. Len(R) \in DOMAIN R
    BY <1>0
  <2> QED
    BY <1>4, <1>5, <2>1
<1> QED
  BY <1>2, <1>4, <1>7, <1>8, <1>9, <1>10, <1>11 DEF LooseOK

\* The client that frees a chunk gives up its block; the others have theirs.
LEMMA ReleaseKeepsOthers ==
  ASSUME NEW R, NEW w \in BOOLEAN, ListOK(R, w), NEW f, LiveOK(R, w, f),
         NEW p \in DOMAIN f, NEW i \in DOMAIN R, ~R[i].free, R[i].data = p,
         NEW Q, Q = Release(R, i)
  PROVE  LiveOK(Q, w, Minus(f, p))
<1>0. /\ R \in Seq(Header) /\ Len(R) \in Nat /\ DOMAIN R = 1 .. Len(R)
      /\ ChunksOK(R, w) /\ Apart(R)
  BY DEF ListOK, LooseOK, ChunksOK
<1>1. /\ DOMAIN Q = DOMAIN R /\ Q[i].free /\ Q[Len(Q)].at = R[Len(R)].at
      /\ \A k \in DOMAIN R : k # i => Q[k] = R[k]
  BY ReleaseKeeps DEF ListOK
<1>2. ASSUME NEW u \in Used(Q)
      PROVE  u \in Used(R) /\ u.data # p
  <2>1. PICK k \in DOMAIN R : ~Q[k].free /\ Q[k].hi # Null /\ u = Unlinked(Q[k])
    BY <1>1, InUsed
  <2>2. k # i /\ Q[k] = R[k]
    BY <1>1, <2>1
  <2>3. u \in Used(R)
    BY <2>1, <2>2, InUsed
  <2> PICK g \in Header : g = R[k]
    BY <1>0
  <2> PICK h \in Header : h = R[i]
    BY <1>0
  <2>4. Proper(g)
    BY <1>0, <2>1, <2>2 DEF ChunksOK, Anew
  <2>5. /\ g.at \in Nat /\ g.hi \in Nat /\ g.data \in Nat /\ HeaderSize \in Nat
        /\ h.at \in Nat /\ h.hi \in Nat /\ h.data \in Nat
    BY HeaderIs, Numbers
  <2>6. g.at + HeaderSize <= g.data /\ g.data < g.hi
    BY <2>4 DEF Proper
  <2>7. h.at + HeaderSize <= h.data /\ (i < Len(R) => h.data < h.hi)
    BY <1>0 DEF ChunksOK, Proper, Anew
  <2>8. g.data # h.data
    <3>1. CASE k < i
      <4>1. g.hi <= h.at
        BY <1>0, <3>1 DEF Apart
      <4> QED
        BY <2>5, <2>6, <2>7, <4>1
    <3>2. CASE i < k
      <4>1. h.hi <= g.at /\ i < Len(R)
        BY <1>0, <3>2 DEF Apart
      <4> QED
        BY <2>5, <2>6, <2>7, <4>1
    <3> QED
      BY <1>0, <2>2, <3>1, <3>2
  <2>9. u.data = g.data
    BY <2>1, <2>2, UnlinkedIs
  <2> QED
    BY <2>3, <2>8, <2>9
<1>3. ASSUME NEW u \in Used(R), u.data # p
      PROVE  u \in Used(Q)
  <2>1. PICK k \in DOMAIN R : ~R[k].free /\ R[k].hi # Null /\ u = Unlinked(R[k])
    BY InUsed
  <2>2. u.data = R[k].data
    BY <1>0, <2>1, UnlinkedIs
  <2>3. k # i
    BY <1>3, <2>2
  <2> QED
    BY <1>1, <2>1, <2>3, InUsed
<1>f. PICK g : g = Minus(f, p)
  OBVIOUS
<1>4. DOMAIN g = DOMAIN f \ {p} /\ \A q \in DOMAIN g : q \in DOMAIN f /\ q # p /\ g[q] = f[q]
  BY <1>f DEF Minus
<1>5. Blocks(f)
  BY DEF LiveOK
<1>6. Blocks(g)
  BY <1>4, <1>5 DEF Blocks
<1>7. ASSUME NEW u \in Used(Q)
      PROVE  /\ u.data \in DOMAIN g /\ u.data + g[u.data].size <= u.hi
             /\ g[u.data].align = u.align /\ u.data % u.align = 0
  <2>1. u \in Used(R) /\ u.data # p
    BY <1>2
  <2>2. /\ u.data \in DOMAIN f /\ u.data + f[u.data].size <= u.hi
        /\ f[u.data].align = u.align /\ u.data % u.align = 0
    BY <2>1 DEF LiveOK
  <2>3. u.data \in DOMAIN g /\ g[u.data] = f[u.data]
    BY <1>4, <2>1, <2>2
  <2> QED
    BY <2>2, <2>3
<1>8. ASSUME NEW q \in DOMAIN g
      PROVE  (\E u \in Used(Q) : u.data = q) \/ (w /\ Q[Len(Q)].at + HeaderSize <= q)
  <2>1. q \in DOMAIN f /\ q # p
    BY <1>4
  <2>2. (\E u \in Used(R) : u.data = q) \/ (w /\ R[Len(R)].at + HeaderSize <= q)
    BY <2>1 DEF LiveOK
  <2> QED
    BY <1>1, <1>3, <2>1, <2>2
<1>9. LiveOK(Q, w, g)
  BY <1>6, <1>7, <1>8 DEF LiveOK
<1> QED
  BY <1>9, <1>f

\* deallocate, as a whole.
LEMMA DeallocatedIs ==
  ASSUME NEW R, NEW w \in BOOLEAN, ListOK(R, w), NEW f, LiveOK(R, w, f),
         NEW p \in DOMAIN f, NEW M \in Deallocated(R, p)
  PROVE  ListOK(M, w) /\ LiveOK(M, w, Minus(f, p))
<1>1. PICK i \in Found(R, p) : M = MergeFreeChunks(Release(R, i))
  BY DEF Deallocated
<1>2. i \in DOMAIN R /\ Matches(R[i], p)
  BY DEF Found, Passed
<1>3. ~R[i].free /\ R[i].data = p
  BY <1>2, FoundIs DEF ListOK, LooseOK
<1> PICK Q : Q = Release(R, i)
  OBVIOUS
<1>4. LooseOK(Q, w) /\ LiveOK(Q, w, Minus(f, p))
  BY <1>2, <1>3, ReleaseKeeps, ReleaseKeepsOthers DEF ListOK
<1>5. ListOK(M, w) /\ Used(M) = Used(Q) /\ M[Len(M)].at <= Q[Len(Q)].at
  BY <1>1, <1>4, MergeKeeps
<1>6. /\ M[Len(M)].at \in Nat /\ Q[Len(Q)].at \in Nat
  <2>1. \A L, z : ChunksOK(L, z) => L[Len(L)] \in Header
    <3> SUFFICES ASSUME NEW L, NEW z, ChunksOK(L, z) PROVE L[Len(L)] \in Header
      OBVIOUS
    <3>1. L \in Seq(Header) /\ L # << >>
      BY DEF ChunksOK
    <3> QED
      BY <3>1
  <2>2. M[Len(M)] \in Header /\ Q[Len(Q)] \in Header
    BY <1>4, <1>5, <2>1 DEF ListOK, LooseOK
  <2> QED
    BY <2>2, HeaderIs
<1> PICK g : g = Minus(f, p)
  OBVIOUS
<1>7. ASSUME NEW q \in DOMAIN g, Q[Len(Q)].at + HeaderSize <= q
      PROVE  M[Len(M)].at + HeaderSize <= q
  <2>1. q \in Nat /\ HeaderSize \in Nat
    BY <1>4, Numbers DEF LiveOK, Blocks
  <2> QED
    BY <1>5, <1>6, <1>7, <2>1
<1>8. LiveOK(M, w, g)
  BY <1>4, <1>5, <1>7 DEF LiveOK
<1> QED
  BY <1>5, <1>8

\* The room of a free chunk is nobody's.
LEMMA RoomIsFree ==
  ASSUME NEW R, NEW w \in BOOLEAN, ListOK(R, w), NEW f, LiveOK(R, w, f),
         NEW i \in DOMAIN R, R[i].free, Proper(R[i]), NEW q \in DOMAIN f
  PROVE  q + f[q].size <= R[i].at \/ R[i].hi <= q
<1>1. ~Holds(R[i], f, q)
  BY DEF Holds
<1> QED
  BY <1>1, ApartFromOthers DEF ListOK, LooseOK

\* A block in the room of a free chunk is a new one.
LEMMA NewBlock ==
  ASSUME NEW R, NEW w \in BOOLEAN, ListOK(R, w), NEW f, LiveOK(R, w, f),
         NEW i \in DOMAIN R, R[i].free, Proper(R[i]),
         NEW size \in Sizes, NEW align \in Aligns, NEW b \in Nat,
         R[i].data <= b, b + size <= R[i].hi
  PROVE  b \notin DOMAIN f /\ Blocks(With(f, b, size, align))
<1> PICK h \in Header : h = R[i]
  BY DEF ListOK, LooseOK, ChunksOK
<1>1. /\ h.at \in Nat /\ h.hi \in Nat /\ h.data \in Nat /\ h.hi <= PoolEnd /\ PoolStart <= h.at
      /\ size \in Nat /\ size > 0 /\ HeaderSize \in Nat /\ HeaderSize > 0
      /\ PoolStart \in Nat /\ PoolEnd \in Nat
  BY HeaderIs, Numbers
<1>2. h.at + HeaderSize <= h.data
  BY DEF Proper
<1>3. ASSUME NEW q \in DOMAIN f
      PROVE  /\ q \in Nat /\ f[q].size \in Nat /\ f[q].size > 0
             /\ q + f[q].size <= b \/ b + size <= q
  <2>1. q \in Nat /\ f[q].size \in Nat /\ f[q].size > 0
    BY BlockPlace DEF ListOK, LooseOK
  <2>2. q + f[q].size <= h.at \/ h.hi <= q
    BY RoomIsFree
  <2> QED
    BY <1>1, <1>2, <2>1, <2>2
<1>4. b \notin DOMAIN f
  <2> SUFFICES ASSUME b \in DOMAIN f PROVE FALSE
    OBVIOUS
  <2>1. f[b].size \in Nat /\ f[b].size > 0 /\ (b + f[b].size <= b \/ b + size <= b)
    BY <1>3
  <2> QED
    BY <1>1, <2>1
<1>g. PICK g : g = With(f, b, size, align)
  OBVIOUS
<1>5. /\ DOMAIN g = DOMAIN f \cup {b} /\ g[b] = [size |-> size, align |-> align]
      /\ \A q \in DOMAIN f : g[q] = f[q]
  BY <1>4, <1>g DEF With
<1>6. Blocks(f)
  BY DEF LiveOK
<1>7. ASSUME NEW q \in DOMAIN g
      PROVE  /\ q \in Nat /\ g[q] \in [size : Sizes, align : Aligns]
             /\ PoolStart <= q /\ q + g[q].size <= PoolEnd
  <2>1. CASE q = b
    <3>1. g[b].size = size /\ g[b] \in [size : Sizes, align : Aligns]
      BY <1>5
    <3>2. PoolStart <= b /\ b + size <= PoolEnd
      BY <1>1, <1>2
    <3> QED
      BY <2>1, <3>1, <3>2
  <2>2. CASE q # b
    BY <1>5, <1>6, <2>2 DEF Blocks
  <2> QED
    BY <2>1, <2>2
<1>8. ASSUME NEW p \in DOMAIN g, NEW q \in DOMAIN g, p # q
      PROVE  p + g[p].size <= q \/ q + g[q].size <= p
  <2>1. g[b].size = size
    BY <1>5
  <2>2. CASE p = b
    BY <1>3, <1>5, <1>8, <2>1, <2>2
  <2>3. CASE q = b
    BY <1>3, <1>5, <1>8, <2>1, <2>3
  <2>4. CASE p # b /\ q # b
    BY <1>5, <1>6, <1>8, <2>4 DEF Blocks
  <2> QED
    BY <2>2, <2>3, <2>4
<1>9. Blocks(g)
  BY <1>7, <1>8 DEF Blocks
<1> QED
  BY <1>4, <1>9, <1>g

\* A split gives a client its chunk, and leaves the others theirs.
LEMMA SplitGives ==
  ASSUME NEW R, NEW w \in BOOLEAN, ListOK(R, w), NEW f, LiveOK(R, w, f),
         NEW size \in Sizes, NEW align \in Aligns, NEW i \in DOMAIN R, Room(R[i], size, align),
         CanSplit(R[i], size, align), SplitAssertion(R[i], size, align),
         NEW C, C = Split(R, i, size, align), NEW b, b = C[i].data
  PROVE  b \notin DOMAIN f /\ LiveOK(C, w, With(f, b, size, align))
<1>h. PICK h \in Header : h = R[i]
  BY DEF ListOK, LooseOK, ChunksOK
<1>u. PICK u : u = InUse(h, size, align)
  OBVIOUS
<1>1. /\ w => C[Len(C)] = R[Len(R)]
      /\ \A x : x \in Used(C) <=> x \in Used(R) \/ x = Unlinked(u)
      /\ C[i] = u
  BY <1>h, <1>u, SplitKeeps
<1>2. /\ u \in Header /\ Proper(u) /\ ~u.free /\ u.align = align
      /\ u.data = AlignUp(h.data, align) /\ u.hi = DataEnd(h, size, align)
  BY <1>h, <1>u, HalvesAre
<1>3. /\ b \in Nat /\ b + size = u.hi /\ h.data <= b /\ b % align = 0 /\ u.hi <= h.hi
      /\ h.free /\ Proper(h)
  <2>1. b = AlignUp(h.data, align)
    BY <1>1, <1>2
  <2>2. Room(h, size, align)
    BY <1>h
  <2> QED
    BY <1>2, <2>1, <2>2, RoomIs DEF Room
<1>4. b \notin DOMAIN f /\ Blocks(With(f, b, size, align))
  <2>1. b + size <= h.hi
    BY <1>3
  <2> QED
    BY <1>3, <1>h, <2>1, NewBlock
<1>g. PICK g : g = With(f, b, size, align)
  OBVIOUS
<1>5. /\ DOMAIN g = DOMAIN f \cup {b} /\ g[b].size = size /\ g[b].align = align
      /\ \A q \in DOMAIN f : q # b /\ g[q] = f[q]
  <2>1. DOMAIN g = DOMAIN f \cup {b} /\ g[b] = [size |-> size, align |-> align]
    BY <1>g DEF With
  <2>2. \A q \in DOMAIN f : q # b /\ g[q] = f[q]
    BY <1>4, <1>g DEF With
  <2> QED
    BY <2>1, <2>2
<1>6. /\ Unlinked(u).data = b /\ Unlinked(u).hi = u.hi /\ Unlinked(u).align = align
  BY <1>1, <1>2, UnlinkedIs
<1>7. ASSUME NEW x \in Used(C)
      PROVE  /\ x.data \in DOMAIN g /\ x.data + g[x.data].size <= x.hi
             /\ g[x.data].align = x.align /\ x.data % x.align = 0
  <2>1. CASE x \in Used(R)
    <3>1. /\ x.data \in DOMAIN f /\ x.data + f[x.data].size <= x.hi
          /\ f[x.data].align = x.align /\ x.data % x.align = 0
      BY <2>1 DEF LiveOK
    <3> QED
      BY <1>5, <3>1
  <2>2. CASE x = Unlinked(u)
    <3>1. u.hi \in Nat
      BY <1>2, HeaderIs
    <3>2. b + size <= u.hi
      BY <1>3, <3>1
    <3> QED
      BY <1>3, <1>5, <1>6, <2>2, <3>2
  <2> QED
    BY <1>1, <2>1, <2>2
<1>8. ASSUME NEW q \in DOMAIN g
      PROVE  (\E x \in Used(C) : x.data = q) \/ (w /\ C[Len(C)].at + HeaderSize <= q)
  <2>1. CASE q = b
    BY <1>1, <1>6, <2>1
  <2>2. CASE q \in DOMAIN f
    <3>1. (\E x \in Used(R) : x.data = q) \/ (w /\ R[Len(R)].at + HeaderSize <= q)
      BY <2>2 DEF LiveOK
    <3> QED
      BY <1>1, <3>1
  <2> QED
    BY <1>5, <2>1, <2>2
<1>9. LiveOK(C, w, g)
  BY <1>4, <1>7, <1>8, <1>g DEF LiveOK
<1> QED
  BY <1>4, <1>9, <1>g

\* A chunk that is handed out as a whole: the client has what lies behind its header, like
\* those whose chunks are lost.
LEMMA WholeGives ==
  ASSUME NEW R, NEW w \in BOOLEAN, ListOK(R, w), NEW f, LiveOK(R, w, f),
         NEW size \in Sizes, NEW align \in Aligns, NEW i \in DOMAIN R, Room(R[i], size, align),
         NEW W, W = TakeWhole(R, i, align), NEW b, b = R[i].data
  PROVE  b \notin DOMAIN f /\ LiveOK(W, TRUE, f) /\ LiveOK(W, TRUE, With(f, b, size, align))
<1>0. R \in Seq(Header) /\ ChunksOK(R, w) /\ Apart(R)
  BY DEF ListOK, LooseOK, ChunksOK
<1>n. PICK n \in Nat : n = Len(R) /\ DOMAIN R = 1 .. n
  BY <1>0
<1>h. PICK h \in Header : h = R[i]
  BY <1>0
<1>1. Room(h, size, align) /\ h.free /\ Proper(h)
  BY <1>h DEF Room
<1>2. /\ b \in Nat /\ h.at \in Nat /\ HeaderSize \in Nat /\ h.at + HeaderSize = b
      /\ b + size <= h.hi
  <2>1. b = h.data
    BY <1>h
  <2>2. h.data + size <= h.hi /\ h.data = h.at + HeaderSize
    BY <1>1, RoomIs
  <2> QED
    BY <2>1, <2>2, HeaderIs, Numbers
<1>3. W[Len(W)].at = h.at /\ Used(W) = UsedTo(R, i - 1)
  BY <1>1, <1>h, TakeWholeKeeps
<1>4. \A u \in Used(W) : u \in Used(R)
  <2> SUFFICES ASSUME NEW u \in Used(W) PROVE u \in Used(R)
    OBVIOUS
  <2>1. PICK j \in 1 .. i - 1 : ~R[j].free /\ R[j].hi # Null /\ u = Unlinked(R[j])
    BY <1>3 DEF UsedTo
  <2>2. j \in DOMAIN R
    BY <1>n
  <2> QED
    BY <2>1, <2>2, InUsed
<1>5. b \notin DOMAIN f /\ Blocks(With(f, b, size, align))
  <2>1. R[i].data <= b /\ b + size <= R[i].hi
    BY <1>2, <1>h
  <2>2. R[i].free /\ Proper(R[i])
    BY <1>1, <1>h
  <2> QED
    BY <1>2, <2>1, <2>2, NewBlock
<1>6. ASSUME NEW q \in DOMAIN f
      PROVE  (\E u \in Used(W) : u.data = q) \/ W[Len(W)].at + HeaderSize <= q
  <2>0. q \in Nat
    BY DEF LiveOK, Blocks
  <2>1. ASSUME NEW u \in Used(R), u.data = q
        PROVE  (\E x \in Used(W) : x.data = q) \/ W[Len(W)].at + HeaderSize <= q
    <3>1. PICK j \in DOMAIN R :
             /\ R[j] \in Header /\ ~R[j].free /\ Proper(R[j]) /\ u = Unlinked(R[j])
             /\ u.data = R[j].data /\ u.hi = R[j].hi /\ u.align = R[j].align
             /\ R[j].at + HeaderSize <= u.data /\ u.data < u.hi
      BY <1>0, UsedPlace
    <3>2. j # i
      BY <1>1, <1>h, <3>1
    <3>3. CASE j < i
      <4>1. j \in 1 .. i - 1 /\ R[j].hi # Null
        BY <1>n, <3>1, <3>3, HeaderIs DEF Null
      <4>2. u \in UsedTo(R, i - 1)
        BY <3>1, <4>1 DEF UsedTo
      <4> QED
        BY <1>3, <2>1, <4>2
    <3>4. CASE i < j
      <4>1. h.at < R[j].at /\ R[j].at \in Nat
        BY <1>0, <1>h, <3>4, InOrder
      <4>2. R[j].at + HeaderSize <= q
        BY <2>1, <3>1
      <4> QED
        BY <1>2, <1>3, <2>0, <4>1, <4>2
    <3> QED
      BY <1>n, <3>2, <3>3, <3>4
  <2>2. ASSUME w, R[n].at + HeaderSize <= q
        PROVE  W[Len(W)].at + HeaderSize <= q
    <3>1. n \in DOMAIN R /\ (i = n \/ i < n)
      BY <1>n
    <3>2. h.at <= R[n].at /\ R[n].at \in Nat
      <4>1. CASE i = n
        BY <1>2, <1>h, <4>1
      <4>2. CASE i < n
        <5>1. h.at < R[n].at /\ R[n].at \in Nat
          BY <1>0, <1>h, <3>1, <4>2, InOrder
        <5> QED
          BY <1>2, <5>1
      <4> QED
        BY <3>1, <4>1, <4>2
    <3> QED
      BY <1>2, <1>3, <2>0, <2>2, <3>2
  <2>3. (\E u \in Used(R) : u.data = q) \/ (w /\ R[n].at + HeaderSize <= q)
    BY <1>n DEF LiveOK
  <2> QED
    BY <2>1, <2>2, <2>3
<1>7. \A u \in Used(R) : /\ u.data \in DOMAIN f /\ u.data + f[u.data].size <= u.hi
                         /\ f[u.data].align = u.align /\ u.data % u.align = 0
  BY DEF LiveOK
<1>8. LiveOK(W, TRUE, f)
  <2>1. Blocks(f)
    BY DEF LiveOK
  <2> QED
    BY <1>4, <1>6, <1>7, <2>1 DEF LiveOK
<1>g. PICK g : g = With(f, b, size, align)
  OBVIOUS
<1>9. DOMAIN g = DOMAIN f \cup {b} /\ \A q \in DOMAIN f : q # b /\ g[q] = f[q]
  BY <1>5, <1>g DEF With
<1>10. LiveOK(W, TRUE, g)
  <2>1. Blocks(g)
    BY <1>5, <1>g
  <2>2. \A u \in Used(W) : /\ u.data \in DOMAIN g /\ u.data + g[u.data].size <= u.hi
                           /\ g[u.data].align = u.align /\ u.data % u.align = 0
    BY <1>4, <1>7, <1>9
  <2>3. W[Len(W)].at + HeaderSize <= b
    BY <1>2, <1>3
  <2>4. \A q \in DOMAIN g :
          (\E u \in Used(W) : u.data = q) \/ (TRUE /\ W[Len(W)].at + HeaderSize <= q)
    BY <1>6, <1>9, <2>3
  <2> QED
    BY <2>1, <2>2, <2>4 DEF LiveOK
<1> QED
  BY <1>5, <1>8, <1>10, <1>g

\* What allocate comes to: the others keep their blocks, and a split keeps their chunks.
Gives(R, w, f, size, align, a) ==
  /\ a.whole \in BOOLEAN /\ ListOK(a.list, w \/ a.whole) /\ a.ptr \notin DOMAIN f
  /\ LiveOK(a.list, w \/ a.whole, With(f, a.ptr, size, align))
  /\ a.whole => LiveOK(a.list, TRUE, f)
  /\ ~a.whole => \A j \in DOMAIN R : ~R[j].free => \E k \in DOMAIN a.list : a.list[k] = R[j]

\* Whatever allocate does, a client gets a block of its own or none.
LEMMA AllocatedIs ==
  ASSUME NEW R, NEW w \in BOOLEAN, ListOK(R, w), NEW f, LiveOK(R, w, f),
         NEW size \in Sizes, NEW align \in Aligns, AllocateDies(R, size, align) = {},
         NEW a \in Allocated(R, size, align)
  PROVE  Gives(R, w, f, size, align, a)
<1>1. ~(size > pool_size)
  BY DEF Allocated
<1>2. PICK i \in Fitting(R, size, align) :
        a = IF CanSplit(R[i], size, align)
            THEN [list |-> Split(R, i, size, align), ptr |-> Split(R, i, size, align)[i].data,
                  whole |-> FALSE]
            ELSE [list |-> TakeWhole(R, i, align), ptr |-> R[i].data, whole |-> TRUE]
  BY <1>1 DEF Allocated
<1>3. ~AllocateBreaksContract(R, size, align) /\ SplitAssertion(R[i], size, align)
  BY <1>1 DEF AllocateDies
<1>4. i \in Tried(R, size, align) /\ i \in DOMAIN R /\ Fits(R[i], size, align)
  BY DEF Fitting, Tried
<1>5. R[i].free /\ EnoughRoom(R[i], size, align) /\ RoomContract(R[i])
  BY <1>3, <1>4 DEF Fits, AllocateBreaksContract
<1>6. ChunksOK(R, w) /\ R[i] \in Header
  BY <1>4 DEF ListOK, LooseOK, ChunksOK
<1>7. Room(R[i], size, align)
  BY <1>4, <1>5, <1>6, RoomIsProper DEF Room
<1>8. CASE CanSplit(R[i], size, align)
  <2> PICK C : C = Split(R, i, size, align)
    OBVIOUS
  <2> PICK b : b = C[i].data
    OBVIOUS
  <2>1. a.list = C /\ a.ptr = b /\ a.whole = FALSE
    BY <1>2, <1>8
  <2>2. ListOK(C, w) /\ \A j \in DOMAIN R : j # i => \E k \in DOMAIN C : C[k] = R[j]
    BY <1>3, <1>4, <1>7, <1>8, SplitKeeps
  <2>3. b \notin DOMAIN f /\ LiveOK(C, w, With(f, b, size, align))
    BY <1>3, <1>4, <1>7, <1>8, SplitGives
  <2>4. (w \/ FALSE) = w
    OBVIOUS
  <2>5. \A j \in DOMAIN R : ~R[j].free => \E k \in DOMAIN C : C[k] = R[j]
    BY <1>5, <2>2
  <2> QED
    BY <2>1, <2>2, <2>3, <2>4, <2>5 DEF Gives
<1>9. CASE ~CanSplit(R[i], size, align)
  <2> PICK W : W = TakeWhole(R, i, align)
    OBVIOUS
  <2> PICK b : b = R[i].data
    OBVIOUS
  <2>1. a.list = W /\ a.ptr = b /\ a.whole = TRUE
    BY <1>2, <1>9
  <2>2. ListOK(W, TRUE)
    BY <1>4, <1>7, TakeWholeKeeps DEF Room
  <2>3. b \notin DOMAIN f /\ LiveOK(W, TRUE, f) /\ LiveOK(W, TRUE, With(f, b, size, align))
    BY <1>4, <1>7, WholeGives
  <2>4. (w \/ TRUE) = TRUE
    OBVIOUS
  <2> QED
    BY <2>1, <2>2, <2>3, <2>4 DEF Gives
<1> QED
  BY <1>8, <1>9

\* A pointer that some chunk matches is found.
LEMMA SomeFound ==
  ASSUME NEW L \in Seq(Header), NEW p, NEW j \in DOMAIN L, Matches(L[j], p)
  PROVE  Found(L, p) # {}
<1> DEFINE S == {k \in DOMAIN L : Matches(L[k], p)}
<1>1. DOMAIN L = 1 .. Len(L) /\ Len(L) \in Nat
  OBVIOUS
<1>2. PICK i \in S : \A k \in S : i <= k
  <2>1. S \in SUBSET Nat /\ S # {}
    BY <1>1
  <2> HIDE DEF S
  <2> QED
    BY <2>1, Least
<1>3. \A k \in 1 .. i - 1 : ~Matches(L[k], p)
  <2> SUFFICES ASSUME NEW k \in 1 .. i - 1, Matches(L[k], p) PROVE FALSE
    OBVIOUS
  <2>1. k \in DOMAIN L /\ ~(i <= k)
    BY <1>1
  <2> QED
    BY <1>2, <2>1
<1>4. i \in Found(L, p)
  BY <1>3 DEF Found, Passed
<1> QED
  BY <1>4

\* No contract fails as long as every chunk is proper.
LEMMA ProperAnswers ==
  ASSUME NEW h \in Header, Proper(h)
  PROVE  InChunkContract(h) /\ DataRoomContract(h) /\ (h.free => RoomContract(h))
<1>1. /\ h.at \in Nat /\ h.hi \in Nat /\ h.data \in Nat /\ h.lo \in Nat
      /\ HeaderSize \in Nat /\ HeaderSize > 0 /\ PoolStart \in Nat /\ PoolStart > 0
  BY HeaderIs, Numbers
<1>2. /\ PoolStart <= h.lo /\ h.at = HeaderAt(h.lo)
      /\ h.at + HeaderSize <= h.data /\ h.data < h.hi
      /\ h.free => h.data = h.at + HeaderSize
  BY DEF Proper
<1>3. h.lo <= h.at
  BY <1>1, <1>2, HeaderAtIs
<1>4. h.lo # Null /\ h.hi > h.lo /\ h.hi >= h.data
  BY <1>1, <1>2, <1>3 DEF Null
<1> QED
  BY <1>2, <1>4 DEF InChunkContract, DataRoomContract, RoomContract

\* As long as nothing was handed out as a whole every contract holds.
LEMMA NoneDies ==
  ASSUME NEW L, ListOK(L, FALSE)
  PROVE  /\ \A p : ~GetHeaderDies(L, p)
         /\ \A i \in DOMAIN L : DataRoomContract(L[i])
         /\ \A size, align : ~AllocateBreaksContract(L, size, align)
<1>1. \A i \in DOMAIN L : L[i] \in Header /\ Proper(L[i])
  BY DEF ListOK, LooseOK, ChunksOK
<1>2. \A i \in DOMAIN L : InChunkContract(L[i]) /\ DataRoomContract(L[i])
                          /\ (L[i].free => RoomContract(L[i]))
  BY <1>1, ProperAnswers
<1>3. \A p : ~GetHeaderDies(L, p)
  BY <1>2 DEF GetHeaderDies, Passed
<1>4. \A size, align : ~AllocateBreaksContract(L, size, align)
  BY <1>2 DEF AllocateBreaksContract, Tried
<1> QED
  BY <1>2, <1>3, <1>4

(***************************************************************************)
(* The invariant                                                           *)
(***************************************************************************)

\* The pool begins as one free chunk.
LEMMA InitHolds == Init => IInv
<1> SUFFICES ASSUME Init PROVE IInv
  OBVIOUS
<1> PICK h : h = FreeHeader(PoolStart, PoolEnd, Null)
  OBVIOUS
<1>1. chunks = <<h>> /\ live = << >> /\ whole = FALSE /\ failure = "none"
  BY DEF Init
<1>2. /\ h.at = PoolStart /\ h.lo = PoolStart /\ h.hi = PoolEnd /\ h.prev = 0
      /\ h.data = PoolStart + HeaderSize /\ h.align = 0 /\ h.free = TRUE
  BY PoolIsAligned DEF FreeHeader, Null
<1>3. h \in Header
  <2>1. h = [at |-> PoolStart, lo |-> PoolStart, hi |-> PoolEnd, prev |-> 0,
             data |-> PoolStart + HeaderSize, align |-> 0, free |-> TRUE]
    BY PoolIsAligned DEF FreeHeader, Null
  <2>2. /\ PoolStart \in PoolStart .. PoolEnd /\ PoolStart \in Nat /\ PoolEnd \in 0 .. PoolEnd
        /\ PoolStart + HeaderSize \in Nat
    BY Numbers
  <2> QED
    BY <2>1, <2>2 DEF Header
<1>4. Proper(h)
  <2>1. /\ PoolStart <= PoolStart /\ PoolStart + HeaderSize <= PoolStart + HeaderSize
        /\ PoolStart + HeaderSize < PoolEnd
    BY Numbers
  <2> QED
    BY <1>2, <2>1, PoolIsAligned DEF Proper
<1>5. chunks \in Seq(Header) /\ Len(chunks) = 1 /\ DOMAIN chunks = 1 .. 1 /\ chunks[1] = h
      /\ chunks # << >>
  BY <1>1, <1>3
<1>6. \A i \in DOMAIN chunks : i = 1
  BY <1>5
<1>7. ChunksOK(chunks, FALSE)
  BY <1>2, <1>4, <1>5, <1>6 DEF ChunksOK
<1>8. Apart(chunks) /\ PrevOK(chunks)
  BY <1>2, <1>5, <1>6 DEF Apart, PrevOK, Null
<1>9. Tiles(chunks) /\ Merged(chunks)
  BY <1>2, <1>5 DEF Tiles, Merged
<1>10. ListOK(chunks, FALSE)
  BY <1>7, <1>8, <1>9 DEF ListOK, LooseOK
<1>11. LiveOK(chunks, FALSE, live)
  <2>1. Used(chunks) = {}
    BY <1>2, <1>5, <1>6 DEF Used
  <2>2. DOMAIN live = {}
    BY <1>1
  <2> QED
    BY <2>1, <2>2 DEF LiveOK, Blocks
<1> QED
  BY <1>1, <1>10, <1>11 DEF IInv, ContractsHold

\* What is left to show of a step, when the list and the blocks after it are known.
LEMMA Kept ==
  ASSUME NEW w \in BOOLEAN, whole' \in BOOLEAN, failure' \in {"none", "contract", "CAN_SPLIT"},
         ~whole' => failure' # "contract", w => whole', failure' = "none" => w = whole',
         ListOK(chunks', w), LiveOK(chunks', w, live')
  PROVE  IInv'
BY DEF IInv, ContractsHold

\* allocate preserves the invariant.
LEMMA AllocateStep ==
  ASSUME IInv, NEW size \in Sizes, NEW align \in Aligns, Allocate(size, align)
  PROVE  IInv'
<1>1. PICK a \in Allocated(chunks, size, align) :
        chunks' = a.list /\ live' = With(live, a.ptr, size, align) /\ whole' = (whole \/ a.whole)
  BY DEF Allocate
<1>2. failure = "none" /\ failure' = failure /\ AllocateDies(chunks, size, align) = {}
  BY DEF Allocate, Alive
<1>3. whole \in BOOLEAN /\ ListOK(chunks, whole) /\ LiveOK(chunks, whole, live)
  BY <1>2 DEF IInv
<1>4. /\ a.whole \in BOOLEAN /\ ListOK(a.list, whole \/ a.whole)
      /\ LiveOK(a.list, whole \/ a.whole, With(live, a.ptr, size, align))
  <2>1. Gives(chunks, whole, live, size, align, a)
    BY <1>2, <1>3, AllocatedIs
  <2> QED
    BY <2>1 DEF Gives
<1>5. ListOK(chunks', whole') /\ LiveOK(chunks', whole', live') /\ whole' \in BOOLEAN
  BY <1>1, <1>3, <1>4
<1> QED
  BY <1>2, <1>5, Kept

\* deallocate preserves the invariant.
LEMMA DeallocateStep ==
  ASSUME IInv, NEW p \in DOMAIN live, Deallocate(p)
  PROVE  IInv'
<1>1. PICK M \in Deallocated(chunks, p) : chunks' = M
  BY DEF Deallocate
<1>2. failure = "none" /\ failure' = failure /\ whole' = whole /\ live' = Minus(live, p)
  BY DEF Deallocate, Alive, Without, Minus
<1>3. whole \in BOOLEAN /\ ListOK(chunks, whole) /\ LiveOK(chunks, whole, live)
  BY <1>2 DEF IInv
<1>4. ListOK(M, whole) /\ LiveOK(M, whole, Minus(live, p))
  BY <1>3, DeallocatedIs
<1> QED
  BY <1>1, <1>2, <1>3, <1>4, Kept

\* The block of a client is resized where it is.
LEMMA ResizedInPlace ==
  ASSUME NEW R, NEW w \in BOOLEAN, ListOK(R, w), NEW f, LiveOK(R, w, f), NEW p \in DOMAIN f,
         NEW i \in DOMAIN R, Matches(R[i], p), DataRoomContract(R[i]),
         NEW size \in Sizes, DataRoom(R[i]) >= size, NEW align, R[i].align = align
  PROVE  /\ LiveOK(R, w, With(Minus(f, p), R[i].data, size, align))
         /\ R[i].data = p /\ f[p].align = align
<1>0. R \in Seq(Header) /\ ChunksOK(R, w) /\ Apart(R)
  BY DEF ListOK, LooseOK, ChunksOK
<1>h. PICK h \in Header : h = R[i]
  BY <1>0
<1>1. ~h.free /\ h.data = p
  BY <1>0, <1>h, FoundIs
<1>2. /\ h.at \in Nat /\ h.hi \in Nat /\ h.data \in Nat /\ h.hi <= PoolEnd /\ PoolStart <= h.at
      /\ size \in Nat /\ size > 0 /\ HeaderSize \in Nat /\ PoolStart \in Nat /\ PoolEnd \in Nat
  BY HeaderIs, Numbers
<1>3. h.hi >= h.data /\ h.hi - h.data >= size
  BY <1>h DEF DataRoomContract, DataRoom
<1>4. Proper(h)
  <2>1. ~Anew(h)
    BY <1>2, <1>3 DEF Anew, Null
  <2> QED
    BY <1>0, <1>h, <2>1 DEF ChunksOK
<1>5. h.at + HeaderSize <= p /\ p + size <= h.hi
  BY <1>1, <1>2, <1>3, <1>4 DEF Proper
<1>u. PICK u : u = Unlinked(h)
  OBVIOUS
<1>6. u \in Used(R) /\ u.data = p /\ u.align = align
  <2>1. h.hi # Null
    BY <1>2, <1>3 DEF Null
  <2> QED
    BY <1>1, <1>h, <1>u, <2>1, InUsed, UnlinkedIs
<1>7. align = f[p].align /\ f[p] \in [size : Sizes, align : Aligns] /\ align \in Aligns
  <2>1. f[p].align = u.align
    BY <1>6 DEF LiveOK
  <2>2. f[p] \in [size : Sizes, align : Aligns]
    BY DEF LiveOK, Blocks
  <2> QED
    BY <1>6, <2>1, <2>2
<1>g. PICK g : g = With(Minus(f, p), h.data, size, align)
  OBVIOUS
<1>8. /\ DOMAIN g = DOMAIN f /\ g[p] = [size |-> size, align |-> align]
      /\ \A q \in DOMAIN f : q # p => g[q] = f[q]
  BY <1>1, <1>g DEF With, Minus
<1>9. ASSUME NEW q \in DOMAIN f, q # p
      PROVE  /\ q \in Nat /\ f[q].size \in Nat
             /\ q + f[q].size <= p \/ p + size <= q
  <2>1. q \in Nat /\ f[q].size \in Nat /\ f[q].size > 0
    BY <1>0, BlockPlace
  <2>2. ~Holds(h, f, q)
    BY <1>1, <1>9 DEF Holds
  <2>3. q + f[q].size <= h.at \/ h.hi <= q
    BY <1>0, <1>4, <1>h, <2>2, ApartFromOthers
  <2> QED
    BY <1>1, <1>2, <1>5, <2>1, <2>3
<1>10. Blocks(f)
  BY DEF LiveOK
<1>11. ASSUME NEW q \in DOMAIN g
       PROVE  /\ q \in Nat /\ g[q] \in [size : Sizes, align : Aligns]
              /\ PoolStart <= q /\ q + g[q].size <= PoolEnd
  <2>1. CASE q = p
    <3>1. g[p].size = size /\ g[p] \in [size : Sizes, align : Aligns]
      BY <1>7, <1>8
    <3>2. p \in Nat /\ PoolStart <= p /\ p + size <= PoolEnd
      BY <1>1, <1>2, <1>5
    <3> QED
      BY <2>1, <3>1, <3>2
  <2>2. CASE q # p
    BY <1>8, <1>10, <2>2 DEF Blocks
  <2> QED
    BY <2>1, <2>2
<1>12. ASSUME NEW q \in DOMAIN g, NEW r \in DOMAIN g, q # r
       PROVE  q + g[q].size <= r \/ r + g[r].size <= q
  <2>1. g[p].size = size
    BY <1>8
  <2>2. CASE q = p
    BY <1>8, <1>9, <1>12, <2>1, <2>2
  <2>3. CASE r = p
    BY <1>8, <1>9, <1>12, <2>1, <2>3
  <2>4. CASE q # p /\ r # p
    BY <1>8, <1>10, <1>12, <2>4 DEF Blocks
  <2> QED
    BY <2>2, <2>3, <2>4
<1>13. Blocks(g)
  BY <1>11, <1>12 DEF Blocks
<1>14. ASSUME NEW x \in Used(R)
       PROVE  /\ x.data \in DOMAIN g /\ x.data + g[x.data].size <= x.hi
              /\ g[x.data].align = x.align /\ x.data % x.align = 0
  <2>1. /\ x.data \in DOMAIN f /\ x.data + f[x.data].size <= x.hi
        /\ f[x.data].align = x.align /\ x.data % x.align = 0
    BY DEF LiveOK
  <2>2. CASE x.data # p
    BY <1>8, <2>1, <2>2
  <2>3. CASE x.data = p
    <3>1. PICK j \in DOMAIN R :
             /\ R[j] \in Header /\ ~R[j].free /\ Proper(R[j]) /\ x = Unlinked(R[j])
             /\ x.data = R[j].data /\ x.hi = R[j].hi /\ x.align = R[j].align
             /\ R[j].at + HeaderSize <= x.data /\ x.data < x.hi
      BY <1>0, UsedPlace
    <3>2. R[j].at \in Nat /\ R[j].hi \in Nat /\ R[j].hi = x.hi
      BY <3>1, HeaderIs
    <3>3. ~(j < i)
      <4> SUFFICES ASSUME j < i PROVE FALSE
        OBVIOUS
      <4>1. R[j].hi <= h.at
        BY <1>0, <1>h DEF Apart
      <4> QED
        BY <1>1, <1>2, <1>5, <2>3, <3>1, <3>2, <4>1
    <3>4. ~(i < j)
      <4> SUFFICES ASSUME i < j PROVE FALSE
        OBVIOUS
      <4>1. h.hi <= R[j].at
        BY <1>0, <1>h DEF Apart
      <4> QED
        BY <1>1, <1>2, <1>5, <2>3, <3>1, <3>2, <4>1
    <3>5. j = i
      BY <1>0, <3>3, <3>4
    <3>6. x.hi = h.hi
      BY <1>h, <3>2, <3>5
    <3>7. g[p].size = size /\ g[p].align = align
      BY <1>8
    <3> QED
      BY <1>5, <1>7, <1>8, <2>1, <2>3, <3>6, <3>7
  <2> QED
    BY <2>2, <2>3
<1>15. ASSUME NEW q \in DOMAIN g
       PROVE  (\E x \in Used(R) : x.data = q) \/ (w /\ R[Len(R)].at + HeaderSize <= q)
  BY <1>8 DEF LiveOK
<1>16. LiveOK(R, w, g)
  BY <1>13, <1>14, <1>15 DEF LiveOK
<1> QED
  BY <1>1, <1>7, <1>16, <1>g, <1>h

\* reallocate that stays in its chunk preserves the invariant.
LEMMA ReallocateInPlaceStep ==
  ASSUME IInv, NEW p \in DOMAIN live, NEW size \in Sizes, NEW align \in Aligns,
         ReallocateInPlace(p, size, align)
  PROVE  IInv'
<1>1. PICK i \in Found(chunks, p) :
        /\ DataRoomContract(chunks[i]) /\ DataRoom(chunks[i]) >= size
        /\ chunks[i].align = align
        /\ live' = With(Minus(live, p), chunks[i].data, size, align)
  BY DEF ReallocateInPlace, Without, Minus
<1>2. failure = "none" /\ failure' = failure /\ whole' = whole /\ chunks' = chunks
  BY DEF ReallocateInPlace, Alive
<1>3. whole \in BOOLEAN /\ ListOK(chunks, whole) /\ LiveOK(chunks, whole, live)
  BY <1>2 DEF IInv
<1>4. i \in DOMAIN chunks /\ Matches(chunks[i], p)
  BY DEF Found, Passed
<1>5. LiveOK(chunks, whole, With(Minus(live, p), chunks[i].data, size, align))
  BY <1>1, <1>3, <1>4, ResizedInPlace
<1> QED
  BY <1>1, <1>2, <1>3, <1>5, Kept

\* A block moves to a new chunk and its old one is freed: together the same as to have both
\* for a moment.
LEMMA MovedIs ==
  ASSUME NEW f, NEW p \in DOMAIN f, NEW b, b \notin DOMAIN f, NEW size, NEW align
  PROVE  /\ p \in DOMAIN With(f, b, size, align)
         /\ With(Minus(f, p), b, size, align) = Minus(With(f, b, size, align), p)
<1>g. PICK g : g = With(f, b, size, align)
  OBVIOUS
<1>1. DOMAIN g = DOMAIN f \cup {b} /\ g[b] = [size |-> size, align |-> align]
      /\ \A q \in DOMAIN f : q # b /\ g[q] = f[q]
  BY <1>g DEF With
<1>m. PICK m : m = Minus(f, p)
  OBVIOUS
<1>2. DOMAIN m = DOMAIN f \ {p} /\ \A q \in DOMAIN f \ {p} : m[q] = f[q]
  BY <1>m DEF Minus
<1>3. With(m, b, size, align)
        = [q \in DOMAIN m \cup {b} |-> IF q = b THEN [size |-> size, align |-> align] ELSE m[q]]
  BY DEF With
<1>4. Minus(g, p) = [q \in DOMAIN g \ {p} |-> g[q]]
  BY DEF Minus
<1>5. DOMAIN m \cup {b} = DOMAIN g \ {p}
  BY <1>1, <1>2
<1>6. ASSUME NEW q \in DOMAIN m \cup {b}
      PROVE  (IF q = b THEN [size |-> size, align |-> align] ELSE m[q]) = g[q]
  BY <1>1, <1>2
<1>7. With(m, b, size, align) = Minus(g, p)
  BY <1>3, <1>4, <1>5, <1>6
<1> QED
  BY <1>1, <1>7, <1>g, <1>m

\* reallocate that moves preserves the invariant.
LEMMA ReallocateMovesStep ==
  ASSUME IInv, NEW p \in DOMAIN live, NEW size \in Sizes, NEW align \in Aligns,
         ReallocateMoves(p, size, align)
  PROVE  IInv'
<1>1. PICK i \in Found(chunks, p) :
        /\ AllocateDies(chunks, size, align) = {}
        /\ \E a \in Allocated(chunks, size, align) :
             /\ IF Found(a.list, chunks[i].data) = {}
                THEN chunks' = a.list /\ UNCHANGED live
                ELSE /\ chunks' \in Deallocated(a.list, chunks[i].data)
                     /\ live' = With(Minus(live, p), a.ptr, size, align)
             /\ whole' = (whole \/ a.whole)
  BY DEF ReallocateMoves, Without, Minus
<1>2. PICK a \in Allocated(chunks, size, align) :
        /\ IF Found(a.list, chunks[i].data) = {}
           THEN chunks' = a.list /\ UNCHANGED live
           ELSE /\ chunks' \in Deallocated(a.list, chunks[i].data)
                /\ live' = With(Minus(live, p), a.ptr, size, align)
        /\ whole' = (whole \/ a.whole)
  BY <1>1
<1>3. failure = "none" /\ failure' = failure
  BY DEF ReallocateMoves, Alive
<1>4. whole \in BOOLEAN /\ ListOK(chunks, whole) /\ LiveOK(chunks, whole, live)
  BY <1>3 DEF IInv
<1>5. i \in DOMAIN chunks /\ Matches(chunks[i], p)
  BY DEF Found, Passed
<1>6. ~chunks[i].free /\ chunks[i].data = p
  BY <1>4, <1>5, FoundIs DEF ListOK, LooseOK
<1>7. /\ a.whole \in BOOLEAN /\ ListOK(a.list, whole \/ a.whole) /\ a.ptr \notin DOMAIN live
      /\ LiveOK(a.list, whole \/ a.whole, With(live, a.ptr, size, align))
      /\ a.whole => LiveOK(a.list, TRUE, live)
      /\ ~a.whole => \A j \in DOMAIN chunks :
                       ~chunks[j].free => \E k \in DOMAIN a.list : a.list[k] = chunks[j]
  <2>1. AllocateDies(chunks, size, align) = {}
    BY <1>1
  <2>2. Gives(chunks, whole, live, size, align, a)
    BY <1>4, <2>1, AllocatedIs
  <2> QED
    BY <2>2 DEF Gives
<1>8. whole' \in BOOLEAN /\ whole' = (whole \/ a.whole)
  BY <1>2, <1>4, <1>7
<1>9. CASE Found(a.list, p) = {}
  <2>1. chunks' = a.list /\ live' = live
    BY <1>2, <1>6, <1>9
  <2>2. a.whole
    <3> SUFFICES ASSUME ~a.whole PROVE FALSE
      OBVIOUS
    <3>1. PICK k \in DOMAIN a.list : a.list[k] = chunks[i]
      BY <1>5, <1>6, <1>7
    <3>2. a.list \in Seq(Header) /\ Matches(a.list[k], p)
      BY <1>5, <1>7, <3>1 DEF ListOK, LooseOK, ChunksOK
    <3> QED
      BY <1>9, <3>2, SomeFound
  <2>3. (whole \/ a.whole) = TRUE
    BY <2>2
  <2>4. ListOK(chunks', TRUE) /\ LiveOK(chunks', TRUE, live') /\ whole' = TRUE
    BY <1>7, <1>8, <2>1, <2>2, <2>3
  <2> QED
    BY <1>3, <2>4, Kept
<1>10. CASE Found(a.list, p) # {}
  <2>1. chunks' \in Deallocated(a.list, p) /\ live' = With(Minus(live, p), a.ptr, size, align)
    BY <1>2, <1>6, <1>10
  <2> PICK f : f = With(live, a.ptr, size, align)
    OBVIOUS
  <2> PICK L : L = a.list
    OBVIOUS
  <2>2. p \in DOMAIN f /\ live' = Minus(f, p)
    BY <1>7, <2>1, MovedIs
  <2>3. ListOK(L, whole') /\ LiveOK(L, whole', f)
    BY <1>7, <1>8
  <2> PICK M : M = chunks'
    OBVIOUS
  <2> PICK w \in BOOLEAN : w = whole'
    BY <1>8
  <2>4. ListOK(M, w) /\ LiveOK(M, w, Minus(f, p))
    BY <2>1, <2>2, <2>3, DeallocatedIs
  <2> QED
    BY <1>3, <1>8, <2>2, <2>4, Kept
<1> QED
  BY <1>9, <1>10

\* What stops the program leaves list and blocks as they are, and it is a contract only if
\* a chunk was handed out as a whole.
LEMMA AllocateDiesOf ==
  ASSUME NEW R, NEW size, NEW align, NEW why \in AllocateDies(R, size, align)
  PROVE  /\ why \in {"contract", "CAN_SPLIT"}
         /\ why = "contract" => AllocateBreaksContract(R, size, align)
<1>1. CASE size > pool_size
  BY <1>1 DEF AllocateDies
<1>2. CASE ~(size > pool_size) /\ AllocateBreaksContract(R, size, align)
  BY <1>2 DEF AllocateDies
<1>3. CASE ~(size > pool_size) /\ ~AllocateBreaksContract(R, size, align)
  <2>1. why = "CAN_SPLIT"
    BY <1>3 DEF AllocateDies
  <2> QED
    BY <2>1
<1> QED
  BY <1>1, <1>2, <1>3

\* A program that dies leaves the list and the clients alone.
LEMMA DiesStep ==
  ASSUME IInv, Alive, NEW why \in {"contract", "CAN_SPLIT"}, failure' = why,
         UNCHANGED <<chunks, live>>, whole' \in BOOLEAN, whole => whole',
         ~whole' => why # "contract"
  PROVE  IInv'
<1>1. failure = "none"
  BY DEF Alive
<1>2. whole \in BOOLEAN /\ ListOK(chunks, whole) /\ LiveOK(chunks, whole, live)
  BY <1>1 DEF IInv
<1>3. chunks' = chunks /\ live' = live
  OBVIOUS
<1>4. failure' # "none" /\ failure' \in {"none", "contract", "CAN_SPLIT"}
  OBVIOUS
<1> QED
  BY <1>2, <1>3, <1>4, Kept

\* allocate that breaks a contract or an assertion.
LEMMA DiesInAllocateStep ==
  ASSUME IInv, NEW size \in Sizes, NEW align \in Aligns, DiesInAllocate(size, align)
  PROVE  IInv'
<1>1. PICK why \in AllocateDies(chunks, size, align) : Dies(why)
  BY DEF DiesInAllocate
<1>2. Alive /\ failure' = why /\ whole' = whole /\ UNCHANGED <<chunks, live>>
  BY <1>1 DEF DiesInAllocate, Dies
<1>3. why \in {"contract", "CAN_SPLIT"} /\ (why = "contract" => AllocateBreaksContract(chunks, size, align))
  BY AllocateDiesOf
<1>4. whole \in BOOLEAN /\ ListOK(chunks, whole)
  BY <1>2 DEF IInv, Alive
<1>5. ~whole => ~AllocateBreaksContract(chunks, size, align)
  <2>1. ~whole => ListOK(chunks, FALSE)
    BY <1>4
  <2> QED
    BY <2>1, NoneDies
<1>6. ~whole' => why # "contract"
  BY <1>2, <1>3, <1>5
<1> QED
  BY <1>2, <1>3, <1>4, <1>6, DiesStep

\* deallocate that breaks the contract of the search for the header.
LEMMA DiesInGetHeaderStep ==
  ASSUME IInv, NEW p \in DOMAIN live, DiesInGetHeader(p)
  PROVE  IInv'
<1>1. Alive /\ failure' = "contract" /\ whole' = whole /\ UNCHANGED <<chunks, live>>
      /\ GetHeaderDies(chunks, p)
  BY DEF DiesInGetHeader, Dies
<1>2. whole \in BOOLEAN /\ ListOK(chunks, whole)
  BY <1>1 DEF IInv, Alive
<1>3. whole
  <2>1. ~whole => ListOK(chunks, FALSE)
    BY <1>2
  <2> QED
    BY <1>1, <2>1, NoneDies
<1> QED
  BY <1>1, <1>2, <1>3, DiesStep

\* reallocate that breaks a contract or an assertion.
LEMMA DiesInReallocateStep ==
  ASSUME IInv, NEW p \in DOMAIN live, NEW size \in Sizes, NEW align \in Aligns,
         DiesInReallocate(p, size, align)
  PROVE  IInv'
<1>1. Alive /\ failure = "none"
  BY DEF DiesInReallocate, Alive
<1>2. whole \in BOOLEAN /\ ListOK(chunks, whole) /\ LiveOK(chunks, whole, live)
  BY <1>1 DEF IInv
<1>3. ~whole => ListOK(chunks, FALSE)
  BY <1>2
<1>4. PICK i \in Found(chunks, p) :
       \/ ~DataRoomContract(chunks[i]) /\ Dies("contract")
       \/ \E why \in AllocateDies(chunks, size, align) : Dies(why)
       \/ /\ AllocateDies(chunks, size, align) = {}
          /\ \E a \in Allocated(chunks, size, align) :
               /\ GetHeaderDies(a.list, chunks[i].data)
               /\ whole' = (whole \/ a.whole)
          /\ failure' = "contract"
          /\ UNCHANGED <<chunks, live>>
  BY DEF DiesInReallocate
<1>5. i \in DOMAIN chunks
  BY DEF Found, Passed
<1>6. CASE ~DataRoomContract(chunks[i]) /\ Dies("contract")
  <2>1. failure' = "contract" /\ whole' = whole /\ UNCHANGED <<chunks, live>>
    BY <1>6 DEF Dies
  <2>2. whole
    BY <1>3, <1>5, <1>6, NoneDies
  <2> QED
    BY <1>1, <1>2, <2>1, <2>2, DiesStep
<1>7. CASE \E why \in AllocateDies(chunks, size, align) : Dies(why)
  <2>1. DiesInAllocate(size, align)
    BY <1>1, <1>7 DEF DiesInAllocate
  <2> QED
    BY <2>1, DiesInAllocateStep
<1>8. CASE /\ AllocateDies(chunks, size, align) = {}
           /\ \E a \in Allocated(chunks, size, align) :
                /\ GetHeaderDies(a.list, chunks[i].data)
                /\ whole' = (whole \/ a.whole)
           /\ failure' = "contract"
           /\ UNCHANGED <<chunks, live>>
  <2>1. PICK a \in Allocated(chunks, size, align) :
          GetHeaderDies(a.list, chunks[i].data) /\ whole' = (whole \/ a.whole)
    BY <1>8
  <2>2. a.whole \in BOOLEAN /\ ListOK(a.list, whole \/ a.whole)
    <3>1. Gives(chunks, whole, live, size, align, a)
      BY <1>2, <1>8, AllocatedIs
    <3> QED
      BY <3>1 DEF Gives
  <2>3. whole' \in BOOLEAN /\ (whole => whole')
    BY <1>2, <2>1, <2>2
  <2>4. ListOK(a.list, whole')
    BY <2>1, <2>2
  <2>5. whole'
    <3> SUFFICES ASSUME ~whole' PROVE FALSE
      OBVIOUS
    <3>1. whole' = FALSE
      BY <2>3
    <3>2. ListOK(a.list, FALSE)
      BY <2>4, <3>1
    <3> QED
      BY <2>1, <3>2, NoneDies
  <2> QED
    BY <1>1, <1>8, <2>3, <2>5, DiesStep
<1> QED
  BY <1>4, <1>6, <1>7, <1>8

\* Every step preserves the invariant.
LEMMA NextKeeps ==
  ASSUME IInv, [Next]_vars
  PROVE  IInv'
<1>1. CASE Next
  <2>1. ASSUME NEW size \in Sizes, NEW align \in Aligns, Allocate(size, align) PROVE IInv'
    BY <2>1, AllocateStep
  <2>2. ASSUME NEW size \in Sizes, NEW align \in Aligns, DiesInAllocate(size, align)
        PROVE  IInv'
    BY <2>2, DiesInAllocateStep
  <2>3. ASSUME NEW p \in DOMAIN live, NEW size \in Sizes, NEW align \in Aligns,
               ReallocateInPlace(p, size, align)
        PROVE  IInv'
    BY <2>3, ReallocateInPlaceStep
  <2>4. ASSUME NEW p \in DOMAIN live, NEW size \in Sizes, NEW align \in Aligns,
               ReallocateMoves(p, size, align)
        PROVE  IInv'
    BY <2>4, ReallocateMovesStep
  <2>5. ASSUME NEW p \in DOMAIN live, NEW size \in Sizes, NEW align \in Aligns,
               DiesInReallocate(p, size, align)
        PROVE  IInv'
    BY <2>5, DiesInReallocateStep
  <2>6. ASSUME NEW p \in DOMAIN live, Deallocate(p) PROVE IInv'
    BY <2>6, DeallocateStep
  <2>7. ASSUME NEW p \in DOMAIN live, DiesInGetHeader(p) PROVE IInv'
    BY <2>7, DiesInGetHeaderStep
  <2> HIDE DEF IInv
  <2> QED
    BY <1>1, <2>1, <2>2, <2>3, <2>4, <2>5, <2>6, <2>7 DEF Next
<1>2. CASE UNCHANGED vars
  <2>1. chunks' = chunks /\ live' = live /\ whole' = whole /\ failure' = failure
    BY <1>2 DEF vars
  <2>2. whole \in BOOLEAN /\ failure \in {"none", "contract", "CAN_SPLIT"}
        /\ (~whole => failure # "contract")
    BY DEF IInv, ContractsHold
  <2>3. PICK w \in BOOLEAN : /\ (w => whole) /\ (failure = "none" => w = whole)
                             /\ ListOK(chunks, w) /\ LiveOK(chunks, w, live)
    BY DEF IInv
  <2> QED
    BY <2>1, <2>2, <2>3, Kept
<1> QED
  BY <1>1, <1>2

\* The invariant holds always.
LEMMA IInvHolds == Spec => []IInv
BY InitHolds, NextKeeps, PTL DEF Spec

(***************************************************************************)
(* The properties                                                          *)
(***************************************************************************)

\* What clients have does not overlap.
LEMMA DisjointFollows == IInv => LiveDisjoint
<1> SUFFICES ASSUME IInv, NEW p \in DOMAIN live
             PROVE  /\ PoolStart <= p /\ p + live[p].size <= PoolEnd
                    /\ \A q \in DOMAIN live \ {p} :
                         p + live[p].size <= q \/ q + live[q].size <= p
                    /\ \A i \in DOMAIN chunks :
                         (p .. p + live[p].size - 1)
                           \cap (chunks[i].at .. chunks[i].at + HeaderSize - 1) = {}
  BY DEF LiveDisjoint
<1>1. PICK w \in BOOLEAN : ListOK(chunks, w) /\ LiveOK(chunks, w, live)
  BY DEF IInv
<1>2. /\ PoolStart <= p /\ p + live[p].size <= PoolEnd
      /\ \A q \in DOMAIN live \ {p} : p + live[p].size <= q \/ q + live[q].size <= p
  BY <1>1 DEF LiveOK, Blocks
<1>3. chunks \in Seq(Header) /\ ChunksOK(chunks, w) /\ Apart(chunks) /\ chunks # << >>
      /\ DOMAIN chunks = 1 .. Len(chunks) /\ Len(chunks) \in Nat
  BY <1>1 DEF ListOK, LooseOK, ChunksOK
<1> PICK s \in Nat : s = live[p].size /\ s > 0 /\ p \in Nat
  BY <1>1, <1>3, BlockPlace
<1>4. ASSUME NEW i \in DOMAIN chunks
      PROVE  p + s <= chunks[i].at \/ chunks[i].at + HeaderSize <= p
  <2>h. PICK h \in Header : h = chunks[i]
    BY <1>3
  <2>0. /\ h.at \in Nat /\ h.hi \in Nat /\ h.data \in Nat /\ HeaderSize \in Nat
    BY HeaderIs, Numbers
  <2>1. CASE Holds(h, live, p)
    BY <2>1, <2>h DEF Holds
  <2>2. CASE ~Holds(h, live, p) /\ Proper(h)
    <3>1. p + s <= h.at \/ h.hi <= p
      BY <1>1, <1>3, <2>2, <2>h, ApartFromOthers
    <3>2. h.at + HeaderSize <= h.data /\ h.data < h.hi
      BY <2>2 DEF Proper
    <3>3. p + s <= h.at \/ h.at + HeaderSize <= p
      BY <2>0, <3>1, <3>2
    <3> QED
      BY <2>h, <3>3
  <2>3. CASE ~Proper(h)
    <3>1. w /\ i = Len(chunks)
      BY <1>3, <2>3, <2>h DEF ChunksOK
    <3>2. CASE w /\ chunks[Len(chunks)].at + HeaderSize <= p
      BY <3>1, <3>2
    <3>3. ASSUME NEW j \in DOMAIN chunks, Holds(chunks[j], live, p)
          PROVE  p + s <= h.at
      <4>1. chunks[j] \in Header /\ Proper(chunks[j]) /\ p + s <= chunks[j].hi
        BY <3>3 DEF Holds
      <4>2. j # i
        BY <2>3, <2>h, <4>1
      <4>3. j < i
        BY <1>3, <3>1, <4>2
      <4>4. chunks[j].hi <= h.at
        BY <1>3, <2>h, <4>3 DEF Apart
      <4>5. chunks[j].hi \in Nat
        BY <4>1, HeaderIs
      <4> QED
        BY <2>0, <4>1, <4>4, <4>5
    <3>4. \/ \E j \in DOMAIN chunks : Holds(chunks[j], live, p)
          \/ w /\ chunks[Len(chunks)].at + HeaderSize <= p
      BY <1>1, <1>3, BlockPlace
    <3> QED
      BY <2>h, <3>2, <3>3, <3>4
  <2> QED
    BY <2>1, <2>2, <2>3
<1>5. ASSUME NEW i \in DOMAIN chunks
      PROVE  (p .. p + s - 1) \cap (chunks[i].at .. chunks[i].at + HeaderSize - 1) = {}
  <2> PICK a \in Nat : a = chunks[i].at
    BY <1>3, HeaderIs
  <2>1. p + s <= a \/ a + HeaderSize <= p
    BY <1>4
  <2>2. \A n \in Int : ~(p <= n /\ n <= p + s - 1 /\ a <= n /\ n <= a + HeaderSize - 1)
    BY <2>1, Numbers
  <2> QED
    BY <2>2
<1> QED
  BY <1>2, <1>5

\* What clients have is in use, as long as nothing was handed out as a whole.
LEMMA InUseFollows == IInv => LiveIsInUse
<1> SUFFICES ASSUME IInv, ~whole PROVE LiveIsInUse
  BY DEF LiveIsInUse
<1>1. ListOK(chunks, FALSE) /\ LiveOK(chunks, FALSE, live)
  BY DEF IInv
<1>2. chunks \in Seq(Header) /\ ChunksOK(chunks, FALSE)
  BY <1>1 DEF ListOK, LooseOK, ChunksOK
<1> DEFINE used == {i \in DOMAIN chunks : ~chunks[i].free}
<1>3. ASSUME NEW i \in used
      PROVE  /\ chunks[i] \in Header /\ Proper(chunks[i]) /\ Unlinked(chunks[i]) \in Used(chunks)
             /\ Unlinked(chunks[i]).data = chunks[i].data
             /\ Unlinked(chunks[i]).hi = chunks[i].hi
             /\ Unlinked(chunks[i]).align = chunks[i].align
  <2>1. i \in DOMAIN chunks /\ ~chunks[i].free
    OBVIOUS
  <2>h. PICK h \in Header : h = chunks[i]
    BY <1>2, <2>1
  <2>2. Proper(h)
    BY <1>2, <2>1, <2>h DEF ChunksOK
  <2>3. h.hi # Null
    BY <2>2, HeaderIs DEF Proper, Null
  <2>4. Unlinked(h) \in Used(chunks)
    BY <2>1, <2>3, <2>h, InUsed
  <2>5. Unlinked(h).data = h.data /\ Unlinked(h).hi = h.hi /\ Unlinked(h).align = h.align
    BY UnlinkedIs
  <2> QED
    BY <2>2, <2>4, <2>5, <2>h
<1>4. ASSUME NEW i \in used
      PROVE  /\ chunks[i].data \in DOMAIN live
             /\ chunks[i].data % live[chunks[i].data].align = 0
             /\ chunks[i].at + HeaderSize <= chunks[i].data
             /\ chunks[i].data + live[chunks[i].data].size <= chunks[i].hi
  <2> PICK u \in Used(chunks) : u = Unlinked(chunks[i])
    BY <1>3
  <2>1. u.data = chunks[i].data /\ u.hi = chunks[i].hi
    BY <1>3
  <2>2. /\ u.data \in DOMAIN live /\ u.data + live[u.data].size <= u.hi
        /\ live[u.data].align = u.align /\ u.data % u.align = 0
    BY <1>1 DEF LiveOK
  <2>3. chunks[i].at + HeaderSize <= chunks[i].data
    BY <1>3 DEF Proper
  <2> QED
    BY <2>1, <2>2, <2>3
<1>5. ASSUME NEW p \in DOMAIN live
      PROVE  \E i \in used : chunks[i].data = p
  <2>1. PICK u \in Used(chunks) : u.data = p
    BY <1>1 DEF LiveOK
  <2>2. PICK i \in DOMAIN chunks : ~chunks[i].free /\ chunks[i].hi # Null /\ u = Unlinked(chunks[i])
    BY InUsed
  <2>3. i \in used
    BY <2>2
  <2>4. chunks[i].data = p
    BY <1>3, <2>1, <2>2, <2>3
  <2> QED
    BY <2>3, <2>4
<1>6. {chunks[i].data : i \in used} = DOMAIN live
  <2> HIDE DEF used
  <2> QED
    BY <1>4, <1>5
<1> QED
  BY <1>4, <1>6 DEF LiveIsInUse

\* The list is what the code takes it for.
LEMMA SoundFollows == IInv => ListIsSound
<1> SUFFICES ASSUME IInv PROVE ListIsSound
  OBVIOUS
<1>1. PICK w \in BOOLEAN : (w => whole) /\ ListOK(chunks, w) /\ LiveOK(chunks, w, live)
  BY DEF IInv
<1>2. /\ chunks \in Seq(Header) /\ chunks # << >> /\ ChunksOK(chunks, w)
      /\ DOMAIN chunks = 1 .. Len(chunks) /\ Len(chunks) \in Nat
  BY <1>1 DEF ListOK, LooseOK, ChunksOK
<1>3. whole \in BOOLEAN /\ failure \in {"none", "contract", "CAN_SPLIT"} /\ ContractsHold
  BY DEF IInv
<1>4. TypeOK
  <2>1. \A i \in DOMAIN chunks : chunks[i].free <=> chunks[i].align = 0
    BY <1>2 DEF ChunksOK
  <2>2. \A p \in DOMAIN live : live[p] \in [size : Sizes, align : Aligns]
    BY <1>1 DEF LiveOK, Blocks
  <2> QED
    BY <1>2, <1>3, <2>1, <2>2 DEF TypeOK, Header
<1>5. Tiling
  <2> SUFFICES ASSUME ~whole PROVE Tiling
    BY DEF Tiling
  <2>1. Tiles(chunks)
    BY <1>1 DEF ListOK, LooseOK
  <2> QED
    BY <2>1 DEF Tiling, Tiles
<1>6. NoFreeNeighbours
  BY <1>1 DEF NoFreeNeighbours, ListOK, Merged
<1>7. PrevOfFreeExact
  <2> SUFFICES ASSUME ~whole, NEW i \in DOMAIN chunks, chunks[i].free
               PROVE  chunks[i].prev = IF i = 1 THEN Null ELSE chunks[i - 1].at
    BY DEF PrevOfFreeExact
  <2>1. PrevOK(chunks) /\ Merged(chunks) /\ ~w
    BY <1>1 DEF ListOK, LooseOK
  <2>2. CASE i = 1
    BY <2>1, <2>2 DEF PrevOK
  <2>3. CASE i # 1
    <3>1. i > 1 /\ i - 1 \in 1 .. Len(chunks) - 1 /\ (i - 1) + 1 = i
      BY <1>2, <2>3
    <3>2. Proper(chunks[i])
      BY <1>2, <2>1 DEF ChunksOK
    <3>3. chunks[i].prev = chunks[i - 1].at \/ chunks[i - 1].free
      BY <2>1, <3>1, <3>2 DEF PrevOK
    <3>4. ~(chunks[i - 1].free /\ chunks[(i - 1) + 1].free)
      BY <2>1, <3>1 DEF Merged
    <3>5. chunks[i].prev = chunks[i - 1].at
      BY <3>1, <3>3, <3>4
    <3> QED
      BY <2>3, <3>5
  <2> QED
    BY <2>2, <2>3
<1> QED
  BY <1>3, <1>4, <1>5, <1>6, <1>7 DEF ListIsSound

\* For any pool, header, sizes and alignments: what clients have never overlaps the data of
\* another client nor a header of the list, not even after a free chunk was handed out as a
\* whole and the chunks behind it were lost (allocate, util.hpp); and until then the chunks in
\* use are the clients', aligned, large enough, and found by the pointer.
THEOREM ClientsKeepTheirs == Spec => []LiveChunks
<1>1. IInv => LiveChunks
  BY DisjointFollows, InUseFollows DEF LiveChunks
<1> HIDE DEF IInv, LiveChunks
<1> QED
  BY <1>1, IInvHolds, PTL

\* Until a free chunk was handed out as a whole, the headers tile the pool without two free
\* ones side by side, the prev a merge follows is exact though others are stale, and no
\* contract of allocate, deallocate and reallocate fails.
THEOREM PoolListStaysSound == Spec => []ListIsSound
<1> HIDE DEF IInv, ListIsSound
<1> QED
  BY SoundFollows, IInvHolds, PTL

(***************************************************************************)
(* The refinement: for its clients the pool is a set of disjoint blocks.   *)
(***************************************************************************)

\* A new block lies where nobody has a byte.
LEMMA NewHasRoom ==
  ASSUME NEW b, b \notin DOMAIN live, NEW size, NEW align, Blocks(With(live, b, size, align))
  PROVE  Memory!Room(b, size, DOMAIN live)
<1> PICK g : g = With(live, b, size, align)
  OBVIOUS
<1>1. /\ DOMAIN g = DOMAIN live \cup {b} /\ g[b].size = size
      /\ \A q \in DOMAIN live : q # b /\ g[q] = live[q]
  BY DEF With
<1>2. PoolStart <= b /\ b + size <= PoolEnd
  BY <1>1 DEF Blocks
<1>3. ASSUME NEW q \in DOMAIN live
      PROVE  q + live[q].size <= b \/ b + size <= q
  <2>1. q \in DOMAIN g /\ b \in DOMAIN g /\ q # b /\ g[q] = live[q]
    BY <1>1
  <2>2. q + g[q].size <= b \/ b + g[b].size <= q
    BY <2>1 DEF Blocks
  <2> QED
    BY <1>1, <2>1, <2>2
<1> QED
  BY <1>2, <1>3 DEF Memory!Room

\* As long as no chunk was handed out as a whole, a client's block is aligned as it asked.
LEMMA BlocksAreAligned ==
  ASSUME NEW L, NEW f, LiveOK(L, FALSE, f), NEW p \in DOMAIN f
  PROVE  p % f[p].align = 0
<1>1. PICK u \in Used(L) : u.data = p
  BY DEF LiveOK
<1>2. f[p].align = u.align /\ u.data % u.align = 0
  BY <1>1 DEF LiveOK
<1> QED
  BY <1>1, <1>2

\* What allocate returns is a block of its own, aligned unless a chunk was handed out as a
\* whole.
LEMMA AllocatedBlock ==
  ASSUME IInv, failure = "none", NEW size \in Sizes, NEW align \in Aligns,
         AllocateDies(chunks, size, align) = {}, NEW a \in Allocated(chunks, size, align),
         whole' = (whole \/ a.whole)
  PROVE  /\ a.ptr \notin DOMAIN live /\ whole \in BOOLEAN /\ whole' \in BOOLEAN
         /\ Memory!Room(a.ptr, size, DOMAIN live)
         /\ Memory!AlignedOrNot(a.ptr, align)
<1>1. whole \in BOOLEAN /\ ListOK(chunks, whole) /\ LiveOK(chunks, whole, live)
  BY DEF IInv
<1>2. Gives(chunks, whole, live, size, align, a)
  BY <1>1, AllocatedIs
<1> PICK g : g = With(live, a.ptr, size, align)
  OBVIOUS
<1>3. /\ a.whole \in BOOLEAN /\ a.ptr \notin DOMAIN live /\ whole' \in BOOLEAN
      /\ LiveOK(a.list, whole', g)
  BY <1>1, <1>2 DEF Gives
<1>4. Blocks(g)
  BY <1>3 DEF LiveOK
<1>5. Memory!Room(a.ptr, size, DOMAIN live)
  BY <1>3, <1>4, NewHasRoom
<1>6. ~whole' => a.ptr % align = 0
  <2> SUFFICES ASSUME ~whole' PROVE a.ptr % align = 0
    OBVIOUS
  <2>1. LiveOK(a.list, FALSE, g)
    <3>1. whole' = FALSE
      BY <1>3
    <3> QED
      BY <1>3, <3>1
  <2>2. a.ptr \in DOMAIN g /\ g[a.ptr].align = align
    BY DEF With
  <2>3. a.ptr % g[a.ptr].align = 0
    BY <2>1, <2>2, BlocksAreAligned
  <2> QED
    BY <2>2, <2>3
<1>7. (~whole') \in {~whole, FALSE}
  <2>1. whole => whole'
    BY <1>1, <1>3
  <2>2. CASE whole'
    BY <2>2
  <2>3. CASE ~whole'
    BY <2>1, <2>3
  <2> QED
    BY <2>2, <2>3
<1>8. Memory!AlignedOrNot(a.ptr, align)
  BY <1>6, <1>7 DEF Memory!AlignedOrNot
<1> QED
  BY <1>1, <1>3, <1>5, <1>8

\* allocate gives a block.
LEMMA AllocateGives ==
  ASSUME IInv, NEW size \in Sizes, NEW align \in Aligns, Allocate(size, align)
  PROVE  Memory!Next
<1>1. PICK a \in Allocated(chunks, size, align) :
        live' = With(live, a.ptr, size, align) /\ whole' = (whole \/ a.whole)
  BY DEF Allocate
<1>2. failure = "none" /\ AllocateDies(chunks, size, align) = {}
  BY DEF Allocate, Alive
<1>3. a.ptr \notin DOMAIN live /\ Memory!Room(a.ptr, size, DOMAIN live)
      /\ Memory!AlignedOrNot(a.ptr, align)
  BY <1>1, <1>2, AllocatedBlock
<1>4. live' = Memory!Plus(DOMAIN live, a.ptr, size, align)
  BY <1>1 DEF With, Memory!Plus
<1>5. Memory!Give(a.ptr, size, align)
  BY <1>3, <1>4 DEF Memory!Give
<1>6. a.ptr \in DOMAIN live' \ DOMAIN live
  BY <1>1, <1>3 DEF With
<1> QED
  BY <1>5, <1>6 DEF Memory!Next

\* deallocate takes a block back.
LEMMA DeallocateTakesBack ==
  ASSUME NEW p \in DOMAIN live, Deallocate(p)
  PROVE  Memory!Next
<1>1. live' = Without(p) /\ whole' = whole
  BY DEF Deallocate
<1>2. Memory!TakeBack(p)
  BY <1>1 DEF Without, Memory!TakeBack
<1> QED
  BY <1>2 DEF Memory!Next

\* reallocate that stays in its chunk resizes a block, over bytes nobody has.
LEMMA InPlaceResizes ==
  ASSUME IInv, NEW p \in DOMAIN live, NEW size \in Sizes, NEW align \in Aligns,
         ReallocateInPlace(p, size, align)
  PROVE  Memory!Next
<1>1. PICK i \in Found(chunks, p) :
        /\ DataRoomContract(chunks[i]) /\ DataRoom(chunks[i]) >= size
        /\ chunks[i].align = align
        /\ live' = With(Minus(live, p), chunks[i].data, size, align)
  BY DEF ReallocateInPlace, Without, Minus
<1>2. failure = "none" /\ whole' = whole
  BY DEF ReallocateInPlace, Alive
<1>3. whole \in BOOLEAN /\ ListOK(chunks, whole) /\ LiveOK(chunks, whole, live)
  BY <1>2 DEF IInv
<1>4. i \in DOMAIN chunks /\ Matches(chunks[i], p)
  BY DEF Found, Passed
<1>5. LiveOK(chunks, whole, live') /\ chunks[i].data = p /\ live[p].align = align
  BY <1>1, <1>3, <1>4, ResizedInPlace
<1>m. PICK m : m = Minus(live, p)
  OBVIOUS
<1>6. DOMAIN m = DOMAIN live \ {p} /\ \A q \in DOMAIN live \ {p} : m[q] = live[q]
  BY <1>m DEF Minus
<1>g. PICK g : g = With(m, p, size, align)
  OBVIOUS
<1>7. /\ g = [q \in DOMAIN live |-> g[q]]
      /\ DOMAIN g = DOMAIN live /\ g[p] = [size |-> size, align |-> align]
      /\ \A q \in DOMAIN live \ {p} : g[q] = live[q]
  BY <1>6, <1>g DEF With
<1>8. live' = g
  BY <1>1, <1>5, <1>g, <1>m
<1>9. Blocks(live) /\ Blocks(g)
  BY <1>3, <1>5, <1>8 DEF LiveOK
<1>10. Memory!Room(p, size, DOMAIN live \ {p})
  <2>1. g[p].size = size
    BY <1>7
  <2>2. PoolStart <= p /\ p + size <= PoolEnd
    BY <1>7, <1>9, <2>1 DEF Blocks
  <2>3. ASSUME NEW q \in DOMAIN live \ {p}
        PROVE  q + live[q].size <= p \/ p + size <= q
    <3>1. q + g[q].size <= p \/ p + g[p].size <= q
      BY <1>7, <1>9 DEF Blocks
    <3> QED
      BY <1>7, <2>1, <3>1
  <2> QED
    BY <2>2, <2>3 DEF Memory!Room
<1>11. g = [live EXCEPT ![p].size = size]
  <2>1. live[p] \in [size : Sizes, align : Aligns]
    BY <1>9 DEF Blocks
  <2>2. [live[p] EXCEPT !.size = size] = [size |-> size, align |-> align]
    BY <1>5, <2>1
  <2>e. PICK e : e = [live EXCEPT ![p].size = size]
    OBVIOUS
  <2>3. /\ e = [q \in DOMAIN live |-> e[q]]
        /\ e[p] = [live[p] EXCEPT !.size = size]
        /\ \A q \in DOMAIN live \ {p} : e[q] = live[q]
    BY <2>e
  <2>4. \A q \in DOMAIN live : e[q] = g[q]
    BY <1>7, <2>2, <2>3
  <2> QED
    BY <1>7, <2>3, <2>4, <2>e
<1>12. Memory!Resize(p, size)
  BY <1>2, <1>8, <1>10, <1>11 DEF Memory!Resize
<1> QED
  BY <1>12 DEF Memory!Next

\* reallocate moves a block, to bytes that not even the old block has, or it throws: then
\* it may have handed out a chunk as a whole for nothing.
LEMMA ReallocateMovesBlock ==
  ASSUME IInv, NEW p \in DOMAIN live, NEW size \in Sizes, NEW align \in Aligns,
         ReallocateMoves(p, size, align)
  PROVE  Memory!Next \/ UNCHANGED Memory!vars
<1>1. PICK i \in Found(chunks, p) :
        /\ AllocateDies(chunks, size, align) = {}
        /\ \E a \in Allocated(chunks, size, align) :
             /\ UNCHANGED live \/ live' = With(Minus(live, p), a.ptr, size, align)
             /\ whole' = (whole \/ a.whole)
  BY DEF ReallocateMoves, Without, Minus
<1>2. PICK a \in Allocated(chunks, size, align) :
        /\ UNCHANGED live \/ live' = With(Minus(live, p), a.ptr, size, align)
        /\ whole' = (whole \/ a.whole)
  BY <1>1
<1>3. failure = "none"
  BY DEF ReallocateMoves, Alive
<1>b. PICK b : b = a.ptr
  OBVIOUS
<1>4. /\ b \notin DOMAIN live /\ whole \in BOOLEAN /\ whole' \in BOOLEAN
      /\ Memory!Room(b, size, DOMAIN live) /\ Memory!AlignedOrNot(b, align)
  BY <1>1, <1>2, <1>3, <1>b, AllocatedBlock
<1>5. CASE live' = live
  <2>1. CASE whole' = whole
    BY <1>5, <2>1 DEF Memory!vars
  <2>2. CASE whole' # whole
    <3>1. ~whole' = FALSE
      BY <1>2, <1>4, <2>2
    <3> QED
      BY <1>5, <3>1 DEF Memory!GiveUpAlignment, Memory!Next
  <2> QED
    BY <2>1, <2>2
<1>6. CASE live' = With(Minus(live, p), b, size, align)
  <2>m. PICK m : m = Minus(live, p)
    OBVIOUS
  <2>1. DOMAIN m = DOMAIN live \ {p} /\ \A q \in DOMAIN live \ {p} : m[q] = live[q]
    BY <2>m DEF Minus
  <2>2. live' = [q \in DOMAIN m \cup {b} |->
                   IF q = b THEN [size |-> size, align |-> align] ELSE m[q]]
    BY <1>6, <2>m DEF With
  <2>3. ASSUME NEW q \in DOMAIN m \cup {b}
        PROVE  (IF q = b THEN [size |-> size, align |-> align] ELSE m[q])
                 = (IF q = b THEN [size |-> size, align |-> align] ELSE live[q])
    BY <2>1
  <2>4. live' = Memory!Plus(DOMAIN live \ {p}, b, size, align)
    BY <2>1, <2>2, <2>3 DEF Memory!Plus
  <2>5. Memory!Move(p, b, size, align)
    BY <1>4, <2>4 DEF Memory!Move
  <2>6. b \in DOMAIN live' \ DOMAIN live
    BY <1>4, <2>2
  <2> QED
    BY <2>5, <2>6 DEF Memory!Next
<1> QED
  BY <1>2, <1>5, <1>6, <1>b

\* A program that dies leaves the blocks as they are.
LEMMA DyingIsSilent ==
  ASSUME UNCHANGED live, whole \in BOOLEAN, whole' \in BOOLEAN, whole => whole'
  PROVE  Memory!Next \/ UNCHANGED Memory!vars
<1>1. CASE whole' = whole
  BY <1>1 DEF Memory!vars
<1>2. CASE whole' # whole
  <2>1. ~whole' = FALSE
    BY <1>2
  <2> QED
    BY <2>1 DEF Memory!GiveUpAlignment, Memory!Next
<1> QED
  BY <1>1, <1>2

\* reallocate that breaks a contract or an assertion.
LEMMA DyingInReallocate ==
  ASSUME IInv, NEW p \in DOMAIN live, NEW size \in Sizes, NEW align \in Aligns,
         DiesInReallocate(p, size, align)
  PROVE  Memory!Next \/ UNCHANGED Memory!vars
<1>1. failure = "none"
  BY DEF DiesInReallocate, Alive
<1>2. whole \in BOOLEAN /\ ListOK(chunks, whole) /\ LiveOK(chunks, whole, live)
  BY <1>1 DEF IInv
<1>3. /\ UNCHANGED live
      /\ \/ whole' = whole
         \/ /\ AllocateDies(chunks, size, align) = {}
            /\ \E a \in Allocated(chunks, size, align) : whole' = (whole \/ a.whole)
  BY DEF DiesInReallocate, Dies
<1>4. whole' \in BOOLEAN /\ (whole => whole')
  <2>1. CASE whole' = whole
    BY <1>2, <2>1
  <2>2. CASE /\ AllocateDies(chunks, size, align) = {}
             /\ \E a \in Allocated(chunks, size, align) : whole' = (whole \/ a.whole)
    <3>1. PICK a \in Allocated(chunks, size, align) : whole' = (whole \/ a.whole)
      BY <2>2
    <3>2. Gives(chunks, whole, live, size, align, a)
      BY <1>2, <2>2, AllocatedIs
    <3>3. a.whole \in BOOLEAN
      BY <3>2 DEF Gives
    <3> QED
      BY <1>2, <3>1, <3>3
  <2> QED
    BY <1>3, <2>1, <2>2
<1> QED
  BY <1>2, <1>3, <1>4, DyingIsSilent

\* Every step of the pool is one of the abstract blocks, or changes none.
LEMMA StepsOnBlocks ==
  ASSUME IInv, [Next]_vars
  PROVE  [Memory!Next]_Memory!vars
<1>0. whole \in BOOLEAN
  BY DEF IInv
<1>1. ASSUME NEW size \in Sizes, NEW align \in Aligns, Allocate(size, align)
      PROVE  Memory!Next
  BY <1>1, AllocateGives
<1>2. ASSUME NEW size \in Sizes, NEW align \in Aligns, DiesInAllocate(size, align)
      PROVE  Memory!Next \/ UNCHANGED Memory!vars
  BY <1>0, <1>2, DyingIsSilent DEF DiesInAllocate, Dies
<1>3. ASSUME NEW p \in DOMAIN live, NEW size \in Sizes, NEW align \in Aligns,
             ReallocateInPlace(p, size, align)
      PROVE  Memory!Next
  BY <1>3, InPlaceResizes
<1>4. ASSUME NEW p \in DOMAIN live, NEW size \in Sizes, NEW align \in Aligns,
             ReallocateMoves(p, size, align)
      PROVE  Memory!Next \/ UNCHANGED Memory!vars
  BY <1>4, ReallocateMovesBlock
<1>5. ASSUME NEW p \in DOMAIN live, NEW size \in Sizes, NEW align \in Aligns,
             DiesInReallocate(p, size, align)
      PROVE  Memory!Next \/ UNCHANGED Memory!vars
  BY <1>5, DyingInReallocate
<1>6. ASSUME NEW p \in DOMAIN live, Deallocate(p)
      PROVE  Memory!Next
  BY <1>6, DeallocateTakesBack
<1>7. ASSUME NEW p \in DOMAIN live, DiesInGetHeader(p)
      PROVE  Memory!Next \/ UNCHANGED Memory!vars
  BY <1>0, <1>7, DyingIsSilent DEF DiesInGetHeader, Dies
<1>8. CASE UNCHANGED vars
  BY <1>8 DEF vars, Memory!vars
<1> HIDE DEF IInv
<1> QED
  BY <1>1, <1>2, <1>3, <1>4, <1>5, <1>6, <1>7, <1>8 DEF Next

\* For any pool, header, sizes and alignments the pool implements DisjointBlocks: each call
\* gives, takes back, resizes or moves one block, onto bytes of the pool that no client has -
\* the one that moves included, so that reallocate can copy its data - and leaves the
\* others alone; and a block is aligned unless a chunk was handed out as a whole.
THEOREM PoolImplementsBlocks == Spec => ImplementsBlocks
<1>1. Init => Memory!Init
  BY DEF Init, Memory!Init
<1>2. IInv /\ [Next]_vars => [Memory!Next]_Memory!vars
  BY StepsOnBlocks
<1> HIDE DEF IInv
<1> QED
  BY <1>1, <1>2, IInvHolds, PTL DEF Spec, ImplementsBlocks, Memory!Spec
=============================================================================
