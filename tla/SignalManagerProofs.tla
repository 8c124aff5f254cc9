------------------------- MODULE SignalManagerProofs -------------------------
(***************************************************************************)
(* Proofs about SignalManager, for any signals, ids and bounds: the three  *)
(* records of a signal and the kernel agree after every operation, nobody  *)
(* changes the callbacks a handler walks through, and a handler calls all  *)
(* of them.                                                                *)
(*                                                                         *)
(* What a handler walks through is flattened from lists by recursion; that *)
(* the result is a sequence needs induction, which is done on a set of     *)
(* numbers.                                                                *)
(***************************************************************************)
EXTENDS SignalManager, Integers, WellFoundedInduction, SequenceTheorems, TLAPS

(***************************************************************************)
(* Induction                                                               *)
(***************************************************************************)

\* A non-empty set of numbers has a least element.
LEMMA Least ==
  ASSUME NEW T \in SUBSET Nat, T # {}
  PROVE  \E x \in T : \A y \in T : x <= y
<1> DEFINE R == {ss \in Nat \X Nat : ss[1] < ss[2]}
<1>0. IsWellFoundedOn(R, Nat)
  BY NatLessThanWellFounded DEF OpToRel
<1> HIDE DEF R
<1>1. PICK x \in T : \A y \in T : ~(<<y, x>> \in R)
  BY <1>0, WFMin
<1>2. \A u, v \in Nat : u < v => <<u, v>> \in R
  BY DEF R
<1>3. ASSUME NEW y \in T PROVE x <= y
  <2>1. x \in Nat /\ y \in Nat
    OBVIOUS
  <2>2. ~(<<y, x>> \in R)
    BY <1>1
  <2>3. ~(y < x)
    BY <2>1, <2>2, <1>2
  <2> QED
    BY <2>1, <2>3
<1> QED
  BY <1>3

\* A set of numbers with 0 and the successors of its elements is Nat.
LEMMA SetInduction ==
  ASSUME NEW S \in SUBSET Nat, 0 \in S, \A n \in S : n + 1 \in S
  PROVE  S = Nat
<1> DEFINE T == Nat \ S
<1>1. SUFFICES ASSUME T # {} PROVE FALSE
  OBVIOUS
<1>2. PICK x \in T : \A y \in T : x <= y
  BY <1>1, Least
<1>3. x # 0 /\ x - 1 \in Nat
  OBVIOUS
<1>4. x - 1 \in S
  BY <1>2, <1>3
<1>5. (x - 1) + 1 = x
  BY <1>3
<1> QED
  BY <1>4, <1>5

\* Flattened lists of numbers are a list of numbers.
LEMMA FlattenIsSeq ==
  ASSUME NEW seqs \in Seq(Seq(Nat))
  PROVE  FlattenSeq(seqs) \in Seq(Nat)
<1> DEFINE N == Len(seqs)
           Defines(g) == g = [i \in 1 .. N |-> IF i = 1 THEN seqs[i] ELSE g[i - 1] \o seqs[i]]
           UpTo(n, g) == \A i \in 1 .. N : i <= n => g[i] = IF i = 1 THEN seqs[i] ELSE g[i - 1] \o seqs[i]
           S == {n \in Nat : \E g \in [1 .. N -> Seq(Nat)] : UpTo(n, g)}
<1>1. CASE N = 0
  BY <1>1 DEF FlattenSeq
<1>2. CASE N # 0
  <2>0. N \in Nat
    OBVIOUS
  <2>1. \A i \in 1 .. N : seqs[i] \in Seq(Nat)
    OBVIOUS
  <2>2. 0 \in S
    <3>1. [i \in 1 .. N |-> <<>>] \in [1 .. N -> Seq(Nat)]
      OBVIOUS
    <3>2. UpTo(0, [i \in 1 .. N |-> <<>>])
      BY <2>0
    <3> QED
      BY <3>1, <3>2
  <2>3. ASSUME NEW n \in S PROVE n + 1 \in S
    <3>1. n \in Nat
      OBVIOUS
    <3>2. PICK g \in [1 .. N -> Seq(Nat)] : UpTo(n, g)
      OBVIOUS
    <3>3. PICK x : x = IF n = 0 THEN seqs[1] ELSE g[n] \o seqs[n + 1]
      OBVIOUS
    <3>4. CASE n + 1 > N
      <4>1. \A i \in 1 .. N : i <= n
        BY <2>0, <3>1, <3>4
      <4>2. UpTo(n + 1, g)
        BY <3>2, <4>1
      <4>3. n + 1 \in Nat
        BY <3>1
      <4> HIDE DEF UpTo
      <4> QED
        BY <4>2, <4>3
    <3>5. CASE n + 1 <= N
      <4>1. n = 0 => x \in Seq(Nat)
        BY <1>2, <2>0, <2>1, <3>3
      <4>2. n # 0 => n \in 1 .. N /\ n + 1 \in 1 .. N
        BY <2>0, <3>1, <3>5
      <4>3. n # 0 => g[n] \in Seq(Nat) /\ seqs[n + 1] \in Seq(Nat)
        BY <2>1, <4>2
      <4>4. x \in Seq(Nat)
        BY <4>1, <4>3, <3>3
      <4> DEFINE h == [g EXCEPT ![n + 1] = x]
      <4>5. h \in [1 .. N -> Seq(Nat)] /\ (n + 1 \in 1 .. N => h[n + 1] = x)
            /\ \A i \in 1 .. N : i # n + 1 => h[i] = g[i]
        BY <4>4
      <4> HIDE DEF h
      <4>6. ASSUME NEW i \in 1 .. N, i <= n + 1
            PROVE  h[i] = IF i = 1 THEN seqs[i] ELSE h[i - 1] \o seqs[i]
        <5>1. CASE i = n + 1
          <6>1. h[i] = x
            BY <4>5, <5>1
          <6>2. i # 1 => n # 0 /\ n \in 1 .. N /\ n # n + 1 /\ i - 1 = n
            BY <2>0, <3>1, <5>1
          <6>3. i # 1 => h[i - 1] = g[n]
            BY <4>5, <6>2
          <6>4. i = 1 => n = 0
            BY <3>1, <5>1
          <6> QED
            BY <3>3, <5>1, <6>1, <6>2, <6>3, <6>4
        <5>2. CASE i # n + 1
          <6>1. i <= n /\ i # n + 1 /\ (i # 1 => i - 1 \in 1 .. N /\ i - 1 # n + 1)
            BY <2>0, <3>1, <5>2, <4>6
          <6>2. h[i] = g[i] /\ (i # 1 => h[i - 1] = g[i - 1])
            BY <4>5, <6>1
          <6> QED
            BY <3>2, <6>1, <6>2
        <5> QED
          BY <5>1, <5>2
      <4>7. UpTo(n + 1, h)
        BY <4>6
      <4>8. n + 1 \in Nat /\ h \in [1 .. N -> Seq(Nat)]
        BY <3>1, <4>5
      <4> HIDE DEF UpTo
      <4> QED
        BY <4>7, <4>8
    <3>6. n + 1 > N \/ n + 1 <= N
      BY <2>0, <3>1
    <3> HIDE DEF S, UpTo
    <3> QED
      BY <3>4, <3>5, <3>6
  <2>4. S = Nat
    <3>1. S \in SUBSET Nat
      OBVIOUS
    <3> HIDE DEF S
    <3> QED
      BY <2>2, <2>3, <3>1, SetInduction
  <2>5. PICK g \in [1 .. N -> Seq(Nat)] : UpTo(N, g)
    BY <2>0, <2>4
  <2>6. Defines(g)
    <3>1. \A i \in 1 .. N : g[i] = IF i = 1 THEN seqs[i] ELSE g[i - 1] \o seqs[i]
      <4> SUFFICES ASSUME NEW i \in 1 .. N
                   PROVE  g[i] = IF i = 1 THEN seqs[i] ELSE g[i - 1] \o seqs[i]
        OBVIOUS
      <4>1. i <= N
        BY <2>0
      <4> QED
        BY <2>5, <4>1
    <3> QED
      BY <3>1
  <2> DEFINE f == CHOOSE u : Defines(u)
  <2>7. Defines(f)
    BY <2>6
  <2>8. FlattenSeq(seqs) = f[N]
    BY <1>2 DEF FlattenSeq
  <2> HIDE DEF f
  \* any function of the definition has sequences for values
  <2> DEFINE V == {n \in Nat : \A i \in 1 .. N : i <= n => f[i] \in Seq(Nat)}
  <2>9. 0 \in V
    BY <2>0
  <2>10. ASSUME NEW n \in V PROVE n + 1 \in V
    <3>1. n \in Nat /\ \A i \in 1 .. N : i <= n => f[i] \in Seq(Nat)
      OBVIOUS
    <3>2. ASSUME NEW i \in 1 .. N, i = n + 1 PROVE f[i] \in Seq(Nat)
      <4>1. f[i] = IF i = 1 THEN seqs[i] ELSE f[i - 1] \o seqs[i]
        BY <2>7
      <4>2. i # 1 => i - 1 \in 1 .. N /\ i - 1 <= n
        BY <2>0, <3>1, <3>2
      <4>3. i # 1 => f[i - 1] \in Seq(Nat)
        BY <3>1, <4>2
      <4> QED
        BY <2>1, <4>1, <4>3
    <3> QED
      BY <2>0, <3>1, <3>2
  <2>11. V = Nat
    <3>1. V \in SUBSET Nat
      OBVIOUS
    <3> HIDE DEF V
    <3> QED
      BY <2>9, <2>10, <3>1, SetInduction
  <2>12. N \in V /\ N \in 1 .. N
    <3> HIDE DEF V
    <3> QED
      BY <1>2, <2>0, <2>11
  <2>13. f[N] \in Seq(Nat)
    BY <2>0, <2>12
  <2> QED
    BY <2>8, <2>13
<1> QED
  BY <1>1, <1>2

(***************************************************************************)
(* Lists                                                                   *)
(***************************************************************************)

\* Removing one element keeps the others, in order.
LEMMA RemoveAtFacts ==
  ASSUME NEW X, NEW list \in Seq(X), NEW i \in 1 .. Len(list)
  PROVE  /\ RemoveAt(list, i) \in Seq(X)
         /\ Len(RemoveAt(list, i)) = Len(list) - 1
         /\ \A j \in 1 .. Len(list) - 1 :
              RemoveAt(list, i)[j] = list[IF j < i THEN j ELSE j + 1]
<1> DEFINE a == SubSeq(list, 1, i - 1)
           b == SubSeq(list, i + 1, Len(list))
<1>1. a \in Seq(X) /\ Len(a) = i - 1 /\ \A j \in 1 .. i - 1 : a[j] = list[j]
  OBVIOUS
<1>2. b \in Seq(X) /\ Len(b) = Len(list) - i /\ \A j \in 1 .. Len(list) - i : b[j] = list[j + i]
  OBVIOUS
<1>3. RemoveAt(list, i) = a \o b
  BY DEF RemoveAt
<1>4. Len(list) \in Nat /\ i \in Nat
  OBVIOUS
<1> HIDE DEF a, b
<1>5. /\ a \o b \in Seq(X) /\ Len(a \o b) = Len(a) + Len(b)
      /\ \A j \in 1 .. Len(a) + Len(b) : (a \o b)[j] = IF j <= Len(a) THEN a[j] ELSE b[j - Len(a)]
  BY <1>1, <1>2, ConcatProperties
<1>6. ASSUME NEW j \in 1 .. Len(list) - 1
      PROVE  (a \o b)[j] = list[IF j < i THEN j ELSE j + 1]
  <2>1. j \in 1 .. Len(a) + Len(b)
    BY <1>1, <1>2, <1>4
  <2>2. CASE j < i
    <3>1. j <= Len(a) /\ j \in 1 .. i - 1
      BY <1>1, <1>4, <2>2
    <3> QED
      BY <1>1, <1>5, <2>1, <2>2, <3>1
  <2>3. CASE ~(j < i)
    <3>1. ~(j <= Len(a)) /\ j - Len(a) \in 1 .. Len(list) - i /\ (j - Len(a)) + i = j + 1
      BY <1>1, <1>4, <2>3
    <3>2. (a \o b)[j] = b[j - Len(a)]
      BY <1>5, <2>1, <3>1
    <3>3. b[j - Len(a)] = list[(j - Len(a)) + i]
      BY <1>2, <3>1
    <3> QED
      BY <2>3, <3>1, <3>2, <3>3
  <2> QED
    BY <2>2, <2>3
<1> QED
  BY <1>1, <1>2, <1>3, <1>4, <1>5, <1>6

\* The entries of one signal when n callbacks were registered: none is empty, and
\* their ids differ.
EntryUpTo(n) == [id : Id, callbacks : Seq(1 .. n)]

Good(list, n) ==
  /\ list \in Seq(EntryUpTo(n))
  /\ \A i \in DOMAIN list : list[i].callbacks # <<>>
  /\ \A i, j \in DOMAIN list : list[i].id = list[j].id => i = j

\* Entries stay good when more callbacks are registered elsewhere.
LEMMA GoodLater ==
  ASSUME NEW n \in Nat, NEW list, Good(list, n)
  PROVE  Good(list, n + 1)
<1>1. \A c \in Seq(1 .. n) : c \in Seq(1 .. n + 1)
  OBVIOUS
<1>2. EntryUpTo(n) \subseteq EntryUpTo(n + 1)
  BY <1>1 DEF EntryUpTo
<1>3. list \in Seq(EntryUpTo(n + 1))
  BY <1>2 DEF Good
<1> QED
  BY <1>3 DEF Good

\* Entries stay good when one of them is erased.
LEMMA GoodWithout ==
  ASSUME NEW n \in Nat, NEW list, Good(list, n), NEW i \in DOMAIN list
  PROVE  Good(RemoveAt(list, i), n)
<1>0. list \in Seq(EntryUpTo(n)) /\ Len(list) \in Nat /\ DOMAIN list = 1 .. Len(list)
  BY DEF Good
<1>a. PICK r : r = RemoveAt(list, i)
  OBVIOUS
<1>1. /\ r \in Seq(EntryUpTo(n)) /\ Len(r) = Len(list) - 1
      /\ \A j \in 1 .. Len(list) - 1 : r[j] = list[IF j < i THEN j ELSE j + 1]
  BY <1>0, <1>a, RemoveAtFacts
<1>2. DOMAIN r = 1 .. Len(list) - 1
  BY <1>1
<1>3. \A j \in DOMAIN r : (IF j < i THEN j ELSE j + 1) \in DOMAIN list
  BY <1>0, <1>2
<1>4. \A j \in DOMAIN r : r[j].callbacks # <<>>
  BY <1>1, <1>2, <1>3 DEF Good
<1>5. ASSUME NEW j \in DOMAIN r, NEW k \in DOMAIN r, r[j].id = r[k].id
      PROVE  j = k
  <2>1. PICK x, y \in DOMAIN list :
          x = (IF j < i THEN j ELSE j + 1) /\ y = (IF k < i THEN k ELSE k + 1)
    BY <1>3
  <2>2. r[j] = list[x] /\ r[k] = list[y]
    BY <1>1, <1>2, <2>1
  <2>3. x = y
    BY <1>5, <2>2 DEF Good
  <2> QED
    BY <1>0, <1>2, <2>1, <2>3
<1> QED
  BY <1>1, <1>a, <1>4, <1>5 DEF Good

\* Entries are good after one callback more, and there are some.
LEMMA GoodAdded ==
  ASSUME NEW s \in Signal, NEW id \in Id, NEW n \in Nat, Good(signal_callbacks[s], n)
  PROVE  Good(Added(s, id, n + 1), n + 1) /\ Added(s, id, n + 1) # <<>>
<1> PICK list : list = signal_callbacks[s]
  OBVIOUS
<1>0. /\ Good(list, n + 1) /\ list \in Seq(EntryUpTo(n + 1))
      /\ Len(list) \in Nat /\ DOMAIN list = 1 .. Len(list)
  BY GoodLater DEF Good
<1>1. CASE id \in IdsOf(s)
  <2>1. PICK i \in DOMAIN list : i = Position(s, id) /\ list[i].id = id
    BY <1>1 DEF IdsOf, Entries, ToSet, Position
  <2>2. list[i] \in EntryUpTo(n + 1)
    BY <1>0
  <2>3. list[i].callbacks \in Seq(1 .. n + 1) /\ n + 1 \in 1 .. n + 1
    BY <2>2 DEF EntryUpTo
  <2>a. PICK c : c = Append(list[i].callbacks, n + 1)
    OBVIOUS
  <2>4. c \in Seq(1 .. n + 1) /\ c # <<>>
    BY <2>3, <2>a
  <2>b. PICK e : e = [list[i] EXCEPT !.callbacks = c]
    OBVIOUS
  <2>5. e \in EntryUpTo(n + 1) /\ e.id = list[i].id /\ e.callbacks = c
    BY <2>2, <2>4, <2>b DEF EntryUpTo
  <2>6. Added(s, id, n + 1) = [list EXCEPT ![i] = e]
    BY <1>1, <2>1, <2>a, <2>b DEF Added
  <2>c. PICK r : r = [list EXCEPT ![i] = e]
    OBVIOUS
  <2>7. /\ DOMAIN r = DOMAIN list /\ r[i] = e /\ r \in Seq(EntryUpTo(n + 1))
        /\ \A j \in DOMAIN list \ {i} : r[j] = list[j]
    BY <1>0, <2>5, <2>c
  <2>8. \A j \in DOMAIN r : r[j].id = list[j].id
    BY <2>5, <2>7
  <2>9. \A j \in DOMAIN r : r[j].callbacks # <<>>
    BY <1>0, <2>4, <2>5, <2>7 DEF Good
  <2>10. Good(r, n + 1)
    BY <1>0, <2>7, <2>8, <2>9 DEF Good
  <2>11. r # <<>>
    BY <2>7
  <2> QED
    BY <2>6, <2>c, <2>10, <2>11
<1>2. CASE id \notin IdsOf(s)
  <2>a. PICK e : e = [id |-> id, callbacks |-> <<n + 1>>]
    OBVIOUS
  <2>1. e \in EntryUpTo(n + 1) /\ e.callbacks # <<>> /\ e.id = id
    <3>1. <<n + 1>> \in Seq(1 .. n + 1) /\ <<n + 1>> # <<>>
      OBVIOUS
    <3> QED
      BY <2>a, <3>1 DEF EntryUpTo
  <2>b. PICK r : r = Append(list, e)
    OBVIOUS
  <2>2. Added(s, id, n + 1) = r
    BY <1>2, <2>a, <2>b DEF Added
  <2>3. /\ r \in Seq(EntryUpTo(n + 1)) /\ DOMAIN r = 1 .. Len(list) + 1
        /\ r[Len(list) + 1] = e /\ \A j \in 1 .. Len(list) : r[j] = list[j]
    BY <1>0, <2>1, <2>b
  <2>4. \A j \in 1 .. Len(list) : list[j].id # id
    BY <1>0, <1>2 DEF IdsOf, Entries, ToSet
  <2>5. \A j \in DOMAIN r : j \in 1 .. Len(list) \/ j = Len(list) + 1
    BY <1>0, <2>3
  <2>6. \A j \in DOMAIN r : r[j].callbacks # <<>>
    <3>1. \A j \in 1 .. Len(list) : list[j].callbacks # <<>>
      BY <1>0 DEF Good
    <3> QED
      BY <2>1, <2>3, <2>5, <3>1
  <2>7. \A j, k \in DOMAIN r : r[j].id = r[k].id => j = k
    <3>1. \A j, k \in 1 .. Len(list) : list[j].id = list[k].id => j = k
      BY <1>0 DEF Good
    <3>2. \A j \in 1 .. Len(list) : r[j].id = list[j].id /\ r[j].id # r[Len(list) + 1].id
      BY <2>1, <2>3, <2>4
    <3> QED
      BY <2>5, <3>1, <3>2
  <2>8. r # <<>>
    BY <1>0, <2>3
  <2> QED
    BY <2>2, <2>3, <2>6, <2>7, <2>8 DEF Good
<1> QED
  BY <1>1, <1>2

\* Entries stay good when a client unregisters one callback.
LEMMA GoodUnregistered ==
  ASSUME NEW n \in Nat, NEW list, Good(list, n), NEW i \in DOMAIN list,
         NEW k \in DOMAIN list[i].callbacks
  PROVE  Good(Unregistered(list, i, k), n)
<1>0. list \in Seq(EntryUpTo(n)) /\ Len(list) \in Nat /\ DOMAIN list = 1 .. Len(list)
  BY DEF Good
<1>1. list[i] \in EntryUpTo(n)
  BY <1>0
<1>2. list[i].callbacks \in Seq(1 .. n)
  BY <1>1 DEF EntryUpTo
<1>a. PICK left : left = RemoveAt(list[i].callbacks, k)
  OBVIOUS
<1>3. left \in Seq(1 .. n)
  <2>1. k \in 1 .. Len(list[i].callbacks)
    BY <1>2
  <2> QED
    BY <1>2, <1>a, <2>1, RemoveAtFacts
<1>4. CASE left = <<>>
  BY <1>4, <1>a, GoodWithout DEF Unregistered
<1>5. CASE left # <<>>
  <2>a. PICK e : e = [list[i] EXCEPT !.callbacks = left]
    OBVIOUS
  <2>1. e \in EntryUpTo(n) /\ e.id = list[i].id /\ e.callbacks = left
    BY <1>1, <1>3, <2>a DEF EntryUpTo
  <2>b. PICK r : r = [list EXCEPT ![i] = e]
    OBVIOUS
  <2>2. Unregistered(list, i, k) = r
    BY <1>5, <1>a, <2>a, <2>b DEF Unregistered
  <2>3. /\ DOMAIN r = DOMAIN list /\ r[i] = e /\ r \in Seq(EntryUpTo(n))
        /\ \A j \in DOMAIN list \ {i} : r[j] = list[j]
    BY <1>0, <2>1, <2>b
  <2>4. \A j \in DOMAIN r : r[j].id = list[j].id /\ r[j].callbacks # <<>>
    BY <1>5, <2>1, <2>3 DEF Good
  <2> QED
    BY <2>2, <2>3, <2>4 DEF Good
<1> QED
  BY <1>4, <1>5

\* Entries stay good when a client resets its callbacks of the signal.
LEMMA GoodErased ==
  ASSUME NEW n \in Nat, NEW s \in Signal, NEW id, Good(signal_callbacks[s], n)
  PROVE  Good(Erased(s, id), n) /\ (id \notin IdsOf(s) => Erased(s, id) = signal_callbacks[s])
<1>1. CASE id \in IdsOf(s)
  <2>1. PICK i \in DOMAIN signal_callbacks[s] : i = Position(s, id)
    BY <1>1 DEF IdsOf, Entries, ToSet, Position
  <2> QED
    BY <1>1, <2>1, GoodWithout DEF Erased
<1>2. CASE id \notin IdsOf(s)
  BY <1>2 DEF Erased
<1> QED
  BY <1>1, <1>2

(***************************************************************************)
(* The inductive invariant                                                 *)
(***************************************************************************)

\* A frame of the stack of signaled_thread.
Frame == [sig : Signal, at : {"locking", "calling"}, called : Seq(Nat), due : Seq(Nat)]

\* What holds of the tables for one signal.
SignalOK(s) ==
  /\ managed[s] \in {"DEFAULT", "USERDEFINED", "CALLBACKS"}
  /\ Good(signal_callbacks[s], registered)
  /\ s \in installed <=> managed[s] # "DEFAULT"
  /\ s \in signal_handlers <=> managed[s] = "USERDEFINED"
  /\ managed[s] = "CALLBACKS" => signal_callbacks[s] # <<>>
  /\ signal_callbacks[s] # <<>> => managed[s] = "CALLBACKS" \/ s \in orphaned
  /\ s \in Starting /\ managed[s] = "DEFAULT" => s \in uninstalled

Domains ==
  /\ DOMAIN managed = Signal /\ DOMAIN signal_callbacks = Signal
  /\ managed = [s \in Signal |-> managed[s]]
  /\ signal_callbacks = [s \in Signal |-> signal_callbacks[s]]
  /\ registered \in 0 .. MaxCallbacks
  /\ signal_handlers \subseteq Signal /\ installed \subseteq Signal
  /\ uninstalled \subseteq Signal /\ orphaned \subseteq Signal

\* The types of what is not a table.
OthersOK ==
  /\ pending \subseteq Signal /\ sent \in 0 .. MaxSent
  /\ unmasked \in BOOLEAN
  /\ fate \in {"running", "killed", "terminated"}

\* A signal is blocked while its own handler runs, so that every frame is of another
\* signal; a handler walks through what is registered.
FramesOK ==
  /\ frames \in Seq(Frame)
  /\ \A i, j \in DOMAIN frames : frames[i].sig = frames[j].sig => i = j
  /\ \A i \in DOMAIN frames : frames[i].at = "locking" => frames[i].called = <<>>
  /\ WalkIsStable

TablesOK == Domains /\ \A s \in Signal : SignalOK(s)

IInv == TablesOK /\ FramesOK /\ OthersOK

\* At the start nothing is registered and no handler runs.
LEMMA Start == Init => IInv
<1> SUFFICES ASSUME Init PROVE IInv
  OBVIOUS
<1>1. Starting = {}
  BY DEF Init, Starting
<1>2. <<>> \in Seq(EntryUpTo(0)) /\ <<>> \in Seq(Frame)
  OBVIOUS
<1>3. Good(<<>>, 0)
  BY <1>2 DEF Good
<1>4. \A s \in Signal : SignalOK(s)
  BY <1>1, <1>3 DEF Init, SignalOK
<1>5. Domains /\ OthersOK
  <2>1. registered \in 0 .. MaxCallbacks /\ sent \in 0 .. MaxSent
    BY SignalAssumption DEF Init
  <2>2. managed = [s \in Signal |-> managed[s]] /\ signal_callbacks = [s \in Signal |-> signal_callbacks[s]]
    BY DEF Init
  <2> QED
    BY <2>1, <2>2 DEF Init, Domains, OthersOK
<1>6. FramesOK
  BY <1>2 DEF Init, FramesOK, WalkIsStable
<1> QED
  BY <1>4, <1>5, <1>6 DEF IInv, TablesOK

\* Callbacks to go through are a sequence of numbers.
LEMMA CallbacksAreSeq ==
  ASSUME NEW s \in Signal, SignalOK(s), registered \in Nat
  PROVE  CallbacksOf(s) \in Seq(Nat)
<1> PICK list : list = signal_callbacks[s]
  OBVIOUS
<1>1. list \in Seq(EntryUpTo(registered)) /\ DOMAIN list = 1 .. Len(list) /\ Len(list) \in Nat
  BY DEF SignalOK, Good
<1>2. \A i \in DOMAIN list : list[i].callbacks \in Seq(Nat)
  <2> SUFFICES ASSUME NEW i \in DOMAIN list PROVE list[i].callbacks \in Seq(Nat)
    OBVIOUS
  <2>1. list[i] \in EntryUpTo(registered)
    BY <1>1
  <2>2. list[i].callbacks \in Seq(1 .. registered)
    BY <2>1 DEF EntryUpTo
  <2> QED
    BY <2>2
<1>3. [i \in DOMAIN list |-> list[i].callbacks] \in Seq(Seq(Nat))
  BY <1>1, <1>2
<1> QED
  BY <1>3, FlattenIsSeq DEF CallbacksOf

\* So is what a handler of either kind goes through.
LEMMA WalkedIsSeq ==
  ASSUME IInv, NEW f \in Frame
  PROVE  Walked(f) \in Seq(Nat)
<1>1. f.sig \in Signal /\ registered \in Nat
  BY DEF Frame, IInv, TablesOK, Domains
<1>2. CallbacksOf(f.sig) \in Seq(Nat)
  BY <1>1, CallbacksAreSeq DEF IInv, TablesOK
<1>3. <<0>> \in Seq(Nat) /\ <<>> \in Seq(Nat)
  OBVIOUS
<1> QED
  BY <1>2, <1>3 DEF Walked

(***************************************************************************)
(* Steps of the clients                                                    *)
(***************************************************************************)

\* While an operation runs no handler is past its locks, so that nobody walks.
LEMMA Unseen ==
  ASSUME IInv, Operation
  PROVE  FramesOK' /\ OthersOK' /\ Starting' = Starting
<1>1. \A i \in DOMAIN frames : frames[i].at # "calling"
  BY DEF Operation, Locked
<1>2. UNCHANGED frames /\ UNCHANGED <<pending, unmasked, fate, sent>>
  BY DEF Operation
<1>3. WalkIsStable'
  BY <1>1, <1>2 DEF WalkIsStable
<1> QED
  BY <1>2, <1>3 DEF IInv, FramesOK, OthersOK, Starting

\* A signal whose entries are gone, or stay good, may be uninstalled.
LEMMA Uninstalling ==
  ASSUME TablesOK, NEW S \in SUBSET Signal, Uninstall(S), Starting' = Starting,
         registered' = registered, orphaned' \subseteq Signal, orphaned \subseteq orphaned',
         signal_callbacks' = [s \in Signal |-> signal_callbacks'[s]],
         \A s \in Signal : Good(signal_callbacks'[s], registered),
         \A s \in Signal : s \notin S =>
           (signal_callbacks'[s] = <<>> <=> signal_callbacks[s] = <<>>),
         \A s \in S : signal_callbacks'[s] = <<>> \/ s \in orphaned'
  PROVE  TablesOK'
<1>1. /\ managed' = [s \in Signal |-> IF s \in S THEN "DEFAULT" ELSE managed[s]]
      /\ signal_handlers' = signal_handlers \ S
      /\ installed' = installed \ S
      /\ uninstalled' = uninstalled \cup (S \cap Starting)
  BY DEF Uninstall
<1>2. Domains'
  <2>1. DOMAIN signal_callbacks' = Signal
    BY Zenon
  <2> QED
    BY <1>1, <2>1 DEF TablesOK, Domains
<1>3. ASSUME NEW s \in Signal PROVE SignalOK(s)'
  <2>1. Good(signal_callbacks[s], registered)' /\ SignalOK(s)
    BY DEF TablesOK
  <2>2. CASE s \in S
    <3>1. managed'[s] = "DEFAULT" /\ s \notin signal_handlers' /\ s \notin installed'
          /\ (s \in Starting => s \in uninstalled')
      BY <1>1, <2>2
    <3> QED
      BY <2>1, <2>2, <3>1 DEF SignalOK
  <2>3. CASE s \notin S
    <3>1. /\ managed'[s] = managed[s] /\ (s \in signal_handlers' <=> s \in signal_handlers)
          /\ (s \in installed' <=> s \in installed) /\ (s \in uninstalled => s \in uninstalled')
      BY <1>1, <2>3
    <3>2. signal_callbacks'[s] = <<>> <=> signal_callbacks[s] = <<>>
      BY <2>3
    <3> QED
      BY <2>1, <3>1, <3>2 DEF SignalOK
  <2> QED
    BY <2>2, <2>3
<1> QED
  BY <1>2, <1>3 DEF TablesOK

\* register_callback keeps the tables.
LEMMA RegisterStep ==
  ASSUME IInv, NEW s \in Signal, NEW id \in Id, RegisterCallback(s, id)
  PROVE  TablesOK'
<1>1. /\ Operation /\ registered < MaxCallbacks /\ managed[s] # "USERDEFINED"
      /\ managed' = [managed EXCEPT ![s] = "CALLBACKS"]
      /\ installed' = installed \cup {s}
      /\ registered' = registered + 1
      /\ signal_callbacks' = [signal_callbacks EXCEPT ![s] = Added(s, id, registered')]
      /\ orphaned' = orphaned \ {s}
      /\ UNCHANGED <<signal_handlers, uninstalled>>
  BY DEF RegisterCallback
<1>2. Starting' = Starting
  BY <1>1, Unseen
<1>3. Domains'
  <2>1. registered' \in 0 .. MaxCallbacks
    BY <1>1, SignalAssumption DEF IInv, TablesOK, Domains
  <2>2. /\ DOMAIN managed' = Signal /\ DOMAIN signal_callbacks' = Signal
        /\ managed' = [r \in Signal |-> managed'[r]]
        /\ signal_callbacks' = [r \in Signal |-> signal_callbacks'[r]]
    BY <1>1 DEF IInv, TablesOK, Domains
  <2>3. installed' \subseteq Signal /\ orphaned' \subseteq Signal
    BY <1>1 DEF IInv, TablesOK, Domains
  <2> QED
    BY <1>1, <2>1, <2>2, <2>3 DEF IInv, TablesOK, Domains
<1>4. registered \in Nat /\ DOMAIN managed = Signal /\ DOMAIN signal_callbacks = Signal
  BY DEF IInv, TablesOK, Domains
<1>5. ASSUME NEW r \in Signal PROVE SignalOK(r)'
  <2>1. SignalOK(r) /\ Good(signal_callbacks[r], registered)
    BY DEF IInv, TablesOK, SignalOK
  <2>2. CASE r = s
    <3>1. signal_callbacks'[r] = Added(s, id, registered + 1) /\ managed'[r] = "CALLBACKS"
      BY <1>1, <1>4, <2>2
    <3>2. Good(signal_callbacks[r], registered)' /\ signal_callbacks'[r] # <<>>
      BY <1>1, <1>4, <2>1, <2>2, <3>1, GoodAdded
    <3>3. r \in installed' /\ r \notin signal_handlers'
      BY <1>1, <2>1, <2>2 DEF SignalOK
    <3> QED
      BY <3>1, <3>2, <3>3 DEF SignalOK
  <2>3. CASE r # s
    <3>1. signal_callbacks'[r] = signal_callbacks[r] /\ managed'[r] = managed[r]
      BY <1>1, <1>4, <2>3
    <3>2. Good(signal_callbacks[r], registered)'
      BY <1>1, <1>4, <2>1, <3>1, GoodLater
    <3>3. /\ r \in installed' <=> r \in installed
          /\ r \in signal_handlers' <=> r \in signal_handlers
          /\ r \in orphaned' <=> r \in orphaned
          /\ r \in uninstalled' <=> r \in uninstalled
      BY <1>1, <2>3
    <3> QED
      BY <1>2, <2>1, <3>1, <3>2, <3>3 DEF SignalOK
  <2> QED
    BY <2>2, <2>3
<1> QED
  BY <1>3, <1>5 DEF TablesOK

\* unregister_callback keeps the tables.
LEMMA UnregisterStep ==
  ASSUME IInv, NEW s \in Signal, NEW i \in DOMAIN signal_callbacks[s],
         NEW k \in DOMAIN signal_callbacks[s][i].callbacks, UnregisterCallback(s, i, k)
  PROVE  TablesOK'
<1>1. /\ Operation
      /\ signal_callbacks' = [signal_callbacks EXCEPT ![s] = Unregistered(signal_callbacks[s], i, k)]
      /\ Uninstall({r \in {s} : signal_callbacks'[s] = <<>>})
      /\ registered' = registered /\ orphaned' = orphaned
  BY DEF UnregisterCallback
<1>2. Starting' = Starting
  BY <1>1, Unseen
<1>3. DOMAIN signal_callbacks = Signal /\ registered \in Nat /\ orphaned \subseteq Signal
  BY DEF IInv, TablesOK, Domains
<1>4. \A r \in Signal : Good(signal_callbacks[r], registered)
  BY DEF IInv, TablesOK, SignalOK
<1>5. /\ signal_callbacks'[s] = Unregistered(signal_callbacks[s], i, k)
      /\ \A r \in Signal \ {s} : signal_callbacks'[r] = signal_callbacks[r]
      /\ signal_callbacks' = [r \in Signal |-> signal_callbacks'[r]]
  BY <1>1, <1>3
<1>6. Good(signal_callbacks'[s], registered)
  BY <1>3, <1>4, <1>5, GoodUnregistered
<1>7. signal_callbacks[s] # <<>>
  OBVIOUS
<1>8. PICK S \in SUBSET Signal : S = {r \in {s} : signal_callbacks'[s] = <<>>}
  OBVIOUS
<1>9. Uninstall(S)
  BY <1>1, <1>8
<1>10. \A r \in Signal : Good(signal_callbacks'[r], registered)
  BY <1>4, <1>5, <1>6
<1>11. \A r \in Signal : r \notin S => (signal_callbacks'[r] = <<>> <=> signal_callbacks[r] = <<>>)
  BY <1>5, <1>7, <1>8
<1>12. \A r \in S : signal_callbacks'[r] = <<>>
  BY <1>8
<1> QED
  BY <1>1, <1>2, <1>3, <1>5, <1>9, <1>10, <1>11, <1>12, Uninstalling DEF IInv

\* reset_callbacks of a signal and an id keeps the tables.
LEMMA ResetSignalStep ==
  ASSUME IInv, NEW s \in Signal, NEW id \in Id, ResetSignal(s, id)
  PROVE  TablesOK'
<1>1. /\ Operation
      /\ signal_callbacks' = [signal_callbacks EXCEPT ![s] = Erased(s, id)]
      /\ Uninstall({s})
      /\ orphaned' = IF Erased(s, id) = <<>> THEN orphaned ELSE orphaned \cup {s}
      /\ registered' = registered
  BY DEF ResetSignal
<1>2. Starting' = Starting
  BY <1>1, Unseen
<1>3. DOMAIN signal_callbacks = Signal /\ registered \in Nat /\ orphaned \subseteq Signal
  BY DEF IInv, TablesOK, Domains
<1>4. \A r \in Signal : Good(signal_callbacks[r], registered)
  BY DEF IInv, TablesOK, SignalOK
<1>5. /\ signal_callbacks'[s] = Erased(s, id)
      /\ \A r \in Signal \ {s} : signal_callbacks'[r] = signal_callbacks[r]
      /\ signal_callbacks' = [r \in Signal |-> signal_callbacks'[r]]
  BY <1>1, <1>3
<1>6. Good(signal_callbacks'[s], registered)
  BY <1>3, <1>4, <1>5, GoodErased
<1>7. orphaned' \subseteq Signal /\ orphaned \subseteq orphaned'
      /\ \A r \in {s} : signal_callbacks'[r] = <<>> \/ r \in orphaned'
  BY <1>1, <1>3, <1>5
<1>8. \A r \in Signal : Good(signal_callbacks'[r], registered)
  BY <1>4, <1>5, <1>6
<1>9. \A r \in Signal : r \notin {s} => (signal_callbacks'[r] = <<>> <=> signal_callbacks[r] = <<>>)
  BY <1>5
<1>10. {s} \in SUBSET Signal
  OBVIOUS
<1> QED
  BY <1>1, <1>2, <1>5, <1>7, <1>8, <1>9, <1>10, Uninstalling DEF IInv

\* reset_callbacks of an id keeps the tables of all signals.
LEMMA ResetIdStep ==
  ASSUME IInv, NEW id \in Id, ResetId(id)
  PROVE  TablesOK'
<1>1. PICK S \in SUBSET Signal : S = {s \in Signal : id \in IdsOf(s)}
  OBVIOUS
<1>2. PICK R \in SUBSET Signal : R = {s \in S : Erased(s, id) = <<>>}
  OBVIOUS
<1>3. /\ Operation
      /\ signal_callbacks' = [s \in Signal |-> Erased(s, id)]
      /\ Uninstall(R)
      /\ registered' = registered /\ orphaned' = orphaned
  BY <1>1, <1>2 DEF ResetId
<1>4. Starting' = Starting
  BY <1>3, Unseen
<1>5. DOMAIN signal_callbacks = Signal /\ registered \in Nat /\ orphaned \subseteq Signal
  BY DEF IInv, TablesOK, Domains
<1>6. \A r \in Signal : Good(signal_callbacks[r], registered)
  BY DEF IInv, TablesOK, SignalOK
<1>7. /\ \A r \in Signal : signal_callbacks'[r] = Erased(r, id)
      /\ signal_callbacks' = [r \in Signal |-> signal_callbacks'[r]]
  BY <1>3
<1>8. \A r \in Signal : Good(signal_callbacks'[r], registered)
  BY <1>5, <1>6, <1>7, GoodErased
<1>9. ASSUME NEW r \in Signal, r \notin R
      PROVE  signal_callbacks'[r] = <<>> <=> signal_callbacks[r] = <<>>
  <2>1. CASE r \in S
    <3>1. Erased(r, id) # <<>>
      BY <1>2, <1>9, <2>1
    <3>2. signal_callbacks[r] # <<>>
      BY <1>1, <2>1 DEF IdsOf, Entries, ToSet
    <3> QED
      BY <1>7, <3>1, <3>2
  <2>2. CASE r \notin S
    BY <1>1, <1>7, <2>2 DEF Erased
  <2> QED
    BY <2>1, <2>2
<1>10. \A r \in R : signal_callbacks'[r] = <<>>
  BY <1>2, <1>7
<1> QED
  BY <1>3, <1>4, <1>5, <1>7, <1>8, <1>9, <1>10, Uninstalling DEF IInv

\* set_signal_handler keeps the tables.
LEMMA SetHandlerStep ==
  ASSUME IInv, NEW s \in Signal, SetSignalHandler(s)
  PROVE  TablesOK'
<1>1. /\ Operation /\ managed[s] = "DEFAULT"
      /\ managed' = [managed EXCEPT ![s] = "USERDEFINED"]
      /\ signal_handlers' = signal_handlers \cup {s}
      /\ installed' = installed \cup {s}
      /\ UNCHANGED <<signal_callbacks, registered, uninstalled, orphaned>>
  BY DEF SetSignalHandler
<1>2. Starting' = Starting
  BY <1>1, Unseen
<1>3. Domains'
  BY <1>1 DEF IInv, TablesOK, Domains
<1>4. ASSUME NEW r \in Signal PROVE SignalOK(r)'
  <2>1. SignalOK(r) /\ DOMAIN managed = Signal
    BY DEF IInv, TablesOK, Domains
  <2>2. Good(signal_callbacks[r], registered)'
    BY <1>1, <2>1 DEF SignalOK
  <2>3. CASE r = s
    <3>1. managed'[r] = "USERDEFINED" /\ r \in installed' /\ r \in signal_handlers'
      BY <1>1, <2>1, <2>3
    <3> QED
      BY <1>1, <2>1, <2>2, <2>3, <3>1 DEF SignalOK
  <2>4. CASE r # s
    <3>1. /\ managed'[r] = managed[r] /\ (r \in installed' <=> r \in installed)
          /\ (r \in signal_handlers' <=> r \in signal_handlers)
      BY <1>1, <2>1, <2>4
    <3> QED
      BY <1>1, <1>2, <2>1, <2>2, <3>1 DEF SignalOK
  <2> QED
    BY <2>3, <2>4
<1> QED
  BY <1>3, <1>4 DEF TablesOK

\* remove_signal_handler keeps the tables.
LEMMA RemoveHandlerStep ==
  ASSUME IInv, NEW s \in Signal, RemoveSignalHandler(s)
  PROVE  TablesOK'
<1>1. /\ Operation /\ managed[s] = "USERDEFINED"
      /\ managed' = [r \in Signal |-> IF r \in {s} THEN "DEFAULT" ELSE managed[r]]
      /\ signal_handlers' = signal_handlers \ {s}
      /\ installed' = installed \ {s}
      /\ uninstalled' = uninstalled \cup ({s} \cap Starting)
      /\ UNCHANGED <<signal_callbacks, registered, orphaned>>
  BY DEF RemoveSignalHandler, Uninstall
<1>2. Starting' = Starting
  BY <1>1, Unseen
<1>3. Domains'
  BY <1>1 DEF IInv, TablesOK, Domains
<1>4. ASSUME NEW r \in Signal PROVE SignalOK(r)'
  <2>1. SignalOK(r) /\ Good(signal_callbacks[r], registered)'
    BY <1>1 DEF IInv, TablesOK, SignalOK
  <2>2. CASE r = s
    <3>1. managed'[r] = "DEFAULT" /\ r \notin installed' /\ r \notin signal_handlers'
          /\ (r \in Starting => r \in uninstalled')
      BY <1>1, <2>2
    <3> QED
      BY <1>1, <1>2, <2>1, <2>2, <3>1 DEF SignalOK
  <2>3. CASE r # s
    <3>1. /\ managed'[r] = managed[r] /\ (r \in installed' <=> r \in installed)
          /\ (r \in signal_handlers' <=> r \in signal_handlers)
          /\ (r \in uninstalled' <=> r \in uninstalled)
      BY <1>1, <2>3
    <3> QED
      BY <1>1, <1>2, <2>1, <3>1 DEF SignalOK
  <2> QED
    BY <2>2, <2>3
<1> QED
  BY <1>3, <1>4 DEF TablesOK

(***************************************************************************)
(* Steps of the kernel and of signaled_thread                              *)
(***************************************************************************)

\* The tables stay right when no table changes and no frame starts of a signal that is
\* not managed.
LEMMA TablesStay ==
  ASSUME TablesOK, UNCHANGED tables,
         \A s \in Starting' : s \in Starting \/ s \in installed
  PROVE  TablesOK'
<1>1. /\ UNCHANGED <<managed, signal_handlers, signal_callbacks, installed>>
      /\ UNCHANGED <<registered, uninstalled, orphaned>>
  BY DEF tables
<1>2. Domains'
  BY <1>1 DEF TablesOK, Domains
<1>3. ASSUME NEW s \in Signal PROVE SignalOK(s)'
  <2>1. SignalOK(s)
    BY DEF TablesOK
  <2>2. Good(signal_callbacks[s], registered)'
    BY <1>1, <2>1 DEF SignalOK
  <2> QED
    BY <1>1, <2>1, <2>2 DEF SignalOK
<1> QED
  BY <1>2, <1>3 DEF TablesOK

\* What a frame walks through follows from the tables alone.
LEMMA WalkedStays ==
  ASSUME UNCHANGED <<managed, signal_handlers, signal_callbacks>>,
         NEW i, frames'[i] = frames[i]
  PROVE  Walked(frames[i])' = Walked(frames[i])
BY DEF Walked, CallbacksOf

\* A step that touches neither tables nor handlers preserves the invariant.
LEMMA PlainStep ==
  ASSUME IInv, UNCHANGED tables, UNCHANGED frames, OthersOK'
  PROVE  IInv'
<1>1. Starting' = Starting
  BY DEF Starting
<1>2. TablesOK'
  BY <1>1, TablesStay DEF IInv
<1>3. UNCHANGED <<managed, signal_handlers, signal_callbacks>>
  BY DEF tables
<1>5. WalkIsStable'
  <2> SUFFICES ASSUME NEW i \in DOMAIN frames, frames[i].at = "calling"
               PROVE  Walked(frames[i])' = frames[i].due /\ IsPrefix(frames[i].called, frames[i].due)
    BY DEF WalkIsStable
  <2>1. Walked(frames[i]) = frames[i].due /\ IsPrefix(frames[i].called, frames[i].due)
    BY DEF IInv, FramesOK, WalkIsStable
  <2> QED
    BY <1>3, <2>1, WalkedStays
<1> QED
  BY <1>2, <1>5 DEF IInv, FramesOK

\* The kernel starts a handler of a signal that is not blocked.
LEMMA DeliverStep ==
  ASSUME IInv, NEW s \in Signal, Deliver(s)
  PROVE  IInv'
<1>1. /\ s \in pending /\ \A i \in DOMAIN frames : frames[i].sig # s
      /\ pending' = pending \ {s} /\ UNCHANGED tables /\ UNCHANGED <<unmasked, sent>>
  BY DEF Deliver
<1>2. CASE s \notin installed
  <2>1. fate' = "killed" /\ UNCHANGED frames
    BY <1>2 DEF Deliver
  <2> QED
    BY <1>1, <2>1, PlainStep DEF IInv, OthersOK
<1>3. CASE s \in installed
  <2>1. PICK f : f = [sig |-> s, at |-> "locking", called |-> <<>>, due |-> <<>>]
    OBVIOUS
  <2>2. f \in Frame /\ f.sig = s /\ f.at = "locking"
    <3>1. <<>> \in Seq(Nat)
      OBVIOUS
    <3> QED
      BY <2>1, <3>1 DEF Frame
  <2>3. frames' = Append(frames, f) /\ UNCHANGED fate
    BY <1>3, <2>1 DEF Deliver
  <2>4. PICK n \in Nat : n = Len(frames) /\ DOMAIN frames = 1 .. n /\ frames \in Seq(Frame)
    BY DEF IInv, FramesOK
  <2>5. /\ frames' \in Seq(Frame) /\ DOMAIN frames' = 1 .. n + 1
        /\ frames'[n + 1] = f /\ \A i \in 1 .. n : frames'[i] = frames[i]
    BY <2>2, <2>3, <2>4
  <2>6. \A i \in DOMAIN frames' : i \in 1 .. n \/ i = n + 1
    BY <2>5
  <2>7. \A i, j \in DOMAIN frames' : frames'[i].sig = frames'[j].sig => i = j
    BY <1>1, <2>2, <2>4, <2>5, <2>6 DEF IInv, FramesOK
  <2>a. \A i \in DOMAIN frames' : frames'[i].at = "locking" => frames'[i].called = <<>>
    BY <2>1, <2>4, <2>5, <2>6 DEF IInv, FramesOK
  <2>8. \A r \in Starting' : r \in Starting \/ r \in installed
    <3> SUFFICES ASSUME NEW i \in DOMAIN frames', frames'[i].at = "locking"
                 PROVE  frames'[i].sig \in Starting \/ frames'[i].sig \in installed
      BY DEF Starting
    <3>1. CASE i \in 1 .. n
      BY <2>4, <2>5, <3>1 DEF Starting
    <3>2. CASE i = n + 1
      BY <1>3, <2>2, <2>5, <3>2
    <3> QED
      BY <2>6, <3>1, <3>2
  <2>9. TablesOK'
    BY <1>1, <2>8, TablesStay DEF IInv
  <2>10. WalkIsStable'
    <3> SUFFICES ASSUME NEW i \in DOMAIN frames', frames'[i].at = "calling"
                 PROVE  Walked(frames[i])' = frames'[i].due /\ IsPrefix(frames'[i].called, frames'[i].due)
      BY DEF WalkIsStable
    <3>1. i \in 1 .. n
      BY <2>2, <2>5, <2>6
    <3>2. frames'[i] = frames[i] /\ frames[i].at = "calling" /\ i \in DOMAIN frames
      BY <2>4, <2>5, <3>1
    <3>3. Walked(frames[i]) = frames[i].due /\ IsPrefix(frames[i].called, frames[i].due)
      BY <3>2 DEF IInv, FramesOK, WalkIsStable
    <3> QED
      BY <1>1, <3>2, <3>3, WalkedStays DEF tables
  <2>11. OthersOK'
    BY <1>1, <2>3 DEF IInv, OthersOK
  <2> QED
    BY <2>5, <2>7, <2>a, <2>9, <2>10, <2>11 DEF IInv, FramesOK
<1> QED
  BY <1>2, <1>3

\* The last frame changes, of the same signal and behind its locks; the others stay.
LEMMA TopChanges ==
  ASSUME IInv, NEW f \in Frame, frames # <<>>, f.sig = Top.sig, f.at = "calling",
         frames' = [frames EXCEPT ![Len(frames)] = f],
         UNCHANGED <<managed, signal_handlers, signal_callbacks>>,
         Walked(f) = f.due, IsPrefix(f.called, f.due)
  PROVE  FramesOK' /\ Starting' \subseteq Starting \ {Top.sig}
<1>1. PICK n \in Nat : n = Len(frames) /\ DOMAIN frames = 1 .. n /\ frames \in Seq(Frame) /\ n \in 1 .. n
  BY DEF IInv, FramesOK
<1>2. /\ frames' \in Seq(Frame) /\ DOMAIN frames' = 1 .. n /\ frames'[n] = f
      /\ \A i \in 1 .. n : i # n => frames'[i] = frames[i]
  BY <1>1
<1>3. f.sig = frames[n].sig /\ Top.sig = frames[n].sig
  BY <1>1 DEF Top, Last
<1>4. \A i, j \in DOMAIN frames : frames[i].sig = frames[j].sig => i = j
  BY DEF IInv, FramesOK
<1>5. \A i, j \in DOMAIN frames' : frames'[i].sig = frames'[j].sig => i = j
  BY <1>1, <1>2, <1>3, <1>4
<1>a. \A i \in DOMAIN frames' : frames'[i].at = "locking" => frames'[i].called = <<>>
  BY <1>1, <1>2 DEF IInv, FramesOK
<1>6. WalkIsStable'
  <2> SUFFICES ASSUME NEW i \in 1 .. n, frames'[i].at = "calling"
               PROVE  Walked(frames[i])' = frames'[i].due /\ IsPrefix(frames'[i].called, frames'[i].due)
    BY <1>2 DEF WalkIsStable
  <2>1. CASE i = n
    BY <1>2, <2>1 DEF Walked, CallbacksOf
  <2>2. CASE i # n
    <3>1. frames'[i] = frames[i]
      BY <1>2, <2>2
    <3>2. Walked(frames[i]) = frames[i].due /\ IsPrefix(frames[i].called, frames[i].due)
      BY <1>1, <3>1 DEF IInv, FramesOK, WalkIsStable
    <3> QED
      BY <3>1, <3>2, WalkedStays
  <2> QED
    BY <2>1, <2>2
<1>7. ASSUME NEW i \in 1 .. n, frames'[i].at = "locking"
      PROVE  frames'[i].sig \in Starting \ {Top.sig}
  <2>1. i # n /\ frames'[i] = frames[i]
    BY <1>2, <1>7
  <2>2. frames[i].sig # frames[n].sig
    BY <1>1, <1>4, <2>1
  <2> QED
    BY <1>1, <1>3, <1>7, <2>1, <2>2 DEF Starting
<1>8. Starting' \subseteq Starting \ {Top.sig}
  BY <1>2, <1>7 DEF Starting
<1> QED
  BY <1>2, <1>5, <1>a, <1>6, <1>8 DEF FramesOK

\* The handler that runs is the last of the stack.
LEMMA TopIsFrame ==
  ASSUME IInv, frames # <<>>
  PROVE  Top \in Frame /\ Len(frames) \in DOMAIN frames /\ Top = frames[Len(frames)]
BY DEF IInv, FramesOK, Top, Last

\* A handler locks the mutexes, or terminates the process.
LEMMA EnterStep ==
  ASSUME IInv, Enter
  PROVE  IInv'
<1>1. /\ frames # <<>> /\ Top.at = "locking"
      /\ UNCHANGED <<managed, signal_handlers, signal_callbacks, installed, registered>>
      /\ UNCHANGED <<orphaned, pending, unmasked, sent>>
  BY DEF Enter, InTop
<1>2. CASE managed[Top.sig] = "DEFAULT"
  <2>1. fate' = "terminated" /\ UNCHANGED <<frames, uninstalled>>
    BY <1>2 DEF Enter
  <2> QED
    BY <1>1, <2>1, PlainStep DEF IInv, OthersOK, tables
<1>3. CASE managed[Top.sig] # "DEFAULT"
  <2>1. PICK f : f = [Top EXCEPT !.at = "calling", !.due = Walked(Top)]
    OBVIOUS
  <2>2. Top \in Frame /\ Top = frames[Len(frames)] /\ Len(frames) \in DOMAIN frames
    BY <1>1, TopIsFrame
  <2>3. Walked(Top) \in Seq(Nat)
    BY <2>2, WalkedIsSeq
  <2>4. f \in Frame /\ f.sig = Top.sig /\ f.at = "calling" /\ f.called = Top.called /\ f.due = Walked(Top)
    BY <2>1, <2>2, <2>3 DEF Frame
  <2>5. /\ frames' = [frames EXCEPT ![Len(frames)] = f]
        /\ uninstalled' = uninstalled \ {Top.sig} /\ UNCHANGED fate
    BY <1>3, <2>1, <2>2 DEF Enter
  <2>6. Walked(f) = f.due
    BY <2>4 DEF Walked
  <2>7. Top.called = <<>>
    BY <1>1, <2>2 DEF IInv, FramesOK
  <2>8. IsPrefix(f.called, f.due)
    BY <2>3, <2>4, <2>7 DEF IsPrefix
  <2>9. FramesOK' /\ Starting' \subseteq Starting \ {Top.sig}
    BY <1>1, <2>4, <2>5, <2>6, <2>8, TopChanges
  <2>10. Domains'
    BY <1>1, <2>5 DEF IInv, TablesOK, Domains
  <2>11. ASSUME NEW s \in Signal PROVE SignalOK(s)'
    <3>1. SignalOK(s) /\ Good(signal_callbacks[s], registered)'
      BY <1>1 DEF IInv, TablesOK, SignalOK
    <3>2. s \in Starting' => s \in Starting /\ (s \in uninstalled => s \in uninstalled')
      BY <2>5, <2>9
    <3> QED
      BY <1>1, <3>1, <3>2 DEF SignalOK
  <2>12. OthersOK'
    BY <1>1, <2>5 DEF IInv, OthersOK
  <2> QED
    BY <2>9, <2>10, <2>11, <2>12 DEF IInv, TablesOK
<1> QED
  BY <1>2, <1>3

\* A handler that has not called everything calls the next callback.
LEMMA PrefixGrows ==
  ASSUME NEW X, NEW c \in Seq(X), NEW d \in Seq(X), IsPrefix(c, d), Len(c) < Len(d)
  PROVE  IsPrefix(Append(c, d[Len(c) + 1]), d)
<1>1. PICK n \in Nat : n = Len(c) /\ DOMAIN c = 1 .. n
  OBVIOUS
<1>2. PICK m \in Nat : m = Len(d) /\ DOMAIN d = 1 .. m
  OBVIOUS
<1>3. PICK a : a = Append(c, d[Len(c) + 1])
  OBVIOUS
<1>4. a \in Seq(X) /\ Len(a) = n + 1 /\ a[n + 1] = d[n + 1] /\ \A i \in 1 .. n : a[i] = c[i]
  BY <1>1, <1>2, <1>3
<1>5. \A i \in 1 .. n : c[i] = d[i]
  <2>1. SubSeq(c, 1, n) = SubSeq(d, 1, n)
    BY <1>1 DEF IsPrefix
  <2>2. \A i \in 1 .. n : SubSeq(c, 1, n)[i] = c[i] /\ SubSeq(d, 1, n)[i] = d[i]
    BY <1>1, <1>2
  <2> QED
    BY <2>1, <2>2
<1>6. \A i \in 1 .. n + 1 : a[i] = d[i]
  BY <1>1, <1>4, <1>5
<1>7. SubSeq(a, 1, n + 1) = SubSeq(d, 1, n + 1)
  <2>1. /\ SubSeq(a, 1, n + 1) \in Seq(X) /\ Len(SubSeq(a, 1, n + 1)) = n + 1
        /\ \A i \in 1 .. n + 1 : SubSeq(a, 1, n + 1)[i] = a[i]
    BY <1>1, <1>4
  <2>2. /\ SubSeq(d, 1, n + 1) \in Seq(X) /\ Len(SubSeq(d, 1, n + 1)) = n + 1
        /\ \A i \in 1 .. n + 1 : SubSeq(d, 1, n + 1)[i] = d[i]
    BY <1>1, <1>2
  <2> QED
    BY <1>6, <2>1, <2>2
<1>8. n + 1 <= Len(d)
  BY <1>1, <1>2
<1> QED
  BY <1>3, <1>4, <1>7, <1>8 DEF IsPrefix

\* A handler calls the next callback.
LEMMA CallStep ==
  ASSUME IInv, Call
  PROVE  IInv'
<1>1. /\ frames # <<>> /\ Top.at = "calling" /\ Len(Top.called) < Len(Walked(Top))
      /\ UNCHANGED tables /\ UNCHANGED <<pending, unmasked, fate, sent>>
  BY DEF Call, InTop
<1>2. Top \in Frame /\ Top = frames[Len(frames)] /\ Len(frames) \in DOMAIN frames
  BY <1>1, TopIsFrame
<1>3. Walked(Top) = Top.due /\ IsPrefix(Top.called, Top.due)
  BY <1>1, <1>2 DEF IInv, FramesOK, WalkIsStable
<1>4. Top.called \in Seq(Nat) /\ Top.due \in Seq(Nat)
  BY <1>2 DEF Frame
<1>5. PICK c : c = Append(Top.called, Top.due[Len(Top.called) + 1])
  OBVIOUS
<1>6. c \in Seq(Nat) /\ IsPrefix(c, Top.due)
  <2>1. Top.due[Len(Top.called) + 1] \in Nat
    BY <1>1, <1>3, <1>4
  <2>2. c \in Seq(Nat)
    BY <1>4, <1>5, <2>1
  <2> QED
    BY <1>1, <1>3, <1>4, <1>5, <2>2, PrefixGrows
<1>7. PICK f : f = [Top EXCEPT !.called = c]
  OBVIOUS
<1>8. f \in Frame /\ f.sig = Top.sig /\ f.at = "calling" /\ f.called = c /\ f.due = Top.due
  BY <1>1, <1>2, <1>6, <1>7 DEF Frame
<1>9. frames' = [frames EXCEPT ![Len(frames)] = f]
  <2>1. frames' = [frames EXCEPT ![Len(frames)].called =
                     Append(frames[Len(frames)].called, Walked(Top)[Len(frames[Len(frames)].called) + 1])]
    BY DEF Call
  <2> QED
    BY <1>2, <1>3, <1>5, <1>7, <2>1
<1>10. Walked(f) = f.due
  BY <1>3, <1>8 DEF Walked
<1>11. UNCHANGED <<managed, signal_handlers, signal_callbacks>>
  BY <1>1 DEF tables
<1>12. FramesOK' /\ Starting' \subseteq Starting \ {Top.sig}
  BY <1>1, <1>6, <1>8, <1>9, <1>10, <1>11, TopChanges
<1>13. TablesOK'
  BY <1>1, <1>12, TablesStay DEF IInv
<1>14. OthersOK'
  BY <1>1 DEF IInv, OthersOK
<1> QED
  BY <1>12, <1>13, <1>14 DEF IInv

\* A handler returns.
LEMMA ReturnStep ==
  ASSUME IInv, Return
  PROVE  IInv'
<1>1. /\ frames # <<>> /\ UNCHANGED tables /\ UNCHANGED <<pending, unmasked, fate, sent>>
      /\ frames' = SubSeq(frames, 1, Len(frames) - 1)
  BY DEF Return, InTop, Front
<1>2. PICK n \in Nat : n = Len(frames) /\ DOMAIN frames = 1 .. n /\ frames \in Seq(Frame) /\ n # 0
  BY <1>1 DEF IInv, FramesOK
<1>3. /\ frames' \in Seq(Frame) /\ DOMAIN frames' = 1 .. n - 1
      /\ \A i \in 1 .. n - 1 : frames'[i] = frames[i]
  BY <1>1, <1>2
<1>4. \A i \in DOMAIN frames' : i \in DOMAIN frames /\ frames'[i] = frames[i]
  BY <1>2, <1>3
<1>5. \A s \in Starting' : s \in Starting
  BY <1>4 DEF Starting
<1>6. TablesOK'
  BY <1>1, <1>5, TablesStay DEF IInv
<1>7. UNCHANGED <<managed, signal_handlers, signal_callbacks>>
  BY <1>1 DEF tables
<1>8. WalkIsStable'
  <2> SUFFICES ASSUME NEW i \in DOMAIN frames', frames'[i].at = "calling"
               PROVE  Walked(frames[i])' = frames'[i].due /\ IsPrefix(frames'[i].called, frames'[i].due)
    BY DEF WalkIsStable
  <2>1. frames'[i] = frames[i] /\ i \in DOMAIN frames
    BY <1>4
  <2>2. Walked(frames[i]) = frames[i].due /\ IsPrefix(frames[i].called, frames[i].due)
    BY <2>1 DEF IInv, FramesOK, WalkIsStable
  <2> QED
    BY <1>7, <2>1, <2>2, WalkedStays
<1>9. /\ \A i, j \in DOMAIN frames' : frames'[i].sig = frames'[j].sig => i = j
      /\ \A i \in DOMAIN frames' : frames'[i].at = "locking" => frames'[i].called = <<>>
  BY <1>4 DEF IInv, FramesOK
<1>10. OthersOK'
  BY <1>1 DEF IInv, OthersOK
<1> QED
  BY <1>3, <1>6, <1>8, <1>9, <1>10 DEF IInv, FramesOK

(***************************************************************************)
(* The theorems                                                            *)
(***************************************************************************)

\* What an operation of a client on the signals does.
OfClient ==
  \/ \E s \in Signal :
       \/ \E id \in Id : RegisterCallback(s, id) \/ ResetSignal(s, id)
       \/ \E i \in DOMAIN signal_callbacks[s] :
            \E k \in DOMAIN signal_callbacks[s][i].callbacks : UnregisterCallback(s, i, k)
       \/ SetSignalHandler(s)
       \/ RemoveSignalHandler(s)
  \/ \E id \in Id : ResetId(id)

\* The calls of clients keep the tables, and what handlers walk through.
LEMMA ClientStep ==
  ASSUME IInv, OfClient
  PROVE  IInv' /\ UNCHANGED frames
<1>1. Operation
  BY DEF OfClient, RegisterCallback, ResetSignal, UnregisterCallback, SetSignalHandler,
         RemoveSignalHandler, ResetId
<1>2. FramesOK' /\ OthersOK' /\ UNCHANGED frames
  BY <1>1, Unseen DEF Operation
<1>3. TablesOK'
  BY RegisterStep, ResetSignalStep, UnregisterStep, SetHandlerStep, RemoveHandlerStep,
     ResetIdStep DEF OfClient
<1> QED
  BY <1>2, <1>3 DEF IInv

\* Every step preserves the invariant.
LEMMA SignalStep ==
  ASSUME IInv, [Next]_vars
  PROVE  IInv'
<1>1. CASE OfClient
  BY <1>1, ClientStep
<1>2. ASSUME NEW s \in Signal, Send(s) PROVE IInv'
  <2>1. UNCHANGED tables /\ UNCHANGED frames
    BY <1>2 DEF Send
  <2>2. OthersOK'
    BY <1>2, SignalAssumption DEF Send, IInv, OthersOK
  <2> QED
    BY <2>1, <2>2, PlainStep
<1>3. CASE UnmaskAllSignals
  <2>1. UNCHANGED tables /\ UNCHANGED frames /\ OthersOK'
    BY <1>3 DEF UnmaskAllSignals, IInv, OthersOK
  <2> QED
    BY <2>1, PlainStep
<1>4. CASE UNCHANGED vars
  <2>1. UNCHANGED tables /\ UNCHANGED frames /\ OthersOK'
    BY <1>4 DEF vars, IInv, OthersOK
  <2> QED
    BY <2>1, PlainStep
<1> QED
  BY <1>1, <1>2, <1>3, <1>4, DeliverStep, EnterStep, CallStep, ReturnStep DEF Next, OfClient

\* The invariant holds always.
LEMMA SignalInvariant == Spec => []IInv
<1>1. IInv /\ [Next]_vars => IInv'
  BY SignalStep
<1> QED
  BY <1>1, Start, PTL DEF Spec

\* For any signals, ids and numbers of callbacks: after every operation, and in the eyes
\* of a handler that has just started, the kernel has a handler iff the signal is
\* managed, a registered callback is called unless another client's reset took its
\* signal away, and an id has one entry.
THEOREM TablesAlwaysAgree == Spec => []TablesAgree
<1>1. IInv => TablesAgree
  <2> SUFFICES ASSUME IInv PROVE TablesAgree
    OBVIOUS
  <2>1. \A s \in Signal : SignalOK(s)
    BY DEF IInv, TablesOK
  <2>2. \A s \in Signal : Entries(s) # {} <=> signal_callbacks[s] # <<>>
    <3> SUFFICES ASSUME NEW s \in Signal PROVE Entries(s) # {} <=> signal_callbacks[s] # <<>>
      OBVIOUS
    <3>1. signal_callbacks[s] \in Seq(EntryUpTo(registered))
      BY <2>1 DEF SignalOK, Good
    <3>2. PICK list : list = signal_callbacks[s]
      OBVIOUS
    <3>3. list \in Seq(EntryUpTo(registered))
      BY <3>1, <3>2
    <3>4. list # <<>> <=> DOMAIN list # {}
      <4>1. PICK n \in Nat : n = Len(list) /\ DOMAIN list = 1 .. n
        BY <3>3
      <4>2. list = <<>> <=> n = 0
        BY <3>3, <4>1, EmptySeq
      <4>3. 1 .. n = {} <=> n = 0
        <5>1. n # 0 => 1 \in 1 .. n
          OBVIOUS
        <5>2. n = 0 => 1 .. n = {}
          OBVIOUS
        <5> QED
          BY <5>1, <5>2
      <4> QED
        BY <4>1, <4>2, <4>3
    <3>5. Entries(s) # {} <=> DOMAIN list # {}
      BY <3>2 DEF Entries, ToSet
    <3> QED
      BY <3>2, <3>4, <3>5
  <2>3. ASSUME NEW s \in Signal, NEW i \in DOMAIN signal_callbacks[s], NEW e, e = signal_callbacks[s][i]
        PROVE  e.id \in Id /\ e.callbacks # <<>> /\ ToSet(e.callbacks) \subseteq 1 .. registered
    <3>1. signal_callbacks[s] \in Seq(EntryUpTo(registered)) /\ e.callbacks # <<>>
      BY <2>1, <2>3 DEF SignalOK, Good
    <3>2. e \in EntryUpTo(registered)
      BY <2>3, <3>1
    <3>3. e.id \in Id /\ e.callbacks \in Seq(1 .. registered)
      BY <3>2 DEF EntryUpTo
    <3>4. \A j \in DOMAIN e.callbacks : e.callbacks[j] \in 1 .. registered
      <4>1. PICK c, T : c = e.callbacks /\ T = 1 .. registered
        OBVIOUS
      <4>2. c \in Seq(T)
        BY <3>3, <4>1
      <4>3. \A j \in DOMAIN c : c[j] \in T
        BY <4>2
      <4> QED
        BY <4>1, <4>3
    <3> QED
      BY <3>1, <3>3, <3>4 DEF ToSet
  <2>4. \A s \in Signal : \A e \in Entries(s) :
          e.id \in Id /\ e.callbacks # <<>> /\ ToSet(e.callbacks) \subseteq 1 .. registered
    BY <2>3 DEF Entries, ToSet
  <2>5. \A i \in DOMAIN frames : frames[i].sig \in Signal /\ frames[i].at \in {"locking", "calling"}
    <3> SUFFICES ASSUME NEW i \in DOMAIN frames
                 PROVE  frames[i].sig \in Signal /\ frames[i].at \in {"locking", "calling"}
      OBVIOUS
    <3>1. frames[i] \in Frame
      BY DEF IInv, FramesOK
    <3> QED
      BY <3>1 DEF Frame
  <2>6. managed \in [Signal -> {"DEFAULT", "USERDEFINED", "CALLBACKS"}]
    BY <2>1 DEF IInv, TablesOK, Domains, SignalOK
  <2>7. TypeOK
    BY <2>4, <2>5, <2>6 DEF IInv, TablesOK, Domains, OthersOK, TypeOK
  <2>8. RecordsAgree /\ CallbacksAreLive
    BY <2>1, <2>2 DEF SignalOK, RecordsAgree, CallbacksAreLive
  <2>9. OneEntryPerId
    BY <2>1 DEF SignalOK, Good, OneEntryPerId
  <2>10. DefaultOnlyAfterUninstall
    <3>1. Starting \subseteq Signal
      BY <2>5 DEF Starting
    <3> QED
      BY <2>1, <3>1 DEF SignalOK, DefaultOnlyAfterUninstall
  <2> QED
    BY <2>7, <2>8, <2>9, <2>10 DEF TablesAgree
<1> QED
  BY <1>1, SignalInvariant, PTL

\* For any signals, clients and nesting of handlers: what a handler has called is a
\* prefix of what was registered when it locked, and nobody changes the rest.
THEOREM WalksAreStable == Spec => []WalkIsStable
<1>1. IInv => WalkIsStable
  BY DEF IInv, FramesOK
<1> QED
  BY <1>1, SignalInvariant, PTL

\* A prefix as long as the whole is the whole.
LEMMA WholePrefix ==
  ASSUME NEW X, NEW c \in Seq(X), NEW d \in Seq(X), IsPrefix(c, d), Len(c) >= Len(d)
  PROVE  c = d
<1>1. Len(c) = Len(d) /\ SubSeq(c, 1, Len(c)) = SubSeq(d, 1, Len(d))
  BY DEF IsPrefix
<1>2. SubSeq(c, 1, Len(c)) = c /\ SubSeq(d, 1, Len(d)) = d
  OBVIOUS
<1> QED
  BY <1>1, <1>2

\* A handler calls all that was registered when it locked before it returns: the only
\* step that takes a frame away is the return of one that has called everything.
THEOREM HandlersCallAll == Spec => AllAreCalled
<1>1. ASSUME IInv, [Next]_vars
      PROVE  [Len(frames') < Len(frames) => Top.called = Top.due]_vars
  <2>0. Len(frames) \in Nat /\ frames \in Seq(Frame)
    BY <1>1 DEF IInv, FramesOK
  <2>1. CASE UNCHANGED frames
    BY <2>0, <2>1
  <2>2. CASE Return
    <3>1. /\ frames # <<>> /\ Top.at = "calling" /\ Len(Top.called) >= Len(Walked(Top))
      BY <2>2 DEF Return, InTop
    <3>2. Top \in Frame /\ Top = frames[Len(frames)] /\ Len(frames) \in DOMAIN frames
      BY <1>1, <3>1, TopIsFrame
    <3>3. Walked(Top) = Top.due /\ IsPrefix(Top.called, Top.due)
      BY <1>1, <3>1, <3>2 DEF IInv, FramesOK, WalkIsStable
    <3>4. Top.called \in Seq(Nat) /\ Top.due \in Seq(Nat)
      BY <3>2 DEF Frame
    <3> QED
      BY <3>1, <3>3, <3>4, WholePrefix
  <2>3. CASE Enter
    <3>1. CASE UNCHANGED frames
      BY <2>1, <3>1
    <3>2. CASE frames' = [frames EXCEPT ![Len(frames)] =
                            [frames[Len(frames)] EXCEPT !.at = "calling", !.due = Walked(Top)]]
      <4>1. DOMAIN frames' = DOMAIN frames
        BY <3>2
      <4>2. frames' \in Seq(Frame)
        BY <1>1, SignalStep DEF IInv, FramesOK
      <4> QED
        BY <2>0, <4>1, <4>2
    <3> QED
      BY <2>3, <3>1, <3>2 DEF Enter
  <2>4. CASE Call
    <3>1. DOMAIN frames' = DOMAIN frames
      BY <2>4 DEF Call
    <3>2. frames' \in Seq(Frame)
      BY <1>1, SignalStep DEF IInv, FramesOK
    <3> QED
      BY <2>0, <3>1, <3>2
  <2>5. ASSUME NEW s \in Signal, Deliver(s) PROVE ~(Len(frames') < Len(frames))
    <3>1. CASE UNCHANGED frames
      BY <2>0, <3>1
    <3>2. CASE \E f : frames' = Append(frames, f)
      <4>1. PICK f : frames' = Append(frames, f)
        BY <3>2
      <4>2. Len(frames') = Len(frames) + 1
        BY <2>0, <4>1
      <4> QED
        BY <2>0, <4>2
    <3> QED
      BY <2>5, <3>1, <3>2 DEF Deliver
  <2>6. ASSUME NEW s \in Signal, Send(s) PROVE UNCHANGED frames
    BY <2>6 DEF Send
  <2>7. UnmaskAllSignals \/ UNCHANGED vars => UNCHANGED frames
    BY DEF UnmaskAllSignals, vars
  <2>8. OfClient => UNCHANGED frames
    BY <1>1, ClientStep
  <2> QED
    BY <1>1, <2>1, <2>2, <2>3, <2>4, <2>5, <2>6, <2>7, <2>8 DEF Next, OfClient
<1> QED
  BY <1>1, SignalInvariant, PTL DEF Spec, AllAreCalled
=============================================================================
