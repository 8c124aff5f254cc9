----------------------------- MODULE PartsProofs -----------------------------
(***************************************************************************)
(* Proofs about the parts that share nothing and that MCParts puts side by *)
(* side.  Each theorem is about the specification or the operators of one  *)
(* of them, for all values of its constants, except where it says so.      *)
(***************************************************************************)
EXTENDS MCText, CommandLine, FileLocks, SourceFiles, MutexIds, Coroutine,
        ThreadSafeQueue, SequenceTheorems, WellFoundedInduction, TLAPS

-----------------------------------------------------------------------------
(***************************************************************************)
(* SaturatedArithmetic: the saturated operations saturate in integers of   *)
(* every width, and the casts between any two of them.                     *)
(***************************************************************************)

\* The sign of a product.
LEMMA ProductSign ==
  ASSUME NEW a \in Int, NEW b \in Int
  PROVE  /\ a * b \in Int
         /\ a < 0 /\ b < 0 => a * b > 0
         /\ a < 0 /\ b >= 0 => a * b <= 0
         /\ a >= 0 /\ b < 0 => a * b <= 0
         /\ a >= 0 /\ b >= 0 => a * b >= 0
  BY SMT

\* A quotient is no greater than what is divided, and at most half of it when
\* the divisor is not 1.
LEMMA DivisionBound ==
  ASSUME NEW m \in Nat, NEW n \in Nat \ {0}
  PROVE  /\ m \div n \in Nat
         /\ m \div n <= m
         /\ n = 1 => m \div n = m
         /\ n >= 2 => 2 * (m \div n) <= m
  BY SMT

\* What the two kinds of integers are.
LEMMA Kinds ==
  ASSUME NEW T, IntType(T)
  PROVE  /\ T.max \in Nat /\ T.lowest \in Int
         /\ Signed(T) => T.lowest = -T.max - 1
         /\ ~Signed(T) => T.lowest = 0
  BY DEF IntType, Signed

\* A quotient of two values of a type is one of its values, but for that of the
\* least by -1, which is one too large.
LEMMA QuotientFits ==
  ASSUME NEW T, IntType(T), NEW a \in Values(T), NEW b \in Values(T), b # 0
  PROVE  /\ Quotient(a, b) \in Int
         /\ IF Signed(T) /\ a = T.lowest /\ b = -1 THEN Quotient(a, b) = T.max + 1
                                                  ELSE Quotient(a, b) \in Values(T)
<1> DEFINE m == IF a < 0 THEN -a ELSE a
           n == IF b < 0 THEN -b ELSE b
           q == m \div n
<1>1. m \in Nat /\ n \in Nat \ {0} /\ a \in Int /\ b \in Int
  BY Kinds DEF Values
<1>2. /\ q \in Nat /\ q <= m
      /\ n = 1 => q = m
      /\ n >= 2 => 2 * q <= m
  BY <1>1, DivisionBound
<1>3. Quotient(a, b) = IF (a < 0) = (b < 0) THEN q ELSE -q
  BY DEF Quotient
<1> HIDE DEF q
<1>4. Quotient(a, b) \in Int
  BY <1>2, <1>3
<1>5. CASE ~Signed(T)
  BY <1>2, <1>3, <1>5, Kinds DEF Values
<1>6. CASE Signed(T) /\ n = 1
  BY <1>1, <1>2, <1>3, <1>4, <1>6, Kinds DEF Values
<1>7. CASE Signed(T) /\ n >= 2
  BY <1>1, <1>2, <1>3, <1>4, <1>7, Kinds DEF Values
<1> QED
  BY <1>1, <1>4, <1>5, <1>6, <1>7

\* With the bounds of the type, every operation gives the nearest value.
LEMMA DefaultSaturates ==
  ASSUME NEW T, IntType(T), NEW a \in Values(T), NEW b \in Values(T)
  PROVE  /\ Signed(T) => /\ Add(T, a, b) = Nearest(T.lowest, T.max, a + b)
                          /\ Sub(T, a, b) = Nearest(T.lowest, T.max, a - b)
         /\ ~Signed(T) => /\ AddUnsigned(T, a, b) = Nearest(T.lowest, T.max, a + b)
                           /\ SubUnsigned(T, a, b) = Nearest(T.lowest, T.max, a - b)
         /\ Mul(T, a, b) = Nearest(T.lowest, T.max, a * b)
         /\ b # 0 => Div(T, a, b) = Nearest(T.lowest, T.max, Quotient(a, b))
<1> USE Kinds DEF Values, Nearest
<1>1. Signed(T) => /\ Add(T, a, b) = Nearest(T.lowest, T.max, a + b)
                   /\ Sub(T, a, b) = Nearest(T.lowest, T.max, a - b)
  BY DEF Add, Sub, Overflows
<1>2. ~Signed(T) => /\ AddUnsigned(T, a, b) = Nearest(T.lowest, T.max, a + b)
                    /\ SubUnsigned(T, a, b) = Nearest(T.lowest, T.max, a - b)
  BY DEF AddUnsigned, SubUnsigned, Wrapped
<1>3. Mul(T, a, b) = Nearest(T.lowest, T.max, a * b)
  <2> DEFINE p == a * b
  <2>1. /\ p \in Int
        /\ a < 0 /\ b < 0 => p > 0
        /\ a < 0 /\ b >= 0 => p <= 0
        /\ a >= 0 /\ b < 0 => p <= 0
        /\ a >= 0 /\ b >= 0 => p >= 0
    BY ProductSign
  <2>2. Mul(T, a, b) = IF p \notin Values(T)
                       THEN IF ~Signed(T) THEN T.max
                            ELSE IF (a < 0) # (b < 0) THEN T.lowest ELSE T.max
                       ELSE p
    BY DEF Mul, Overflows
  <2> HIDE DEF p
  <2>3. Mul(T, a, b) = Nearest(T.lowest, T.max, p)
    BY <2>1, <2>2
  <2> QED
    BY <2>3 DEF p
<1>4. ASSUME b # 0 PROVE Div(T, a, b) = Nearest(T.lowest, T.max, Quotient(a, b))
  BY <1>4, QuotientFits DEF Div
<1> QED
  BY <1>1, <1>2, <1>3, <1>4

\* In every type of integers, and with whatever bounds within it, the
\* operations give the nearest value, and throw on operands out of bounds.
THEOREM EveryWidthSaturates ==
  ASSUME NEW T, IntType(T)
  PROVE  OperationsSaturate(T)
<1> SUFFICES ASSUME NEW a \in Values(T), NEW b \in Values(T),
                    NEW min \in Values(T), NEW max \in Values(T)
             PROVE  SaturatesAt(T, a, b, min, max)
  BY DEF OperationsSaturate
<1>1. /\ a \in Int /\ b \in Int /\ min \in Int /\ max \in Int
      /\ T.lowest <= a /\ T.lowest <= b /\ T.lowest <= min /\ T.lowest <= max
      /\ a <= T.max /\ b <= T.max /\ min <= T.max /\ max <= T.max
      /\ T.lowest \in Int /\ T.max \in Int
  BY Kinds DEF Values
<1>2. ASSUME NEW exact \in Int, NEW res, res = Nearest(T.lowest, T.max, exact)
      PROVE  Bounded(T, a, b, min, max, res) = Saturated(exact, a, b, min, max)
  BY <1>1, <1>2 DEF Bounded, DefaultBounds, Refused, Saturated, Nearest
<1>3. SaturatedAdd(T, a, b, min, max) = Saturated(a + b, a, b, min, max)
  <2>1. CASE Signed(T)
    BY <1>1, <1>2, <2>1, DefaultSaturates DEF SaturatedAdd, SaturatedAddSigned
  <2>2. CASE ~Signed(T)
    <3>1. AddUnsigned(T, a, b) = Nearest(T.lowest, T.max, a + b) /\ T.lowest = 0
      BY <2>2, DefaultSaturates, Kinds
    <3> QED
      BY <1>1, <2>2, <3>1
         DEF SaturatedAdd, SaturatedAddUnsigned, BoundedAbove, DefaultBounds, Refused,
             Saturated, Nearest
  <2> QED
    BY <2>1, <2>2
<1>4. SaturatedSub(T, a, b, min, max) = Saturated(a - b, a, b, min, max)
  <2>1. CASE Signed(T)
    BY <1>1, <1>2, <2>1, DefaultSaturates DEF SaturatedSub, SaturatedSubSigned
  <2>2. CASE ~Signed(T)
    <3>1. SubUnsigned(T, a, b) = Nearest(T.lowest, T.max, a - b) /\ T.lowest = 0
      BY <2>2, DefaultSaturates, Kinds
    <3> QED
      BY <1>1, <2>2, <3>1
         DEF SaturatedSub, SaturatedSubUnsigned, BoundedBelow, DefaultBounds, Refused,
             Saturated, Nearest
  <2> QED
    BY <2>1, <2>2
<1>5. SaturatedMul(T, a, b, min, max) = Saturated(a * b, a, b, min, max)
  BY <1>1, <1>2, ProductSign, DefaultSaturates DEF SaturatedMul
<1>6. ASSUME b # 0
      PROVE  SaturatedDiv(T, a, b, min, max) = Saturated(Quotient(a, b), a, b, min, max)
  BY <1>2, <1>6, QuotientFits, DefaultSaturates DEF SaturatedDiv
<1>7. b = 0 => SaturatedDiv(T, a, b, min, max) = OutOfRange
  BY DEF SaturatedDiv
<1> QED
  BY <1>3, <1>4, <1>5, <1>6, <1>7 DEF SaturatesAt

\* Between any two types of integers the cast gives the nearest value.
THEOREM EveryCastSaturates ==
  ASSUME NEW Res, NEW From, IntType(Res), IntType(From)
  PROVE  CastsSaturate(Res, From)
<1> SUFFICES ASSUME NEW val \in Values(From)
             PROVE  SaturatedCast(Res, From, val) = Nearest(Res.lowest, Res.max, val)
  BY DEF CastsSaturate
<1>1. /\ Res.max \in Nat /\ Res.lowest \in Int /\ From.max \in Nat /\ From.lowest \in Int
      /\ Signed(Res) => Res.lowest = -Res.max - 1
      /\ ~Signed(Res) => Res.lowest = 0
      /\ Signed(From) => From.lowest = -From.max - 1
      /\ ~Signed(From) => From.lowest = 0
  BY Kinds
<1>2. val \in Int /\ From.lowest <= val /\ val <= From.max
  BY <1>1 DEF Values
<1>3. CASE Signed(Res) /\ Signed(From)
  BY <1>1, <1>2, <1>3 DEF SaturatedCast, Nearest, Signed
<1>4. CASE Signed(Res) /\ ~Signed(From)
  BY <1>1, <1>2, <1>4 DEF SaturatedCast, Nearest, Signed
<1>5. CASE ~Signed(Res) /\ Signed(From)
  BY <1>1, <1>2, <1>5 DEF SaturatedCast, Nearest, Signed
<1>6. CASE ~Signed(Res) /\ ~Signed(From)
  BY <1>1, <1>2, <1>6 DEF SaturatedCast, Nearest, Signed
<1> QED
  BY <1>3, <1>4, <1>5, <1>6

\* A subject about integers is about a type of IntTypes: no other subject says it is
\* about integers.
LEMMA IntegersHaveTypes ==
  ASSUME TextNext, subject'.about = "integers"
  PROVE  subject'.type \in IntTypes
<1>1. CASE PickText
  BY <1>1 DEF PickText
<1>2. CASE PickBytes
  BY <1>2 DEF PickBytes
<1>3. CASE PickCharacters
  BY <1>3 DEF PickCharacters
<1>4. CASE PickFile
  BY <1>4 DEF PickFile
<1>5. CASE PickSource
  BY <1>5 DEF PickSource
<1>6. CASE PickTable
  BY <1>6 DEF PickTable
<1>7. CASE PickIntegers
  BY <1>7 DEF PickIntegers
<1>8. CASE subject' = Nothing
  BY <1>8 DEF Nothing
<1> QED
  BY <1>1, <1>2, <1>3, <1>4, <1>5, <1>6, <1>7, <1>8 DEF TextNext

\* Whatever types of integers there are, every operation on them and every cast between
\* them saturates exactly.
THEOREM ArithmeticSaturates ==
  ASSUME \A T \in IntTypes : IntType(T)
  PROVE  TextSpec => []SaturationIsExact
<1> DEFINE OfAType == subject.about = "integers" => subject.type \in IntTypes
<1>1. \A T \in IntTypes : TypeSaturates(T)
  BY EveryWidthSaturates, EveryCastSaturates DEF TypeSaturates
<1>2. TextInit => OfAType
  BY DEF TextInit, Nothing
<1>3. OfAType /\ [TextNext]_subject => OfAType'
  BY IntegersHaveTypes
<1>4. OfAType => SaturationIsExact
  BY <1>1 DEF SaturationIsExact
<1> QED
  BY <1>2, <1>3, <1>4, PTL DEF TextSpec

-----------------------------------------------------------------------------
(***************************************************************************)
(* FileLocks, for any set of processes and any file length.                *)
(***************************************************************************)

\* The kernel lets nobody near a byte that is locked exclusively.
KernelExcludes ==
  \A p, q \in Process, b \in Byte :
    p # q /\ kernel[p][b] = "exclusive_lock" => kernel[q][b] = "none"

\* The test made before a process waits still holds when the lock is granted.
AskedIsApart ==
  \A p \in Process : asked[p] # NotAsked =>
    \A own \in locked_parts[p] : ~Meets(asked[p], own)

\* The inductive invariant: what the lists say of the kernel, and what keeps a
\* lock that is granted from falling on bytes of a part that is listed.
LocksIInv ==
  LocksTypeOK /\ ListIsHeld /\ HeldIsListed /\ ListedOnce /\ KernelExcludes /\ AskedIsApart

----------------------------------------------------------------------------
\* The fields of a part.
LEMMA PartFields ==
  ASSUME NEW part \in Part
  PROVE  /\ part.start \in Int /\ part.end \in Int /\ part.start < part.end
         /\ part.start \in Byte /\ part.end <= Bytes
         /\ part.mode \in Mode /\ part # NotAsked
  BY FileLocksAssumption DEF Part, Byte, Mode, NotAsked

\* Parts that do not meet have no byte in common.
LEMMA ApartIsDisjoint ==
  ASSUME NEW part \in Part, NEW own \in Part, ~Meets(part, own), NEW b \in Byte
  PROVE  ~(Covers(part, b) /\ Covers(own, b))
<1>1. b \in Int
  BY FileLocksAssumption DEF Byte
<1> QED
  BY <1>1, PartFields DEF Meets, Covers

\* The inductive invariant holds initially.
LEMMA LocksInitIInv == LocksInit => LocksIInv
  BY DEF LocksInit, LocksIInv, LocksTypeOK, ListIsHeld, HeldIsListed, ListedOnce,
         KernelExcludes, AskedIsApart

\* Every step preserves the inductive invariant.
LEMMA LocksNextIInv == LocksIInv /\ [LocksNext]_locksVars => LocksIInv'
<1> SUFFICES ASSUME LocksIInv, [LocksNext]_locksVars PROVE LocksIInv'
  OBVIOUS
<1> USE DEF LocksIInv
<1>1. ASSUME NEW p \in Process, NEW part \in Part, LockFilePart(p, part) PROVE LocksIInv'
  <2> USE <1>1 DEF LockFilePart
  <2>1. LocksTypeOK'
    BY DEF LocksTypeOK
  <2>2. ListIsHeld' /\ HeldIsListed' /\ ListedOnce' /\ KernelExcludes'
    BY DEF ListIsHeld, HeldIsListed, ListedOnce, KernelExcludes
  <2>3. AskedIsApart'
    BY DEF LocksTypeOK, AskedIsApart, Enter
  <2> QED
    BY <2>1, <2>2, <2>3
<1>2. ASSUME NEW p \in Process, LockGranted(p) PROVE LocksIInv'
  <2> DEFINE part == asked[p]
  <2>1. /\ part \in Part
        /\ \A own \in locked_parts[p], b \in Byte : ~(Covers(part, b) /\ Covers(own, b))
    BY <1>2, ApartIsDisjoint DEF LockGranted, LocksTypeOK, AskedIsApart
  <2>2. part.mode \in Mode
    BY <2>1, PartFields
  <2>3. /\ locked_parts' = [locked_parts EXCEPT ![p] = @ \cup {part}]
        /\ asked' = [asked EXCEPT ![p] = NotAsked]
        /\ kernel' = [kernel EXCEPT ![p] =
                        [b \in Byte |-> IF Covers(part, b) THEN part.mode ELSE @[b]]]
        /\ InTheWay(p, part) = {}
    BY <1>2 DEF LockGranted, SetMode
  <2> HIDE DEF part
  <2>4. LocksTypeOK'
    BY <2>1, <2>2, <2>3 DEF LocksTypeOK
  <2>5. \A q \in Process, b \in Byte :
          kernel'[q][b] = IF q = p /\ Covers(part, b) THEN part.mode ELSE kernel[q][b]
    BY <2>3 DEF LocksTypeOK
  <2>6. \A q \in Process :
          locked_parts'[q] = IF q = p THEN locked_parts[p] \cup {part} ELSE locked_parts[q]
    BY <2>3 DEF LocksTypeOK
  <2>7. ListIsHeld'
    BY <2>1, <2>5, <2>6 DEF ListIsHeld
  <2>8. HeldIsListed'
    BY <2>5, <2>6 DEF HeldIsListed
  <2>9. ListedOnce'
    BY <2>1, <2>6 DEF ListedOnce
  <2>10. KernelExcludes'
    <3>1. \A q \in Process, b \in Byte :
            q # p /\ Covers(part, b) =>
              /\ kernel[q][b] # "none" => part.mode # "exclusive_lock"
              /\ kernel[q][b] # "exclusive_lock"
      BY <2>3 DEF InTheWay
    <3> QED
      BY <2>2, <2>5, <3>1 DEF KernelExcludes, Mode
  <2>11. AskedIsApart'
    BY <2>3, <2>6 DEF AskedIsApart, LocksTypeOK
  <2> QED
    BY <2>4, <2>7, <2>8, <2>9, <2>10, <2>11
<1>3. ASSUME NEW p \in Process, NEW start \in Byte, NEW end \in 1 .. Bytes,
             UnlockFilePart(p, start, end)
      PROVE  LocksIInv'
  <2> DEFINE range == [start |-> start, end |-> end]
             found == Found(p, start, end)
  <2>1. /\ locked_parts' = [locked_parts EXCEPT ![p] = @ \ found]
        /\ asked' = asked
        /\ kernel' = [kernel EXCEPT ![p] =
                        [b \in Byte |-> IF Covers(range, b) THEN "none" ELSE @[b]]]
    BY <1>3 DEF UnlockFilePart, SetMode
  <2>2. PICK own \in locked_parts[p] : own.start = start /\ own.end = end
    BY <1>3 DEF UnlockFilePart, Found
  <2>3. \A b \in Byte : Covers(range, b) <=> Covers(own, b)
    BY <2>2 DEF Covers
  <2>4. \A other \in locked_parts[p] : other \in found <=> other = own
    <3>1. SUFFICES ASSUME NEW other \in locked_parts[p], other \in found PROVE other = own
      BY <2>2 DEF Found
    <3>2. own \in Part /\ other \in Part
      BY <2>2, <3>1 DEF LocksTypeOK
    <3>3. own.start \in Byte /\ Covers(own, own.start) /\ Covers(other, own.start)
      BY <2>2, <3>1, <3>2, PartFields DEF Covers, Found
    <3> QED
      BY <2>2, <3>1, <3>3 DEF ListedOnce
  <2> HIDE DEF range, found
  <2>5. LocksTypeOK'
    BY <2>1 DEF LocksTypeOK
  <2>6. \A q \in Process, b \in Byte :
          kernel'[q][b] = IF q = p /\ Covers(own, b) THEN "none" ELSE kernel[q][b]
    BY <2>1, <2>3 DEF LocksTypeOK
  <2>7. \A q \in Process :
          locked_parts'[q] = IF q = p THEN locked_parts[p] \ {own} ELSE locked_parts[q]
    BY <2>1, <2>4 DEF LocksTypeOK
  <2>8. ListIsHeld'
    BY <2>2, <2>6, <2>7 DEF ListIsHeld, ListedOnce
  <2>9. HeldIsListed'
    BY <2>6, <2>7 DEF HeldIsListed
  <2>10. ListedOnce'
    BY <2>7 DEF ListedOnce
  <2>11. KernelExcludes'
    BY <2>6 DEF KernelExcludes
  <2>12. AskedIsApart'
    BY <2>1, <2>7 DEF AskedIsApart
  <2> QED
    BY <2>5, <2>8, <2>9, <2>10, <2>11, <2>12
<1>5. ASSUME NEW p \in Process, LockInterrupted(p) PROVE LocksIInv'
  <2> USE <1>5 DEF LockInterrupted
  <2>1. LocksTypeOK'
    BY DEF LocksTypeOK
  <2>2. ListIsHeld' /\ HeldIsListed' /\ ListedOnce' /\ KernelExcludes'
    BY DEF ListIsHeld, HeldIsListed, ListedOnce, KernelExcludes
  <2>3. AskedIsApart'
    BY DEF LocksTypeOK, AskedIsApart
  <2> QED
    BY <2>1, <2>2, <2>3
<1>4. CASE UNCHANGED locksVars
  BY <1>4 DEF locksVars, LocksTypeOK, ListIsHeld, HeldIsListed, ListedOnce, KernelExcludes,
              AskedIsApart
<1> QED
  BY <1>1, <1>2, <1>3, <1>4, <1>5 DEF LocksNext

\* The inductive invariant is an invariant of the specification.
THEOREM LocksInvariance == LocksSpec => []LocksIInv
  BY LocksInitIInv, LocksNextIInv, PTL DEF LocksSpec

\* The list of every process tells the truth about the kernel.
THEOREM ListsTellTheTruth == LocksSpec => []ListsAreTrue
<1>1. LocksIInv => ExclusiveAlone
  <2> SUFFICES ASSUME LocksIInv,
                      NEW p \in Process, NEW q \in Process, p # q,
                      NEW mine \in locked_parts[p], NEW other \in locked_parts[q],
                      NEW b \in Byte, Covers(mine, b), Covers(other, b)
               PROVE  mine.mode = "shared_lock"
    BY DEF ExclusiveAlone
  <2>1. mine.mode \in Mode /\ other.mode \in Mode
    BY PartFields DEF LocksIInv, LocksTypeOK
  <2>2. kernel[p][b] = mine.mode /\ kernel[q][b] = other.mode
    BY DEF LocksIInv, ListIsHeld
  <2> QED
    BY <2>1, <2>2 DEF LocksIInv, KernelExcludes, Mode
<1>2. LocksIInv => ListsAreTrue
  BY <1>1 DEF LocksIInv, ListsAreTrue
<1> QED
  BY <1>2, LocksInvariance, PTL

-----------------------------------------------------------------------------
(***************************************************************************)
(* MutexIds, for any set of threads, any bounds on ids and depths, and at  *)
(* most two mutexes: with a third, gen_new_id gives an id that is taken.   *)
(***************************************************************************)

\* What the theorem asks of the constants.
TwoMutexes(a, b) ==
  /\ Mutex \subseteq {a, b}
  /\ MaxId \in Nat /\ MaxDepth \in Nat
  /\ NoThread \notin Thread

\* The ids given out are those of the mutexes alive.
IdsAreTheirs == ids = {mtx_id[m] : m \in {n \in Mutex : Alive(n)}}

\* The count of a thread under the id of a mutex is what it has open there.
CountsAreOwn ==
  \A t \in Thread, m \in Mutex : Alive(m) => Count(t, mtx_id[m]) = open[t][m]

\* What a mutex that is gone has left behind: entries that count nothing.
NothingLeft ==
  /\ \A t \in Thread, m \in Mutex : ~Alive(m) => open[t][m] = 0
  /\ \A t \in Thread, i \in Id : i \notin ids => Count(t, i) = 0

\* The rwlock of a mutex is held by the thread that has it open.
HolderIsOpen ==
  \A t \in Thread, m \in Mutex : open[t][m] > 0 <=> holder[m] = t

\* The inductive invariant.
IdsIInv ==
  /\ IdsTypeOK /\ DistinctIds /\ BalancedUnlockWorks
  /\ IdsAreTheirs /\ CountsAreOwn /\ NothingLeft /\ HolderIsOpen

-----------------------------------------------------------------------------
\* The walk of gen_new_id over a single id ends behind it.
LEMMA NewIdOfOne ==
  ASSUME NEW i \in Int
  PROVE  NewId({}) = 0 /\ NewId({i}) = i + 1
<1>1. Min({i}) = i
  BY DEF Min
<1>2. Gaps({i}) = {i}
  BY <1>1 DEF Gaps, Previous
<1> QED
  BY <1>1, <1>2 DEF NewId, Previous

\* While at most one other mutex lives, an id that is given out is new.
LEMMA NewIdIsNew ==
  ASSUME NEW a, NEW b, TwoMutexes(a, b), IdsIInv, NEW m \in Mutex, ~Alive(m)
  PROVE  NewId(ids) \notin ids
<1>1. CASE ids = {}
  BY <1>1
<1>2. CASE ids # {}
  <2>1. PICK n \in Mutex : Alive(n) /\ mtx_id[n] \in ids
    BY <1>2 DEF IdsIInv, IdsAreTheirs
  <2>2. \A o \in Mutex : Alive(o) => o = n
    BY <2>1 DEF TwoMutexes
  <2>3. {o \in Mutex : Alive(o)} = {n}
    BY <2>1, <2>2
  <2>4. ids = {mtx_id[n]}
    BY <2>3 DEF IdsIInv, IdsAreTheirs
  <2>5. mtx_id[n] \in Int
    BY <2>1 DEF IdsIInv, IdsTypeOK, Id, Alive
  <2>6. NewId({mtx_id[n]}) = mtx_id[n] + 1
    BY <2>5, NewIdOfOne
  <2> QED
    BY <2>4, <2>5, <2>6
<1> QED
  BY <1>1, <1>2

\* The inductive invariant holds initially.
LEMMA IdsStart ==
  ASSUME NEW a, NEW b, TwoMutexes(a, b)
  PROVE  IdsInit => IdsIInv
<1> SUFFICES ASSUME IdsInit PROVE IdsIInv
  OBVIOUS
<1> USE DEF IdsInit, TwoMutexes
<1>1. IdsTypeOK
  BY DEF IdsTypeOK, Id, NoId, NoEntry, Failures
<1>2. ids = {} /\ \A m \in Mutex : ~Alive(m)
  BY DEF Alive
<1>3. DistinctIds /\ IdsAreTheirs /\ CountsAreOwn
  BY <1>2 DEF DistinctIds, IdsAreTheirs, CountsAreOwn
<1>4. NothingLeft
  BY DEF NothingLeft, Count, Id
<1>5. HolderIsOpen /\ BalancedUnlockWorks
  BY DEF HolderIsOpen, BalancedUnlockWorks
<1> QED
  BY <1>1, <1>3, <1>4, <1>5 DEF IdsIInv

\* One step of one thread preserves it.
LEMMA IdsStep ==
  ASSUME NEW a, NEW b, TwoMutexes(a, b), IdsIInv,
         NEW t \in Thread, NEW m \in Mutex,
         ConstructMutex(t, m) \/ DestroyMutex(t, m) \/ Lock(t, m) \/ Unlock(t, m)
  PROVE  IdsIInv'
<1> DEFINE i == mtx_id[m]
<1> USE DEF IdsIInv
<1>1. CASE ConstructMutex(t, m)
  <2> DEFINE new == NewId(ids)
  <2>1. new \in Id /\ new \notin ids
    BY <1>1, NewIdIsNew DEF ConstructMutex
  <2>2. /\ ids' = ids \cup {new} /\ mtx_id' = [mtx_id EXCEPT ![m] = new]
        /\ lock_counts' = [lock_counts EXCEPT ![t][new] = 0]
        /\ UNCHANGED <<holder, open, failure>> /\ ~Alive(m)
    BY <1>1 DEF ConstructMutex, SetCount
  <2> HIDE DEF new
  <2>3. IdsTypeOK'
    BY <2>1, <2>2 DEF IdsTypeOK
  <2>4. \A n \in Mutex : /\ Alive(n)' <=> n = m \/ Alive(n)
                         /\ mtx_id'[n] = IF n = m THEN new ELSE mtx_id[n]
    BY <2>1, <2>2 DEF IdsTypeOK, Alive, Id, NoId
  <2>5. IdsAreTheirs'
    BY <2>2, <2>4 DEF IdsAreTheirs
  <2>6. DistinctIds'
    <3>1. \A n \in Mutex : mtx_id[n] # new
      BY <2>1 DEF IdsAreTheirs, Alive, Id, NoId
    <3> QED
      BY <2>4, <3>1 DEF DistinctIds
  <2>7. \A u \in Thread, j \in Id :
          Count(u, j)' = IF u = t /\ j = new THEN 0 ELSE Count(u, j)
    BY <2>1, <2>2 DEF IdsTypeOK, Count, NoEntry
  <2>8. CountsAreOwn'
    BY <2>1, <2>2, <2>4, <2>7 DEF CountsAreOwn, NothingLeft, IdsTypeOK, Alive
  <2>9. NothingLeft'
    BY <2>1, <2>2, <2>4, <2>7 DEF NothingLeft
  <2> QED
    BY <2>2, <2>3, <2>5, <2>6, <2>8, <2>9 DEF HolderIsOpen, BalancedUnlockWorks
<1>2. CASE DestroyMutex(t, m)
  <2>1. /\ ids' = ids \ {i} /\ mtx_id' = [mtx_id EXCEPT ![m] = NoId]
        /\ UNCHANGED <<holder, open>> /\ Alive(m)
        /\ \A u \in Thread : open[u][m] = 0
        /\ failure' \in {"none", "hard_assert"}
    BY <1>2 DEF DestroyMutex
  <2>2. i \in Id /\ i \in ids
    BY <2>1 DEF IdsTypeOK, IdsAreTheirs, Alive
  <2>3. Count(t, i) = 0 /\ lock_counts' = [lock_counts EXCEPT ![t][i] = NoEntry]
    BY <1>2, <2>1 DEF DestroyMutex, CountsAreOwn
  <2> HIDE DEF i
  <2>4. IdsTypeOK'
    BY <2>1, <2>2, <2>3 DEF IdsTypeOK, NoEntry, Failures
  <2>5. \A n \in Mutex : /\ Alive(n)' <=> n # m /\ Alive(n)
                         /\ n # m => mtx_id'[n] = mtx_id[n]
    BY <2>1 DEF IdsTypeOK, Alive
  <2>6. DistinctIds'
    BY <2>1, <2>5 DEF DistinctIds, IdsTypeOK, Alive
  <2>7. \A n \in Mutex : Alive(n) /\ n # m => mtx_id[n] # i
    BY <2>1 DEF DistinctIds, i
  <2>8. IdsAreTheirs'
    BY <2>1, <2>5, <2>7 DEF IdsAreTheirs, i
  <2>9. \A u \in Thread, j \in Id : Count(u, j)' = Count(u, j)
    BY <2>2, <2>3 DEF IdsTypeOK, Count
  <2>10. CountsAreOwn'
    BY <2>1, <2>5, <2>9 DEF CountsAreOwn, IdsTypeOK, Alive
  <2>11. NothingLeft'
    BY <2>1, <2>5, <2>9 DEF NothingLeft, CountsAreOwn, i
  <2> QED
    BY <2>1, <2>4, <2>6, <2>8, <2>10, <2>11 DEF HolderIsOpen, BalancedUnlockWorks
<1>3. CASE Lock(t, m) \/ Unlock(t, m)
  <2>1. /\ UNCHANGED <<ids, mtx_id>> /\ Alive(m) /\ open[t][m] = Count(t, i)
        /\ \A n \in Mutex : Alive(n)' <=> Alive(n)
    BY <1>3 DEF Lock, Unlock, CountsAreOwn, NothingLeft, IdsTypeOK, Alive
  <2>2. i \in Id /\ i \in ids
    BY <2>1 DEF IdsTypeOK, IdsAreTheirs, Alive
  <2>3. PICK d \in {-1, 1} :
          /\ lock_counts' = [lock_counts EXCEPT ![t][i] = open[t][m] + d]
          /\ open' = [open EXCEPT ![t][m] = @ + d]
          /\ open[t][m] + d \in 0 .. MaxDepth
    BY <1>3, <2>1 DEF Lock, Unlock, SetCount, IdsTypeOK, TwoMutexes
  <2>4. /\ holder' = [holder EXCEPT ![m] = IF open[t][m] + d > 0 THEN t ELSE NoThread]
        /\ holder[m] \in {t, NoThread}
        /\ failure' = "none"
    <3>1. /\ open[t][m] \in Nat /\ (open[t][m] > 0 <=> holder[m] = t)
          /\ holder \in [Mutex -> Thread \cup {NoThread}]
      BY DEF IdsTypeOK, HolderIsOpen, TwoMutexes
    <3>2. holder[m] = t => holder = [holder EXCEPT ![m] = t]
      BY <3>1
    <3>3. CASE Lock(t, m)
      <4>1. d = 1
        BY <2>1, <2>3, <3>1, <3>3 DEF Lock, SetCount, IdsTypeOK
      <4> QED
        BY <2>1, <3>1, <3>2, <3>3, <4>1 DEF Lock
    <3>4. CASE Unlock(t, m)
      <4>1. d = -1
        BY <2>1, <2>3, <3>1, <3>4 DEF Unlock, SetCount, IdsTypeOK
      <4>2. open[t][m] > 0 /\ Count(t, i) = open[t][m] /\ holder[m] = t
        BY <2>1, <3>1, <3>4 DEF Unlock
      <4>3. /\ failure' = "none"
            /\ holder' = IF open[t][m] = 1 THEN [holder EXCEPT ![m] = NoThread] ELSE holder
        BY <3>4, <4>2 DEF Unlock
      <4>4. open[t][m] + d > 0 <=> open[t][m] # 1
        BY <3>1, <4>1, <4>2
      <4> QED
        BY <3>2, <4>2, <4>3, <4>4
    <3> QED
      BY <1>3, <3>3, <3>4
  <2> HIDE DEF i
  <2>5. IdsTypeOK'
    BY <2>1, <2>2, <2>3, <2>4 DEF IdsTypeOK, TwoMutexes, Failures
  <2>6. \A u \in Thread, n \in Mutex :
          open'[u][n] = IF u = t /\ n = m THEN open[t][m] + d ELSE open[u][n]
    BY <2>3 DEF IdsTypeOK
  <2>7. \A u \in Thread, j \in Id :
          Count(u, j)' = IF u = t /\ j = i THEN open[t][m] + d ELSE Count(u, j)
    BY <2>2, <2>3 DEF IdsTypeOK, Count, NoEntry
  <2>8. \A n \in Mutex : Alive(n) => (mtx_id[n] = i <=> n = m) /\ mtx_id[n] \in Id
    BY <2>1 DEF DistinctIds, IdsTypeOK, Alive, i
  <2>9. DistinctIds' /\ IdsAreTheirs'
    BY <2>1 DEF DistinctIds, IdsAreTheirs, Alive
  <2>10. CountsAreOwn'
    BY <2>1, <2>6, <2>7, <2>8 DEF CountsAreOwn
  <2>11. NothingLeft'
    BY <2>1, <2>2, <2>6, <2>7 DEF NothingLeft
  <2>12. HolderIsOpen'
    BY <2>3, <2>4, <2>6 DEF HolderIsOpen, IdsTypeOK, TwoMutexes
  <2> QED
    BY <2>4, <2>5, <2>9, <2>10, <2>11, <2>12 DEF BalancedUnlockWorks
<1> QED
  BY <1>1, <1>2, <1>3

\* However threads construct, destroy, lock and unlock two mutexes, their ids
\* keep their locks apart: what gen_new_id and release_id promise the
\* thread-local counts of RecursiveSharedMutex.
THEOREM TwoMutexesStayApart ==
  ASSUME NEW a, NEW b, TwoMutexes(a, b)
  PROVE  IdsSpec => []IdsKeepLocksApart
<1>1. IdsInit => IdsIInv
  BY IdsStart
<1>2. IdsIInv /\ [IdsNext]_idsVars => IdsIInv'
  <2> SUFFICES ASSUME IdsIInv, [IdsNext]_idsVars PROVE IdsIInv'
    OBVIOUS
  <2>1. CASE IdsNext
    BY <2>1, IdsStep DEF IdsNext
  <2>2. CASE UNCHANGED idsVars
    BY <2>2 DEF idsVars, IdsIInv, IdsTypeOK, DistinctIds, BalancedUnlockWorks, IdsAreTheirs,
                CountsAreOwn, NothingLeft, HolderIsOpen, Alive, Count
  <2> QED
    BY <2>1, <2>2
<1>3. IdsIInv => IdsKeepLocksApart
  BY DEF IdsIInv, IdsKeepLocksApart, HolderIsOpen, MutualExclusion
<1> QED
  BY <1>1, <1>2, <1>3, PTL DEF IdsSpec

-----------------------------------------------------------------------------
(***************************************************************************)
(* Coroutine, for any number of objects and frames and any length of the   *)
(* generator.                                                              *)
(***************************************************************************)

Place == {"unmade", "start", "yielded", "final", "undefined", "destroyed"}
Coro == [handle : Frame \cup {NoFrame}, done : BOOLEAN, iter_end : BOOLEAN]
Generator == [at : Place, last : Value, value : Value]

CoroTypeOK ==
  /\ coro \in [Object -> Coro]
  /\ frame \in [Frame -> Generator]
  /\ loop \in [Object -> {"none", "compare", "body", "over"}]
  /\ seen \in [Frame -> [Value -> 0 .. 2]]
  /\ by_hand \in [Frame -> SUBSET Value]

\* A frame has one owner, and only an object with a frame is looped over.
HeldOnce ==
  /\ \A o, p \in Object : Holds(o) /\ coro[o].handle = coro[p].handle => o = p
  /\ \A o \in Object : loop[o] # "none" => Holds(o)

\* Of a frame that was never made nothing is known.
UnmadeIsUnseen ==
  \A f \in Frame : frame[f].at = "unmade" =>
    by_hand[f] = {} /\ \A v \in Value : seen[f][v] = 0

\* Where the coroutine of o stands, and that o knows when it is at its end.
Stands(o) ==
  /\ FrameOf(o).at \in {"start", "yielded", "final"}
  /\ coro[o].done <=> FrameOf(o).at = "final"
  /\ FrameOf(o).at = "yielded" => FrameOf(o).value < FrameOf(o).last
  /\ FrameOf(o).at = "final" => FrameOf(o).value = FrameOf(o).last

\* What the bodies of loops saw of the coroutine of o.
Saw(o, v) == seen[coro[o].handle][v] = 1
SeenOnce(o) ==
  \A v \in Value : seen[coro[o].handle][v] <= 1 /\ (Saw(o, v) => v \in Bring(coro[o].handle))
SeenOrTaken(o) ==
  \A v \in Bring(coro[o].handle) :
    Saw(o, v) \/ v \in by_hand[coro[o].handle] \/ (v = FrameOf(o).value /\ loop[o] = "compare")

\* iter_end says that a loop has seen the last value; a loop that compares is
\* at a value that is new to it, or at the last one.
EndIsSeen(o) ==
  /\ coro[o].iter_end <=> FrameOf(o).at = "final" /\ Saw(o, FrameOf(o).last)
  /\ loop[o] = "compare" /\ FrameOf(o).at = "yielded" => ~Saw(o, FrameOf(o).value)
  /\ loop[o] = "over" => FrameOf(o).at = "final" /\ Saw(o, FrameOf(o).last)

Whole(o) ==
  /\ Stands(o)
  /\ loop[o] = "compare" => FrameOf(o).at # "start"
  /\ coro[o].handle \notin left_over => SeenOnce(o) /\ SeenOrTaken(o) /\ EndIsSeen(o)

\* The inductive invariant.
CoroIInv ==
  /\ CoroTypeOK /\ HeldOnce /\ UnmadeIsUnseen
  /\ \A o \in Object : Holds(o) => Whole(o)

----------------------------------------------------------------------------
\* The inductive invariant holds initially.
LEMMA InitIsWhole == MaxTo \in Nat /\ CoroInit => CoroIInv
<1> SUFFICES ASSUME MaxTo \in Nat, CoroInit PROVE CoroIInv
  OBVIOUS
<1>1. /\ \A o \in Object : ~Holds(o) /\ loop[o] = "none"
      /\ UnmadeIsUnseen
  BY DEF CoroInit, Holds, Empty, UnmadeIsUnseen
<1>2. CoroTypeOK
  BY DEF CoroInit, CoroTypeOK, Coro, Generator, Place, Empty, Unmade, Value
<1> QED
  BY <1>1, <1>2 DEF CoroIInv, HeldOnce

\* The conclusion: what is invariant of the objects is true of the frames.
LEMMA WholeIsEnough == NoFrame \notin Frame /\ MaxTo \in Nat /\ CoroIInv => CoroutinesAreWhole
<1> SUFFICES ASSUME NoFrame \notin Frame, MaxTo \in Nat, CoroIInv PROVE CoroutinesAreWhole
  OBVIOUS
<1>1. FramesAreHeld
  BY DEF CoroIInv, HeldOnce, Whole, Stands, FramesAreHeld
<1>2. ValuesAreSeenOnce
  <2> SUFFICES ASSUME NEW o \in Object, coro[o].handle \notin left_over, coro[o].handle # NoFrame
               PROVE  LET f == coro[o].handle IN
                 /\ \A v \in Value : seen[f][v] <= 1 /\ (seen[f][v] = 1 => v \in Bring(f))
                 /\ \A v \in Bring(f) :
                      \/ seen[f][v] = 1 \/ v \in by_hand[f]
                      \/ v = frame[f].value /\ \E p \in Object : coro[p].handle = f /\ loop[p] = "compare"
    BY DEF ValuesAreSeenOnce
  <2>1. SeenOnce(o) /\ SeenOrTaken(o)
    BY DEF CoroIInv, Whole, Holds
  <2> QED
    BY <2>1 DEF SeenOnce, SeenOrTaken, Saw, FrameOf
<1>3. LoopsEndBehindTheLast
  BY DEF CoroIInv, HeldOnce, Whole, EndIsSeen, Saw, LoopsEndBehindTheLast
<1> QED
  BY <1>1, <1>2, <1>3 DEF CoroutinesAreWhole

\* An object whose frame nobody touches stays as it is.
LEMMA UntouchedStaysWhole ==
  ASSUME NEW o \in Object, Whole(o),
         coro'[o] = coro[o], loop'[o] = loop[o],
         LET f == coro[o].handle IN
           /\ frame'[f] = frame[f] /\ seen'[f] = seen[f] /\ by_hand'[f] = by_hand[f]
           /\ f \in left_over' <=> f \in left_over
  PROVE  Whole(o)'
<1>1. FrameOf(o)' = FrameOf(o) /\ Bring(coro[o].handle)' = Bring(coro[o].handle)
  BY DEF FrameOf, Bring
<1>2. Stands(o)'
  BY <1>1 DEF Whole, Stands
<1>3. CASE coro[o].handle \notin left_over
  <2>1. SeenOnce(o)' /\ SeenOrTaken(o)' /\ EndIsSeen(o)'
    BY <1>1, <1>3 DEF Whole, SeenOnce, SeenOrTaken, EndIsSeen, Saw
  <2> QED
    BY <1>1, <1>2, <2>1 DEF Whole
<1>4. CASE coro[o].handle \in left_over
  BY <1>1, <1>2, <1>4 DEF Whole
<1> QED
  BY <1>3, <1>4

\* What a resumption brings: the next value, or nothing new at the end.
LEMMA ResumeBringsNext ==
  ASSUME MaxTo \in Nat, CoroIInv, NEW o \in Object, Holds(o), Resume(o)
  PROVE  LET f == coro[o].handle
             x == FrameOf(o)
             y == Resumed(o)
         IN  /\ f \in Frame /\ x \in Generator /\ y \in Generator
             /\ frame' = [frame EXCEPT ![f] = y]
             /\ coro' = [coro EXCEPT ![o].done = y.at = "final"]
             /\ y.last = x.last /\ y.at \in {"yielded", "final"}
             /\ y.at = "yielded" => y.value < y.last
             /\ y.at = "final" => y.value = y.last
             /\ IsDone(o) => y = x /\ x.at = "final"
             /\ ~IsDone(o) => /\ x.at # "final" /\ y.value \notin Bring(f)
                              /\ y.value = IF x.at = "start" THEN 0 ELSE x.value + 1
<1> DEFINE f == coro[o].handle
           x == FrameOf(o)
           y == Resumed(o)
<1>1. f \in Frame /\ x \in Generator /\ x = frame[f]
  BY DEF CoroIInv, CoroTypeOK, Coro, Holds, FrameOf
<1>2. /\ x.at \in {"start", "yielded", "final"} /\ (IsDone(o) <=> x.at = "final")
      /\ x.at = "yielded" => x.value < x.last
      /\ x.at = "final" => x.value = x.last
      /\ x.last \in Int /\ x.value \in Int /\ 0 <= x.last /\ x.last <= MaxTo /\ 0 <= x.value
  BY <1>1 DEF CoroIInv, Whole, Stands, IsDone, Generator, Value
<1>3. frame' = [frame EXCEPT ![f] = y] /\ coro' = [coro EXCEPT ![o].done = y.at = "final"]
  BY DEF Resume
<1>4. CASE IsDone(o)
  <2>1. y = x
    BY <1>4 DEF Resumed
  <2> QED
    BY <1>1, <1>2, <1>3, <1>4, <2>1
<1>5. CASE ~IsDone(o)
  <2> DEFINE v == IF x.at = "start" THEN 0 ELSE x.value + 1
  <2>1. y = [x EXCEPT !.value = v, !.at = IF v = x.last THEN "final" ELSE "yielded"]
    BY <1>2, <1>5 DEF Resumed, Produced
  <2>2. v \in Value /\ v <= x.last /\ v \notin Bring(f)
    <3>1. v \in Value /\ v <= x.last
      BY <1>2, <1>5 DEF Value
    <3>2. x.at = "yielded" => v = x.value + 1
      BY <1>2
    <3>3. v \notin Bring(f)
      BY <1>1, <1>2, <1>5, <3>1, <3>2 DEF Bring
    <3> QED
      BY <3>1, <3>3
  <2> HIDE DEF v
  <2>3. /\ y.value = v /\ y.last = x.last /\ y.at = IF v = x.last THEN "final" ELSE "yielded"
        /\ y \in Generator
    BY <1>1, <2>1, <2>2 DEF Generator, Place
  <2>4. v # x.last => v < x.last
    BY <1>2, <2>2 DEF Value
  <2> QED
    BY <1>1, <1>2, <1>3, <1>5, <2>2, <2>3, <2>4 DEF v
<1> QED
  BY <1>4, <1>5

\* A step on one object and its frame.
LEMMA OneObject ==
  ASSUME NoFrame \notin Frame, CoroIInv, NEW o \in Object, Holds(o), CoroTypeOK', Whole(o)',
         coro'[o].handle = coro[o].handle,
         \A p \in Object : p # o => coro'[p] = coro[p] /\ loop'[p] = loop[p],
         \A g \in Frame : g # coro[o].handle =>
           frame'[g] = frame[g] /\ seen'[g] = seen[g] /\ by_hand'[g] = by_hand[g],
         left_over' = left_over
  PROVE  CoroIInv'
<1>1. \A p \in Object : coro'[p].handle = coro[p].handle
  OBVIOUS
<1>2. HeldOnce'
  BY <1>1 DEF CoroIInv, HeldOnce, Holds
<1>3. UnmadeIsUnseen'
  BY DEF CoroIInv, UnmadeIsUnseen, Whole, Stands, FrameOf
<1>4. ASSUME NEW p \in Object, Holds(p)' PROVE Whole(p)'
  <2>1. CASE p # o
    <3>1. Holds(p) /\ coro[p].handle \in Frame /\ coro[p].handle # coro[o].handle
      BY <1>1, <1>4, <2>1 DEF CoroIInv, CoroTypeOK, Coro, HeldOnce, Holds
    <3> QED
      BY <2>1, <3>1, UntouchedStaysWhole DEF CoroIInv
  <2> QED
    BY <2>1
<1> QED
  BY <1>2, <1>3, <1>4 DEF CoroIInv

\* A coroutine that was resumed, by hand or by a loop that compares next.
LEMMA ResumedIsWhole ==
  ASSUME NoFrame \notin Frame, MaxTo \in Nat, CoroIInv, NEW o \in Object, Holds(o), Resume(o),
         loop[o] # "compare", UNCHANGED <<seen, left_over>>,
         \/ /\ loop' = loop
            /\ by_hand' = [by_hand EXCEPT ![coro[o].handle] =
                             IF IsDone(o) THEN @ ELSE @ \cup {Resumed(o).value}]
         \/ loop' = [loop EXCEPT ![o] = "compare"] /\ by_hand' = by_hand
  PROVE  CoroIInv'
<1> DEFINE f == coro[o].handle
           x == FrameOf(o)
           y == Resumed(o)
           ended == y.at = "final"
<1>1. /\ f \in Frame /\ x = frame[f] /\ y \in Generator
      /\ frame' = [frame EXCEPT ![f] = y] /\ coro' = [coro EXCEPT ![o].done = ended]
      /\ y.last = x.last /\ y.at \in {"yielded", "final"}
      /\ y.at = "yielded" => y.value < y.last
      /\ y.at = "final" => y.value = y.last
      /\ IsDone(o) => y = x /\ x.at = "final"
      /\ ~IsDone(o) => /\ x.at # "final" /\ y.value \notin Bring(f)
                       /\ y.value = IF x.at = "start" THEN 0 ELSE x.value + 1
  BY ResumeBringsNext DEF FrameOf
<1>2. ended \in BOOLEAN
  OBVIOUS
<1>3. Whole(o)
  BY DEF CoroIInv
<1>4. y.value \in Value /\ x.value \in Value /\ y.last \in Value
  BY <1>1 DEF CoroIInv, CoroTypeOK, Generator
<1> HIDE DEF f, y, ended
<1>5. frame'[f] = y
  BY <1>1 DEF CoroIInv, CoroTypeOK
<1>6. /\ coro'[o].handle = f /\ coro'[o].done = ended /\ coro'[o].iter_end = coro[o].iter_end
      /\ coro' \in [Object -> Coro]
  <2> DEFINE c == [coro[o] EXCEPT !.done = ended]
  <2>1. coro[o] \in Coro /\ coro[o].handle = f
    BY DEF CoroIInv, CoroTypeOK, f
  <2>2. c \in Coro /\ c.handle = f /\ c.done = ended /\ c.iter_end = coro[o].iter_end
    BY <1>2, <2>1 DEF Coro
  <2>3. coro' = [coro EXCEPT ![o] = c]
    BY <1>1
  <2> HIDE DEF c
  <2> QED
    BY <2>2, <2>3 DEF CoroIInv, CoroTypeOK
<1>7. CoroTypeOK'
  <2>1. frame' \in [Frame -> Generator] /\ loop' \in [Object -> {"none", "compare", "body", "over"}]
    BY <1>1 DEF CoroIInv, CoroTypeOK
  <2>2. by_hand' \in [Frame -> SUBSET Value]
    <3>1. by_hand[f] \cup {y.value} \in SUBSET Value
      BY <1>1, <1>4 DEF CoroIInv, CoroTypeOK
    <3> QED
      BY <1>1, <3>1 DEF CoroIInv, CoroTypeOK, f, y
  <2> QED
    BY <1>6, <2>1, <2>2 DEF CoroIInv, CoroTypeOK
<1>8. FrameOf(o)' = y
  BY <1>5, <1>6 DEF FrameOf
<1>9. Stands(o)'
  BY <1>1, <1>6, <1>8 DEF Stands, ended
<1>10. Bring(coro[o].handle)' = 0 .. y.value
  BY <1>1, <1>5, <1>6 DEF Bring
<1>11. /\ IsDone(o) => Bring(f) = 0 .. y.value
       /\ ~IsDone(o) => 0 .. y.value = Bring(f) \cup {y.value}
  BY <1>1, <1>3, <1>4 DEF Bring, Value, Whole, Stands
<1>12. /\ loop'[o] = "compare" => by_hand' = by_hand
       /\ loop'[o] # "compare" => loop'[o] = loop[o] /\ (~IsDone(o) => y.value \in by_hand'[f])
       /\ by_hand[f] \subseteq by_hand'[f]
  BY <1>1 DEF CoroIInv, CoroTypeOK, f, y
<1>13. ASSUME f \notin left_over PROVE Whole(o)'
  <2>1. SeenOnce(o) /\ SeenOrTaken(o) /\ EndIsSeen(o)
    BY <1>3, <1>13 DEF Whole, f
  <2>2. SeenOnce(o)'
    BY <1>6, <1>10, <1>11, <2>1 DEF SeenOnce, Saw, f
  <2>3. SeenOrTaken(o)'
    <3> SUFFICES ASSUME NEW v \in 0 .. y.value
                 PROVE  \/ seen[f][v] = 1 \/ v \in by_hand'[f]
                        \/ v = y.value /\ loop'[o] = "compare"
      BY <1>6, <1>8, <1>10 DEF SeenOrTaken, Saw
    <3>1. CASE v \in Bring(f)
      BY <1>12, <2>1, <3>1 DEF SeenOrTaken, Saw, f
    <3>2. CASE v \notin Bring(f)
      <4>1. ~IsDone(o) /\ v = y.value
        BY <1>11, <3>2
      <4> QED
        BY <1>12, <4>1
    <3> QED
      BY <3>1, <3>2
  <2>4. ASSUME ~IsDone(o) PROVE seen[f][y.value] # 1 /\ x.at # "final"
    BY <1>1, <1>4, <2>1, <2>4 DEF SeenOnce, Saw, f
  <2>5. EndIsSeen(o)'
    <3>1. CASE IsDone(o)
      <4>1. /\ FrameOf(o)' = x /\ x.at = "final" /\ coro'[o].handle = coro[o].handle
            /\ coro'[o].iter_end = coro[o].iter_end
        BY <1>1, <1>6, <1>8, <3>1 DEF f
      <4>2. Saw(o, x.last)' <=> Saw(o, x.last)
        BY <1>1, <4>1 DEF Saw
      <4>3. (coro[o].iter_end <=> Saw(o, x.last)) /\ (loop[o] = "over" => Saw(o, x.last))
        BY <2>1, <4>1 DEF EndIsSeen
      <4>4. Saw(o, FrameOf(o).last)' <=> Saw(o, x.last)
        BY <4>1, <4>2 DEF Saw
      <4> QED
        BY <1>12, <4>1, <4>3, <4>4 DEF EndIsSeen
    <3>2. CASE ~IsDone(o)
      BY <1>1, <1>6, <1>8, <1>12, <2>1, <2>4, <3>2 DEF EndIsSeen, Saw, f
    <3> QED
      BY <3>1, <3>2
  <2> QED
    BY <1>1, <1>6, <1>8, <1>9, <2>2, <2>3, <2>5 DEF Whole
<1>14. ASSUME f \in left_over PROVE Whole(o)'
  BY <1>1, <1>6, <1>8, <1>9, <1>14 DEF Whole
<1>15. Whole(o)'
  BY <1>13, <1>14
<1>16. \A p \in Object : p # o => coro'[p] = coro[p] /\ loop'[p] = loop[p]
  BY <1>1 DEF CoroIInv, CoroTypeOK
<1>17. \A g \in Frame : g # f => frame'[g] = frame[g] /\ by_hand'[g] = by_hand[g]
  BY <1>1 DEF CoroIInv, CoroTypeOK, f
<1> QED
  BY <1>6, <1>7, <1>15, <1>16, <1>17, OneObject DEF f

\* A loop that compares ends at iter_end; at any other value its body sees it.
LEMMA ComparedIsWhole ==
  ASSUME NoFrame \notin Frame, MaxTo \in Nat, CoroIInv, NEW o \in Object, Compare(o)
  PROVE  CoroIInv'
<1> DEFINE f == coro[o].handle
           x == FrameOf(o)
           ends == coro[o].iter_end
           e == ends \/ IsDone(o)
<1>1. /\ loop[o] = "compare" /\ coro' = [coro EXCEPT ![o].iter_end = e]
      /\ loop' = [loop EXCEPT ![o] = IF ends THEN "over" ELSE "body"]
      /\ frame' = frame /\ by_hand' = by_hand /\ left_over' = left_over
      /\ ends => seen' = seen
      /\ ~ends => seen' = [seen EXCEPT ![f][x.value] = IF @ < 2 THEN @ + 1 ELSE @]
  BY DEF Compare, IsIterEnd
<1>2. Holds(o) /\ Whole(o) /\ f \in Frame /\ x = frame[f] /\ x \in Generator
  BY <1>1 DEF CoroIInv, HeldOnce, CoroTypeOK, Coro, Holds, FrameOf
<1>3. /\ x.value \in Value /\ x.last \in Value /\ x.at \in {"yielded", "final"}
      /\ (IsDone(o) <=> x.at = "final") /\ (x.at = "final" => x.value = x.last)
  BY <1>1, <1>2 DEF Whole, Stands, IsDone, Generator
<1>4. ends \in BOOLEAN /\ e \in BOOLEAN
  BY DEF CoroIInv, CoroTypeOK, Coro
<1> HIDE DEF f, x, e
<1>5. /\ coro'[o].handle = f /\ coro'[o].done = coro[o].done /\ coro'[o].iter_end = e
      /\ coro' \in [Object -> Coro]
  <2> DEFINE c == [coro[o] EXCEPT !.iter_end = e]
  <2>1. coro[o] \in Coro /\ coro[o].handle = f
    BY DEF CoroIInv, CoroTypeOK, f
  <2>2. c \in Coro /\ c.handle = f /\ c.done = coro[o].done /\ c.iter_end = e
    BY <1>4, <2>1 DEF Coro
  <2>3. coro' = [coro EXCEPT ![o] = c]
    BY <1>1
  <2> HIDE DEF c
  <2> QED
    BY <2>2, <2>3 DEF CoroIInv, CoroTypeOK
<1>6. FrameOf(o)' = x /\ Bring(coro[o].handle)' = Bring(f)
  BY <1>1, <1>2, <1>5 DEF FrameOf, Bring
<1>7. /\ loop' \in [Object -> {"none", "compare", "body", "over"}]
      /\ loop'[o] = IF ends THEN "over" ELSE "body"
  BY <1>1 DEF CoroIInv, CoroTypeOK
<1>8. /\ seen' \in [Frame -> [Value -> 0 .. 2]]
      /\ \A g \in Frame : g # f => seen'[g] = seen[g]
      /\ \A v \in Value : v # x.value => seen'[f][v] = seen[f][v]
      /\ ends => seen'[f][x.value] = seen[f][x.value]
      /\ ~ends /\ seen[f][x.value] = 0 => seen'[f][x.value] = 1
  <2>1. seen \in [Frame -> [Value -> 0 .. 2]]
    BY DEF CoroIInv, CoroTypeOK
  <2>2. CASE ends
    BY <1>1, <2>1, <2>2
  <2>3. CASE ~ends
    <3> DEFINE n == IF seen[f][x.value] < 2 THEN seen[f][x.value] + 1 ELSE seen[f][x.value]
    <3>1. seen[f][x.value] \in 0 .. 2
      BY <1>2, <1>3, <2>1
    <3>2. n \in 0 .. 2 /\ (seen[f][x.value] = 0 => n = 1)
      BY <3>1
    <3>3. seen' = [seen EXCEPT ![f] = [@ EXCEPT ![x.value] = n]]
      BY <1>1, <2>3
    <3> HIDE DEF n
    <3> QED
      BY <1>2, <1>3, <2>1, <2>3, <3>2, <3>3
  <2> QED
    BY <2>2, <2>3
<1>9. CoroTypeOK'
  BY <1>1, <1>5, <1>7, <1>8 DEF CoroIInv, CoroTypeOK
<1>10. Stands(o)'
  BY <1>2, <1>5, <1>6 DEF Whole, Stands, x
<1>11. ASSUME f \notin left_over PROVE Whole(o)'
  <2>1. SeenOnce(o) /\ SeenOrTaken(o) /\ EndIsSeen(o)
    BY <1>2, <1>11 DEF Whole, f
  <2>2. x.value \in Bring(f) /\ Bring(f) \subseteq Value
    BY <1>2, <1>3 DEF Bring, Value
  <2>3. ends <=> x.at = "final" /\ seen[f][x.last] = 1
    BY <2>1 DEF EndIsSeen, Saw, f, x
  <2>4. ~ends => seen[f][x.value] = 0
    <3>1. ~ends => seen[f][x.value] # 1
      BY <1>1, <1>3, <2>1, <2>3 DEF EndIsSeen, Saw, f, x
    <3>2. seen[f][x.value] \in 0 .. 2 /\ seen[f][x.value] <= 1
      BY <1>2, <1>3, <2>1 DEF SeenOnce, CoroIInv, CoroTypeOK, f
    <3> QED
      BY <3>1, <3>2
  <2>5. seen'[f][x.value] = 1
    <3>1. ends => seen[f][x.value] = 1
      BY <1>3, <2>3
    <3> QED
      BY <1>8, <2>4, <3>1
  <2>6. SeenOnce(o)'
    <3> SUFFICES ASSUME NEW v \in Value
                 PROVE  seen'[f][v] <= 1 /\ (seen'[f][v] = 1 => v \in Bring(f))
      BY <1>5, <1>6 DEF SeenOnce, Saw
    <3>1. CASE v = x.value
      BY <2>2, <2>5, <3>1
    <3>2. CASE v # x.value
      BY <1>8, <2>1, <3>2 DEF SeenOnce, Saw, f
    <3> QED
      BY <3>1, <3>2
  <2>7. SeenOrTaken(o)'
    <3> SUFFICES ASSUME NEW v \in Bring(f) PROVE seen'[f][v] = 1 \/ v \in by_hand[f]
      BY <1>1, <1>5, <1>6 DEF SeenOrTaken, Saw
    <3>1. CASE v = x.value
      BY <2>5, <3>1
    <3>2. CASE v # x.value
      BY <1>8, <2>1, <2>2, <3>2 DEF SeenOrTaken, Saw, f, x
    <3> QED
      BY <3>1, <3>2
  <2>8. e <=> x.at = "final" /\ seen'[f][x.last] = 1
    BY <1>3, <2>3, <2>5 DEF e
  <2>9. loop'[o] # "compare" /\ (loop'[o] = "over" => ends)
    BY <1>7
  <2>10. Saw(o, FrameOf(o).last)' <=> seen'[f][x.last] = 1
    BY <1>5, <1>6 DEF Saw
  <2>11. EndIsSeen(o)'
    BY <1>5, <1>6, <2>8, <2>9, <2>10 DEF EndIsSeen, e
  <2> QED
    BY <1>10, <2>6, <2>7, <2>9, <2>11 DEF Whole
<1>12. ASSUME f \in left_over PROVE Whole(o)'
  BY <1>1, <1>5, <1>7, <1>10, <1>12 DEF Whole
<1>13. Whole(o)'
  BY <1>11, <1>12
<1>14. \A p \in Object : p # o => coro'[p] = coro[p] /\ loop'[p] = loop[p]
  BY <1>1 DEF CoroIInv, CoroTypeOK
<1> QED
  BY <1>1, <1>2, <1>5, <1>8, <1>9, <1>13, <1>14, OneObject DEF f

\* A loop is left.
LEMMA LeftIsWhole ==
  ASSUME NoFrame \notin Frame, CoroIInv, NEW o \in Object, Break(o)
  PROVE  CoroIInv'
<1>1. /\ loop[o] = "body" /\ loop' = [loop EXCEPT ![o] = "none"]
      /\ UNCHANGED <<coro, frame, seen, by_hand, left_over>>
  BY DEF Break
<1>2. Holds(o) /\ Whole(o)
  BY <1>1 DEF CoroIInv, HeldOnce
<1>3. CoroTypeOK' /\ loop'[o] = "none" /\ \A p \in Object : p # o => loop'[p] = loop[p]
  BY <1>1 DEF CoroIInv, CoroTypeOK
<1>4. FrameOf(o)' = FrameOf(o) /\ Bring(coro[o].handle)' = Bring(coro[o].handle)
  BY <1>1 DEF FrameOf, Bring
<1>5. Whole(o)'
  BY <1>1, <1>2, <1>3, <1>4 DEF Whole, Stands, SeenOnce, SeenOrTaken, EndIsSeen, Saw
<1> QED
  BY <1>1, <1>2, <1>3, <1>5, OneObject

\* A coroutine is made.
LEMMA MadeIsWhole ==
  ASSUME NoFrame \notin Frame, MaxTo \in Nat, CoroIInv, NEW o \in Object, Make(o)
  PROVE  CoroIInv'
<1>1. PICK f \in Frame, to \in Value :
        /\ frame[f] = Unmade
        /\ frame' = [frame EXCEPT ![f] = [Unmade EXCEPT !.at = "start", !.last = to]]
        /\ coro' = [coro EXCEPT ![o] = [Empty EXCEPT !.handle = f]]
  BY DEF Make
<1>2. ~Holds(o) /\ loop[o] = "none" /\ UNCHANGED <<loop, seen, by_hand, left_over>>
  BY DEF Make
<1> DEFINE x == [Unmade EXCEPT !.at = "start", !.last = to]
           c == [Empty EXCEPT !.handle = f]
<1>3. x \in Generator /\ x.at = "start" /\ Unmade.at = "unmade"
  <2>1. Unmade \in Generator /\ Unmade.at = "unmade"
    BY DEF Unmade, Generator, Place, Value
  <2> QED
    BY <2>1 DEF Generator, Place
<1>4. c \in Coro /\ c.handle = f /\ ~c.done /\ ~c.iter_end
  <2>1. Empty \in Coro /\ ~Empty.done /\ ~Empty.iter_end
    BY DEF Empty, Coro
  <2> QED
    BY <2>1 DEF Coro
<1>5. frame' = [frame EXCEPT ![f] = x] /\ coro' = [coro EXCEPT ![o] = c] /\ frame[f].at = "unmade"
  BY <1>1, <1>3
<1> HIDE DEF x, c
<1>6. CoroTypeOK'
  BY <1>2, <1>3, <1>4, <1>5 DEF CoroIInv, CoroTypeOK
<1>7. /\ frame'[f].at = "start"
      /\ coro'[o].handle = f /\ ~coro'[o].done /\ ~coro'[o].iter_end
      /\ \A g \in Frame : g # f => frame'[g] = frame[g]
      /\ \A p \in Object : p # o => coro'[p] = coro[p]
  BY <1>3, <1>4, <1>5 DEF CoroIInv, CoroTypeOK
<1>8. \A p \in Object : Holds(p) => coro[p].handle # f /\ p # o /\ coro[p].handle \in Frame
  BY <1>2, <1>5 DEF CoroIInv, CoroTypeOK, Coro, Whole, Stands, FrameOf, Holds
<1>9. HeldOnce'
  BY <1>2, <1>7, <1>8 DEF CoroIInv, HeldOnce, Holds
<1>10. UnmadeIsUnseen'
  BY <1>2, <1>7 DEF CoroIInv, UnmadeIsUnseen
<1>11. Whole(o)'
  <2>1. FrameOf(o)'.at = "start" /\ Bring(coro[o].handle)' = {}
    BY <1>7 DEF FrameOf, Bring
  <2>2. \A v \in Value : seen[f][v] = 0
    BY <1>5 DEF CoroIInv, UnmadeIsUnseen
  <2>3. SeenOnce(o)'
    BY <1>2, <1>7, <2>2 DEF SeenOnce, Saw
  <2> QED
    BY <1>2, <1>7, <2>1, <2>3 DEF Whole, Stands, SeenOrTaken, EndIsSeen
<1>12. ASSUME NEW p \in Object, Holds(p)', p # o PROVE Whole(p)'
  <2>1. Holds(p) /\ coro[p].handle # f /\ coro[p].handle \in Frame
    BY <1>7, <1>8, <1>12 DEF Holds
  <2> QED
    BY <1>2, <1>7, <1>12, <2>1, UntouchedStaysWhole DEF CoroIInv
<1> QED
  BY <1>6, <1>9, <1>10, <1>11, <1>12 DEF CoroIInv

\* A coroutine goes from one object to another; where that one has another
\* iter_end, the frame is left_over.
LEMMA HandedOverIsWhole ==
  ASSUME NoFrame \notin Frame, CoroIInv, NEW o \in Object, NEW other \in Object,
         o # other, Holds(other), loop[other] \in {"none", "over"},
         UNCHANGED <<frame, seen, by_hand>>, CoroTypeOK',
         loop'[o] = "none", loop'[other] = "none",
         coro'[o].handle = coro[other].handle, coro'[o].done = coro[other].done,
         coro'[other].handle = NoFrame,
         \A p \in Object : p \notin {o, other} => coro'[p] = coro[p] /\ loop'[p] = loop[p],
         left_over' = left_over \cup
                        IF coro'[o].iter_end # coro[other].iter_end THEN {coro[other].handle} ELSE {}
  PROVE  CoroIInv'
<1> DEFINE f == coro[other].handle
<1>1. HeldOnce'
  BY DEF CoroIInv, HeldOnce, Holds
<1>2. UnmadeIsUnseen'
  BY DEF CoroIInv, UnmadeIsUnseen
<1>3. Whole(other)
  BY DEF CoroIInv
<1>4. FrameOf(o)' = FrameOf(other) /\ Bring(coro[o].handle)' = Bring(f)
  BY DEF FrameOf, Bring
<1>5. Stands(o)'
  BY <1>3, <1>4 DEF Whole, Stands
<1>6. ASSUME f \notin left_over' PROVE SeenOnce(o)' /\ SeenOrTaken(o)' /\ EndIsSeen(o)'
  <2>1. coro'[o].iter_end = coro[other].iter_end /\ f \notin left_over
    BY <1>6
  <2>2. SeenOnce(other) /\ SeenOrTaken(other) /\ EndIsSeen(other)
    BY <1>3, <2>1 DEF Whole
  <2>3. SeenOnce(o)' /\ SeenOrTaken(o)'
    BY <1>4, <2>2 DEF SeenOnce, SeenOrTaken, Saw
  <2>4. EndIsSeen(o)'
    BY <1>4, <2>1, <2>2 DEF EndIsSeen, Saw
  <2> QED
    BY <2>3, <2>4
<1>7. Whole(o)'
  BY <1>5, <1>6 DEF Whole
<1>8. ASSUME NEW p \in Object, Holds(p)', p # o PROVE Whole(p)'
  <2>1. p # other /\ coro'[p] = coro[p] /\ loop'[p] = loop[p]
    BY <1>8 DEF Holds
  <2>2. Holds(p) /\ coro[p].handle # f
    BY <1>8, <2>1 DEF CoroIInv, HeldOnce, Holds
  <2>3. Whole(p) /\ (coro[p].handle \in left_over' <=> coro[p].handle \in left_over)
    BY <2>2 DEF CoroIInv
  <2> QED
    BY <2>1, <2>3, UntouchedStaysWhole
<1> QED
  BY <1>1, <1>2, <1>7, <1>8 DEF CoroIInv

\* A moved coroutine: the new owner has the frame with what was seen of it, the old one none.
LEMMA MovedIsWhole ==
  ASSUME NoFrame \notin Frame, CoroIInv, NEW o \in Object, NEW other \in Object,
         MoveConstructCoro(o, other) \/ MoveAssignCoro(o, other)
  PROVE  CoroIInv'
<1>1. /\ o # other /\ Holds(other) /\ loop[other] \in {"none", "over"}
      /\ UNCHANGED <<frame, seen, by_hand>>
  BY DEF MoveConstructCoro, MoveAssignCoro
<1>2. coro \in [Object -> Coro] /\ loop \in [Object -> {"none", "compare", "body", "over"}]
  BY DEF CoroIInv, CoroTypeOK
<1> DEFINE c == [coro[other] EXCEPT !.handle = NoFrame]
<1>3. c \in Coro /\ c.handle = NoFrame
  BY <1>2 DEF Coro
<1>4. CASE MoveConstructCoro(o, other)
  <2> DEFINE d == [Empty EXCEPT !.handle = coro[other].handle, !.done = coro[other].done]
  <2>1. Empty \in Coro /\ ~Empty.iter_end
    BY DEF Empty, Coro
  <2>2. d \in Coro /\ d.handle = coro[other].handle /\ d.done = coro[other].done /\ ~d.iter_end
    BY <1>2, <2>1 DEF Coro
  <2>3. coro' = [coro EXCEPT ![o] = d, ![other] = c]
    BY <1>1, <1>4 DEF MoveConstructCoro
  <2>4. /\ loop[o] = "none" /\ loop' = [loop EXCEPT ![other] = "none"]
        /\ left_over' = left_over \cup IF coro[other].iter_end THEN {coro[other].handle} ELSE {}
    BY <1>4 DEF MoveConstructCoro
  <2> HIDE DEF c, d
  <2>5. /\ coro'[o] = d /\ coro'[other] = c /\ coro' \in [Object -> Coro]
        /\ \A p \in Object : p \notin {o, other} => coro'[p] = coro[p]
    BY <1>1, <1>2, <1>3, <2>2, <2>3
  <2>6. /\ loop'[o] = "none" /\ loop'[other] = "none"
        /\ loop' \in [Object -> {"none", "compare", "body", "over"}]
        /\ \A p \in Object : p \notin {o, other} => loop'[p] = loop[p]
    BY <1>1, <1>2, <2>4
  <2>7. CoroTypeOK'
    BY <1>1, <2>5, <2>6 DEF CoroIInv, CoroTypeOK
  <2>8. left_over' = left_over \cup
                       IF coro'[o].iter_end # coro[other].iter_end THEN {coro[other].handle} ELSE {}
    <3>1. /\ coro'[o].iter_end \in BOOLEAN /\ ~coro'[o].iter_end
          /\ coro[other].iter_end \in BOOLEAN
      BY <1>2, <2>2, <2>5 DEF Coro
    <3>2. coro'[o].iter_end # coro[other].iter_end <=> coro[other].iter_end
      BY <3>1
    <3> QED
      BY <2>4, <3>2
  <2> QED
    BY <1>1, <1>3, <2>2, <2>5, <2>6, <2>7, <2>8, HandedOverIsWhole
<1>5. CASE MoveAssignCoro(o, other)
  <2> DEFINE d == [coro[o] EXCEPT !.handle = coro[other].handle, !.done = coro[other].done]
  <2>1. d \in Coro /\ d.handle = coro[other].handle /\ d.done = coro[other].done
        /\ d.iter_end = coro[o].iter_end
    BY <1>2 DEF Coro
  <2>2. coro' = [coro EXCEPT ![o] = d, ![other] = c]
    BY <1>1, <1>5 DEF MoveAssignCoro
  <2>3. /\ loop' = [loop EXCEPT ![o] = "none", ![other] = "none"]
        /\ left_over' = left_over \cup
             IF coro[o].iter_end # coro[other].iter_end THEN {coro[other].handle} ELSE {}
    BY <1>5 DEF MoveAssignCoro
  <2>4. /\ coro'[o] = d /\ coro'[other] = c /\ coro' \in [Object -> Coro]
        /\ \A p \in Object : p \notin {o, other} => coro'[p] = coro[p]
    <3> HIDE DEF c, d
    <3> QED
      BY <1>1, <1>2, <1>3, <2>1, <2>2
  <2>5. /\ loop'[o] = "none" /\ loop'[other] = "none"
        /\ loop' \in [Object -> {"none", "compare", "body", "over"}]
        /\ \A p \in Object : p \notin {o, other} => loop'[p] = loop[p]
    BY <1>1, <1>2, <2>3
  <2>6. CoroTypeOK'
    BY <1>1, <2>4, <2>5 DEF CoroIInv, CoroTypeOK
  <2> HIDE DEF c, d
  <2> QED
    BY <1>1, <1>3, <2>1, <2>3, <2>4, <2>5, <2>6, HandedOverIsWhole
<1> QED
  BY <1>4, <1>5

\* An object is destroyed, and its coroutine with it.
LEMMA DestroyedIsWhole ==
  ASSUME NoFrame \notin Frame, MaxTo \in Nat, CoroIInv, NEW o \in Object, DestroyCoro(o)
  PROVE  CoroIInv'
<1> DEFINE f == coro[o].handle
<1>1. /\ coro' = [coro EXCEPT ![o] = Empty] /\ loop' = [loop EXCEPT ![o] = "none"]
      /\ left_over' = left_over \ {f}
      /\ Holds(o) => /\ frame' = [frame EXCEPT ![f].at = "destroyed"]
                     /\ seen' = [seen EXCEPT ![f] = [v \in Value |-> 0]]
                     /\ by_hand' = [by_hand EXCEPT ![f] = {}]
      /\ ~Holds(o) => UNCHANGED <<frame, seen, by_hand>>
  BY DEF DestroyCoro
<1>2. Empty \in Coro /\ Empty.handle = NoFrame
  BY DEF Empty, Coro
<1>3. /\ coro'[o].handle = NoFrame /\ loop'[o] = "none"
      /\ \A p \in Object : p # o => coro'[p] = coro[p] /\ loop'[p] = loop[p]
      /\ coro' \in [Object -> Coro] /\ loop' \in [Object -> {"none", "compare", "body", "over"}]
  BY <1>1, <1>2 DEF CoroIInv, CoroTypeOK
<1>4. /\ frame' \in [Frame -> Generator]
      /\ \A g \in Frame : g # f => frame'[g] = frame[g]
      /\ f \in Frame => frame'[f].at = "destroyed"
  <2>1. CASE Holds(o)
    <3>1. frame \in [Frame -> Generator]
      BY DEF CoroIInv, CoroTypeOK
    <3> QED
      BY <1>1, <2>1, <3>1 DEF Generator, Place
  <2>2. CASE ~Holds(o)
    BY <1>1, <2>2 DEF CoroIInv, CoroTypeOK, Holds
  <2> QED
    BY <2>1, <2>2
<1>5. /\ seen' \in [Frame -> [Value -> 0 .. 2]] /\ by_hand' \in [Frame -> SUBSET Value]
      /\ \A g \in Frame : g # f => seen'[g] = seen[g] /\ by_hand'[g] = by_hand[g]
  <2>1. CASE Holds(o)
    <3> DEFINE zeros == [v \in Value |-> 0]
    <3>1. zeros \in [Value -> 0 .. 2] /\ {} \in SUBSET Value
      OBVIOUS
    <3>2. seen' = [seen EXCEPT ![f] = zeros] /\ by_hand' = [by_hand EXCEPT ![f] = {}]
      BY <1>1, <2>1
    <3> HIDE DEF zeros
    <3> QED
      BY <3>1, <3>2 DEF CoroIInv, CoroTypeOK
  <2>2. CASE ~Holds(o)
    BY <1>1, <2>2 DEF CoroIInv, CoroTypeOK
  <2> QED
    BY <2>1, <2>2
<1> HIDE DEF f
<1>6. CoroTypeOK'
  BY <1>3, <1>4, <1>5 DEF CoroTypeOK
<1>7. HeldOnce'
  BY <1>3 DEF CoroIInv, HeldOnce, Holds
<1>8. UnmadeIsUnseen'
  BY <1>4, <1>5 DEF CoroIInv, UnmadeIsUnseen
<1>9. ASSUME NEW p \in Object, Holds(p)' PROVE Whole(p)'
  <2>1. p # o /\ coro'[p] = coro[p] /\ loop'[p] = loop[p] /\ Holds(p)
    BY <1>3, <1>9 DEF Holds
  <2>2. coro[p].handle \in Frame /\ coro[p].handle # f
    BY <2>1 DEF CoroIInv, CoroTypeOK, Coro, HeldOnce, Holds, f
  <2>3. coro[p].handle \in left_over' <=> coro[p].handle \in left_over
    BY <1>1, <2>2 DEF f
  <2>4. Whole(p)
    BY <2>1 DEF CoroIInv
  <2> QED
    BY <1>4, <1>5, <2>1, <2>2, <2>3, <2>4, UntouchedStaysWhole
<1> QED
  BY <1>6, <1>7, <1>8, <1>9 DEF CoroIInv

\* Every step preserves the inductive invariant.
LEMMA StepsAreWhole ==
  ASSUME NoFrame \notin Frame, MaxTo \in Nat, CoroIInv, [CoroNext]_coroVars
  PROVE  CoroIInv'
<1>1. ASSUME NEW o \in Object, Make(o) PROVE CoroIInv'
  BY <1>1, MadeIsWhole
<1>2. ASSUME NEW o \in Object, DestroyCoro(o) PROVE CoroIInv'
  BY <1>2, DestroyedIsWhole
<1>3. ASSUME NEW o \in Object, ResumeByHand(o) PROVE CoroIInv'
  BY <1>3, ResumedIsWhole DEF ResumeByHand
<1>4. ASSUME NEW o \in Object, Begin(o) PROVE CoroIInv'
  BY <1>4, ResumedIsWhole DEF Begin
<1>5. ASSUME NEW o \in Object, Advance(o) PROVE CoroIInv'
  <2>1. Holds(o)
    BY <1>5 DEF Advance, CoroIInv, HeldOnce
  <2> QED
    BY <1>5, <2>1, ResumedIsWhole DEF Advance
<1>6. ASSUME NEW o \in Object, Compare(o) PROVE CoroIInv'
  BY <1>6, ComparedIsWhole
<1>7. ASSUME NEW o \in Object, Break(o) PROVE CoroIInv'
  BY <1>7, LeftIsWhole
<1>8. ASSUME NEW o \in Object, NEW other \in Object,
             MoveConstructCoro(o, other) \/ MoveAssignCoro(o, other)
      PROVE  CoroIInv'
  BY <1>8, MovedIsWhole
<1>9. CASE UNCHANGED coroVars
  <2>1. CoroTypeOK' /\ HeldOnce' /\ UnmadeIsUnseen'
    BY <1>9 DEF coroVars, CoroIInv, CoroTypeOK, HeldOnce, UnmadeIsUnseen, Holds
  <2>2. ASSUME NEW o \in Object, Holds(o)' PROVE Whole(o)'
    BY <1>9, <2>2, UntouchedStaysWhole DEF coroVars, CoroIInv, Holds
  <2> QED
    BY <2>1, <2>2 DEF CoroIInv
<1> QED
  BY <1>1, <1>2, <1>3, <1>4, <1>5, <1>6, <1>7, <1>8, <1>9 DEF CoroNext

\* Coro: for any number of objects and coroutines of any length, whatever loops,
\* hands, moves and destructions do, a frame has one owner that knows when it is
\* at its end, no value is seen twice or skipped, and a loop that runs to its end
\* has seen the last value - unless the frame came to an object with another
\* iter_end.
THEOREM LoopsSeeEverythingOnce ==
  ASSUME NoFrame \notin Frame, MaxTo \in Nat
  PROVE  CoroSpec => []CoroutinesAreWhole
<1>1. CoroInit => CoroIInv
  BY InitIsWhole
<1>2. CoroIInv /\ [CoroNext]_coroVars => CoroIInv'
  BY StepsAreWhole
<1>3. CoroIInv => CoroutinesAreWhole
  BY WholeIsEnough
<1> QED
  BY <1>1, <1>2, <1>3, PTL DEF CoroSpec

-----------------------------------------------------------------------------
(***************************************************************************)
(* SourceFiles: path, stream and pragmas of a file stay together.          *)
(***************************************************************************)

\* Path, stream and pragmas that speak of the same file.
Together(p, s, d) == s \in {p, ""} /\ d \subseteq {p}

\* An object that does not exist holds nothing, and is made from nothing.
FilesIInv ==
  /\ SourceTypeOK
  /\ \A f \in SrcFile \ live : path[f] = "" /\ stream[f] = "" /\ super_defines[f] = {}
  /\ \A f \in SrcFile \ assigned : Together(path[f], stream[f], super_defines[f])

\* What becomes of members that are together.
LEMMA BecomeTogether ==
  ASSUME NEW alive, NEW p \in [SrcFile -> Path \cup {""}], NEW s \in [SrcFile -> Path \cup {""}],
         NEW d \in [SrcFile -> SUBSET Path], NEW i \in [SrcFile -> SUBSET SrcFile],
         NEW a \in SUBSET SrcFile, Become(alive, p, s, d, i, a),
         \A f \in SrcFile \ a : Together(p[f], s[f], d[f])
  PROVE  FilesIInv'
<1> PICK left \in SUBSET SrcFile :
      /\ live' = left /\ assigned' = a \cap left
      /\ path' = [f \in SrcFile |-> IF f \in left THEN p[f] ELSE ""]
      /\ stream' = [f \in SrcFile |-> IF f \in left THEN s[f] ELSE ""]
      /\ super_defines' = [f \in SrcFile |-> IF f \in left THEN d[f] ELSE {}]
      /\ imports' = [f \in SrcFile |-> IF f \in left THEN i[f] ELSE {}]
  BY DEF Become, Held
<1>1. SourceTypeOK'
  BY DEF SourceTypeOK
<1>2. \A f \in SrcFile \ left : path'[f] = "" /\ stream'[f] = "" /\ super_defines'[f] = {}
  OBVIOUS
<1>3. ASSUME NEW f \in SrcFile, f \notin a \cap left
      PROVE  Together(path'[f], stream'[f], super_defines'[f])
  <2>1. CASE f \in left
    <3>1. path'[f] = p[f] /\ stream'[f] = s[f] /\ super_defines'[f] = d[f]
      BY <2>1
    <3> QED
      BY <1>3, <2>1, <3>1
  <2>2. CASE f \notin left
    BY <1>2, <2>2 DEF Together
  <2> QED
    BY <2>1, <2>2
<1> QED
  BY <1>1, <1>2, <1>3 DEF FilesIInv

\* At the start there are no objects.
LEMMA SourceInitIInv == SourceInit => FilesIInv
BY DEF SourceInit, FilesIInv, SourceTypeOK, Together

\* Every constructor, assignment, restart and destructor preserves the invariant.
LEMMA SourceNextIInv == FilesIInv /\ [SourceNext]_sourceVars => FilesIInv'
<1> SUFFICES ASSUME FilesIInv, [SourceNext]_sourceVars PROVE FilesIInv'
  OBVIOUS
<1>0. /\ live \subseteq SrcFile /\ assigned \in SUBSET SrcFile
      /\ path \in [SrcFile -> Path \cup {""}] /\ stream \in [SrcFile -> Path \cup {""}]
      /\ super_defines \in [SrcFile -> SUBSET Path]
      /\ imports \in [SrcFile -> SUBSET SrcFile]
  BY DEF FilesIInv, SourceTypeOK
<1>1. \A f \in SrcFile \ assigned : Together(path[f], stream[f], super_defines[f])
  BY DEF FilesIInv
<1>2. \A f \in SrcFile \ live : super_defines[f] = {}
  BY DEF FilesIInv
<1>3. ASSUME NEW f \in SrcFile, NEW p \in Path, Construct(f, p) PROVE FilesIInv'
  <2>1. PICK s \in Opened(p) :
          Become(live \cup {f}, [path EXCEPT ![f] = p], [stream EXCEPT ![f] = s],
                 super_defines, imports, assigned)
    BY <1>3 DEF Construct
  <2>2. s \in {p, ""} /\ super_defines[f] = {}
    BY <1>2, <1>3 DEF Construct, Opened
  <2>3. \A g \in SrcFile \ assigned :
          Together([path EXCEPT ![f] = p][g], [stream EXCEPT ![f] = s][g], super_defines[g])
    BY <1>0, <1>1, <2>2 DEF Together
  <2> DEFINE q == [path EXCEPT ![f] = p]
             r == [stream EXCEPT ![f] = s]
  <2>4. q \in [SrcFile -> Path \cup {""}] /\ r \in [SrcFile -> Path \cup {""}]
    BY <1>0, <2>2
  <2>5. /\ Become(live \cup {f}, q, r, super_defines, imports, assigned)
        /\ \A g \in SrcFile \ assigned : Together(q[g], r[g], super_defines[g])
    BY <2>1, <2>3
  <2> HIDE DEF q, r
  <2> QED
    BY <1>0, <2>4, <2>5, BecomeTogether
<1>4. ASSUME NEW f \in SrcFile, NEW other \in SrcFile, MoveConstruct(f, other)
      PROVE  FilesIInv'
  <2> DEFINE p == [path EXCEPT ![f] = path[other], ![other] = ""]
             s == [stream EXCEPT ![f] = stream[other], ![other] = ""]
             d == [super_defines EXCEPT ![f] = super_defines[other], ![other] = {}]
             i == [imports EXCEPT ![f] = imports[other], ![other] = {}]
             a == IF other \in assigned THEN assigned \cup {f} ELSE assigned
  <2>1. f # other /\ Become(live \cup {f}, p, s, d, i, a)
    BY <1>4 DEF MoveConstruct
  <2>2. ASSUME NEW g \in SrcFile \ a PROVE Together(p[g], s[g], d[g])
    <3>1. CASE g = f
      <4>1. other \notin assigned /\ p[g] = path[other] /\ s[g] = stream[other]
            /\ d[g] = super_defines[other]
        BY <1>0, <2>1, <2>2, <3>1
      <4> QED
        BY <1>1, <4>1
    <3>2. CASE g = other
      BY <1>0, <3>2 DEF Together
    <3>3. CASE g # f /\ g # other
      <4>1. g \notin assigned /\ p[g] = path[g] /\ s[g] = stream[g] /\ d[g] = super_defines[g]
        BY <1>0, <2>2, <3>3
      <4> QED
        BY <1>1, <4>1
    <3> QED
      BY <3>1, <3>2, <3>3
  <2>3. /\ p \in [SrcFile -> Path \cup {""}] /\ s \in [SrcFile -> Path \cup {""}]
        /\ d \in [SrcFile -> SUBSET Path] /\ i \in [SrcFile -> SUBSET SrcFile]
        /\ a \in SUBSET SrcFile
    BY <1>0
  <2> HIDE DEF p, s, d, i, a
  <2> QED
    BY <2>1, <2>2, <2>3, BecomeTogether
<1>5. ASSUME NEW f \in SrcFile, NEW other \in SrcFile, MoveAssign(f, other)
      PROVE  FilesIInv'
  <2> DEFINE p == [path EXCEPT ![f] = path[other], ![other] = ""]
             d == [super_defines EXCEPT ![f] = super_defines[other], ![other] = {}]
             i == [imports EXCEPT ![f] = imports[other], ![other] = {}]
             a == assigned \cup {f, other}
  <2>1. Become(live, p, stream, d, i, a)
    BY <1>5 DEF MoveAssign
  <2>2. \A g \in SrcFile \ a : Together(p[g], stream[g], d[g])
    BY <1>0, <1>1
  <2>3. /\ p \in [SrcFile -> Path \cup {""}] /\ d \in [SrcFile -> SUBSET Path]
        /\ i \in [SrcFile -> SUBSET SrcFile] /\ a \in SUBSET SrcFile
    BY <1>0
  <2> HIDE DEF p, d, i, a
  <2> QED
    BY <1>0, <2>1, <2>2, <2>3, BecomeTogether
<1>6. ASSUME NEW f \in SrcFile, Destroy(f) PROVE FilesIInv'
  BY <1>0, <1>1, <1>6, BecomeTogether DEF Destroy
<1>7. ASSUME NEW f \in SrcFile, NEW p \in Path \cup {""}, NEW s \in {p, ""},
             Become(live, [path EXCEPT ![f] = p], [stream EXCEPT ![f] = s],
                    [super_defines EXCEPT ![f] = {}], [imports EXCEPT ![f] = {}], assigned \ {f})
      PROVE  FilesIInv'
  <2>1. \A g \in SrcFile \ (assigned \ {f}) :
          Together([path EXCEPT ![f] = p][g], [stream EXCEPT ![f] = s][g],
                   [super_defines EXCEPT ![f] = {}][g])
    BY <1>0, <1>1 DEF Together
  <2>2. /\ [path EXCEPT ![f] = p] \in [SrcFile -> Path \cup {""}]
        /\ [stream EXCEPT ![f] = s] \in [SrcFile -> Path \cup {""}]
        /\ [super_defines EXCEPT ![f] = {}] \in [SrcFile -> SUBSET Path]
        /\ [imports EXCEPT ![f] = {}] \in [SrcFile -> SUBSET SrcFile]
        /\ assigned \ {f} \in SUBSET SrcFile
    BY <1>0
  <2> DEFINE q == [path EXCEPT ![f] = p]
             r == [stream EXCEPT ![f] = s]
             d == [super_defines EXCEPT ![f] = {}]
             i == [imports EXCEPT ![f] = {}]
             a == assigned \ {f}
  <2>3. /\ q \in [SrcFile -> Path \cup {""}] /\ r \in [SrcFile -> Path \cup {""}]
        /\ d \in [SrcFile -> SUBSET Path] /\ i \in [SrcFile -> SUBSET SrcFile]
        /\ a \in SUBSET SrcFile
    BY <2>2
  <2>4. /\ Become(live, q, r, d, i, a)
        /\ \A g \in SrcFile \ a : Together(q[g], r[g], d[g])
    BY <1>7, <2>1
  <2> HIDE DEF q, r, d, i, a
  <2> QED
    BY <2>3, <2>4, BecomeTogether
<1>8. ASSUME NEW f \in SrcFile, Restart(f) PROVE FilesIInv'
  BY <1>7, <1>8 DEF Restart
<1>9. ASSUME NEW f \in SrcFile, NEW p \in Path, RestartWith(f, p) PROVE FilesIInv'
  <2>1. PICK s \in {p, ""} :
          Become(live, [path EXCEPT ![f] = p], [stream EXCEPT ![f] = s],
                 [super_defines EXCEPT ![f] = {}], [imports EXCEPT ![f] = {}], assigned \ {f})
    BY <1>9 DEF RestartWith, Opened
  <2> QED
    BY <1>7, <2>1
<1>10. ASSUME NEW f \in SrcFile, AddSuperDefine(f) PROVE FilesIInv'
  <2> DEFINE d == [super_defines EXCEPT ![f] = @ \cup {stream[f]}]
  <2>1. stream[f] # "" /\ stream[f] \in Path
    BY <1>0, <1>10 DEF AddSuperDefine
  <2>2. Become(live, path, stream, d, imports, assigned)
    BY <1>10 DEF AddSuperDefine
  <2>3. d \in [SrcFile -> SUBSET Path]
    BY <1>0, <2>1
  <2>4. \A g \in SrcFile \ assigned : Together(path[g], stream[g], d[g])
    BY <1>0, <1>1, <2>1 DEF Together
  <2> HIDE DEF d
  <2> QED
    BY <1>0, <2>2, <2>3, <2>4, BecomeTogether
<1>11. ASSUME NEW f \in SrcFile, NEW new \in SrcFile, NEW p \in Path, AddInclude(f, new, p)
       PROVE  FilesIInv'
  <2> DEFINE i == [imports EXCEPT ![f] = @ \cup {new}]
  <2>1. PICK s \in Opened(p) :
          Become(live \cup {new}, [path EXCEPT ![new] = p], [stream EXCEPT ![new] = s],
                 super_defines, i, assigned)
    BY <1>11 DEF AddInclude
  <2>2. s \in {p, ""} /\ super_defines[new] = {}
    BY <1>2, <1>11 DEF AddInclude, Opened
  <2>3. \A g \in SrcFile \ assigned :
          Together([path EXCEPT ![new] = p][g], [stream EXCEPT ![new] = s][g], super_defines[g])
    BY <1>0, <1>1, <2>2 DEF Together
  <2> DEFINE q == [path EXCEPT ![new] = p]
             r == [stream EXCEPT ![new] = s]
  <2>4. /\ i \in [SrcFile -> SUBSET SrcFile]
        /\ q \in [SrcFile -> Path \cup {""}] /\ r \in [SrcFile -> Path \cup {""}]
    BY <1>0, <2>2
  <2> HIDE DEF i
  <2>5. /\ Become(live \cup {new}, q, r, super_defines, i, assigned)
        /\ \A g \in SrcFile \ assigned : Together(q[g], r[g], super_defines[g])
    BY <2>1, <2>3
  <2> HIDE DEF q, r
  <2> QED
    BY <1>0, <2>4, <2>5, BecomeTogether
<1>12. ASSUME NEW f \in SrcFile, NEW other \in SrcFile, NEW new \in SrcFile,
              CopyInclude(f, other, new)
       PROVE  FilesIInv'
  <2> DEFINE i == [imports EXCEPT ![f] = @ \cup {new}]
  <2>1. Become(live, path, stream, super_defines, i, assigned)
    BY <1>12 DEF CopyInclude
  <2>2. i \in [SrcFile -> SUBSET SrcFile]
    BY <1>0
  <2> HIDE DEF i
  <2> QED
    BY <1>0, <1>1, <2>1, <2>2, BecomeTogether
<1>13. CASE UNCHANGED sourceVars
  BY <1>13 DEF sourceVars, FilesIInv, SourceTypeOK
<1> QED
  BY <1>3, <1>4, <1>5, <1>6, <1>8, <1>9, <1>10, <1>11, <1>12, <1>13 DEF SourceNext

\* However source files are made, moved, restarted and imported by others, the
\* stream of each reads the file of its path and every definition on its list was
\* read from it, until a move assignment takes part: SrcFile, File.
THEOREM FilesStayWhole == SourceSpec => []FilesAreWhole
<1>1. FilesIInv => FilesAreWhole
  BY DEF FilesIInv, FilesAreWhole, SourceTypeOK, Together
<1> QED
  BY <1>1, SourceInitIInv, SourceNextIInv, PTL DEF SourceSpec

-----------------------------------------------------------------------------
(***************************************************************************)
(* CommandLine: the engine follows the command line.                       *)
(***************************************************************************)

Argument == [opt : STRING, arg : STRING]

\* An argument, or the empty path.
Word == STRING \cup {NoPath}

\* A set of numbers with 0 and the successors of its elements up to n has all up to n.
LEMMA CountingUp ==
  ASSUME NEW n \in Nat, NEW S, 0 \in S, \A k \in 0 .. n - 1 : k \in S => k + 1 \in S
  PROVE  \A k \in 0 .. n : k \in S
<1> DEFINE T == {k \in 0 .. n : k \notin S}
           R == {ss \in Nat \X Nat : ss[1] < ss[2]}
<1>1. SUFFICES ASSUME T # {} PROVE FALSE
  OBVIOUS
<1>2. IsWellFoundedOn(R, Nat)
  BY NatLessThanWellFounded DEF OpToRel
<1>3. PICK x \in T : \A y \in T : ~(<<y, x>> \in R)
  <2>1. T \in SUBSET Nat
    OBVIOUS
  <2> HIDE DEF T, R
  <2> QED
    BY <1>1, <1>2, <2>1, WFMin
<1>4. x \in 0 .. n /\ x # 0 /\ x \notin S /\ x - 1 \in 0 .. n - 1 /\ (x - 1) + 1 = x
  OBVIOUS
<1>5. <<x - 1, x>> \in R
  BY <1>4
<1>6. x - 1 \in S
  BY <1>3, <1>4, <1>5
<1> QED
  BY <1>4, <1>6

\* The arguments behind an opt are collected one by one.
LEMMA ArgsUnfold ==
  ASSUME argv \in Seq(Argument), NEW opt, NEW N \in Nat, N = Len(argv)
  PROVE  /\ ArgsUpTo(opt)[0] = <<>>
         /\ \A k \in 0 .. N - 1 :
              ArgsUpTo(opt)[k + 1] = Collect(ArgsUpTo(opt)[k], argv[k + 1], opt)
<1> DEFINE Step(g, k) == IF k = 0 THEN <<>> ELSE Collect(g[k - 1], argv[k], opt)
           Defines(g) == g = [k \in 0 .. N |-> Step(g, k)]
           Agrees(n, g) == \A k \in 0 .. n : g[k] = Step(g, k)
           S == {n \in 0 .. N : \E g : Agrees(n, g)}
<1>1. 0 \in S
  <2>1. Agrees(0, [k \in 0 .. N |-> <<>>])
    OBVIOUS
  <2> HIDE DEF Agrees
  <2> QED
    BY <2>1
<1>2. ASSUME NEW n \in 0 .. N - 1, n \in S
      PROVE  n + 1 \in S
  <2>1. PICK g : Agrees(n, g)
    BY <1>2
  <2> DEFINE x == Collect(g[n], argv[n + 1], opt)
             h == [k \in 0 .. N |-> IF k = n + 1 THEN x ELSE g[k]]
  <2>2. h[n + 1] = x /\ \A k \in 0 .. n : h[k] = g[k]
    <3> HIDE DEF x
    <3> QED
      OBVIOUS
  <2> HIDE DEF h
  <2>3. ASSUME NEW k \in 0 .. n + 1
        PROVE  h[k] = Step(h, k)
    <3>1. CASE k = n + 1
      <4>1. k # 0 /\ k - 1 = n /\ n \in 0 .. n
        BY <3>1
      <4>2. h[k - 1] = g[n] /\ h[k] = x
        BY <2>2, <3>1, <4>1
      <4> QED
        BY <3>1, <4>1, <4>2
    <3>2. CASE k # n + 1
      <4>1. k \in 0 .. n /\ (k # 0 => k - 1 \in 0 .. n)
        BY <3>2
      <4>2. h[k] = g[k] /\ (k # 0 => h[k - 1] = g[k - 1])
        BY <2>2, <4>1
      <4>3. g[k] = Step(g, k)
        BY <2>1, <4>1
      <4> QED
        BY <4>2, <4>3
    <3> QED
      BY <3>1, <3>2
  <2>4. Agrees(n + 1, h)
    BY <2>3
  <2>5. n + 1 \in 0 .. N
    OBVIOUS
  <2> HIDE DEF Agrees
  <2> QED
    BY <2>4, <2>5
<1>3. N \in S
  <2>1. N \in 0 .. N
    OBVIOUS
  <2> HIDE DEF S
  <2> QED
    BY <1>1, <1>2, <2>1, CountingUp
<1>4. PICK g : Agrees(N, g)
  BY <1>3
<1>5. \E f : Defines(f)
  <2> DEFINE f == [k \in 0 .. N |-> g[k]]
  <2>1. \A k \in 0 .. N : f[k] = g[k]
    OBVIOUS
  <2>2. f = [k \in 0 .. N |-> f[k]]
    OBVIOUS
  <2> HIDE DEF f
  <2>3. ASSUME NEW k \in 0 .. N
        PROVE  f[k] = Step(f, k)
    <3>1. k # 0 => k - 1 \in 0 .. N
      OBVIOUS
    <3>2. f[k] = g[k] /\ (k # 0 => f[k - 1] = g[k - 1])
      BY <2>1, <3>1
    <3>3. g[k] = Step(g, k)
      BY <1>4
    <3> QED
      BY <3>2, <3>3
  <2>4. [k \in 0 .. N |-> f[k]] = [k \in 0 .. N |-> Step(f, k)]
    <3> HIDE DEF Step
    <3> QED
      BY <2>3
  <2>5. Defines(f)
    BY <2>2, <2>4
  <2> HIDE DEF Defines
  <2> QED
    BY <2>5
<1> DEFINE f == CHOOSE u : Defines(u)
<1>6. Defines(f)
  BY <1>5
<1>7. ArgsUpTo(opt) = f
  BY DEF ArgsUpTo
<1> HIDE DEF f
<1>8. ASSUME NEW k \in 0 .. N
      PROVE  f[k] = Step(f, k)
  BY <1>6
<1>9. f[0] = <<>>
  BY <1>8
<1>10. ASSUME NEW k \in 0 .. N - 1
       PROVE  f[k + 1] = Collect(f[k], argv[k + 1], opt)
  <2>1. k + 1 \in 0 .. N /\ k + 1 # 0 /\ (k + 1) - 1 = k
    OBVIOUS
  <2> QED
    BY <1>8, <2>1
<1> QED
  BY <1>7, <1>9, <1>10

\* They are sequences of strings.
LEMMA ArgsAreStrings ==
  ASSUME argv \in Seq(Argument), NEW opt, NEW k \in 0 .. Len(argv)
  PROVE  ArgsUpTo(opt)[k] \in Seq(Word)
<1> PICK N \in Nat : N = Len(argv)
  OBVIOUS
<1> DEFINE S == {n \in 0 .. N : ArgsUpTo(opt)[n] \in Seq(Word)}
<1>0. /\ ArgsUpTo(opt)[0] = <<>>
      /\ \A n \in 0 .. N - 1 :
           ArgsUpTo(opt)[n + 1] = Collect(ArgsUpTo(opt)[n], argv[n + 1], opt)
  BY ArgsUnfold
<1>1. 0 \in S
  <2>1. <<>> \in Seq(Word)
    BY EmptySeq
  <2>2. ArgsUpTo(opt)[0] \in Seq(Word) /\ 0 \in 0 .. N
    BY <1>0, <2>1
  <2> QED
    BY <2>2
<1>2. ASSUME NEW n \in 0 .. N - 1, n \in S
      PROVE  n + 1 \in S
  <2>1. n + 1 \in 0 .. N /\ argv[n + 1] \in Argument
    OBVIOUS
  <2>2. ArgsUpTo(opt)[n] \in Seq(Word) /\ argv[n + 1].arg \in Word
    BY <1>2, <2>1 DEF Argument, Word
  <2>3. ArgsUpTo(opt)[n + 1] \in Seq(Word)
    <3>1. ArgsUpTo(opt)[n + 1] = Collect(ArgsUpTo(opt)[n], argv[n + 1], opt)
      BY <1>0
    <3>2. Collect(ArgsUpTo(opt)[n], argv[n + 1], opt) \in Seq(Word)
      BY <2>2, AppendProperties DEF Collect
    <3> QED
      BY <3>1, <3>2
  <2> QED
    BY <2>1, <2>3
<1> HIDE DEF S
<1>3. k \in S
  BY <1>1, <1>2, CountingUp
<1> QED
  BY <1>3 DEF S

\* Every element as it is in d, or emptied.
Copy(e, f) == f = e \/ f = NoPath
Copies(c, d) ==
  /\ c \in Seq(Word) /\ d \in Seq(Word) /\ Len(c) = Len(d)
  /\ \A k \in 1 .. Len(c) : Copy(d[k], c[k])

\* The first elements of d.
FirstOf(c, d) ==
  /\ c \in Seq(Word) /\ d \in Seq(Word) /\ Len(c) <= Len(d)
  /\ \A k \in 1 .. Len(c) : c[k] = d[k]

\* What was read stands for the arguments gone over; what the engine has, for the
\* first of what was read, none of which was empty.
CmdIInv ==
  /\ argv \in Seq(Argument) /\ exists \subseteq Exists /\ scanned \in 0 .. Len(argv)
  /\ operands = ArgsUpTo("operand")[scanned]
  /\ Copies(cmd_include_paths, ArgsUpTo("-I")[scanned])
  /\ added \in Nat \cup {-1}
  /\ doing = "parse" => added = -1
  /\ doing \in {"update_engine", "run"} =>
       scanned = Len(argv) /\ input_file \in {Head(operands), NoPath}
  /\ added >= 0 =>
       /\ scanned = Len(argv) /\ FirstOf(include_paths, ArgsUpTo("-I")[scanned])
       /\ Len(include_paths) = added
  /\ doing = "run" => added = Len(cmd_include_paths)

\* A word more at the end of a sequence of words.
LEMMA OneMoreWord ==
  ASSUME NEW s \in Seq(Word), NEW w \in Word
  PROVE  /\ Append(s, w) \in Seq(Word) /\ Len(Append(s, w)) = Len(s) + 1
         /\ Append(s, w)[Len(s) + 1] = w
         /\ \A k \in 1 .. Len(s) : Append(s, w)[k] = s[k]
BY AppendProperties

\* One element more, kept or emptied.
LEMMA OneMoreCopy ==
  ASSUME NEW c, NEW d, Copies(c, d), NEW e \in Word, NEW f \in Word, Copy(e, f)
  PROVE  Copies(Append(c, f), Append(d, e))
<1> PICK n \in Nat : n = Len(c) /\ n = Len(d)
  BY DEF Copies
<1>1. c \in Seq(Word) /\ d \in Seq(Word) /\ e \in Word /\ f \in Word
  BY DEF Copies
<1> PICK u : u = Append(c, f)
  OBVIOUS
<1> PICK v : v = Append(d, e)
  OBVIOUS
<1>2. /\ u \in Seq(Word) /\ Len(u) = n + 1 /\ u[n + 1] = f /\ \A k \in 1 .. n : u[k] = c[k]
      /\ v \in Seq(Word) /\ Len(v) = n + 1 /\ v[n + 1] = e /\ \A k \in 1 .. n : v[k] = d[k]
  <2>1. u \in Seq(Word) /\ Len(u) = n + 1 /\ u[n + 1] = f /\ \A k \in 1 .. n : u[k] = c[k]
    <3>1. PICK s \in Seq(Word) : s = c
      BY <1>1
    <3>2. /\ Append(s, f) \in Seq(Word) /\ Len(Append(s, f)) = Len(s) + 1
          /\ Append(s, f)[Len(s) + 1] = f
          /\ \A k \in 1 .. Len(s) : Append(s, f)[k] = s[k]
      BY OneMoreWord
    <3> QED
      BY <3>1, <3>2
  <2>2. v \in Seq(Word) /\ Len(v) = n + 1 /\ v[n + 1] = e /\ \A k \in 1 .. n : v[k] = d[k]
    <3>1. PICK s \in Seq(Word) : s = d
      BY <1>1
    <3>2. /\ Append(s, e) \in Seq(Word) /\ Len(Append(s, e)) = Len(s) + 1
          /\ Append(s, e)[Len(s) + 1] = e
          /\ \A k \in 1 .. Len(s) : Append(s, e)[k] = s[k]
      BY OneMoreWord
    <3> QED
      BY <3>1, <3>2
  <2> QED
    BY <2>1, <2>2
<1>3. \A k \in 1 .. n : Copy(d[k], c[k])
  BY DEF Copies
<1>4. \A k \in 1 .. n + 1 : Copy(v[k], u[k])
  BY <1>2, <1>3
<1> QED
  BY <1>2, <1>4 DEF Copies

\* One element more of those there are.
LEMMA OneMoreFirst ==
  ASSUME NEW c, NEW d, FirstOf(c, d), NEW n \in Nat, n = Len(c), n < Len(d)
  PROVE  FirstOf(Append(c, d[n + 1]), d) /\ Len(Append(c, d[n + 1])) = n + 1
<1>1. c \in Seq(Word) /\ d \in Seq(Word) /\ Len(d) \in Nat
  BY DEF FirstOf
<1>2. d[n + 1] \in Word
  BY <1>1
<1> PICK u : u = Append(c, d[n + 1])
  OBVIOUS
<1>3. /\ u \in Seq(Word) /\ Len(u) = n + 1 /\ u[n + 1] = d[n + 1]
      /\ \A k \in 1 .. n : u[k] = c[k]
  BY <1>1, <1>2, AppendProperties
<1>4. \A k \in 1 .. n + 1 : u[k] = d[k]
  BY <1>3 DEF FirstOf
<1> QED
  BY <1>1, <1>3, <1>4 DEF FirstOf

\* The first elements are a prefix, and the whole if they are as many.
LEMMA FirstIsPrefix ==
  ASSUME NEW c, NEW d, FirstOf(c, d)
  PROVE  IsPrefix(c, d) /\ (Len(c) = Len(d) => c = d)
<1> PICK n \in Nat : n = Len(c)
  BY DEF FirstOf
<1>1. c \in Seq(Word) /\ d \in Seq(Word) /\ n <= Len(d) /\ \A k \in 1 .. n : c[k] = d[k]
  BY DEF FirstOf
<1>2. SubSeq(c, 1, n) = SubSeq(d, 1, n)
  <2>1. \A k \in 1 .. n : c[k] \in Word /\ d[k] \in Word
    BY <1>1
  <2>2. /\ SubSeq(c, 1, n) = [k \in 1 .. n |-> c[k]] /\ SubSeq(d, 1, n) = [k \in 1 .. n |-> d[k]]
    BY <1>1, <2>1
  <2> QED
    BY <1>1, <2>2
<1>3. n = Len(d) => c = d
  BY <1>1, SeqEqual
<1> QED
  BY <1>1, <1>2, <1>3 DEF IsPrefix

\* At the start no argument is read.
LEMMA CmdInitIInv == CmdInit => CmdIInv
<1> SUFFICES ASSUME CmdInit PROVE CmdIInv
  OBVIOUS
<1>1. /\ argv \in CommandLines /\ exists = Exists /\ scanned = 0 /\ operands = <<>>
      /\ cmd_include_paths = <<>> /\ added = -1 /\ doing = "parse"
  BY DEF CmdInit
<1>2. argv \in Seq(Argument) /\ Len(argv) \in Nat
  BY <1>1, CommandLineAssumption DEF Argument
<1>3. ArgsUpTo("operand")[0] = <<>> /\ ArgsUpTo("-I")[0] = <<>>
  BY <1>2, ArgsUnfold
<1>4. Copies(<<>>, <<>>)
  BY EmptySeq DEF Copies
<1> QED
  BY <1>1, <1>2, <1>3, <1>4 DEF CmdIInv

\* A step of getopt: one more argument is sorted or read.
LEMMA ScanStep ==
  ASSUME CmdIInv, doing = "parse", scanned < Len(argv), argv' = argv, exists' \subseteq exists,
         scanned' = scanned + 1, doing' = doing, added' = added,
         operands' = Collect(operands, Arg, "operand"),
         IF Arg.opt = "-I"
         THEN \E p \in {Arg.arg, NoPath} : cmd_include_paths' = Append(cmd_include_paths, p)
         ELSE cmd_include_paths' = cmd_include_paths
  PROVE  CmdIInv'
<1> PICK N \in Nat : N = Len(argv)
  BY DEF CmdIInv
<1>0. argv \in Seq(Argument) /\ exists \subseteq Exists /\ scanned \in 0 .. N - 1 /\ added = -1
  BY DEF CmdIInv
<1>1. ASSUME NEW opt
      PROVE  ArgsUpTo(opt)[scanned + 1] = Collect(ArgsUpTo(opt)[scanned], argv[scanned + 1], opt)
  <2>1. \A k \in 0 .. N - 1 :
          ArgsUpTo(opt)[k + 1] = Collect(ArgsUpTo(opt)[k], argv[k + 1], opt)
    BY <1>0, ArgsUnfold
  <2> QED
    BY <1>0, <2>1
<1>2. ASSUME NEW opt PROVE ArgsUpTo(opt)' = ArgsUpTo(opt)
  BY DEF ArgsUpTo, Collect
<1>3. operands' = ArgsUpTo("operand")'[scanned']
  BY <1>1, <1>2 DEF CmdIInv, Arg
<1>4. Copies(cmd_include_paths', ArgsUpTo("-I")[scanned + 1])
  <2>1. Copies(cmd_include_paths, ArgsUpTo("-I")[scanned])
    BY DEF CmdIInv
  <2>2. CASE Arg.opt = "-I"
    <3>1. ArgsUpTo("-I")[scanned + 1] = Append(ArgsUpTo("-I")[scanned], Arg.arg)
      BY <1>1, <2>2 DEF Collect, Arg
    <3>2. Arg.arg \in STRING
      <4>1. argv[scanned + 1] \in Argument
        BY <1>0
      <4> QED
        BY <4>1 DEF Argument, Arg
    <3>3. PICK p \in {Arg.arg, NoPath} : cmd_include_paths' = Append(cmd_include_paths, p)
      BY <2>2
    <3> PICK e \in Word : e = Arg.arg
      BY <3>2 DEF Word
    <3> PICK f \in Word : f = p /\ Copy(e, f)
      BY <3>3 DEF Word, Copy
    <3>4. Copies(Append(cmd_include_paths, f), Append(ArgsUpTo("-I")[scanned], e))
      BY <2>1, OneMoreCopy
    <3> QED
      BY <3>1, <3>3, <3>4
  <2>3. CASE Arg.opt # "-I"
    <3>1. ArgsUpTo("-I")[scanned + 1] = ArgsUpTo("-I")[scanned]
      BY <1>1, <2>3 DEF Collect, Arg
    <3> QED
      BY <2>1, <2>3, <3>1
  <2> QED
    BY <2>2, <2>3
<1>5. Copies(cmd_include_paths', ArgsUpTo("-I")'[scanned'])
  BY <1>2, <1>4
<1>6. scanned' \in 0 .. Len(argv')
  BY <1>0
<1> QED
  BY <1>0, <1>3, <1>5, <1>6 DEF CmdIInv

\* A step that leaves what was read and what the engine has.
LEMMA CmdOtherStep ==
  ASSUME CmdIInv, exists' \subseteq Exists,
         UNCHANGED <<argv, scanned, operands, cmd_include_paths, include_paths, added>>,
         doing' = "parse" => doing = "parse",
         doing' \in {"update_engine", "run"} =>
           scanned = Len(argv) /\ input_file' \in {Head(operands), NoPath},
         doing' = "run" => added = Len(cmd_include_paths)
  PROVE  CmdIInv'
<1>1. ASSUME NEW opt PROVE ArgsUpTo(opt)' = ArgsUpTo(opt)
  BY DEF ArgsUpTo, Collect
<1>2. operands' = ArgsUpTo("operand")'[scanned'] /\ Copies(cmd_include_paths', ArgsUpTo("-I")'[scanned'])
  BY <1>1 DEF CmdIInv
<1>3. added' >= 0 =>
       /\ scanned' = Len(argv') /\ FirstOf(include_paths', ArgsUpTo("-I")'[scanned'])
       /\ Len(include_paths') = added'
  BY <1>1 DEF CmdIInv
<1> QED
  BY <1>2, <1>3 DEF CmdIInv

\* A step of update_engine, which changes the list of the engine.
LEMMA CmdEngineStep ==
  ASSUME CmdIInv, doing = "update_engine", added' \in Nat,
         UNCHANGED <<cmdLine, exists, doing>>,
         FirstOf(include_paths', ArgsUpTo("-I")[scanned]), Len(include_paths') = added'
  PROVE  CmdIInv'
<1>0. UNCHANGED <<argv, scanned, operands, cmd_include_paths, output_file, input_file>>
  BY DEF cmdLine
<1>1. ASSUME NEW opt PROVE ArgsUpTo(opt)' = ArgsUpTo(opt)
  BY <1>0 DEF ArgsUpTo, Collect
<1>2. operands' = ArgsUpTo("operand")'[scanned'] /\ Copies(cmd_include_paths', ArgsUpTo("-I")'[scanned'])
  BY <1>0, <1>1 DEF CmdIInv
<1>3. FirstOf(include_paths', ArgsUpTo("-I")'[scanned']) /\ Len(include_paths') = added'
  BY <1>0, <1>1
<1> QED
  BY <1>0, <1>2, <1>3 DEF CmdIInv

\* Every step of parse and update_engine preserves the invariant.
LEMMA CmdNextIInv == CmdIInv /\ [CmdNext]_cmdVars => CmdIInv'
<1> SUFFICES ASSUME CmdIInv, [CmdNext]_cmdVars PROVE CmdIInv'
  OBVIOUS
<1>0. exists \subseteq Exists
  BY DEF CmdIInv
<1>1. CASE SortOperand
  <2>1. /\ doing = "parse" /\ scanned < Len(argv) /\ Arg.opt = "operand"
        /\ operands' = Append(operands, Arg.arg) /\ scanned' = scanned + 1
        /\ UNCHANGED <<argv, exists, cmd_include_paths, added, doing>>
    BY <1>1 DEF SortOperand, IsOption
  <2> QED
    BY <2>1, ScanStep DEF Collect
<1>2. CASE ReadOption
  <2>1. /\ doing = "parse" /\ scanned < Len(argv) /\ scanned' = scanned + 1
        /\ UNCHANGED <<argv, operands, added, doing>>
        /\ Arg.opt \in {"-I", "-o", "unknown"}
    BY <1>2 DEF ReadOption
  <2>2. operands' = Collect(operands, Arg, "operand")
    BY <2>1 DEF Collect
  <2>3. CASE Arg.opt = "-I"
    <3>1. /\ exists' \in {exists, exists \ {Arg.arg}}
          /\ cmd_include_paths' = Append(cmd_include_paths, Kept(Arg.arg))
      BY <1>2, <2>3 DEF ReadOption, KeepExisting
    <3>2. Kept(Arg.arg) \in {Arg.arg, NoPath} /\ exists' \subseteq exists
      BY <3>1 DEF Kept
    <3> QED
      BY <2>1, <2>2, <2>3, <3>1, <3>2, ScanStep
  <2>4. CASE Arg.opt # "-I"
    <3>1. exists' = exists /\ cmd_include_paths' = cmd_include_paths
      BY <1>2, <2>4 DEF ReadOption
    <3> QED
      BY <2>1, <2>2, <2>4, <3>1, ScanStep
  <2> QED
    BY <2>3, <2>4
<1>3. ASSUME NEW type, type \notin {"parse", "update_engine", "run"}, Throw(type) PROVE CmdIInv'
  BY <1>0, <1>3, CmdOtherStep DEF Throw, cmdLine
<1>4. CASE RefuseIncludePath
  BY <1>3, <1>4 DEF RefuseIncludePath
<1>5. CASE ReadOperand
  <2>1. CASE Throw("NO_INPUT_FILE_ERROR") \/ Throw("INVALID_PATH_ERROR")
    BY <1>3, <2>1
  <2>2. CASE ~(Throw("NO_INPUT_FILE_ERROR") \/ Throw("INVALID_PATH_ERROR"))
    <3>1. /\ scanned = Len(argv) /\ exists' \in {exists, exists \ {Head(operands)}}
          /\ input_file' = Kept(Head(operands)) /\ doing' = "update_engine"
          /\ UNCHANGED <<argv, scanned, operands, cmd_include_paths, include_paths, added>>
      BY <1>5, <2>2 DEF ReadOperand, KeepExisting
    <3>2. input_file' \in {Head(operands), NoPath} /\ exists' \subseteq Exists
      BY <1>0, <3>1 DEF Kept
    <3> QED
      BY <3>1, <3>2, CmdOtherStep
  <2> QED
    BY <2>1, <2>2
<1>6. CASE Clear
  <2>1. /\ doing = "update_engine" /\ include_paths' = <<>> /\ added' = 0
        /\ UNCHANGED <<cmdLine, exists, doing>>
    BY <1>6 DEF Clear, ClearIncludePaths
  <2>2. ArgsUpTo("-I")[scanned] \in Seq(Word)
    BY DEF CmdIInv, Copies
  <2>3. FirstOf(<<>>, ArgsUpTo("-I")[scanned]) /\ Len(<<>>) = 0
    BY <2>2, EmptySeq DEF FirstOf
  <2> QED
    BY <2>1, <2>3, CmdEngineStep
<1>7. CASE AddIncludePath
  <2>1. doing = "update_engine" /\ added \in 0 .. Len(cmd_include_paths) - 1
    BY <1>7 DEF AddIncludePath
  <2> PICK p : p = cmd_include_paths[added + 1]
    OBVIOUS
  <2>2. CASE p \notin exists
    BY <1>3, <1>7, <2>2 DEF AddIncludePath
  <2>3. CASE p \in exists
    <3>1. /\ include_paths' = Append(include_paths, p) /\ added' = added + 1
          /\ UNCHANGED <<cmdLine, exists, doing>>
      BY <1>7, <2>3 DEF AddIncludePath
    <3> PICK d : d = ArgsUpTo("-I")[scanned]
      OBVIOUS
    <3>2. Copies(cmd_include_paths, d) /\ FirstOf(include_paths, d) /\ Len(include_paths) = added
      BY <2>1 DEF CmdIInv
    <3>3. added < Len(d) /\ added \in Nat /\ Copy(d[added + 1], p)
      BY <2>1, <3>2 DEF Copies
    <3>4. p = d[added + 1]
      BY <1>0, <2>3, <3>3, CommandLineAssumption DEF Copy
    <3>5. FirstOf(include_paths', d) /\ Len(include_paths') = added + 1
      BY <3>1, <3>2, <3>3, <3>4, OneMoreFirst
    <3> QED
      BY <2>1, <3>1, <3>3, <3>5, CmdEngineStep
  <2> QED
    BY <2>2, <2>3
<1>8. CASE /\ doing = "update_engine" /\ added = Len(cmd_include_paths)
           /\ doing' = "run"
           /\ UNCHANGED <<cmdLine, exists, include_paths, added>>
  <2>1. scanned = Len(argv) /\ input_file \in {Head(operands), NoPath}
    BY <1>8 DEF CmdIInv
  <2> QED
    BY <1>0, <1>8, <2>1, CmdOtherStep DEF cmdLine
<1>9. ASSUME NEW p \in Exists, Vanish(p) PROVE CmdIInv'
  <2>1. exists' \subseteq Exists /\ UNCHANGED <<cmdLine, include_paths, added, doing>>
    BY <1>0, <1>9 DEF Vanish
  <2>2. /\ doing \in {"update_engine", "run"} =>
             scanned = Len(argv) /\ input_file \in {Head(operands), NoPath}
        /\ doing = "run" => added = Len(cmd_include_paths)
    BY DEF CmdIInv
  <2> QED
    BY <2>1, <2>2, CmdOtherStep DEF cmdLine
<1>10. CASE UNCHANGED cmdVars
  <2>1. /\ doing \in {"update_engine", "run"} =>
             scanned = Len(argv) /\ input_file \in {Head(operands), NoPath}
        /\ doing = "run" => added = Len(cmd_include_paths)
    BY DEF CmdIInv
  <2> QED
    BY <1>0, <1>10, <2>1, CmdOtherStep DEF cmdVars, cmdLine
<1> QED
  BY <1>1, <1>2, <1>4, <1>5, <1>6, <1>7, <1>8, <1>9, <1>10 DEF CmdNext, UpdateEngine

\* Whatever the command line and whichever paths vanish meanwhile, a program that
\* comes to run searches all include paths of its command line, in order, and works
\* on its first operand; one that failed has the first of them, once the list was
\* emptied: CmdLine::parse, update_engine.
THEOREM EngineFollowsCommandLine == CmdSpec => []EngineFollows
<1>1. CmdIInv => EngineFollows
  <2> SUFFICES ASSUME CmdIInv PROVE EngineFollows
    OBVIOUS
  <2> PICK d : d = ArgsUpTo("-I")[scanned]
    OBVIOUS
  <2>1. Copies(cmd_include_paths, d) /\ operands = ArgsUpTo("operand")[scanned] /\ added \in Nat \cup {-1}
    BY DEF CmdIInv
  <2>2. ASSUME added >= 0
        PROVE  d = Args("-I") /\ FirstOf(include_paths, d) /\ Len(include_paths) = added
    BY <2>2 DEF CmdIInv, Args
  <2>3. added >= 0 => IsPrefix(include_paths, Args("-I"))
    BY <2>2, FirstIsPrefix
  <2>4. ASSUME doing = "run"
        PROVE  include_paths = Args("-I") /\ input_file \in {Head(Args("operand")), NoPath}
    <3>1. /\ scanned = Len(argv) /\ input_file \in {Head(operands), NoPath}
          /\ added = Len(cmd_include_paths)
      BY <2>4 DEF CmdIInv
    <3>2. added >= 0 /\ added = Len(d)
      BY <2>1, <3>1 DEF Copies
    <3>3. include_paths = d
      BY <2>2, <3>2, FirstIsPrefix
    <3> QED
      BY <2>1, <2>2, <3>1, <3>2, <3>3 DEF Args
  <2> QED
    BY <2>3, <2>4 DEF EngineFollows
<1> QED
  BY <1>1, CmdInitIInv, CmdNextIInv, PTL DEF CmdSpec

-----------------------------------------------------------------------------
(***************************************************************************)
(* ThreadSafeQueue, for any consumers and callers and any number of        *)
(* values: the waits and where a value is for any number of queues, the    *)
(* order for a single queue.                                               *)
(***************************************************************************)

\* Between two steps a mutex is owned by the consumer that is inside a wait on
\* its queue, and awake.
OwnersAreInside ==
  \A q \in Queue, c \in Consumer : mutex[q] = c <=> pc[c] \in Holding /\ at[c] = q

\* A consumer sleeps on the condition variable of the queue it waits for.
SleepersAreAtTheirQueue ==
  \A q \in Queue, c \in Consumer : c \in waiting[q] => at[c] = q

\* A wait that ends has something to end for, as long as no stop is taken back.
WaitsEndForAReason ==
  \A c \in Consumer :
    /\ pc[c] = "check_stop" =>
         \/ queue[at[c]] # <<>> \/ stop_required_state[at[c]] \/ TokenStopped(c) \/ restarted
    /\ pc[c] = "take" => queue[at[c]] # <<>> \/ TokenStopped(c) \/ restarted

\* The inductive invariant of the waits.
WaitsIInv ==
  /\ TypeOK /\ EmptyStateExact /\ SleepsOnlyWhenEmpty /\ EmptyWakeOnlyByRestart
  /\ OwnersAreInside /\ SleepersAreAtTheirQueue /\ WaitsEndForAReason

-----------------------------------------------------------------------------
(* Sequences *)

\* Taking the head moves it from the front of one to the end of the other.
LEMMA TakeKeepsOrder ==
  ASSUME NEW S, NEW s \in Seq(S), NEW t \in Seq(S), t # <<>>
  PROVE  Append(s, Head(t)) \o Tail(t) = s \o t
<1>1. Head(t) \in S /\ Tail(t) \in Seq(S)
  BY HeadTailProperties
<1>2. <<Head(t)>> \in Seq(S) /\ t = <<Head(t)>> \o Tail(t)
  BY <1>1
<1>3. Append(s, Head(t)) = s \o <<Head(t)>>
  BY <1>1, AppendIsConcat
<1> QED
  BY <1>1, <1>2, <1>3, ConcatAssociative

\* What is appended to the rest is appended to the whole.
LEMMA PushKeepsOrder ==
  ASSUME NEW S, NEW s \in Seq(S), NEW t \in Seq(S), NEW e \in S
  PROVE  s \o Append(t, e) = Append(s \o t, e)
<1>1. <<e>> \in Seq(S) /\ s \o t \in Seq(S)
  BY ConcatProperties
<1> QED
  BY <1>1, AppendIsConcat, ConcatAssociative

\* The numbers up to n + 1 are those up to n and one more.
LEMMA CountOn ==
  ASSUME NEW n \in Nat
  PROVE  Append([i \in 1 .. n |-> i], n + 1) = [i \in 1 .. n + 1 |-> i]
<1> DEFINE upto(m) == [i \in 1 .. m |-> i]
<1>1. upto(n) \in Seq(Nat) /\ Len(upto(n)) = n
  OBVIOUS
<1>2. upto(n + 1) \in Seq(Nat) /\ Len(upto(n + 1)) = n + 1
  OBVIOUS
<1>3. /\ Append(upto(n), n + 1) \in Seq(Nat)
      /\ Len(Append(upto(n), n + 1)) = n + 1
      /\ \A i \in 1 .. n : Append(upto(n), n + 1)[i] = i
      /\ Append(upto(n), n + 1)[n + 1] = n + 1
  BY <1>1, AppendProperties
<1> QED
  BY <1>2, <1>3, SeqEqual

-----------------------------------------------------------------------------
(* The waits *)

\* The inductive invariant holds initially.
LEMMA WaitsInit == Init => WaitsIInv
<1> SUFFICES ASSUME Init PROVE WaitsIInv
  OBVIOUS
<1>1. TypeOK
  <2>1. (CHOOSE q \in Queue : TRUE) \in Queue
    BY QueueAssumption
  <2>2. /\ queue \in [Queue -> Seq(1 .. MaxPush)] /\ taken \in Seq(1 .. MaxPush)
        /\ pushed \in 0 .. MaxPush
    BY QueueAssumption, EmptySeq DEF Init
  <2>3. at \in [QueueThread -> Queue]
    BY <2>1 DEF Init
  <2>4. /\ mutex \in [Queue -> {c \in Consumer : pc[c] \in Holding} \cup {Nobody}]
        /\ waiting \in [Queue -> SUBSET {c \in Consumer : pc[c] = "asleep"}]
    BY DEF Init
  <2> QED
    BY <2>2, <2>3, <2>4 DEF Init, TypeOK, Outcomes, Steps
<1> QED
  BY <1>1, QueueAssumption
  DEF WaitsIInv, Init, EmptyStateExact, SleepsOnlyWhenEmpty, EmptyWakeOnlyByRestart,
      OwnersAreInside, SleepersAreAtTheirQueue, WaitsEndForAReason, Holding, QueueThread

\* Every step of a wait preserves it.
LEMMA ConsumerStep ==
  ASSUME WaitsIInv, NEW c \in Consumer,
         \/ \E q \in Queue, token \in BOOLEAN : BeginWait(c, q, token)
         \/ Wait(c) \/ SpuriousWakeUp(c)
  PROVE  WaitsIInv'
<1> USE DEF WaitsIInv
<1>0. c \in QueueThread /\ c # Nobody /\ at[c] \in Queue
  BY QueueAssumption DEF QueueThread, TypeOK
<1>1. ASSUME NEW q \in Queue, NEW token \in BOOLEAN, BeginWait(c, q, token) PROVE WaitsIInv'
  <2> USE <1>0, <1>1 DEF BeginWait, Start, Goto, Acquire, Ends, data, stops
  <2>1. TypeOK'
    BY DEF TypeOK, Holding, Steps, Outcomes, QueueThread
  <2>2. EmptyStateExact' /\ SleepsOnlyWhenEmpty' /\ EmptyWakeOnlyByRestart'
    BY DEF TypeOK, EmptyStateExact, SleepsOnlyWhenEmpty, EmptyWakeOnlyByRestart, QueueThread
  <2>3. OwnersAreInside'
    BY QueueAssumption DEF TypeOK, OwnersAreInside, Holding, QueueThread
  <2>4. SleepersAreAtTheirQueue'
    BY DEF TypeOK, SleepersAreAtTheirQueue, QueueThread
  <2>5. WaitsEndForAReason'
    BY DEF TypeOK, WaitsEndForAReason, TokenStopped, QueueThread
  <2> QED
    BY <2>1, <2>2, <2>3, <2>4, <2>5
<1>2. CASE CheckPredicate(c)
  <2> USE <1>0, <1>2 DEF CheckPredicate, Goto, data, stops
  <2>1. TypeOK'
    BY DEF TypeOK, Holding, Steps
  <2>2. EmptyStateExact' /\ EmptyWakeOnlyByRestart'
    BY DEF EmptyStateExact, EmptyWakeOnlyByRestart
  <2>3. SleepsOnlyWhenEmpty'
    BY DEF TypeOK, EmptyStateExact, SleepsOnlyWhenEmpty, Predicate, QueueThread
  <2>4. OwnersAreInside' /\ SleepersAreAtTheirQueue'
    BY DEF TypeOK, OwnersAreInside, SleepersAreAtTheirQueue, Holding, QueueThread
  <2>5. WaitsEndForAReason'
    BY DEF TypeOK, EmptyStateExact, WaitsEndForAReason, Predicate, TokenStopped, QueueThread
  <2> QED
    BY <2>1, <2>2, <2>3, <2>4, <2>5
<1>3. CASE Block(c)
  <2> USE <1>0, <1>3 DEF Block, Goto, UnlockMutex, data, stops
  <2>1. TypeOK'
    <3>1. mutex' \in [Queue -> {d \in Consumer : pc'[d] \in Holding} \cup {Nobody}]
      BY DEF TypeOK, OwnersAreInside, Holding, QueueThread
    <3>2. waiting' \in [Queue -> SUBSET {d \in Consumer : pc'[d] = "asleep"}]
      BY DEF TypeOK, QueueThread
    <3> QED
      BY <3>1, <3>2 DEF TypeOK, Steps
  <2>2. EmptyStateExact' /\ EmptyWakeOnlyByRestart' /\ SleepsOnlyWhenEmpty'
    BY DEF TypeOK, EmptyStateExact, EmptyWakeOnlyByRestart, SleepsOnlyWhenEmpty, QueueThread
  <2>3. OwnersAreInside' /\ SleepersAreAtTheirQueue'
    BY QueueAssumption DEF TypeOK, OwnersAreInside, SleepersAreAtTheirQueue, Holding, QueueThread
  <2>4. WaitsEndForAReason'
    BY DEF TypeOK, WaitsEndForAReason, TokenStopped, QueueThread
  <2> QED
    BY <2>1, <2>2, <2>3, <2>4
<1>4. CASE WakeUp(c)
  <2> USE <1>0, <1>4 DEF WakeUp, Goto, Acquire, data, stops
  <2>1. TypeOK'
    BY DEF TypeOK, SleepersAreAtTheirQueue, Holding, Steps
  <2>2. EmptyStateExact' /\ EmptyWakeOnlyByRestart' /\ SleepsOnlyWhenEmpty'
    BY DEF TypeOK, EmptyStateExact, EmptyWakeOnlyByRestart, SleepsOnlyWhenEmpty, QueueThread
  <2>3. OwnersAreInside' /\ SleepersAreAtTheirQueue'
    BY QueueAssumption DEF TypeOK, OwnersAreInside, SleepersAreAtTheirQueue, Holding, QueueThread
  <2>4. WaitsEndForAReason'
    BY DEF TypeOK, WaitsEndForAReason, TokenStopped, QueueThread
  <2> QED
    BY <2>1, <2>2, <2>3, <2>4
<1>5. CASE CheckStop(c)
  <2> USE <1>0
  <2>1. CASE stop_required_state[at[c]]
    <3>0. /\ pc[c] = "check_stop" /\ pc' = [pc EXCEPT ![c] = "idle"]
          /\ outcome' = [outcome EXCEPT ![c] = "StopRequired"]
          /\ mutex' = [mutex EXCEPT ![at[c]] = Nobody]
          /\ UNCHANGED <<data, stops, waiting, at, with_token>>
      BY <1>5, <2>1 DEF CheckStop, Goto, UnlockMutex, Ends
    <3> USE <3>0 DEF data, stops
    <3>1. TypeOK'
      <4>1. mutex' \in [Queue -> {d \in Consumer : pc'[d] \in Holding} \cup {Nobody}]
        BY DEF TypeOK, OwnersAreInside, Holding, QueueThread
      <4>2. waiting' \in [Queue -> SUBSET {d \in Consumer : pc'[d] = "asleep"}]
        BY DEF TypeOK, QueueThread
      <4> QED
        BY <4>1, <4>2 DEF TypeOK, Steps, Outcomes
    <3>2. EmptyStateExact' /\ EmptyWakeOnlyByRestart' /\ SleepsOnlyWhenEmpty'
      BY DEF TypeOK, EmptyStateExact, EmptyWakeOnlyByRestart, SleepsOnlyWhenEmpty, QueueThread
    <3>3. OwnersAreInside' /\ SleepersAreAtTheirQueue'
      BY QueueAssumption DEF TypeOK, OwnersAreInside, SleepersAreAtTheirQueue, Holding, QueueThread
    <3>4. WaitsEndForAReason'
      BY DEF TypeOK, WaitsEndForAReason, TokenStopped, QueueThread
    <3> QED
      BY <3>1, <3>2, <3>3, <3>4
  <2>2. CASE ~stop_required_state[at[c]]
    <3>0. /\ pc[c] = "check_stop" /\ pc' = [pc EXCEPT ![c] = "take"]
          /\ UNCHANGED <<data, stops, mutex, waiting, at, with_token, outcome>>
      BY <1>5, <2>2 DEF CheckStop, Goto
    <3> USE <3>0, <2>2 DEF data, stops
    <3>1. TypeOK'
      BY DEF TypeOK, Holding, Steps, QueueThread
    <3>2. EmptyStateExact' /\ EmptyWakeOnlyByRestart' /\ SleepsOnlyWhenEmpty'
      BY DEF TypeOK, EmptyStateExact, EmptyWakeOnlyByRestart, SleepsOnlyWhenEmpty, QueueThread
    <3>3. OwnersAreInside' /\ SleepersAreAtTheirQueue'
      BY DEF TypeOK, OwnersAreInside, SleepersAreAtTheirQueue, Holding, QueueThread
    <3>4. WaitsEndForAReason'
      BY DEF TypeOK, WaitsEndForAReason, TokenStopped, QueueThread
    <3> QED
      BY <3>1, <3>2, <3>3, <3>4
  <2> QED
    BY <2>1, <2>2
<1>6. CASE SpuriousWakeUp(c)
  <2> USE <1>0, <1>6 DEF SpuriousWakeUp, data, stops
  <2>1. TypeOK'
    BY DEF TypeOK
  <2>2. EmptyStateExact' /\ EmptyWakeOnlyByRestart' /\ SleepsOnlyWhenEmpty'
    BY DEF EmptyStateExact, EmptyWakeOnlyByRestart, SleepsOnlyWhenEmpty
  <2>3. OwnersAreInside' /\ SleepersAreAtTheirQueue'
    BY DEF TypeOK, OwnersAreInside, SleepersAreAtTheirQueue
  <2>4. WaitsEndForAReason'
    BY DEF WaitsEndForAReason, TokenStopped
  <2> QED
    BY <2>1, <2>2, <2>3, <2>4
<1>7. CASE TakeNext(c)
  <2> DEFINE q == at[c]
  <2>1. /\ pc[c] = "take" /\ pc' = [pc EXCEPT ![c] = "idle"]
        /\ mutex' = [mutex EXCEPT ![q] = Nobody]
        /\ UNCHANGED <<pushed, stops, waiting, at, with_token>>
    BY <1>7 DEF TakeNext, Goto, UnlockMutex, PopFront, data
  <2>2. PICK o \in Outcomes :
          /\ outcome' = [outcome EXCEPT ![c] = o]
          /\ o = "empty after waking up" => restarted
          /\ o # "value" => UNCHANGED data
          /\ o = "value" => queue[q] # <<>> /\ PopFront(q)
    <3>1. CASE TokenStopped(c)
      BY <1>7, <3>1 DEF TakeNext, Ends, Outcomes
    <3>2. CASE ~TokenStopped(c) /\ queue[q] = <<>>
      BY <1>7, <2>1, <3>2 DEF TakeNext, Ends, Outcomes, WaitsEndForAReason
    <3>3. CASE ~TokenStopped(c) /\ queue[q] # <<>>
      BY <1>7, <3>3 DEF TakeNext, Ends, Outcomes
    <3> QED
      BY <3>1, <3>2, <3>3
  <2>3. \A r \in Queue : queue'[r] # queue[r] => r = q
    BY <1>0, <2>2 DEF PopFront, TypeOK, data
  <2>4. queue' \in [Queue -> Seq(1 .. MaxPush)] /\ taken' \in Seq(1 .. MaxPush)
    <3>1. CASE o # "value"
      BY <2>2, <3>1 DEF TypeOK, data
    <3>2. CASE o = "value"
      <4>1. queue[q] \in Seq(1 .. MaxPush) /\ queue[q] # <<>> /\ taken \in Seq(1 .. MaxPush)
        BY <1>0, <2>2, <3>2 DEF TypeOK
      <4>2. /\ Tail(queue[q]) \in Seq(1 .. MaxPush)
            /\ Append(taken, Head(queue[q])) \in Seq(1 .. MaxPush)
        BY <4>1, HeadTailProperties, AppendProperties
      <4>3. /\ queue' = [queue EXCEPT ![q] = Tail(queue[q])]
            /\ taken' = Append(taken, Head(queue[q]))
        BY <2>2, <3>2 DEF PopFront
      <4> HIDE DEF q
      <4> QED
        BY <4>2, <4>3 DEF TypeOK
    <3> QED
      BY <3>1, <3>2
  <2>5. EmptyStateExact' /\ empty_state' \in [Queue -> BOOLEAN]
    <3>1. CASE o # "value"
      BY <1>0, <2>2, <3>1 DEF EmptyStateExact, TypeOK, data
    <3>2. CASE o = "value"
      <4>1. queue[q] # <<>> /\ q \in Queue /\ empty_state \in [Queue -> BOOLEAN]
            /\ queue \in [Queue -> Seq(1 .. MaxPush)]
        BY <1>0, <2>2, <3>2 DEF TypeOK
      <4>2. ~empty_state[q]
        BY <1>0, <4>1 DEF EmptyStateExact
      <4>3. PICK b \in BOOLEAN : b = (Tail(queue[q]) = <<>>)
        OBVIOUS
      <4>4. empty_state' = [empty_state EXCEPT ![q] = b]
        BY <2>2, <3>2, <4>2, <4>3 DEF PopFront
      <4>5. queue' = [queue EXCEPT ![q] = Tail(queue[q])]
        BY <2>2, <3>2 DEF PopFront
      <4> HIDE DEF q
      <4>6. queue'[q] = <<>> <=> b
        BY <4>1, <4>3, <4>5
      <4> QED
        BY <1>0, <4>1, <4>4, <4>5, <4>6 DEF EmptyStateExact
    <3> QED
      BY <3>1, <3>2
  <2> HIDE DEF q
  <2>6. TypeOK'
    <3>1. mutex' \in [Queue -> {d \in Consumer : pc'[d] \in Holding} \cup {Nobody}]
      BY <1>0, <2>1 DEF TypeOK, OwnersAreInside, Holding, QueueThread, q
    <3>2. waiting' \in [Queue -> SUBSET {d \in Consumer : pc'[d] = "asleep"}]
      BY <1>0, <2>1 DEF TypeOK, QueueThread
    <3>3. pc' \in [QueueThread -> Steps] /\ outcome' \in [Consumer -> Outcomes]
      BY <2>1, <2>2 DEF TypeOK, Steps
    <3> QED
      BY <2>1, <2>4, <2>5, <3>1, <3>2, <3>3 DEF TypeOK, stops
  <2>7. SleepsOnlyWhenEmpty'
    <3>1. \A d \in Consumer : pc'[d] = "block" => pc[d] = "block" /\ at[d] # q
      BY <1>0, <2>1 DEF TypeOK, OwnersAreInside, Holding, QueueThread, q
    <3> QED
      BY <2>1, <2>3, <3>1 DEF SleepsOnlyWhenEmpty, TypeOK, QueueThread
  <2>8. WaitsEndForAReason'
    <3>1. \A d \in Consumer :
            pc'[d] \in {"check_stop", "take"} => pc'[d] = pc[d] /\ at[d] # q
      BY <1>0, <2>1 DEF TypeOK, OwnersAreInside, Holding, QueueThread, q
    <3> QED
      BY <2>1, <2>3, <3>1 DEF WaitsEndForAReason, TokenStopped, TypeOK, QueueThread, stops
  <2>9. EmptyWakeOnlyByRestart'
    BY <2>1, <2>2 DEF EmptyWakeOnlyByRestart, TypeOK, stops
  <2>10. OwnersAreInside' /\ SleepersAreAtTheirQueue'
    BY <1>0, <2>1, QueueAssumption
    DEF TypeOK, OwnersAreInside, SleepersAreAtTheirQueue, Holding, QueueThread, q
  <2> QED
    BY <2>5, <2>6, <2>7, <2>8, <2>9, <2>10
<1> QED
  BY <1>1, <1>2, <1>3, <1>4, <1>5, <1>6, <1>7 DEF Wait

\* A step that leaves the waits alone preserves it: what a caller does to the
\* stops, to the sleepers and to its own place in a call.
LEMMA CallerMovesOn ==
  ASSUME WaitsIInv, NEW t \in Caller, NEW step \in Steps,
         pc' = pc \/ pc' = [pc EXCEPT ![t] = step],
         at' \in [QueueThread -> Queue], \A c \in Consumer : at'[c] = at[c],
         waiting' \in [Queue -> SUBSET {c \in Consumer : pc[c] = "asleep"}],
         \A q \in Queue : waiting'[q] \subseteq waiting[q],
         stop_required_state' \in [Queue -> BOOLEAN], stop_token' \in [Consumer -> BOOLEAN],
         restarted' \in BOOLEAN, restarted => restarted',
         \A q \in Queue : stop_required_state[q] => stop_required_state'[q] \/ restarted',
         \A c \in Consumer : stop_token[c] => stop_token'[c],
         UNCHANGED <<data, mutex, with_token, outcome>>
  PROVE  WaitsIInv'
<1> USE DEF WaitsIInv
<1>1. \A c \in Consumer : pc'[c] = pc[c] /\ c \in QueueThread /\ at[c] \in Queue
  BY QueueAssumption DEF TypeOK, QueueThread
<1>2. TypeOK'
  BY <1>1 DEF TypeOK, data, QueueThread
<1>3. EmptyStateExact' /\ SleepsOnlyWhenEmpty' /\ EmptyWakeOnlyByRestart'
  BY <1>1 DEF EmptyStateExact, SleepsOnlyWhenEmpty, EmptyWakeOnlyByRestart, data
<1>4. OwnersAreInside' /\ SleepersAreAtTheirQueue'
  BY <1>1 DEF OwnersAreInside, SleepersAreAtTheirQueue
<1>5. WaitsEndForAReason'
  BY <1>1 DEF WaitsEndForAReason, TokenStopped, data
<1> QED
  BY <1>2, <1>3, <1>4, <1>5

\* A push or a pop of a caller, under the mutex of a queue, preserves it.
LEMMA CallerChangesQueue ==
  ASSUME WaitsIInv, NEW t \in Caller, NEW q \in Queue, mutex[q] = Nobody,
         NEW s \in Seq(1 .. MaxPush), NEW step \in Steps,
         queue' = [queue EXCEPT ![q] = s],
         empty_state' = [empty_state EXCEPT ![q] = (s = <<>>)],
         pushed' \in 0 .. MaxPush, taken' \in Seq(1 .. MaxPush),
         pc' = pc \/ pc' = [pc EXCEPT ![t] = step],
         at' \in [QueueThread -> Queue], \A c \in Consumer : at'[c] = at[c],
         UNCHANGED <<stops, mutex, waiting, with_token, outcome>>
  PROVE  WaitsIInv'
<1> USE DEF WaitsIInv
<1>1. \A c \in Consumer : pc'[c] = pc[c] /\ c \in QueueThread /\ at[c] \in Queue /\ c # Nobody
  BY QueueAssumption DEF TypeOK, QueueThread
<1>2. TypeOK'
  BY <1>1 DEF TypeOK, stops, QueueThread
<1>3. EmptyStateExact' /\ EmptyWakeOnlyByRestart'
  BY <1>1 DEF TypeOK, EmptyStateExact, EmptyWakeOnlyByRestart, stops
<1>4. \A c \in Consumer : pc[c] \in Holding => at[c] # q
  BY <1>1 DEF OwnersAreInside
<1>5. SleepsOnlyWhenEmpty'
  BY <1>1, <1>4 DEF SleepsOnlyWhenEmpty, Holding, TypeOK
<1>6. OwnersAreInside' /\ SleepersAreAtTheirQueue'
  BY <1>1 DEF OwnersAreInside, SleepersAreAtTheirQueue
<1>7. WaitsEndForAReason'
  BY <1>1, <1>4 DEF WaitsEndForAReason, TokenStopped, Holding, TypeOK, stops
<1> QED
  BY <1>2, <1>3, <1>5, <1>6, <1>7

\* Every step of a caller preserves it.
LEMMA CallerStep ==
  ASSUME WaitsIInv, NEW t \in Caller,
         \/ NotifyOne(t) \/ NotifyAll(t) \/ RestartRefresh(t)
         \/ \E q \in Queue :
              \/ Push(t, q) \/ TakeNow(t, q)
              \/ RequestStop(t, q) \/ CallNotifyAll(t, q) \/ RestartAfterStop(t, q)
              \/ \E c \in Consumer : StopThread(t, c, q)
  PROVE  WaitsIInv'
<1>0. /\ TypeOK /\ t \in QueueThread /\ at[t] \in Queue
      /\ \A c \in Consumer : c # t
      /\ {"idle", "notify_one", "notify_all", "relock"} \subseteq Steps
  BY QueueAssumption DEF WaitsIInv, TypeOK, QueueThread, Steps
<1> USE <1>0 DEF TypeOK
<1>1. CASE NotifyOne(t)
  <2>1. PICK w \in SUBSET waiting[at[t]] : waiting' = [waiting EXCEPT ![at[t]] = w]
    <3>1. CASE UNCHANGED waiting
      BY <3>1
    <3>2. CASE \E c \in waiting[at[t]] : waiting' = [waiting EXCEPT ![at[t]] = @ \ {c}]
      BY <3>2
    <3> QED
      BY <1>1, <3>1, <3>2 DEF NotifyOne
  <2>2. \A q \in Queue : waiting'[q] \subseteq waiting[q]
    BY <2>1
  <2>3. waiting' \in [Queue -> SUBSET {c \in Consumer : pc[c] = "asleep"}]
    BY <2>1
  <2>4. pc' = [pc EXCEPT ![t] = "idle"] /\ UNCHANGED <<data, stops, mutex, at, with_token, outcome>>
    BY <1>1 DEF NotifyOne, Goto
  <2> QED
    BY <2>2, <2>3, <2>4, CallerMovesOn DEF stops
<1>2. CASE NotifyAll(t)
  BY <1>2, CallerMovesOn DEF NotifyAll, Goto, stops
<1>3. CASE RestartRefresh(t)
  <2> DEFINE q == at[t]
  <2>1. /\ mutex[q] = Nobody /\ queue[q] \in Seq(1 .. MaxPush)
        /\ queue' = [queue EXCEPT ![q] = queue[q]]
        /\ empty_state' = [empty_state EXCEPT ![q] = (queue[q] = <<>>)]
        /\ pushed' \in 0 .. MaxPush /\ taken' \in Seq(1 .. MaxPush)
        /\ UNCHANGED <<stops, mutex, waiting, at, with_token, outcome>>
    BY <1>3 DEF RestartRefresh, WaitsIInv, EmptyStateExact
  <2>2. PICK step \in Steps : pc' = [pc EXCEPT ![t] = step]
    BY <1>3 DEF RestartRefresh, Goto
  <2> QED
    BY <2>1, <2>2, CallerChangesQueue
<1>4. ASSUME NEW q \in Queue, Push(t, q) PROVE WaitsIInv'
  <2> DEFINE s == Append(queue[q], pushed + 1)
  <2>1. pushed + 1 \in 1 .. MaxPush
    BY <1>4, QueueAssumption DEF Push
  <2>2. s \in Seq(1 .. MaxPush) /\ s # <<>>
    <3>1. queue[q] \in Seq(1 .. MaxPush)
      OBVIOUS
    <3> HIDE <1>0
    <3> QED
      BY <2>1, <3>1, AppendProperties
  <2>3. /\ mutex[q] = Nobody /\ queue' = [queue EXCEPT ![q] = s]
        /\ empty_state' = [empty_state EXCEPT ![q] = FALSE]
        /\ pushed' \in 0 .. MaxPush /\ taken' \in Seq(1 .. MaxPush)
        /\ pc' = [pc EXCEPT ![t] = "notify_one"] /\ at' = [at EXCEPT ![t] = q]
        /\ UNCHANGED <<stops, mutex, waiting, with_token, outcome>>
    BY <1>4, <2>1 DEF Push, Start, Goto
  <2> HIDE DEF s
  <2>4. empty_state' = [empty_state EXCEPT ![q] = (s = <<>>)]
    BY <2>2, <2>3
  <2>5. at' \in [QueueThread -> Queue] /\ \A c \in Consumer : at'[c] = at[c]
    BY <2>3 DEF QueueThread
  <2> QED
    BY <2>2, <2>3, <2>4, <2>5, CallerChangesQueue
<1>5. ASSUME NEW q \in Queue, TakeNow(t, q) PROVE WaitsIInv'
  <2> DEFINE s == Tail(queue[q])
  <2>1. s \in Seq(1 .. MaxPush) /\ taken' \in Seq(1 .. MaxPush)
    BY <1>5, HeadTailProperties, AppendProperties DEF TakeNow, PopFront
  <2>2. /\ mutex[q] = Nobody /\ queue' = [queue EXCEPT ![q] = s]
        /\ empty_state' = [empty_state EXCEPT ![q] = (s = <<>>)]
        /\ pushed' = pushed
        /\ UNCHANGED <<pc, at, stops, mutex, waiting, with_token, outcome>>
    BY <1>5 DEF TakeNow, PopFront, WaitsIInv, EmptyStateExact
  <2> HIDE DEF s
  <2> QED
    BY <2>1, <2>2, CallerChangesQueue
<1>6. ASSUME NEW q \in Queue,
             \/ RequestStop(t, q) \/ CallNotifyAll(t, q) \/ RestartAfterStop(t, q)
             \/ \E c \in Consumer : StopThread(t, c, q)
      PROVE  WaitsIInv'
  <2>1. PICK step \in Steps : pc' = [pc EXCEPT ![t] = step] /\ at' = [at EXCEPT ![t] = q]
    BY <1>6 DEF RequestStop, CallNotifyAll, RestartAfterStop, StopThread, Start, Goto
  <2>2. at' \in [QueueThread -> Queue] /\ \A c \in Consumer : at'[c] = at[c]
    BY <2>1 DEF QueueThread
  <2>3. UNCHANGED <<data, mutex, waiting, with_token, outcome>>
    BY <1>6 DEF RequestStop, CallNotifyAll, RestartAfterStop, StopThread, stops
  <2>4. /\ stop_required_state' \in [Queue -> BOOLEAN] /\ restarted' \in BOOLEAN
        /\ stop_token' \in [Consumer -> BOOLEAN]
        /\ restarted => restarted'
        /\ \A r \in Queue : stop_required_state[r] => stop_required_state'[r] \/ restarted'
        /\ \A c \in Consumer : stop_token[c] => stop_token'[c]
    <3>1. CASE RequestStop(t, q)
      BY <3>1 DEF RequestStop
    <3>2. CASE CallNotifyAll(t, q)
      BY <3>2 DEF CallNotifyAll, stops
    <3>3. CASE RestartAfterStop(t, q)
      BY <3>3 DEF RestartAfterStop
    <3>4. ASSUME NEW c \in Consumer, StopThread(t, c, q)
          PROVE  /\ UNCHANGED <<stop_required_state, restarted>>
                 /\ stop_token' = [stop_token EXCEPT ![c] = TRUE]
      BY <3>4 DEF StopThread
    <3> QED
      BY <1>6, <3>1, <3>2, <3>3, <3>4
  <2>5. waiting' \in [Queue -> SUBSET {c \in Consumer : pc[c] = "asleep"}]
    BY <2>3
  <2> HIDE <1>0 DEF TypeOK
  <2> QED
    BY <2>1, <2>2, <2>3, <2>4, <2>5, CallerMovesOn
<1> HIDE <1>0 DEF TypeOK
<1>7. ASSUME NEW q \in Queue,
             \/ Push(t, q) \/ TakeNow(t, q)
             \/ RequestStop(t, q) \/ CallNotifyAll(t, q) \/ RestartAfterStop(t, q)
             \/ \E c \in Consumer : StopThread(t, c, q)
      PROVE  WaitsIInv'
  BY <1>4, <1>5, <1>6, <1>7
<1> QED
  BY <1>1, <1>2, <1>3, <1>7

\* Every step preserves the inductive invariant.
LEMMA WaitsStep == WaitsIInv /\ [Next]_vars => WaitsIInv'
<1> SUFFICES ASSUME WaitsIInv, [Next]_vars PROVE WaitsIInv'
  OBVIOUS
<1>1. CASE Next
  BY <1>1, ConsumerStep, CallerStep DEF Next
<1>2. CASE UNCHANGED vars
  <2> USE <1>2 DEF vars, data, stops, WaitsIInv
  <2>1. TypeOK'
    BY DEF TypeOK
  <2>2. EmptyStateExact' /\ SleepsOnlyWhenEmpty' /\ EmptyWakeOnlyByRestart'
    BY DEF EmptyStateExact, SleepsOnlyWhenEmpty, EmptyWakeOnlyByRestart
  <2>3. OwnersAreInside' /\ SleepersAreAtTheirQueue' /\ WaitsEndForAReason'
    BY DEF OwnersAreInside, SleepersAreAtTheirQueue, WaitsEndForAReason, TokenStopped
  <2> QED
    BY <2>1, <2>2, <2>3
<1> QED
  BY <1>1, <1>2

\* However calls, stops and spurious wake-ups interleave, a consumer sleeps only
\* in front of an empty queue, and wakes without a value only for a stop:
\* wait_for_next and wait_for_next_or.
THEOREM WaitsAreAlwaysJustified == Spec => []WaitsAreJustified
<1>1. WaitsIInv => WaitsAreJustified
  BY DEF WaitsIInv, WaitsAreJustified
<1> QED
  BY <1>1, WaitsInit, WaitsStep, PTL DEF Spec

-----------------------------------------------------------------------------
(* The order *)

\* A step puts one value behind the others, takes the first out, or changes
\* neither the queue nor what was taken.
LEMMA QueueSteps ==
  ASSUME \A q, r \in Queue : q = r, TypeOK, Next, NEW q \in Queue
  PROVE  \/ /\ pushed < MaxPush /\ pushed' = pushed + 1 /\ taken' = taken
            /\ queue'[q] = Append(queue[q], pushed + 1)
         \/ /\ queue[q] # <<>> /\ pushed' = pushed
            /\ taken' = Append(taken, Head(queue[q])) /\ queue'[q] = Tail(queue[q])
         \/ queue' = queue /\ taken' = taken /\ pushed' = pushed
<1> USE DEF TypeOK, data
<1>1. ASSUME NEW c \in Consumer, NEW r \in Queue, NEW token \in BOOLEAN, BeginWait(c, r, token)
      PROVE  queue' = queue /\ taken' = taken /\ pushed' = pushed
  BY <1>1 DEF BeginWait
<1>2. ASSUME NEW c \in Consumer,
             CheckPredicate(c) \/ Block(c) \/ WakeUp(c) \/ CheckStop(c) \/ SpuriousWakeUp(c)
      PROVE  queue' = queue /\ taken' = taken /\ pushed' = pushed
  BY <1>2 DEF CheckPredicate, Block, WakeUp, CheckStop, SpuriousWakeUp
<1>3. ASSUME NEW c \in Consumer, TakeNext(c)
      PROVE  \/ /\ queue[q] # <<>> /\ pushed' = pushed
                /\ taken' = Append(taken, Head(queue[q])) /\ queue'[q] = Tail(queue[q])
             \/ queue' = queue /\ taken' = taken /\ pushed' = pushed
  <2>1. at[c] = q
    BY DEF QueueThread
  <2> QED
    BY <1>3, <2>1 DEF TakeNext, PopFront
<1>4. ASSUME NEW t \in Caller, NEW r \in Queue, Push(t, r) \/ TakeNow(t, r)
      PROVE  \/ /\ pushed < MaxPush /\ pushed' = pushed + 1 /\ taken' = taken
                /\ queue'[q] = Append(queue[q], pushed + 1)
             \/ /\ queue[q] # <<>> /\ pushed' = pushed
                /\ taken' = Append(taken, Head(queue[q])) /\ queue'[q] = Tail(queue[q])
  <2>1. r = q
    OBVIOUS
  <2> QED
    BY <1>4, <2>1 DEF Push, TakeNow, PopFront
<1>5. ASSUME NEW t \in Caller,
             \/ NotifyOne(t) \/ NotifyAll(t) \/ RestartRefresh(t)
             \/ \E r \in Queue : RequestStop(t, r) \/ CallNotifyAll(t, r) \/ RestartAfterStop(t, r)
             \/ \E r \in Queue, c \in Consumer : StopThread(t, c, r)
      PROVE  queue' = queue /\ taken' = taken /\ pushed' = pushed
  BY <1>5 DEF NotifyOne, NotifyAll, RestartRefresh, RequestStop, CallNotifyAll,
              RestartAfterStop, StopThread
<1> QED
  BY <1>1, <1>2, <1>3, <1>4, <1>5 DEF Next, Wait

\* What is taken out of a queue comes in the order in which it was pushed, for
\* every number of consumers, callers and values: push, next and the waits.
THEOREM QueueKeepsOrder ==
  ASSUME \A q, r \in Queue : q = r
  PROVE  Spec => []FirstInFirstOut
<1> DEFINE Ordered == TypeOK /\ FirstInFirstOut
<1>1. Init => Ordered
  <2> SUFFICES ASSUME Init PROVE Ordered
    OBVIOUS
  <2>1. TypeOK
    BY WaitsInit DEF WaitsIInv
  <2>2. [i \in 1 .. 0 |-> i] = <<>>
    OBVIOUS
  <2> QED
    BY <2>1, <2>2 DEF Init, FirstInFirstOut
<1>2. WaitsIInv /\ Ordered /\ [Next]_vars => FirstInFirstOut'
  <2> SUFFICES ASSUME WaitsIInv, FirstInFirstOut, [Next]_vars, NEW q \in Queue
               PROVE  (taken \o queue[q] = [i \in 1 .. pushed |-> i])'
    BY DEF FirstInFirstOut
  <2>1. /\ TypeOK /\ queue[q] \in Seq(1 .. MaxPush) /\ taken \in Seq(1 .. MaxPush)
        /\ pushed \in Nat /\ taken \o queue[q] = [i \in 1 .. pushed |-> i]
    <3>1. TypeOK /\ taken \o queue[q] = [i \in 1 .. pushed |-> i]
      BY DEF WaitsIInv, FirstInFirstOut
    <3> QED
      BY <3>1, QueueAssumption DEF TypeOK
  <2>2. CASE /\ pushed < MaxPush /\ pushed' = pushed + 1 /\ taken' = taken
             /\ queue'[q] = Append(queue[q], pushed + 1)
    <3>1. pushed + 1 \in 1 .. MaxPush
      BY <2>1, <2>2, QueueAssumption
    <3>2. taken \o Append(queue[q], pushed + 1) = Append(taken \o queue[q], pushed + 1)
      <4>1. queue[q] \in Seq(1 .. MaxPush) /\ taken \in Seq(1 .. MaxPush)
        BY <2>1
      <4> QED
        BY <3>1, <4>1, PushKeepsOrder
    <3> QED
      BY <2>1, <2>2, <3>2, CountOn
  <2>3. CASE /\ queue[q] # <<>> /\ pushed' = pushed
             /\ taken' = Append(taken, Head(queue[q])) /\ queue'[q] = Tail(queue[q])
    <3>1. Append(taken, Head(queue[q])) \o Tail(queue[q]) = taken \o queue[q]
      <4>1. queue[q] \in Seq(1 .. MaxPush) /\ taken \in Seq(1 .. MaxPush) /\ queue[q] # <<>>
        BY <2>1, <2>3
      <4> QED
        BY <4>1, TakeKeepsOrder
    <3> QED
      BY <2>1, <2>3, <3>1
  <2>4. CASE queue' = queue /\ taken' = taken /\ pushed' = pushed
    BY <2>1, <2>4
  <2>5. CASE UNCHANGED vars
    BY <2>1, <2>5 DEF vars, data
  <2>6. CASE Next
    BY <2>1, <2>2, <2>3, <2>4, <2>6, QueueSteps
  <2> QED
    BY <2>5, <2>6
<1>3. WaitsIInv => TypeOK
  BY DEF WaitsIInv
<1> QED
  BY <1>1, <1>2, <1>3, WaitsInit, WaitsStep, PTL DEF Spec

-----------------------------------------------------------------------------
(* Queues that are swapped and moved                                       *)

\* What the steps need to know of the variables they read.
DataOK ==
  /\ queue \in [Queue -> Seq(1 .. MaxPush)] /\ taken \in Seq(1 .. MaxPush)
  /\ pushed \in 0 .. MaxPush /\ at \in [QueueThread -> Queue]

\* Every value pushed is somewhere, and nothing else is.
NothingLost ==
  /\ Contents(taken) \subseteq 1 .. pushed
  /\ \A q \in Queue : Contents(queue[q]) \subseteq 1 .. pushed
  /\ \A v \in 1 .. pushed : v \in Contents(taken) \/ \E q \in Queue : v \in Contents(queue[q])

\* No value is in two places.
NothingTwice ==
  /\ Distinct(taken)
  /\ \A q \in Queue : Distinct(queue[q]) /\ Contents(taken) \cap Contents(queue[q]) = {}
  /\ \A q, r \in Queue : q # r => Contents(queue[q]) \cap Contents(queue[r]) = {}

OnceIInv == DataOK /\ NothingLost /\ NothingTwice

\* The empty sequence holds nothing.
LEMMA EmptyHolds == Contents(<<>>) = {} /\ Distinct(<<>>)
BY DEF Contents, Distinct

\* A value put behind the others.
LEMMA AppendHolds ==
  ASSUME NEW S, NEW s \in Seq(S), NEW e \in S
  PROVE  /\ Append(s, e) \in Seq(S) /\ Contents(Append(s, e)) = Contents(s) \cup {e}
         /\ Distinct(s) /\ e \notin Contents(s) => Distinct(Append(s, e))
<1> PICK n \in Nat : n = Len(s)
  OBVIOUS
<1> PICK t : t = Append(s, e)
  OBVIOUS
<1>1. /\ t \in Seq(S) /\ Len(t) = n + 1 /\ t[n + 1] = e
      /\ \A i \in 1 .. n : t[i] = s[i]
  BY AppendProperties
<1>2. DOMAIN s = 1 .. n /\ DOMAIN t = 1 .. n + 1
  BY <1>1
<1>3. Contents(t) = Contents(s) \cup {e}
  BY <1>1, <1>2 DEF Contents
<1>4. ASSUME Distinct(s), e \notin Contents(s) PROVE Distinct(t)
  <2> SUFFICES ASSUME NEW i \in 1 .. n + 1, NEW j \in 1 .. n + 1, t[i] = t[j] PROVE i = j
    BY <1>2 DEF Distinct
  <2>1. \A k \in 1 .. n : t[k] # e
    BY <1>1, <1>2, <1>4 DEF Contents
  <2>2. CASE i \in 1 .. n /\ j \in 1 .. n
    BY <1>1, <1>2, <1>4, <2>2 DEF Distinct
  <2>3. CASE i = n + 1 \/ j = n + 1
    <3>1. \A k \in 1 .. n + 1 : k # n + 1 => k \in 1 .. n
      OBVIOUS
    <3> QED
      BY <1>1, <2>1, <2>3, <3>1
  <2> QED
    BY <2>2, <2>3
<1> QED
  BY <1>1, <1>3, <1>4

\* The value in front taken out.
LEMMA TailHolds ==
  ASSUME NEW S, NEW s \in Seq(S), s # <<>>
  PROVE  /\ Head(s) \in S /\ Tail(s) \in Seq(S)
         /\ Contents(s) = {Head(s)} \cup Contents(Tail(s))
         /\ Distinct(s) => Distinct(Tail(s)) /\ Head(s) \notin Contents(Tail(s))
<1> PICK n \in Nat : n = Len(s)
  OBVIOUS
<1> PICK t : t = Tail(s)
  OBVIOUS
<1>1. /\ t \in Seq(S) /\ Head(s) \in S /\ Head(s) = s[1] /\ n >= 1 /\ Len(t) = n - 1
      /\ \A i \in 1 .. n - 1 : t[i] = s[i + 1]
  BY HeadTailProperties
<1>2. DOMAIN s = 1 .. n /\ DOMAIN t = 1 .. n - 1 /\ 1 \in 1 .. n
  BY <1>1
<1>3. \A i \in 1 .. n - 1 : i + 1 \in 1 .. n /\ i + 1 # 1
  OBVIOUS
<1>4. \A i \in 1 .. n : i # 1 => i - 1 \in 1 .. n - 1 /\ (i - 1) + 1 = i
  OBVIOUS
<1>5. Contents(s) = {s[1]} \cup Contents(t)
  <2>1. ASSUME NEW i \in 1 .. n, i # 1 PROVE s[i] \in Contents(t)
    <3>1. i - 1 \in 1 .. n - 1 /\ s[i] = t[i - 1]
      BY <1>1, <1>4, <2>1
    <3> QED
      BY <1>2, <3>1 DEF Contents
  <2>2. \A i \in 1 .. n - 1 : t[i] \in Contents(s)
    BY <1>1, <1>2, <1>3 DEF Contents
  <2>3. \A x \in Contents(s) : x = s[1] \/ x \in Contents(t)
    BY <1>2, <2>1 DEF Contents
  <2>4. \A x \in Contents(t) : x \in Contents(s)
    BY <1>2, <2>2 DEF Contents
  <2>5. s[1] \in Contents(s)
    BY <1>2 DEF Contents
  <2> QED
    BY <2>3, <2>4, <2>5
<1>6. ASSUME Distinct(s) PROVE Distinct(t) /\ s[1] \notin Contents(t)
  <2>1. \A i, j \in 1 .. n : s[i] = s[j] => i = j
    BY <1>2, <1>6 DEF Distinct
  <2>2. \A i, j \in 1 .. n - 1 : t[i] = t[j] => i + 1 = j + 1
    BY <1>1, <1>3, <2>1
  <2>3. \A i \in 1 .. n - 1 : t[i] # s[1]
    BY <1>1, <1>2, <1>3, <2>1
  <2> QED
    BY <1>2, <2>2, <2>3 DEF Distinct, Contents
<1> QED
  BY <1>1, <1>5, <1>6

\* The inductive invariant holds initially.
LEMMA OnceInit == Init => OnceIInv
<1> SUFFICES ASSUME Init PROVE OnceIInv
  OBVIOUS
<1>1. DataOK
  BY WaitsInit DEF WaitsIInv, TypeOK, DataOK
<1>2. taken = <<>> /\ pushed = 0 /\ \A q \in Queue : queue[q] = <<>>
  BY DEF Init
<1>3. NothingLost
  BY <1>2, EmptyHolds DEF NothingLost
<1>4. NothingTwice
  BY <1>2, EmptyHolds DEF NothingTwice
<1> QED
  BY <1>1, <1>3, <1>4 DEF OnceIInv

\* A push.
LEMMA PushOnce ==
  ASSUME OnceIInv, NEW q \in Queue, pushed < MaxPush,
         queue' = [queue EXCEPT ![q] = Append(@, pushed + 1)],
         pushed' = pushed + 1, taken' = taken, at' \in [QueueThread -> Queue]
  PROVE  OnceIInv'
<1> USE DEF OnceIInv
<1> PICK s \in Seq(1 .. MaxPush) : s = queue[q]
  BY DEF DataOK
<1>1. pushed \in Nat /\ MaxPush \in Nat /\ pushed + 1 \in 1 .. MaxPush
  BY QueueAssumption DEF DataOK
<1>2. Contents(s) \subseteq 1 .. pushed /\ pushed + 1 \notin 1 .. pushed
  BY <1>1 DEF NothingLost
<1>3. 1 .. pushed + 1 = (1 .. pushed) \cup {pushed + 1}
  BY <1>1
<1> PICK t : t = Append(s, pushed + 1)
  OBVIOUS
<1>4. t \in Seq(1 .. MaxPush) /\ Contents(t) = Contents(s) \cup {pushed + 1} /\ Distinct(t)
  <2>1. Distinct(s) /\ pushed + 1 \notin Contents(s)
    BY <1>2 DEF NothingTwice
  <2> QED
    BY <1>1, <2>1, AppendHolds
<1>5. queue'[q] = t /\ \A r \in Queue : r # q => queue'[r] = queue[r]
  BY DEF DataOK
<1>6. DataOK'
  BY <1>1, <1>4 DEF DataOK
<1>7. NothingLost'
  <2>1. \A r \in Queue : Contents(queue'[r]) \subseteq 1 .. pushed + 1
    BY <1>2, <1>3, <1>4, <1>5 DEF NothingLost
  <2>2. ASSUME NEW v \in 1 .. pushed + 1
        PROVE  v \in Contents(taken) \/ \E r \in Queue : v \in Contents(queue'[r])
    BY <1>3, <1>4, <1>5 DEF NothingLost
  <2>3. Contents(taken) \subseteq 1 .. pushed + 1
    BY <1>3 DEF NothingLost
  <2> QED
    BY <2>1, <2>2, <2>3 DEF NothingLost
<1>8. NothingTwice'
  <2>1. \A r \in Queue : pushed + 1 \notin Contents(queue[r])
    BY <1>2 DEF NothingLost
  <2>2. pushed + 1 \notin Contents(taken)
    BY <1>2 DEF NothingLost
  <2>3. \A r \in Queue : Distinct(queue'[r]) /\ Contents(taken) \cap Contents(queue'[r]) = {}
    BY <1>4, <1>5, <2>2 DEF NothingTwice
  <2>4. \A r \in Queue : r # q => Contents(t) \cap Contents(queue[r]) = {}
    BY <1>4, <2>1 DEF NothingTwice
  <2>5. \A r, u \in Queue : r # u => Contents(queue'[r]) \cap Contents(queue'[u]) = {}
    BY <1>5, <2>4 DEF NothingTwice
  <2> QED
    BY <2>3, <2>5 DEF NothingTwice
<1> QED
  BY <1>6, <1>7, <1>8

\* A value taken out.
LEMMA TakeOnce ==
  ASSUME OnceIInv, NEW q \in Queue, queue[q] # <<>>, PopFront(q),
         at' \in [QueueThread -> Queue]
  PROVE  OnceIInv'
<1> USE DEF OnceIInv
<1> PICK s \in Seq(1 .. MaxPush) : s = queue[q]
  BY DEF DataOK
<1> PICK t : t = Tail(s)
  OBVIOUS
<1> PICK e : e = Head(s)
  OBVIOUS
<1>1. taken' = Append(taken, e) /\ queue' = [queue EXCEPT ![q] = t] /\ pushed' = pushed
  BY DEF PopFront
<1>2. /\ e \in 1 .. MaxPush /\ t \in Seq(1 .. MaxPush) /\ Contents(s) = {e} \cup Contents(t)
      /\ Distinct(t) /\ e \notin Contents(t)
  <2>1. Distinct(s)
    BY DEF NothingTwice
  <2> QED
    BY <2>1, TailHolds
<1>3. /\ taken' \in Seq(1 .. MaxPush) /\ Contents(taken') = Contents(taken) \cup {e}
      /\ Distinct(taken')
  <2>1. taken \in Seq(1 .. MaxPush) /\ Distinct(taken) /\ e \notin Contents(taken)
    BY <1>2 DEF DataOK, NothingTwice
  <2> QED
    BY <1>1, <1>2, <2>1, AppendHolds
<1>4. queue'[q] = t /\ \A r \in Queue : r # q => queue'[r] = queue[r]
  BY <1>1 DEF DataOK
<1>5. DataOK'
  BY <1>1, <1>2, <1>3 DEF DataOK
<1>6. NothingLost'
  <2>1. e \in 1 .. pushed
    BY <1>2 DEF NothingLost
  <2>2. Contents(taken') \subseteq 1 .. pushed
    BY <1>3, <2>1 DEF NothingLost
  <2>3. \A r \in Queue : Contents(queue'[r]) \subseteq 1 .. pushed
    BY <1>2, <1>4 DEF NothingLost
  <2>4. ASSUME NEW v \in 1 .. pushed
        PROVE  v \in Contents(taken') \/ \E r \in Queue : v \in Contents(queue'[r])
    BY <1>2, <1>3, <1>4 DEF NothingLost
  <2> QED
    BY <1>1, <2>2, <2>3, <2>4 DEF NothingLost
<1>7. NothingTwice'
  <2>1. \A r \in Queue : r # q => e \notin Contents(queue[r])
    BY <1>2 DEF NothingTwice
  <2>2. \A r \in Queue : Distinct(queue'[r]) /\ Contents(taken') \cap Contents(queue'[r]) = {}
    <3>1. ASSUME NEW r \in Queue
          PROVE  Distinct(queue[r]) /\ Contents(taken) \cap Contents(queue[r]) = {}
      BY DEF NothingTwice
    <3>2. Distinct(queue'[q]) /\ Contents(taken') \cap Contents(queue'[q]) = {}
      BY <1>2, <1>3, <1>4, <3>1
    <3>3. ASSUME NEW r \in Queue, r # q
          PROVE  Distinct(queue'[r]) /\ Contents(taken') \cap Contents(queue'[r]) = {}
      BY <1>3, <1>4, <2>1, <3>1, <3>3
    <3> QED
      BY <3>2, <3>3
  <2>3. \A r \in Queue : r # q => Contents(t) \cap Contents(queue[r]) = {}
    <3>1. \A r \in Queue : r # q => Contents(queue[q]) \cap Contents(queue[r]) = {}
      BY <1>1 DEF NothingTwice
    <3>2. Contents(t) \subseteq Contents(queue[q])
      BY <1>2
    <3> QED
      BY <3>1, <3>2
  <2>4. \A r, u \in Queue : r # u => Contents(queue'[r]) \cap Contents(queue'[u]) = {}
    <3>1. \A r, u \in Queue : r # u => Contents(queue[r]) \cap Contents(queue[u]) = {}
      BY DEF NothingTwice
    <3> QED
      BY <1>4, <2>3, <3>1
  <2> QED
    BY <1>3, <2>2, <2>4 DEF NothingTwice
<1> QED
  BY <1>5, <1>6, <1>7

\* Two queues that exchange what they hold: a swap, and a move onto an empty one.
LEMMA ExchangeOnce ==
  ASSUME OnceIInv, NEW q \in Queue, NEW r \in Queue, q # r,
         queue' = [queue EXCEPT ![q] = queue[r], ![r] = queue[q]],
         UNCHANGED <<taken, pushed, at>>
  PROVE  OnceIInv'
<1> USE DEF OnceIInv
<1>1. /\ queue'[q] = queue[r] /\ queue'[r] = queue[q]
      /\ \A u \in Queue : u # q /\ u # r => queue'[u] = queue[u]
  BY DEF DataOK
<1>2. DataOK'
  BY DEF DataOK
<1>3. NothingLost'
  <2>1. \A u \in Queue : Contents(queue'[u]) \subseteq 1 .. pushed
    BY <1>1 DEF NothingLost
  <2>2. \A u \in Queue : \E x \in Queue : queue'[x] = queue[u]
    BY <1>1
  <2>3. \A v \in 1 .. pushed :
          v \in Contents(taken) \/ \E u \in Queue : v \in Contents(queue'[u])
    BY <2>2 DEF NothingLost
  <2>4. Contents(taken) \subseteq 1 .. pushed
    BY DEF NothingLost
  <2> QED
    BY <2>1, <2>3, <2>4 DEF NothingLost
<1>4. NothingTwice'
  <2>a. /\ \A u \in Queue : Distinct(queue[u]) /\ Contents(taken) \cap Contents(queue[u]) = {}
        /\ \A u, x \in Queue : u # x => Contents(queue[u]) \cap Contents(queue[x]) = {}
    BY DEF NothingTwice
  <2>b. PICK old : old = [u \in Queue |-> IF u = q THEN r ELSE IF u = r THEN q ELSE u]
    OBVIOUS
  <2>c. /\ \A u \in Queue : old[u] \in Queue /\ queue'[u] = queue[old[u]]
        /\ \A u, x \in Queue : u # x => old[u] # old[x]
    BY <1>1, <2>b
  <2>1. \A u \in Queue : Distinct(queue'[u]) /\ Contents(taken) \cap Contents(queue'[u]) = {}
    <3> TAKE u \in Queue
    <3>1. old[u] \in Queue /\ queue'[u] = queue[old[u]]
      BY <2>c
    <3>2. Distinct(queue[old[u]]) /\ Contents(taken) \cap Contents(queue[old[u]]) = {}
      BY <2>a, <3>1
    <3> QED
      BY <3>1, <3>2
  <2>2. ASSUME NEW u \in Queue, NEW x \in Queue, u # x
        PROVE  Contents(queue'[u]) \cap Contents(queue'[x]) = {}
    <3>1. /\ old[u] \in Queue /\ queue'[u] = queue[old[u]]
          /\ old[x] \in Queue /\ queue'[x] = queue[old[x]] /\ old[u] # old[x]
      BY <2>2, <2>c
    <3>2. Contents(queue[old[u]]) \cap Contents(queue[old[x]]) = {}
      BY <2>a, <3>1
    <3> QED
      BY <3>1, <3>2
  <2>3. Distinct(taken)
    BY DEF NothingTwice
  <2> QED
    BY <2>1, <2>2, <2>3 DEF NothingTwice
<1> QED
  BY <1>2, <1>3, <1>4

\* Every other step leaves the values alone.
LEMMA OthersOnce ==
  ASSUME OnceIInv, UNCHANGED <<queue, taken, pushed>>, at' \in [QueueThread -> Queue]
  PROVE  OnceIInv'
BY DEF OnceIInv, DataOK, NothingLost, NothingTwice

\* Every step preserves the inductive invariant.
LEMMA OnceStep == OnceIInv /\ [NextExchanging]_vars => OnceIInv'
<1> SUFFICES ASSUME OnceIInv, [NextExchanging]_vars PROVE OnceIInv'
  OBVIOUS
<1>0. /\ at \in [QueueThread -> Queue]
      /\ \A t \in QueueThread, q \in Queue : [at EXCEPT ![t] = q] \in [QueueThread -> Queue]
      /\ \A c \in Consumer : c \in QueueThread /\ at[c] \in Queue
      /\ \A t \in Caller : t \in QueueThread
  BY DEF OnceIInv, DataOK, QueueThread
<1>1. ASSUME NEW c \in Consumer, NEW r \in Queue, NEW token \in BOOLEAN, BeginWait(c, r, token)
      PROVE  OnceIInv'
  BY <1>0, <1>1, OthersOnce DEF BeginWait, Start, data
<1>2. ASSUME NEW c \in Consumer,
             CheckPredicate(c) \/ Block(c) \/ WakeUp(c) \/ CheckStop(c) \/ SpuriousWakeUp(c)
      PROVE  OnceIInv'
  BY <1>0, <1>2, OthersOnce DEF CheckPredicate, Block, WakeUp, CheckStop, SpuriousWakeUp, data
<1>3. ASSUME NEW c \in Consumer, TakeNext(c) PROVE OnceIInv'
  <2>1. at' = at /\ (UNCHANGED data \/ (queue[at[c]] # <<>> /\ PopFront(at[c])))
    BY <1>3 DEF TakeNext
  <2>2. CASE UNCHANGED data
    BY <1>0, <2>1, <2>2, OthersOnce DEF data
  <2>3. CASE queue[at[c]] # <<>> /\ PopFront(at[c])
    BY <1>0, <2>1, <2>3, TakeOnce
  <2> QED
    BY <2>1, <2>2, <2>3
<1>4. ASSUME NEW t \in Caller, NEW r \in Queue, Push(t, r) PROVE OnceIInv'
  <2>1. /\ pushed < MaxPush /\ queue' = [queue EXCEPT ![r] = Append(@, pushed + 1)]
        /\ pushed' = pushed + 1 /\ taken' = taken /\ at' = [at EXCEPT ![t] = r]
    BY <1>4 DEF Push, Start
  <2>2. at' \in [QueueThread -> Queue]
    BY <1>0, <2>1
  <2> QED
    BY <2>1, <2>2, PushOnce
<1>5. ASSUME NEW t \in Caller, NEW r \in Queue, TakeNow(t, r) PROVE OnceIInv'
  BY <1>0, <1>5, TakeOnce DEF TakeNow
<1>6. ASSUME NEW t \in Caller, NotifyOne(t) \/ NotifyAll(t) \/ RestartRefresh(t)
      PROVE  OnceIInv'
  BY <1>0, <1>6, OthersOnce DEF NotifyOne, NotifyAll, RestartRefresh, data
<1>7. ASSUME NEW t \in Caller, NEW r \in Queue,
             \/ RequestStop(t, r) \/ CallNotifyAll(t, r) \/ RestartAfterStop(t, r)
             \/ \E c \in Consumer : StopThread(t, c, r)
      PROVE  OnceIInv'
  <2>1. at' = [at EXCEPT ![t] = r] /\ UNCHANGED data
    BY <1>7 DEF RequestStop, CallNotifyAll, RestartAfterStop, StopThread, Start
  <2>2. at' \in [QueueThread -> Queue]
    BY <1>0, <2>1
  <2> QED
    BY <2>1, <2>2, OthersOnce DEF data
<1>8. ASSUME NEW t \in Caller, NEW q \in Queue, NEW r \in Queue, Swap(t, q, r) PROVE OnceIInv'
  BY <1>8, ExchangeOnce DEF Swap
<1>9. ASSUME NEW t \in Caller, NEW q \in Queue, NEW r \in Queue, Move(t, q, r) PROVE OnceIInv'
  <2>1. /\ q # r /\ queue[q] = <<>> /\ queue' = [queue EXCEPT ![q] = queue[r], ![r] = <<>>]
        /\ UNCHANGED <<taken, pushed, at>>
    BY <1>9 DEF Move
  <2> QED
    BY <2>1, ExchangeOnce
<1>10. CASE Next
  BY <1>1, <1>2, <1>3, <1>4, <1>5, <1>6, <1>7, <1>10 DEF Next, Wait
<1>11. CASE UNCHANGED vars
  BY <1>0, <1>11, OthersOnce DEF vars, data
<1> QED
  BY <1>8, <1>9, <1>10, <1>11 DEF NextExchanging, Exchange

\* The types, and who owns a mutex and sleeps where.
TypesIInv == TypeOK /\ OwnersAreInside /\ SleepersAreAtTheirQueue

\* A step of a caller leaves the consumers and the mutexes alone, and adds no sleeper.
LEMMA CallersTypes ==
  ASSUME TypesIInv, DataOK', NEW t \in Caller, NEW step \in Steps,
         pc' = pc \/ pc' = [pc EXCEPT ![t] = step],
         \A c \in Consumer : at'[c] = at[c],
         waiting' \in [Queue -> SUBSET {c \in Consumer : pc[c] = "asleep"}],
         \A q \in Queue : waiting'[q] \subseteq waiting[q],
         empty_state' \in [Queue -> BOOLEAN], stop_required_state' \in [Queue -> BOOLEAN],
         stop_token' \in [Consumer -> BOOLEAN], restarted' \in BOOLEAN,
         UNCHANGED <<mutex, with_token, outcome>>
  PROVE  TypesIInv'
<1> USE DEF TypesIInv
<1>1. \A c \in Consumer : pc'[c] = pc[c]
  BY QueueAssumption DEF TypeOK, QueueThread
<1>2. TypeOK'
  <2>1. pc' \in [QueueThread -> Steps]
    BY DEF TypeOK
  <2>2. \A P \in {Holding, {"asleep"}} : {c \in Consumer : pc'[c] \in P} = {c \in Consumer : pc[c] \in P}
    BY <1>1
  <2>3. mutex' \in [Queue -> {c \in Consumer : pc'[c] \in Holding} \cup {Nobody}]
    BY <2>2 DEF TypeOK
  <2>4. waiting' \in [Queue -> SUBSET {c \in Consumer : pc'[c] = "asleep"}]
    BY <1>1
  <2> QED
    BY <2>1, <2>3, <2>4 DEF TypeOK, DataOK
<1>3. OwnersAreInside' /\ SleepersAreAtTheirQueue'
  BY <1>1 DEF OwnersAreInside, SleepersAreAtTheirQueue
<1> QED
  BY <1>2, <1>3

\* A step of a wait on queue q: its mutex is taken where the consumer comes inside, and
\* given back where it goes to sleep or ends.
WaitGoes(c, q, step) ==
  /\ pc' = [pc EXCEPT ![c] = step]
  /\ at'[c] = q /\ \A d \in Consumer : d # c => at'[d] = at[d]
  /\ pc[c] \in Holding => at[c] = q
  /\ \/ step \in Holding /\ pc[c] \in Holding /\ mutex' = mutex
     \/ /\ step \in Holding /\ pc[c] \notin Holding
        /\ mutex[q] = Nobody /\ mutex' = [mutex EXCEPT ![q] = c]
     \/ step \notin Holding /\ pc[c] \in Holding /\ mutex' = [mutex EXCEPT ![q] = Nobody]
  /\ step = "asleep" => waiting' = [waiting EXCEPT ![q] = @ \cup {c}]
  /\ step # "asleep" => waiting' = waiting
  /\ \A r \in Queue : c \notin waiting[r]

\* A step of a wait keeps the types.
LEMMA ConsumersTypes ==
  ASSUME TypesIInv, DataOK', NEW c \in Consumer, NEW q \in Queue, NEW step \in Steps,
         WaitGoes(c, q, step),
         empty_state' \in [Queue -> BOOLEAN], with_token' \in [Consumer -> BOOLEAN],
         outcome' \in [Consumer -> Outcomes], UNCHANGED stops
  PROVE  TypesIInv'
<1> USE DEF WaitGoes
<1> USE DEF TypesIInv
<1>1. /\ c \in QueueThread /\ c # Nobody /\ pc'[c] = step /\ at'[c] = q
      /\ \A d \in Consumer : d # c => pc'[d] = pc[d] /\ at'[d] = at[d] /\ d # Nobody
      /\ mutex \in [Queue -> {d \in Consumer : pc[d] \in Holding} \cup {Nobody}]
      /\ waiting \in [Queue -> SUBSET {d \in Consumer : pc[d] = "asleep"}]
  BY QueueAssumption DEF TypeOK, QueueThread
<1>2. OwnersAreInside'
  BY <1>1 DEF OwnersAreInside
<1>3. mutex' \in [Queue -> {d \in Consumer : pc'[d] \in Holding} \cup {Nobody}]
  BY <1>1 DEF OwnersAreInside
<1>4. waiting' \in [Queue -> SUBSET {d \in Consumer : pc'[d] = "asleep"}]
  BY <1>1
<1>5. SleepersAreAtTheirQueue'
  BY <1>1 DEF SleepersAreAtTheirQueue
<1>6. TypeOK'
  BY <1>3, <1>4 DEF TypeOK, DataOK, stops
<1> QED
  BY <1>2, <1>5, <1>6

\* Every step keeps the types, if it keeps those of the data.
LEMMA TypesStep ==
  ASSUME TypesIInv, DataOK', [NextExchanging]_vars
  PROVE  TypesIInv'
<1>0. /\ TypeOK
      /\ {"idle", "notify_one", "notify_all", "relock", "check_predicate", "block", "asleep",
          "check_stop", "take"} \subseteq Steps
      /\ \A c \in Consumer : at[c] \in Queue /\ c \in QueueThread
      /\ \A c \in Consumer, r \in Queue : c \in waiting[r] => pc[c] = "asleep" /\ at[c] = r
  BY DEF TypesIInv, TypeOK, SleepersAreAtTheirQueue, Steps, QueueThread
<1>1. ASSUME NEW c \in Consumer, NEW q \in Queue, NEW token \in BOOLEAN, BeginWait(c, q, token)
      PROVE  TypesIInv'
  <2>1. WaitGoes(c, q, "check_predicate")
    BY <1>0, <1>1 DEF BeginWait, Start, Goto, Acquire, WaitGoes, Holding, TypeOK
  <2>2. /\ empty_state' \in [Queue -> BOOLEAN] /\ with_token' \in [Consumer -> BOOLEAN]
        /\ outcome' \in [Consumer -> Outcomes] /\ UNCHANGED stops
    BY <1>0, <1>1 DEF BeginWait, Ends, data, TypeOK, Outcomes
  <2> QED
    BY <1>0, <2>1, <2>2, ConsumersTypes
<1>2. ASSUME NEW c \in Consumer, CheckPredicate(c) PROVE TypesIInv'
  <2>1. PICK step \in {"check_stop", "block"} : pc' = [pc EXCEPT ![c] = step]
    BY <1>2 DEF CheckPredicate, Goto
  <2>2. WaitGoes(c, at[c], step)
    BY <1>0, <1>2, <2>1 DEF CheckPredicate, Goto, WaitGoes, Holding
  <2>3. /\ empty_state' \in [Queue -> BOOLEAN] /\ with_token' \in [Consumer -> BOOLEAN]
        /\ outcome' \in [Consumer -> Outcomes] /\ UNCHANGED stops
    BY <1>0, <1>2 DEF CheckPredicate, data, TypeOK
  <2> QED
    BY <1>0, <2>2, <2>3, ConsumersTypes
<1>3. ASSUME NEW c \in Consumer, Block(c) PROVE TypesIInv'
  <2>1. WaitGoes(c, at[c], "asleep")
    BY <1>0, <1>3 DEF Block, Goto, UnlockMutex, WaitGoes, Holding, TypeOK
  <2>2. /\ empty_state' \in [Queue -> BOOLEAN] /\ with_token' \in [Consumer -> BOOLEAN]
        /\ outcome' \in [Consumer -> Outcomes] /\ UNCHANGED stops
    BY <1>0, <1>3 DEF Block, data, TypeOK
  <2> QED
    BY <1>0, <2>1, <2>2, ConsumersTypes
<1>4. ASSUME NEW c \in Consumer, WakeUp(c) PROVE TypesIInv'
  <2>1. WaitGoes(c, at[c], "check_predicate")
    BY <1>0, <1>4 DEF WakeUp, Goto, Acquire, WaitGoes, Holding
  <2>2. /\ empty_state' \in [Queue -> BOOLEAN] /\ with_token' \in [Consumer -> BOOLEAN]
        /\ outcome' \in [Consumer -> Outcomes] /\ UNCHANGED stops
    BY <1>0, <1>4 DEF WakeUp, data, TypeOK
  <2> QED
    BY <1>0, <2>1, <2>2, ConsumersTypes
<1>5. ASSUME NEW c \in Consumer, CheckStop(c) PROVE TypesIInv'
  <2>1. PICK step \in {"idle", "take"} : WaitGoes(c, at[c], step)
    <3>1. CASE stop_required_state[at[c]]
      <4>1. WaitGoes(c, at[c], "idle")
        BY <1>0, <1>5, <3>1 DEF CheckStop, Goto, UnlockMutex, WaitGoes, Holding
      <4> QED
        BY <4>1
    <3>2. CASE ~stop_required_state[at[c]]
      <4>1. WaitGoes(c, at[c], "take")
        BY <1>0, <1>5, <3>2 DEF CheckStop, Goto, WaitGoes, Holding
      <4> QED
        BY <4>1
    <3> QED
      BY <3>1, <3>2
  <2>2. /\ empty_state' \in [Queue -> BOOLEAN] /\ with_token' \in [Consumer -> BOOLEAN]
        /\ outcome' \in [Consumer -> Outcomes] /\ UNCHANGED stops
    BY <1>0, <1>5 DEF CheckStop, Ends, data, TypeOK, Outcomes
  <2> QED
    BY <1>0, <2>1, <2>2, ConsumersTypes
<1>6. ASSUME NEW c \in Consumer, SpuriousWakeUp(c) PROVE TypesIInv'
  <2> USE <1>0, <1>6 DEF SpuriousWakeUp, data, stops
  <2>1. TypeOK'
    BY DEF TypeOK
  <2>2. OwnersAreInside' /\ SleepersAreAtTheirQueue'
    BY DEF TypesIInv, TypeOK, OwnersAreInside, SleepersAreAtTheirQueue
  <2> QED
    BY <2>1, <2>2 DEF TypesIInv
<1>7. ASSUME NEW c \in Consumer, TakeNext(c) PROVE TypesIInv'
  <2>1. /\ pc[c] = "take" /\ pc' = [pc EXCEPT ![c] = "idle"]
        /\ mutex' = [mutex EXCEPT ![at[c]] = Nobody]
        /\ UNCHANGED <<stops, waiting, at, with_token>>
    BY <1>7 DEF TakeNext, Goto, UnlockMutex
  <2>2. empty_state' \in [Queue -> BOOLEAN] /\ outcome' \in [Consumer -> Outcomes]
    <3>1. CASE TokenStopped(c)
      <4>1. outcome' = [outcome EXCEPT ![c] = "to_invoke"] /\ empty_state' = empty_state
        BY <1>7, <3>1 DEF TakeNext, Ends, data
      <4> QED
        BY <1>0, <4>1 DEF TypeOK, Outcomes
    <3>2. CASE ~TokenStopped(c) /\ queue[at[c]] = <<>>
      <4>1. /\ outcome' = [outcome EXCEPT ![c] = "empty after waking up"]
            /\ empty_state' = empty_state
        BY <1>7, <3>2 DEF TakeNext, Ends, data
      <4> QED
        BY <1>0, <4>1 DEF TypeOK, Outcomes
    <3>3. CASE ~TokenStopped(c) /\ queue[at[c]] # <<>>
      <4>1. outcome' = [outcome EXCEPT ![c] = "value"]
        BY <1>7, <3>3 DEF TakeNext, Ends
      <4>2. PICK b \in BOOLEAN : b = (empty_state[at[c]] \/ Tail(queue[at[c]]) = <<>>)
        OBVIOUS
      <4>3. empty_state' = [empty_state EXCEPT ![at[c]] = b]
        BY <1>7, <3>3, <4>2 DEF TakeNext, PopFront
      <4> QED
        BY <1>0, <4>1, <4>3 DEF TypeOK, Outcomes
    <3> QED
      BY <3>1, <3>2, <3>3
  <2>3. WaitGoes(c, at[c], "idle")
    BY <1>0, <2>1 DEF WaitGoes, Holding
  <2>4. with_token' \in [Consumer -> BOOLEAN] /\ UNCHANGED stops
    BY <1>0, <2>1 DEF TypeOK
  <2> QED
    BY <1>0, <2>2, <2>3, <2>4, ConsumersTypes
<1>8. ASSUME NEW t \in Caller, NotifyOne(t) \/ NotifyAll(t) \/ RestartRefresh(t)
      PROVE  TypesIInv'
  <2>1. /\ \A q \in Queue : waiting'[q] \subseteq waiting[q]
        /\ waiting' \in [Queue -> SUBSET {c \in Consumer : pc[c] = "asleep"}]
    <3>1. at[t] \in Queue /\ waiting \in [Queue -> SUBSET {c \in Consumer : pc[c] = "asleep"}]
      BY <1>0 DEF TypeOK, QueueThread
    <3>2. PICK w \in SUBSET waiting[at[t]] :
            waiting' = waiting \/ waiting' = [waiting EXCEPT ![at[t]] = w]
      <4>1. CASE NotifyOne(t)
        <5>1. CASE UNCHANGED waiting
          BY <5>1
        <5>2. CASE \E c \in waiting[at[t]] : waiting' = [waiting EXCEPT ![at[t]] = @ \ {c}]
          BY <5>2
        <5> QED
          BY <4>1, <5>1, <5>2 DEF NotifyOne
      <4>2. CASE NotifyAll(t)
        BY <4>2 DEF NotifyAll
      <4>3. CASE RestartRefresh(t)
        BY <4>3 DEF RestartRefresh
      <4> QED
        BY <1>8, <4>1, <4>2, <4>3
    <3> QED
      BY <3>1, <3>2
  <2>2. PICK step \in {"idle", "notify_all"} : pc' = [pc EXCEPT ![t] = step]
    BY <1>8 DEF NotifyOne, NotifyAll, RestartRefresh, Goto
  <2>3. empty_state' \in [Queue -> BOOLEAN]
    BY <1>0, <1>8 DEF NotifyOne, NotifyAll, RestartRefresh, TypeOK, data
  <2>4. UNCHANGED <<stops, mutex, at, with_token, outcome>>
    BY <1>8 DEF NotifyOne, NotifyAll, RestartRefresh
  <2> QED
    BY <1>0, <2>1, <2>2, <2>3, <2>4, CallersTypes DEF TypeOK, stops
<1>9. ASSUME NEW t \in Caller, NEW q \in Queue,
             \/ Push(t, q) \/ RequestStop(t, q) \/ CallNotifyAll(t, q) \/ RestartAfterStop(t, q)
             \/ \E c \in Consumer : StopThread(t, c, q)
      PROVE  TypesIInv'
  <2>1. PICK step \in {"notify_one", "notify_all", "relock"} :
          pc' = [pc EXCEPT ![t] = step] /\ at' = [at EXCEPT ![t] = q]
    BY <1>9 DEF Push, RequestStop, CallNotifyAll, RestartAfterStop, StopThread, Start, Goto
  <2>2. \A c \in Consumer : at'[c] = at[c]
    BY <1>0, <2>1, QueueAssumption DEF TypeOK, QueueThread
  <2>3. UNCHANGED <<mutex, waiting, with_token, outcome>>
    BY <1>9 DEF Push, RequestStop, CallNotifyAll, RestartAfterStop, StopThread
  <2>4. /\ empty_state' \in [Queue -> BOOLEAN] /\ stop_required_state' \in [Queue -> BOOLEAN]
        /\ stop_token' \in [Consumer -> BOOLEAN] /\ restarted' \in BOOLEAN
    BY <1>0, <1>9
    DEF Push, RequestStop, CallNotifyAll, RestartAfterStop, StopThread, TypeOK, data, stops
  <2> QED
    BY <1>0, <2>1, <2>2, <2>3, <2>4, CallersTypes DEF TypeOK
<1>10. ASSUME NEW t \in Caller, NEW q \in Queue, NEW r \in Queue,
              TakeNow(t, q) \/ Swap(t, q, r) \/ Move(t, q, r)
       PROVE  TypesIInv'
  <2>1. UNCHANGED <<pc, at, mutex, waiting, with_token, stop_token, restarted, outcome>>
    BY <1>10 DEF TakeNow, Swap, Move, stops
  <2>2. empty_state' \in [Queue -> BOOLEAN] /\ stop_required_state' \in [Queue -> BOOLEAN]
    <3>1. CASE TakeNow(t, q)
      <4>1. PICK b \in BOOLEAN : b = (empty_state[q] \/ Tail(queue[q]) = <<>>)
        OBVIOUS
      <4>2. empty_state' = [empty_state EXCEPT ![q] = b] /\ UNCHANGED stops
        BY <3>1, <4>1 DEF TakeNow, PopFront
      <4> QED
        BY <1>0, <4>2 DEF TypeOK, stops
    <3>2. CASE Swap(t, q, r)
      BY <1>0, <3>2 DEF Swap, TypeOK, stops
    <3>3. CASE Move(t, q, r)
      <4>1. PICK b \in BOOLEAN : b = (queue[r] = <<>>)
        OBVIOUS
      <4>2. /\ empty_state' = [empty_state EXCEPT ![q] = b]
            /\ stop_required_state' = [stop_required_state EXCEPT ![q] = stop_required_state[r]]
        BY <3>3, <4>1 DEF Move
      <4> QED
        BY <1>0, <4>2 DEF TypeOK
    <3> QED
      BY <1>10, <3>1, <3>2, <3>3
  <2> QED
    BY <1>0, <2>1, <2>2, CallersTypes DEF TypeOK
<1>11. CASE UNCHANGED vars
  BY <1>11 DEF vars, data, stops, TypesIInv, TypeOK, OwnersAreInside, SleepersAreAtTheirQueue
<1>12. CASE Next
  BY <1>1, <1>2, <1>3, <1>4, <1>5, <1>6, <1>7, <1>8, <1>9, <1>10, <1>12 DEF Next, Wait
<1>13. CASE Exchange
  BY <1>10, <1>13 DEF Exchange
<1> QED
  BY <1>11, <1>12, <1>13 DEF NextExchanging

\* However queues are swapped and moved while others push and take, every value
\* pushed is taken out once or in one queue once, for any number of queues and
\* threads: push, emplace, next, the waits, swap and move.
THEOREM ValuesExistOnce == ExchangingSpec => []ExactlyOnce
<1>1. Init => OnceIInv /\ TypesIInv
  BY OnceInit, WaitsInit DEF WaitsIInv, TypesIInv
<1>2. OnceIInv /\ TypesIInv /\ [NextExchanging]_vars => (OnceIInv /\ TypesIInv)'
  BY OnceStep, TypesStep DEF OnceIInv
<1>3. OnceIInv /\ TypesIInv => ExactlyOnce
  BY DEF OnceIInv, TypesIInv, NothingLost, NothingTwice, ExactlyOnce
<1> QED
  BY <1>1, <1>2, <1>3, PTL DEF ExchangingSpec
-----------------------------------------------------------------------------
(***************************************************************************)
(* UnicodeText and SourceText: the walks over any bytes, the orders of any *)
(* string, the words of any line and any places.                           *)
(***************************************************************************)

Uni == INSTANCE UnicodeText
Txt == INSTANCE SourceText

\* A set of numbers has a least one, and one that is bounded a greatest one.
LEMMA LeastOne ==
  ASSUME NEW T \in SUBSET Nat, T # {}
  PROVE  \E x \in T : \A y \in T : x <= y
<1> DEFINE R == {ss \in Nat \X Nat : ss[1] < ss[2]}
<1>1. IsWellFoundedOn(R, Nat)
  BY NatLessThanWellFounded DEF OpToRel
<1>2. PICK x \in T : \A y \in T : ~(<<y, x>> \in R)
  <2> HIDE DEF R
  <2> QED
    BY <1>1, WFMin
<1>3. \A y \in T : x <= y
  <2> TAKE y \in T
  <2>1. x \in Nat /\ y \in Nat /\ ~(y < x)
    BY <1>2
  <2> QED
    BY <2>1
<1> QED
  BY <1>3

LEMMA GreatestOne ==
  ASSUME NEW n \in Nat, NEW T \in SUBSET (0 .. n), T # {}
  PROVE  \E x \in T : \A y \in T : x >= y
<1> DEFINE D == {n - y : y \in T}
<1>1. D \in SUBSET Nat /\ D # {}
  <2>1. \A y \in T : n - y \in Nat
    OBVIOUS
  <2>2. PICK y \in T : TRUE
    OBVIOUS
  <2>3. n - y \in D
    BY <2>2
  <2>4. D \subseteq Nat
    BY <2>1, Zenon
  <2> QED
    BY <2>3, <2>4
<1>2. PICK d \in D : \A c \in D : d <= c
  <2> HIDE DEF D
  <2> QED
    BY <1>1, LeastOne
<1>3. PICK x \in T : d = n - x
  OBVIOUS
<1>4. \A y \in T : x >= y
  <2> TAKE y \in T
  <2>1. n - y \in D
    OBVIOUS
  <2>2. n - x <= n - y
    BY <1>2, <1>3, <2>1
  <2> QED
    BY <2>2
<1> QED
  BY <1>4

\* The bytes of UTF-8 up to the next that does not continue a character do.
LEMMA StepsAreUndone8 ==
  ASSUME NEW mem \in Seq(Nat), NEW beyond \in Nat, NEW p \in 0 .. Len(mem) - 1,
         ~Uni!Continues(mem[p + 1]), Uni!NextU8(mem, beyond, p) # Uni!Nowhere
  PROVE  Uni!PrevU8(mem, Uni!NextU8(mem, beyond, p)) = p /\ Uni!NextU8(mem, beyond, p) \in Nat \ {0}
<1> DEFINE heads == {q \in p + 1 .. Len(mem) : ~Uni!Continues(Uni!At(mem, beyond, q))}
           q == Uni!Min(heads)
           back == {r \in 0 .. q - 1 : ~Uni!Continues(mem[r + 1])}
<1>1. heads # {} /\ Uni!NextU8(mem, beyond, p) = q
  BY DEF Uni!NextU8
<1>2. heads \in SUBSET Nat
  OBVIOUS
<1>3. q \in heads /\ \A y \in heads : q <= y
  <2>1. \E x \in heads : \A y \in heads : x <= y
    <3> HIDE DEF heads
    <3> QED
      BY <1>1, <1>2, LeastOne
  <2> HIDE DEF heads
  <2> QED
    BY <2>1 DEF Uni!Min
<1>4. q \in p + 1 .. Len(mem)
  BY <1>3
<1>5. p \in back
  BY <1>4
<1>6. \A r \in back : r <= p
  <2> SUFFICES ASSUME NEW r \in back, r > p PROVE FALSE
    BY <1>4
  <2>1. r \in p + 1 .. Len(mem) - 1 /\ Uni!At(mem, beyond, r) = mem[r + 1] /\ r < q
    BY <1>4 DEF Uni!At
  <2>2. r \in heads
    BY <2>1
  <2>3. q <= r
    <3> HIDE DEF heads, q
    <3> QED
      BY <1>3, <2>2
  <2>4. q \in Int /\ r \in Int
    BY <1>4, <2>1
  <2> HIDE DEF q
  <2> QED
    BY <2>1, <2>3, <2>4
<1>7. Uni!Max(back) = p
  <2>1. \A r \in back : r \in Int
    BY <1>4
  <2> HIDE DEF back
  <2>2. \A x \in back : (\A y \in back : x >= y) => x = p
    BY <1>5, <1>6, <2>1
  <2>3. \A y \in back : p >= y
    BY <1>6, <2>1
  <2> QED
    BY <1>5, <2>2, <2>3 DEF Uni!Max
<1>8. Uni!PrevU8(mem, q) = p
  BY <1>5, <1>7 DEF Uni!PrevU8
<1> QED
  BY <1>1, <1>4, <1>8

\* From the beginning of a character in any memory a step forward and one back
\* lead to it again: find_next and find_prev of every encoding and order.
THEOREM WalksTurnBack ==
  \A enc \in Uni!Encoding, order \in Uni!Endianness, mem \in Seq(Nat), beyond \in Nat :
    Uni!StepsAreUndone(enc, order, mem, beyond)
<1> SUFFICES ASSUME NEW enc \in Uni!Encoding, NEW order \in Uni!Endianness, NEW mem \in Seq(Nat),
                    NEW beyond \in Nat, NEW p \in 0 .. Len(mem) - 1,
                    Uni!BeginsAt(enc, order, mem, p),
                    Uni!FindNext(enc, order, mem, beyond, p) # Uni!Nowhere
             PROVE  Uni!FindPrev(enc, order, mem, Uni!FindNext(enc, order, mem, beyond, p)) = p
  BY DEF Uni!StepsAreUndone
<1>1. p # Len(mem) /\ p \in Nat /\ Len(mem) \in Nat
  OBVIOUS
<1>2. CASE enc = 8
  <2>1. Uni!FindNext(enc, order, mem, beyond, p) = Uni!NextU8(mem, beyond, p)
    BY <1>1, <1>2 DEF Uni!FindNext
  <2>2. ~Uni!Continues(mem[p + 1])
    BY <1>2 DEF Uni!BeginsAt
  <2>3. /\ Uni!PrevU8(mem, Uni!NextU8(mem, beyond, p)) = p
        /\ Uni!NextU8(mem, beyond, p) \in Nat \ {0}
    BY <2>1, <2>2, StepsAreUndone8
  <2> QED
    BY <1>2, <2>1, <2>3 DEF Uni!FindPrev
<1>3. CASE enc = 16 /\ order # "undefined"
  <2>1. Uni!FindNext(enc, order, mem, beyond, p) = Uni!NextU16(mem, order, p)
    BY <1>1, <1>3 DEF Uni!FindNext
  <2>2. ~Uni!IsLowSurrogate(Uni!Unit16(mem, order, p))
    BY <1>3 DEF Uni!BeginsAt
  <2>3. \A q \in Nat \ {0} : Uni!FindPrev(enc, order, mem, q) = Uni!PrevU16(mem, order, q)
    BY <1>3 DEF Uni!FindPrev
  <2>4. CASE Uni!NextU16(mem, order, p) = p + 2
    <3>1. (p + 2) - 2 = p /\ ~(p + 2 < 2) /\ p + 2 \in Nat \ {0}
      BY <1>1
    <3>2. Uni!PrevU16(mem, order, p + 2) = p
      BY <2>2, <3>1 DEF Uni!PrevU16
    <3> QED
      BY <2>1, <2>3, <2>4, <3>1, <3>2
  <2>5. CASE Uni!NextU16(mem, order, p) # p + 2
    <3>1. /\ Uni!NextU16(mem, order, p) = p + 4
          /\ Uni!IsHighSurrogate(Uni!Unit16(mem, order, p))
          /\ Uni!IsLowSurrogate(Uni!Unit16(mem, order, p + 2))
      BY <2>1, <2>5 DEF Uni!NextU16
    <3>2. /\ (p + 4) - 2 = p + 2 /\ (p + 4) - 4 = p /\ p + 4 \in Nat \ {0}
          /\ ~(p + 4 < 2) /\ ~(p + 4 < 4)
      BY <1>1
    <3>3. Uni!PrevU16(mem, order, p + 4) = p
      BY <3>1, <3>2 DEF Uni!PrevU16
    <3> QED
      BY <2>1, <2>3, <3>1, <3>2, <3>3
  <2> QED
    BY <2>4, <2>5
<1>4. CASE enc = 32 /\ order # "undefined"
  <2>1. Uni!FindNext(enc, order, mem, beyond, p) = p + 4
    BY <1>1, <1>4 DEF Uni!FindNext, Uni!NextU32
  <2>2. Uni!FindPrev(enc, order, mem, p + 4) = Uni!PrevU32(p + 4)
    BY <1>1, <1>4 DEF Uni!FindPrev
  <2> QED
    BY <1>1, <2>1, <2>2 DEF Uni!PrevU32
<1>5. CASE enc # 8 /\ order = "undefined"
  BY <1>1, <1>5 DEF Uni!FindNext
<1> QED
  BY <1>2, <1>3, <1>4, <1>5 DEF Uni!Encoding

\* The characters of UTF-16 and UTF-32: any units of any bytes, and an order.
UniChar == [units : Seq(Seq(Nat)), end : Uni!Endianness]

\* Swapping the bytes of units twice leaves them.
LEMMA SwappedTwice ==
  ASSUME NEW units \in Seq(Seq(Nat))
  PROVE  /\ Uni!Swapped(units) \in Seq(Seq(Nat))
         /\ Uni!Swapped(Uni!Swapped(units)) = units
<1> DEFINE back == Uni!Swapped(units)
<1>1. \A u \in Seq(Nat) : /\ Uni!Reverse(u) \in Seq(Nat)
                          /\ Uni!Reverse(Uni!Reverse(u)) = u
  <2> TAKE u \in Seq(Nat)
  <2> DEFINE r == Uni!Reverse(u)
  <2>1. r = [i \in 1 .. Len(u) |-> u[(Len(u) - i) + 1]]
    BY DEF Uni!Reverse
  <2>2. \A i \in 1 .. Len(u) : (Len(u) - i) + 1 \in 1 .. Len(u)
    OBVIOUS
  <2>3. r \in Seq(Nat) /\ Len(r) = Len(u)
    BY <2>1, <2>2
  <2>4. Uni!Reverse(r) = [i \in 1 .. Len(u) |-> r[(Len(u) - i) + 1]]
    BY <2>3 DEF Uni!Reverse
  <2> HIDE DEF r
  <2>5. \A i \in 1 .. Len(u) : r[(Len(u) - i) + 1] = u[i]
    <3> TAKE i \in 1 .. Len(u)
    <3> DEFINE j == (Len(u) - i) + 1
    <3>1. j \in 1 .. Len(u) /\ (Len(u) - j) + 1 = i
      OBVIOUS
    <3> QED
      BY <2>1, <3>1
  <2>6. Uni!Reverse(r) = [i \in 1 .. Len(u) |-> u[i]]
    BY <2>4, <2>5
  <2>7. Uni!Reverse(r) = u
    BY <2>6
  <2> QED
    BY <2>3, <2>7 DEF r
<1>2. DOMAIN back = DOMAIN units /\ \A k \in DOMAIN units : back[k] = Uni!Reverse(units[k])
  BY DEF Uni!Swapped
<1>3. \A k \in DOMAIN units : units[k] \in Seq(Nat)
  OBVIOUS
<1>4. back \in Seq(Seq(Nat))
  <2>1. back = [k \in 1 .. Len(units) |-> Uni!Reverse(units[k])]
    BY DEF Uni!Swapped
  <2>2. \A k \in 1 .. Len(units) : Uni!Reverse(units[k]) \in Seq(Nat)
    BY <1>1, <1>3
  <2> HIDE DEF back
  <2> QED
    BY <2>1, <2>2
<1>5. Uni!Swapped(back) = [k \in DOMAIN units |-> units[k]]
  <2>1. \A k \in DOMAIN units : Uni!Reverse(back[k]) = units[k]
    BY <1>1, <1>2, <1>3
  <2> HIDE DEF back
  <2> QED
    BY <1>2, <2>1 DEF Uni!Swapped
<1>6. Uni!Swapped(back) = units
  BY <1>5
<1> QED
  BY <1>4, <1>6

\* What set_endianness does to one character.
LEMMA OneIsSet ==
  ASSUME NEW enc, NEW c \in UniChar, NEW e \in Uni!Endianness
  PROVE  LET set == Uni!SetEndianness(enc, c, e)
         IN  /\ set.ok \in BOOLEAN
             /\ set.ok <=> c.end = e \/ c.end # "undefined"
             /\ set.ok => set = Uni!Done(set.value) /\ set.value.end = e
             /\ c.end = e => set.value = c
             /\ c.end # "undefined" /\ e = "undefined" => set.value = Uni!NullChar(enc)
             /\ c.end # "undefined" /\ e # "undefined" /\ c.end # e =>
                  set.value = [end |-> e, units |-> Uni!Swapped(c.units)]
BY DEF Uni!SetEndianness, Uni!Done, Uni!Throws, Uni!NullChar, UniChar, Uni!Endianness

\* A character with an order that is given another and the first again is as before.
LEMMA SetBack ==
  ASSUME NEW enc, NEW c \in UniChar, NEW e \in Uni!Order, c.end \in Uni!Order
  PROVE  LET set == Uni!SetEndianness(enc, c, e)
         IN  /\ set.ok /\ set.value \in UniChar /\ set.value.end = e
             /\ Uni!SetEndianness(enc, set.value, c.end) = Uni!Done(c)
<1> DEFINE set == Uni!SetEndianness(enc, c, e)
           d == [end |-> e, units |-> Uni!Swapped(c.units)]
<1>0. e \in Uni!Endianness /\ c.end \in Uni!Endianness /\ e # "undefined" /\ c.end # "undefined"
  BY DEF Uni!Order, Uni!Endianness
<1>1. CASE c.end = e
  BY <1>0, <1>1, OneIsSet DEF Uni!SetEndianness, Uni!Done
<1>2. CASE c.end # e
  <2>1. set = Uni!Done(d)
    BY <1>0, <1>2 DEF Uni!SetEndianness, Uni!Done
  <2>2. c.units \in Seq(Seq(Nat)) /\ c = [units |-> c.units, end |-> c.end]
    BY DEF UniChar
  <2>3. d \in UniChar /\ d.end = e /\ d.units = Uni!Swapped(c.units)
    BY <1>0, <2>2, SwappedTwice DEF UniChar
  <2>4. Uni!SetEndianness(enc, d, c.end)
          = Uni!Done([end |-> c.end, units |-> Uni!Swapped(Uni!Swapped(c.units))])
    BY <1>0, <1>2, <2>3 DEF Uni!SetEndianness
  <2>5. [end |-> c.end, units |-> Uni!Swapped(Uni!Swapped(c.units))] = c
    BY <2>2, SwappedTwice
  <2> HIDE DEF d
  <2> QED
    BY <2>1, <2>3, <2>4, <2>5 DEF Uni!Done
<1> QED
  BY <1>1, <1>2

\* What set_endianness does to a string: all characters get the order, or those
\* in front of the first that has none.
Stuck(s, e) == {k \in DOMAIN s : s[k].end = "undefined" /\ e # "undefined"}

SetUpTo(enc, s, e, m) ==
  [k \in DOMAIN s |-> IF k < m THEN Uni!SetEndianness(enc, s[k], e).value ELSE s[k]]

AllSet(enc, s, e) == [k \in DOMAIN s |-> Uni!SetEndianness(enc, s[k], e).value]

LEMMA StringIsSet ==
  ASSUME NEW enc, NEW s \in Seq(UniChar), NEW e \in Uni!Endianness
  PROVE  LET set == Uni!SetStringEndianness(enc, s, e)
         IN  /\ set.ok <=> Stuck(s, e) = {}
             /\ set = [ok |-> set.ok, value |-> set.value]
             /\ set.ok \in BOOLEAN
             /\ set.ok => /\ set.value = AllSet(enc, s, e)
                          /\ \A k \in DOMAIN s : Uni!SetEndianness(enc, s[k], e).ok
             /\ ~set.ok => \E m \in Stuck(s, e) :
                  /\ \A k \in 1 .. m - 1 : k \notin Stuck(s, e)
                  /\ set.value = SetUpTo(enc, s, e, m)
<1> DEFINE set == Uni!SetStringEndianness(enc, s, e)
           one(k) == Uni!SetEndianness(enc, s[k], e)
           stuck == {k \in DOMAIN s : s[k].end = "undefined" /\ e # "undefined"}
           bad == {k \in DOMAIN s : ~one(k).ok}
           stop == IF bad = {} THEN Len(s) + 1 ELSE Uni!Min(bad)
<1>1. DOMAIN s = 1 .. Len(s) /\ \A k \in DOMAIN s : s[k] \in UniChar
  OBVIOUS
<1>2. \A k \in DOMAIN s : one(k).ok <=> k \notin stuck
  <2> TAKE k \in DOMAIN s
  <2>1. s[k] \in UniChar
    BY <1>1
  <2>2. one(k).ok <=> s[k].end = e \/ s[k].end # "undefined"
    BY <2>1, OneIsSet
  <2> QED
    BY <2>2
<1>3. bad = stuck
  BY <1>2
<1>4. set = [ok |-> bad = {},
             value |-> [k \in DOMAIN s |-> IF k < stop THEN one(k).value ELSE s[k]]]
  BY DEF Uni!SetStringEndianness
<1>5. set.ok = (bad = {})
      /\ set.value = [k \in DOMAIN s |-> IF k < stop THEN one(k).value ELSE s[k]]
  <2> HIDE DEF bad, stop, one
  <2> QED
    BY <1>4
<1>6. CASE bad = {}
  <2>1. \A k \in DOMAIN s : k < stop
    BY <1>1, <1>6
  <2>2. set.value = [k \in DOMAIN s |-> one(k).value]
    <3> HIDE DEF bad, stop, one, set
    <3> QED
      BY <1>5, <2>1
  <2>3. \A k \in DOMAIN s : one(k).ok
    BY <1>2, <1>3, <1>6
  <2> HIDE DEF bad, stop
  <2> QED
    BY <1>3, <1>4, <1>5, <1>6, <2>2, <2>3 DEF AllSet, Stuck
<1>7. CASE bad # {}
  <2>1. bad \in SUBSET Nat
    BY <1>1
  <2>2. \E x \in bad : \A y \in bad : x <= y
    <3> HIDE DEF bad
    <3> QED
      BY <1>7, <2>1, LeastOne
  <2>3. stop \in bad /\ \A y \in bad : stop <= y
    <3> HIDE DEF bad
    <3> QED
      BY <1>7, <2>2 DEF Uni!Min
  <2>4. \A k \in 1 .. stop - 1 : k \notin bad
    <3> HIDE DEF bad, stop
    <3> QED
      BY <2>1, <2>3
  <2> HIDE DEF bad, stop
  <2> QED
    BY <1>3, <1>4, <1>5, <1>7, <2>3, <2>4 DEF SetUpTo, Stuck
<1> QED
  BY <1>6, <1>7

\* get_endianness, in terms of the characters.
LEMMA OrderOf ==
  ASSUME NEW s \in Seq(UniChar)
  PROVE  /\ s = <<>> => Uni!GetEndianness(s) = "undefined"
         /\ \A e \in Uni!Endianness : s # <<>> /\ (\A k \in DOMAIN s : s[k].end = e)
              => Uni!GetEndianness(s) = e
         /\ Uni!GetEndianness(s) # "undefined" =>
              /\ Uni!GetEndianness(s) \in Uni!Order
              /\ \A k \in DOMAIN s : s[k].end = Uni!GetEndianness(s)
<1>1. DOMAIN s = 1 .. Len(s) /\ Len(s) \in Nat /\ \A k \in DOMAIN s : s[k] \in UniChar
  OBVIOUS
<1>2. s # <<>> => 1 \in DOMAIN s
  BY <1>1
<1>3. \A e : Uni!VerifyEndianness(s, 0, Len(s), e) <=> \A k \in DOMAIN s : s[k].end = e
  BY <1>1 DEF Uni!VerifyEndianness
<1>4. \A k \in DOMAIN s : s[k].end \in Uni!Endianness
  BY <1>1 DEF UniChar
<1> QED
  BY <1>2, <1>3, <1>4 DEF Uni!GetEndianness, Uni!Endianness

\* An order that is given to a string is given to all of it or reported by none, for
\* any string and order: set_endianness and get_endianness of utf16_string and
\* utf32_string.
THEOREM OrdersAreSeen ==
  \A enc \in Uni!Encoding, s \in Seq(UniChar) \ {<<>>}, e \in Uni!Endianness :
    Uni!OrderIsSeen(enc, s, e)
<1> SUFFICES ASSUME NEW enc \in Uni!Encoding, NEW s \in Seq(UniChar), s # <<>>,
                    NEW e \in Uni!Endianness
             PROVE  Uni!OrderIsSeen(enc, s, e)
  OBVIOUS
<1> DEFINE set == Uni!SetStringEndianness(enc, s, e)
           one(k) == Uni!SetEndianness(enc, s[k], e)
           stuck == {k \in DOMAIN s : s[k].end = "undefined" /\ e # "undefined"}
           v == set.value
<1>1. /\ DOMAIN s = 1 .. Len(s) /\ Len(s) \in Nat \ {0} /\ 1 \in DOMAIN s
      /\ \A k \in DOMAIN s : s[k] \in UniChar /\ s[k].end \in Uni!Endianness
  <2>1. DOMAIN s = 1 .. Len(s) /\ Len(s) \in Nat \ {0} /\ \A k \in DOMAIN s : s[k] \in UniChar
    OBVIOUS
  <2> QED
    BY <2>1 DEF UniChar
<1>2. /\ set.ok <=> stuck = {}
      /\ set = [ok |-> set.ok, value |-> v] /\ set.ok \in BOOLEAN
      /\ set.ok => /\ v = [k \in DOMAIN s |-> one(k).value]
                   /\ \A k \in DOMAIN s : one(k).ok
      /\ ~set.ok => \E m \in stuck :
           /\ \A k \in 1 .. m - 1 : k \notin stuck
           /\ v = [k \in DOMAIN s |-> IF k < m THEN one(k).value ELSE s[k]]
  <2>1. /\ set.ok <=> Stuck(s, e) = {}
        /\ set = [ok |-> set.ok, value |-> v] /\ set.ok \in BOOLEAN
        /\ set.ok => /\ v = AllSet(enc, s, e)
                     /\ \A k \in DOMAIN s : one(k).ok
        /\ ~set.ok => \E m \in Stuck(s, e) :
             /\ \A k \in 1 .. m - 1 : k \notin Stuck(s, e)
             /\ v = SetUpTo(enc, s, e, m)
    BY StringIsSet
  <2>2. /\ Stuck(s, e) = stuck
        /\ AllSet(enc, s, e) = [k \in DOMAIN s |-> one(k).value]
        /\ \A m : SetUpTo(enc, s, e, m) = [k \in DOMAIN s |-> IF k < m THEN one(k).value ELSE s[k]]
    BY DEF Stuck, AllSet, SetUpTo
  <2> HIDE DEF stuck, set, v, one
  <2> QED
    BY <2>1, <2>2
<1>3. \A k \in DOMAIN s : one(k).ok => one(k).value.end = e /\ one(k) = Uni!Done(one(k).value)
  BY <1>1, OneIsSet
<1>4. set.ok <=> e = "undefined" \/ \A k \in DOMAIN s : s[k].end # "undefined"
  BY <1>2
<1>5. set.ok => /\ Uni!GetEndianness(v) = e
                /\ Len(v) = Len(s) /\ DOMAIN v = DOMAIN s /\ \A k \in DOMAIN s : v[k].end = e
  <2> SUFFICES ASSUME set.ok
               PROVE  /\ Uni!GetEndianness(v) = e
                      /\ Len(v) = Len(s) /\ DOMAIN v = DOMAIN s /\ \A k \in DOMAIN s : v[k].end = e
    OBVIOUS
  <2>1. v = [k \in 1 .. Len(s) |-> one(k).value]
    BY <1>1, <1>2
  <2>2. DOMAIN v = 1 .. Len(s) /\ \A k \in DOMAIN s : v[k].end = e
    <3> HIDE DEF v, one, set
    <3> QED
      BY <1>1, <1>2, <1>3, <2>1
  <2>3. v \in Seq({v[k] : k \in 1 .. Len(s)}) /\ Len(v) = Len(s)
    <3>1. v \in Seq({one(k).value : k \in 1 .. Len(s)})
      <4> HIDE DEF one
      <4> QED
        BY <1>1, <2>1
    <3> HIDE DEF v
    <3> QED
      BY <1>1, <2>1, <2>2, <3>1
  <2> HIDE DEF v
  <2>4. \A k \in 1 .. Len(v) : v[k].end = e
    BY <1>1, <2>2, <2>3
  <2>5. v # <<>> /\ v[1].end = e
    BY <1>1, <2>3, <2>4
  <2>6. Uni!VerifyEndianness(v, 0, Len(v), v[1].end)
    BY <1>1, <2>3, <2>4, <2>5 DEF Uni!VerifyEndianness
  <2> QED
    BY <1>1, <2>2, <2>3, <2>5, <2>6 DEF Uni!GetEndianness
<1>6. ~set.ok => Uni!GetEndianness(v) = "undefined"
  <2> SUFFICES ASSUME ~set.ok PROVE Uni!GetEndianness(v) = "undefined"
    OBVIOUS
  <2>1. PICK m \in stuck : v = [k \in DOMAIN s |-> IF k < m THEN one(k).value ELSE s[k]]
    BY <1>2
  <2>2. m \in 1 .. Len(s) /\ v[m].end = "undefined"
    <3> HIDE DEF v, one
    <3> QED
      BY <1>1, <2>1
  <2>3. Len(v) = Len(s)
    <3>1. DOMAIN v = 1 .. Len(s)
      <4> HIDE DEF v, one
      <4> QED
        BY <1>1, <2>1
    <3> HIDE DEF v
    <3> QED
      BY <1>1, <3>1
  <2> HIDE DEF v
  <2>4. CASE ~Uni!VerifyEndianness(v, 0, Len(v), v[1].end)
    BY <2>4 DEF Uni!GetEndianness
  <2>5. CASE Uni!VerifyEndianness(v, 0, Len(v), v[1].end)
    <3>1. v[m].end = v[1].end
      BY <1>1, <2>2, <2>3, <2>5 DEF Uni!VerifyEndianness
    <3> QED
      BY <2>2, <3>1 DEF Uni!GetEndianness
  <2> QED
    BY <2>4, <2>5
<1>7. ASSUME set.ok, e # "undefined"
      PROVE  /\ Uni!SetStringEndianness(enc, v, e) = set
             /\ Uni!GetEndianness(s) # "undefined" =>
                  Uni!SetStringEndianness(enc, v, Uni!GetEndianness(s)) = Uni!Done(s)
             /\ \A k \in DOMAIN s : Uni!SwapEndianness(enc, s[k]) =
                  Uni!SetEndianness(enc, v[k], IF s[k].end = "big" THEN "little" ELSE "big")
  <2>1. e \in Uni!Order /\ \A k \in DOMAIN s : s[k].end \in Uni!Order
    BY <1>1, <1>2, <1>7 DEF Uni!Order, Uni!Endianness
  <2>2. \A k \in DOMAIN s :
          /\ one(k).ok /\ one(k).value \in UniChar /\ one(k).value.end = e
          /\ Uni!SetEndianness(enc, one(k).value, s[k].end) = Uni!Done(s[k])
    BY <1>1, <2>1, SetBack
  <2>3. \A k \in DOMAIN s :
          /\ v[k] = one(k).value /\ v[k] \in UniChar /\ v[k].end = e
          /\ Uni!SetEndianness(enc, v[k], s[k].end) = Uni!Done(s[k])
    <3> HIDE DEF v, one
    <3> QED
      BY <1>2, <1>7, <2>2
  <2>4. v \in Seq(UniChar) /\ DOMAIN v = DOMAIN s
    <3>1. v = [k \in 1 .. Len(s) |-> v[k]]
      <4> HIDE DEF v, one
      <4> QED
        BY <1>1, <1>2, <1>7
    <3> HIDE DEF v, one
    <3> QED
      BY <1>1, <2>3, <3>1
  <2>5. \A o \in Uni!Order :
          /\ Uni!SetStringEndianness(enc, v, o).ok
          /\ Uni!SetStringEndianness(enc, v, o)
               = [ok |-> TRUE, value |-> [k \in DOMAIN s |-> Uni!SetEndianness(enc, v[k], o).value]]
    <3> TAKE o \in Uni!Order
    <3> DEFINE again == Uni!SetStringEndianness(enc, v, o)
    <3>1. o \in Uni!Endianness /\ e # "undefined"
      BY <1>7 DEF Uni!Order, Uni!Endianness
    <3>2. Stuck(v, o) = {}
      BY <1>7, <2>3, <2>4 DEF Stuck
    <3> HIDE DEF v
    <3>3. /\ again.ok /\ again.ok \in BOOLEAN
          /\ again = [ok |-> again.ok, value |-> again.value]
          /\ again.value = AllSet(enc, v, o)
      BY <2>4, <3>1, <3>2, StringIsSet
    <3> HIDE DEF again
    <3>4. again.ok = TRUE
      BY <3>3
    <3>5. again = [ok |-> TRUE, value |-> again.value]
      BY <3>3, <3>4
    <3> QED
      BY <2>4, <3>3, <3>5 DEF again, AllSet
  <2>6. Uni!SetStringEndianness(enc, v, e) = set
    <3>1. \A k \in DOMAIN s : Uni!SetEndianness(enc, v[k], e).value = v[k]
      <4> TAKE k \in DOMAIN s
      <4>1. v[k] \in UniChar /\ v[k].end = e
        BY <2>3
      <4> HIDE DEF v
      <4> QED
        BY <4>1 DEF Uni!SetEndianness, Uni!Done
    <3>2. [k \in DOMAIN s |-> Uni!SetEndianness(enc, v[k], e).value] = [k \in DOMAIN s |-> v[k]]
      <4> HIDE DEF v
      <4> QED
        BY <3>1
    <3>3. [k \in DOMAIN s |-> v[k]] = v
      <4> HIDE DEF v
      <4> QED
        BY <2>4
    <3>4. set = [ok |-> TRUE, value |-> v]
      BY <1>2, <1>7
    <3> HIDE DEF v, set
    <3> QED
      BY <2>1, <2>5, <3>2, <3>3, <3>4
  <2>7. ASSUME Uni!GetEndianness(s) # "undefined"
        PROVE  Uni!SetStringEndianness(enc, v, Uni!GetEndianness(s)) = Uni!Done(s)
    <3> DEFINE g == Uni!GetEndianness(s)
    <3>1. g \in Uni!Order /\ \A k \in DOMAIN s : s[k].end = g
      BY <2>7, OrderOf
    <3> HIDE DEF g
    <3>2. \A k \in DOMAIN s : Uni!SetEndianness(enc, v[k], g).value = s[k]
      <4> TAKE k \in DOMAIN s
      <4>1. Uni!SetEndianness(enc, v[k], s[k].end) = Uni!Done(s[k]) /\ s[k].end = g
        BY <2>3, <3>1
      <4> HIDE DEF v
      <4>2. Uni!SetEndianness(enc, v[k], g) = Uni!Done(s[k])
        BY <4>1
      <4>3. Uni!Done(s[k]).value = s[k]
        BY DEF Uni!Done
      <4> QED
        BY <4>2, <4>3
    <3>3. [k \in DOMAIN s |-> Uni!SetEndianness(enc, v[k], g).value] = s
      <4> HIDE DEF v
      <4> QED
        BY <1>1, <3>2
    <3>4. Uni!SetStringEndianness(enc, v, g) = Uni!Done(s)
      <4> HIDE DEF v
      <4> QED
        BY <2>5, <3>1, <3>3 DEF Uni!Done
    <3> QED
      BY <3>4 DEF g
  <2>8. \A k \in DOMAIN s : Uni!SwapEndianness(enc, s[k]) =
          Uni!SetEndianness(enc, v[k], IF s[k].end = "big" THEN "little" ELSE "big")
    <3> TAKE k \in DOMAIN s
    <3> DEFINE c == s[k]
               o == IF c.end = "big" THEN "little" ELSE "big"
    <3>1. c.end \in Uni!Order /\ o \in Uni!Order /\ c.end # o /\ c.end # "undefined" /\ o # "undefined"
      BY <2>1 DEF Uni!Order
    <3>2. Uni!SwapEndianness(enc, c) = Uni!SetEndianness(enc, c, o)
      BY <3>1 DEF Uni!SwapEndianness, Uni!Order
    <3>3. CASE e = c.end
      <4>1. v[k] = c
        <5>1. v[k] = one(k).value
          BY <2>3
        <5>2. one(k).value = c
          BY <3>3 DEF Uni!SetEndianness, Uni!Done
        <5> QED
          BY <5>1, <5>2
      <4> QED
        BY <3>2, <4>1
    <3>4. CASE e # c.end
      <4>1. e = o
        BY <2>1, <3>1, <3>4 DEF Uni!Order
      <4>2. Uni!SetEndianness(enc, c, e) = Uni!Done(v[k])
        BY <1>1, <1>3, <2>2, <2>3
      <4>3. Uni!SetEndianness(enc, v[k], e) = Uni!Done(v[k])
        <5>1. v[k].end = e
          BY <2>3
        <5> HIDE DEF v
        <5> QED
          BY <5>1 DEF Uni!SetEndianness
      <4> QED
        BY <3>2, <4>1, <4>2, <4>3
    <3> QED
      BY <3>3, <3>4
  <2> QED
    BY <2>6, <2>7, <2>8
<1>8. ASSUME e = "undefined", NEW k \in DOMAIN s, s[k].end # "undefined"
      PROVE  v[k] = Uni!NullChar(enc)
  <2>1. s[k] \in UniChar
    BY <1>1
  <2>2. one(k).value = Uni!NullChar(enc)
    BY <1>8 DEF Uni!SetEndianness, Uni!Done, Uni!NullChar
  <2>3. v = [j \in DOMAIN s |-> one(j).value]
    BY <1>2, <1>4, <1>8
  <2> HIDE DEF v, one
  <2> QED
    BY <2>2, <2>3
<1> HIDE DEF set
<1>9. set.ok => Uni!GetEndianness(v) = e
  BY <1>5
<1> QED
  BY <1>4, <1>6, <1>7, <1>8, <1>9 DEF Uni!OrderIsSeen, set

\* A bounded set of numbers: Max and Min of the helpers are its greatest and least.
LEMMA BoundsOfBlanks ==
  ASSUME NEW n \in Nat, NEW T \in SUBSET (0 .. n), T # {}
  PROVE  /\ Txt!Max(T) \in T /\ \A y \in T : y <= Txt!Max(T)
         /\ Txt!Min(T) \in T /\ \A y \in T : Txt!Min(T) <= y
<1>1. /\ T \in SUBSET Nat
      /\ \E x \in T : \A y \in T : x <= y
      /\ \E x \in T : \A y \in T : x >= y
  <2>1. T \in SUBSET Nat
    OBVIOUS
  <2> QED
    BY <2>1, LeastOne, GreatestOne
<1>2. Txt!Max(T) \in T /\ \A y \in T : Txt!Max(T) >= y
  BY <1>1 DEF Txt!Max
<1>3. Txt!Min(T) \in T /\ \A y \in T : Txt!Min(T) <= y
  BY <1>1 DEF Txt!Min
<1> QED
  BY <1>1, <1>2, <1>3

\* In a line of any length and for any column: what format_error underlines is the
\* whole word the column is in, and it fails where there is no word or no blank in
\* front of it.
THEOREM WordsAreWhole ==
  \A context \in Seq(STRING), col \in Nat : Txt!WordIsWhole(context, col)
<1> SUFFICES ASSUME NEW context \in Seq(STRING), NEW col \in Nat
             PROVE  Txt!WordIsWhole(context, col)
  OBVIOUS
<1> DEFINE size == Len(context)
           inside(i) == i \in 0 .. size - 1
           blank(i) == inside(i) /\ context[i + 1] \in Txt!Blank
           blanks == {i \in 0 .. size - 1 : context[i + 1] \in Txt!Blank}
           before == {i \in blanks : i <= col - 1}
           behind == {i \in blanks : i >= col - 1}
           start == Txt!Max(before) + 1
           end == IF behind = {} THEN size ELSE Txt!Min(behind)
           word == Txt!UnderlinedWord(context, col)
           refused == col = 0 \/ col > size \/ before = {} \/ end < start
<1>1. size \in Nat
  OBVIOUS
<1>2. word = IF refused THEN Txt!Fails ELSE Txt!Fine([start |-> start, end |-> end])
  BY DEF Txt!UnderlinedWord
<1>3. /\ word.ok <=> ~refused
      /\ ~refused => word.value.start = start /\ word.value.end = end
  <2> HIDE DEF refused, start, end
  <2> QED
    BY <1>2 DEF Txt!Fails, Txt!Fine
<1>4. before \in SUBSET (0 .. size) /\ behind \in SUBSET (0 .. size)
  BY <1>1
<1>5. before # {} => /\ start - 1 \in before
                     /\ \A y \in before : y <= start - 1
  <2>1. ASSUME before # {} PROVE Txt!Max(before) \in before /\ \A y \in before : y <= Txt!Max(before)
    <3> HIDE DEF before
    <3> QED
      BY <1>1, <1>4, <2>1, BoundsOfBlanks
  <2>2. ASSUME before # {} PROVE start - 1 = Txt!Max(before)
    <3>1. Txt!Max(before) \in Int
      BY <1>4, <2>1, <2>2
    <3> HIDE DEF before
    <3> QED
      BY <3>1
  <2> HIDE DEF before, start
  <2> QED
    BY <2>1, <2>2
<1>6. behind # {} => end \in behind /\ \A y \in behind : end <= y
  <2> HIDE DEF behind
  <2> QED
    BY <1>1, <1>4, BoundsOfBlanks
<1>7. behind = {} => end = size
  OBVIOUS
<1>8. /\ \A i : i \in before <=> blank(i) /\ i <= col - 1
      /\ \A i : i \in behind <=> blank(i) /\ i >= col - 1
      /\ \A i : blank(i) => i \in 0 .. size - 1
  OBVIOUS
<1> HIDE DEF start, end, word, before, behind, blank
<1>9. before # {} => /\ start \in Int /\ start - 1 \in 0 .. size - 1 /\ start - 1 <= col - 1
                     /\ blank(start - 1)
                     /\ \A i : blank(i) /\ i <= col - 1 => i <= start - 1
  <2> SUFFICES ASSUME before # {}
               PROVE  /\ start \in Int /\ start - 1 \in 0 .. size - 1 /\ start - 1 <= col - 1
                      /\ blank(start - 1)
                      /\ \A i : blank(i) /\ i <= col - 1 => i <= start - 1
    OBVIOUS
  <2>1. start - 1 \in 0 .. size - 1 /\ start - 1 <= col - 1 /\ blank(start - 1)
    BY <1>5, <1>8
  <2>2. Txt!Max(before) \in Int
    <3>1. Txt!Max(before) \in before
      BY <1>1, <1>4, BoundsOfBlanks
    <3>2. \A i \in 0 .. size : i \in Int
      BY <1>1
    <3> DEFINE m == Txt!Max(before)
    <3> HIDE DEF m
    <3>3. m \in before
      BY <3>1 DEF m
    <3>4. m \in Int
      BY <1>4, <3>2, <3>3, Zenon
    <3> QED
      BY <3>4 DEF m
  <2>3. start \in Int
    BY <2>2 DEF start
  <2>4. \A i : blank(i) /\ i <= col - 1 => i <= start - 1
    BY <1>5, <1>8
  <2> QED
    BY <2>1, <2>3, <2>4
<1>10. /\ end \in Int /\ end <= size
       /\ (blank(end) /\ end >= col - 1) \/ end = size
       /\ \A i : blank(i) /\ i >= col - 1 => end <= i
  <2>1. CASE behind = {}
    <3>1. \A i : ~(blank(i) /\ i >= col - 1)
      BY <1>8, <2>1
    <3> QED
      BY <1>1, <1>7, <2>1, <3>1
  <2>2. CASE behind # {}
    <3>1. blank(end) /\ end >= col - 1 /\ end \in 0 .. size - 1
      BY <1>6, <1>8, <2>2
    <3>2. \A i : blank(i) /\ i >= col - 1 => end <= i
      BY <1>6, <1>8, <2>2
    <3> QED
      BY <1>1, <3>1, <3>2
  <2> QED
    BY <2>1, <2>2
<1>11. before # {} <=> \E i \in 0 .. col - 1 : blank(i)
  <2>1. ASSUME before # {} PROVE \E i \in 0 .. col - 1 : blank(i)
    <3>1. start - 1 \in 0 .. col - 1 /\ blank(start - 1)
      BY <1>1, <1>9, <2>1
    <3> QED
      BY <3>1
  <2>2. ASSUME NEW i \in 0 .. col - 1, blank(i) PROVE before # {}
    <3>1. i <= col - 1
      OBVIOUS
    <3> QED
      BY <1>8, <2>2, <3>1
  <2> QED
    BY <2>1, <2>2
<1>12. ~refused <=> inside(col - 1) /\ ~blank(col - 1) /\ \E i \in 0 .. col - 1 : blank(i)
  <2>1. CASE col = 0 \/ col > size
    BY <1>1, <2>1
  <2>2. CASE col \in 1 .. size
    <3>1. inside(col - 1)
      BY <1>1, <2>2
    <3>2. ASSUME blank(col - 1) PROVE refused
      <4>1. col - 1 \in before
        BY <1>8, <3>2
      <4>2. start \in Int /\ col - 1 <= start - 1 /\ end \in Int /\ end <= col - 1
        BY <1>9, <1>10, <3>2, <4>1
      <4> QED
        BY <4>2
    <3>3. ASSUME ~blank(col - 1), before # {} PROVE ~refused
      <4>1. start \in Int /\ start - 1 <= col - 1 /\ start - 1 # col - 1
        BY <1>9, <3>3
      <4>2. end \in Int /\ end >= col
        <5>1. CASE blank(end) /\ end >= col - 1
          BY <1>10, <3>3, <5>1
        <5>2. CASE end = size
          BY <1>10, <2>2, <5>2
        <5> QED
          BY <1>10, <5>1, <5>2
      <4>3. ~(end < start)
        BY <4>1, <4>2
      <4> QED
        BY <2>2, <3>3, <4>3
    <3> QED
      BY <1>11, <3>1, <3>2, <3>3
  <2> QED
    BY <1>1, <2>1, <2>2
<1>13. ASSUME ~refused
       PROVE  /\ start <= col - 1 /\ col - 1 < end
              /\ \A i \in start .. end - 1 : inside(i) /\ ~blank(i)
              /\ blank(start - 1) /\ (blank(end) \/ end = size)
  <2>1. inside(col - 1) /\ ~blank(col - 1) /\ before # {}
    BY <1>11, <1>12, <1>13
  <2>2. col \in 1 .. size
    BY <1>1, <2>1
  <2>3. start \in Int /\ start - 1 < col - 1 /\ start - 1 \in 0 .. size - 1 /\ blank(start - 1)
    BY <1>9, <2>1
  <2>4. end >= col
    <3>1. CASE blank(end) /\ end >= col - 1
      BY <1>10, <2>1, <3>1
    <3>2. CASE end = size
      BY <1>10, <2>2, <3>2
    <3> QED
      BY <1>10, <3>1, <3>2
  <2>5. ASSUME NEW i \in start .. end - 1 PROVE inside(i) /\ ~blank(i)
    <3>1. i \in Int /\ start <= i /\ i <= end - 1 /\ inside(i)
      BY <1>1, <1>10, <2>3
    <3>2. CASE i <= col - 1
      BY <1>9, <2>1, <2>3, <3>1, <3>2
    <3>3. CASE i >= col - 1
      BY <1>10, <3>1, <3>3
    <3> QED
      BY <3>1, <3>2, <3>3
  <2> QED
    BY <1>10, <2>2, <2>3, <2>4, <2>5
<1> HIDE DEF refused
<1> QED
  BY <1>3, <1>12, <1>13 DEF Txt!WordIsWhole, word, blank

\* The five comparisons of PragmaLocCompare agree for any two places and any flags.
THEOREM PlacesAlwaysAgree ==
  \A l, r \in Int \X Int, flags \in SUBSET {"START", "END"} : Txt!PlacesAgree(l, r, flags)
<1> SUFFICES ASSUME NEW l \in Int \X Int, NEW r \in Int \X Int,
                    NEW flags \in SUBSET {"START", "END"}
             PROVE  Txt!PlacesAgree(l, r, flags)
  OBVIOUS
<1> DEFINE a == l[1] - r[1]
           b == l[2] - r[2]
<1>1. /\ l = <<l[1], l[2]>> /\ r = <<r[1], r[2]>>
      /\ l[1] \in Int /\ l[2] \in Int /\ r[1] \in Int /\ r[2] \in Int
  OBVIOUS
<1>2. (l = r) <=> l[1] = r[1] /\ l[2] = r[2]
  BY <1>1
<1>3. a * b < 0 <=> (a < 0 /\ b > 0) \/ (a > 0 /\ b < 0)
  <2>1. a \in Int /\ b \in Int
    BY <1>1
  <2> HIDE DEF a, b
  <2>2. a = 0 \/ b = 0 => a * b = 0
    BY <2>1
  <2>3. a < 0 /\ b < 0 => a * b > 0
    BY <2>1, ProductSign
  <2>4. a > 0 /\ b > 0 => ~(a * b < 0)
    BY <2>1, ProductSign
  <2>5. a < 0 /\ b > 0 => a * b < 0
    <3>1. a < 0 /\ b > 0 => (-a) * b > 0 /\ (-a) * b = -(a * b)
      BY <2>1, SMT
    <3> QED
      BY <2>1, <3>1, SMT
  <2>6. a > 0 /\ b < 0 => a * b < 0
    <3>1. a > 0 /\ b < 0 => a * (-b) > 0 /\ a * (-b) = -(a * b)
      BY <2>1, SMT
    <3> QED
      BY <2>1, <3>1, SMT
  <2> QED
    BY <2>1, <2>2, <2>3, <2>4, <2>5, <2>6
<1>4. /\ a < 0 <=> l[1] < r[1]
      /\ a > 0 <=> l[1] > r[1]
      /\ b < 0 <=> l[2] < r[2]
      /\ b > 0 <=> l[2] > r[2]
  BY <1>1
<1>5. (l[1] - r[1]) * (l[2] - r[2]) < 0
        <=> (l[1] < r[1] /\ l[2] > r[2]) \/ (l[1] > r[1] /\ l[2] < r[2])
  BY <1>3, <1>4
<1> HIDE DEF a, b
<1> DEFINE x1 == l[1]  x2 == l[2]  y1 == r[1]  y2 == r[2]
           lt == Txt!LocLt(l, r, flags)
           le == Txt!LocLe(l, r, flags)
           ge == Txt!LocGe(l, r, flags)
<1>6. lt => le /\ ~ge
  BY <1>1 DEF Txt!LocLt, Txt!LocLe, Txt!LocGe
<1>7. lt = Txt!LocGt(r, l, flags) /\ le = Txt!LocGe(r, l, flags)
  BY <1>1 DEF Txt!LocLt, Txt!LocLe, Txt!LocGe, Txt!LocGt
<1>8. Txt!LocEq(l, r, flags) <=> le /\ ge
  BY <1>1 DEF Txt!LocEq, Txt!LocLe, Txt!LocGe
<1>9. ~(le \/ ge) <=> flags = {} \/ (l[1] - r[1]) * (l[2] - r[2]) < 0
  <2> DEFINE crosses == (l[1] - r[1]) * (l[2] - r[2]) < 0
  <2>1. crosses <=> (l[1] < r[1] /\ l[2] > r[2]) \/ (l[1] > r[1] /\ l[2] < r[2])
    BY <1>5
  <2>2. le <=> flags # {} /\ l[1] <= r[1] /\ l[2] <= r[2]
    BY DEF Txt!LocLe
  <2>3. ge <=> flags # {} /\ l[1] >= r[1] /\ l[2] >= r[2]
    BY DEF Txt!LocGe
  <2> HIDE DEF crosses, le, ge
  <2>4. ~((l[1] <= r[1] /\ l[2] <= r[2]) \/ (l[1] >= r[1] /\ l[2] >= r[2])) <=> crosses
    BY <1>1, <2>1
  <2>5. ~(le \/ ge) <=> flags = {} \/ crosses
    BY <2>2, <2>3, <2>4, Zenon
  <2> QED
    BY <2>5 DEF crosses
<1>10. flags # {} => Txt!LocEq(l, r, flags) = (l = r)
  BY <1>2 DEF Txt!LocEq
<1> HIDE DEF lt, le, ge
<1> QED
  BY <1>6, <1>7, <1>8, <1>9, <1>10 DEF Txt!PlacesAgree, lt, le, ge
=============================================================================
