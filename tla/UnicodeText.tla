----------------------------- MODULE UnicodeText -----------------------------
(***************************************************************************)
(* The characters of the unistreams library, the traits of its strings,    *)
(* the walks over encoded text and the conversions between the strings     *)
(* (common/unistreams).  All of it is data: the module has no state.       *)
(*                                                                         *)
(* A code unit is the sequence of its bytes, the highest first; memory     *)
(* holds the bytes of a unit in the opposite order, as on the machines the *)
(* program is built for.  std::byteswap is Reverse.  A character is a      *)
(* record [units, end]: its code units and its endianness; one of UTF-8    *)
(* has no endianness and keeps "undefined".  An encoding is the number of  *)
(* bits of its units.                                                      *)
(*                                                                         *)
(* What can throw or abort is a record [ok, value].                        *)
(***************************************************************************)
EXTENDS Integers, Sequences, FiniteSets, SequencesExt

Encoding == {8, 16, 32}
Order == {"big", "little"}
Endianness == Order \cup {"undefined"}

Done(value) == [ok |-> TRUE, value |-> value]
Throws == [ok |-> FALSE, value |-> <<>>]

MaxCodePoint == 1114111     \* 0x10FFFF

Width(enc) == enc \div 8

\* The code unit 0.
ZeroUnit(enc) == [k \in 1 .. Width(enc) |-> 0]

\* The bytes of units in memory.
Memory(units) == FlattenSeq([k \in DOMAIN units |-> Reverse(units[k])])

Swapped(units) == [k \in DOMAIN units |-> Reverse(units[k])]

----------------------------------------------------------------------------
(* Characters.                                                             *)

\* CharT(), and the characters a vector of a given size is filled with: value
\* and endianness are zero, and zero is undefined.
NullChar(enc) == [units |-> <<ZeroUnit(enc)>>, end |-> "undefined"]

\* operator=(std::initializer_list): a list of a length no character has is
\* taken for the null character, by utf32_char it is refused.
AssignUtf8(c, list) ==
  Done([c EXCEPT !.units = IF Len(list) \in 1 .. 4 THEN list ELSE <<ZeroUnit(8)>>])
AssignUtf16(c, list) ==
  IF c.end = "undefined" THEN Throws
  ELSE Done([c EXCEPT !.units = IF Len(list) \in 1 .. 2 THEN list ELSE <<ZeroUnit(16)>>])
AssignUtf32(c, list) ==
  IF Len(list) # 1 THEN Throws ELSE Done([c EXCEPT !.units = list])

\* utf16_char::set_endianness, utf32_char::set_endianness.
SetEndianness(enc, c, e) ==
  IF c.end = e THEN Done(c)
  ELSE IF c.end = "undefined" THEN Throws
  ELSE Done([end |-> e, units |-> IF e = "undefined" THEN <<ZeroUnit(enc)>>
                                  ELSE Swapped(c.units)])

SwapEndianness(enc, c) ==
  IF c.end = "undefined" THEN Throws
  ELSE SetEndianness(enc, c, IF c.end = "little" THEN "big" ELSE "little")

----------------------------------------------------------------------------
(* Walking over encoded text: mem is what lies between begin and end, a    *)
(* position an offset into it; beyond is the byte behind the end, which    *)
(* find_next_u8 reads.                                                     *)

Nowhere == -1

At(mem, beyond, p) == IF p < Len(mem) THEN mem[p + 1] ELSE beyond

Continues(byte) == byte \div 64 = 2

NextU8(mem, beyond, p) ==
  LET heads == {q \in p + 1 .. Len(mem) : ~Continues(At(mem, beyond, q))}
  IN  IF heads = {} THEN Nowhere ELSE Min(heads)

PrevU8(mem, p) ==
  LET heads == {q \in 0 .. p - 1 : ~Continues(mem[q + 1])}
  IN  IF heads = {} THEN Nowhere ELSE Max(heads)

IsHighSurrogate(unit) == 216 <= unit[1] /\ unit[1] <= 219
IsLowSurrogate(unit) == 220 <= unit[1] /\ unit[1] <= 223

\* The unit at position p of a text in the given order.
Unit16(mem, order, p) ==
  IF order = "big" THEN <<mem[p + 1], mem[p + 2]>> ELSE <<mem[p + 2], mem[p + 1]>>

\* find_next_u16be and find_next_u16le.
NextU16(mem, order, p) ==
  IF p + 2 > Len(mem) THEN Nowhere
  ELSE IF ~IsHighSurrogate(Unit16(mem, order, p)) THEN p + 2
  ELSE IF p + 4 > Len(mem) THEN Nowhere
  ELSE IF IsLowSurrogate(Unit16(mem, order, p + 2)) THEN p + 4 ELSE Nowhere

\* find_prev_u16be and find_prev_u16le.
PrevU16(mem, order, p) ==
  IF p < 2 THEN Nowhere
  ELSE IF ~IsLowSurrogate(Unit16(mem, order, p - 2)) THEN p - 2
  ELSE IF p < 4 THEN Nowhere
  ELSE IF IsHighSurrogate(Unit16(mem, order, p - 4)) THEN p - 4 ELSE Nowhere

NextU32(mem, p) == IF p + 4 > Len(mem) THEN Nowhere ELSE p + 4
PrevU32(p) == IF p < 4 THEN Nowhere ELSE p - 4

\* file_base::find_next and find_prev: an encoding without order has no
\* neighbours to offer.
FindNext(enc, order, mem, beyond, p) ==
  IF p = Len(mem) THEN Nowhere
  ELSE CASE enc = 8 -> NextU8(mem, beyond, p)
         [] enc # 8 /\ order = "undefined" -> Nowhere
         [] enc = 16 /\ order # "undefined" -> NextU16(mem, order, p)
         [] enc = 32 /\ order # "undefined" -> NextU32(mem, p)

FindPrev(enc, order, mem, p) ==
  IF p = 0 THEN Nowhere
  ELSE CASE enc = 8 -> PrevU8(mem, p)
         [] enc # 8 /\ order = "undefined" -> Nowhere
         [] enc = 16 /\ order # "undefined" -> PrevU16(mem, order, p)
         [] enc = 32 /\ order # "undefined" -> PrevU32(p)

\* parse_code_units, run to its end: a character is what lies between two
\* positions of the walk, when that is at most four bytes.
ParseUnits(enc, units, order, beyond) ==
  LET mem == Memory(units)
      from[p \in 0 .. Len(mem)] ==
        IF p = Len(mem) THEN Done(<<>>)
        ELSE LET q == FindNext(enc, order, mem, beyond, p)
                 behind == from[q]
                 char == [units |-> SubSeq(units, 1 + p \div Width(enc), q \div Width(enc)),
                          end |-> IF enc = 8 THEN "undefined" ELSE order]
             IN  IF q = Nowhere \/ q - p > 4 THEN Throws
                 ELSE IF ~behind.ok THEN Throws
                 ELSE Done(<<char>> \o behind.value)
  IN  IF enc # 8 /\ order = "undefined" THEN Throws ELSE from[0]

----------------------------------------------------------------------------
(* Code points.                                                            *)

IsSurrogate(cp) == 55296 <= cp /\ cp <= 57343

\* The bits of cp above the lowest n, and its lowest n bits.
High(cp, n) == cp \div 2^n
Low(cp, n) == cp % 2^n

Number(unit) == FoldLeft(LAMBDA n, b : 256 * n + b, 0, unit)
AsUnit(enc, n) == [k \in 1 .. Width(enc) |-> Low(High(n, 8 * (Width(enc) - k)), 8)]

\* The units a UTF-8 character counts: those up to the first that is missing
\* or zero.
Present(c) ==
  LET gaps == {k \in 2 .. Len(c.units) : c.units[k] = ZeroUnit(8)}
  IN  IF gaps = {} THEN Len(c.units) ELSE Min(gaps) - 1

\* to_code_point(const utf8_char&).
FromUtf8(c) ==
  LET n == Present(c)
      lead == IF n = 1 THEN Low(c.units[1][1], 7) ELSE Low(c.units[1][1], 7 - n)
  IN  FoldLeft(LAMBDA cp, unit : 64 * cp + Low(unit[1], 6), lead, SubSeq(c.units, 2, n))

\* to_code_point(const utf16_char&): a character of big order is read as it is.
FromUtf16(c) ==
  LET big == SetEndianness(16, c, "big")
      u == big.value.units
  IN  IF ~big.ok THEN Throws
      ELSE IF ~IsHighSurrogate(u[1])
      THEN IF Len(u) = 1 THEN Done(Number(u[1])) ELSE Throws
      ELSE IF Len(u) = 2 /\ IsLowSurrogate(u[2])
      THEN Done(65536 + 1024 * Low(Number(u[1]), 10) + Low(Number(u[2]), 10))
      ELSE Throws

\* to_code_point: of a utf32_char it is the unit, whatever its order.
ToCodePoint(enc, c) ==
  CASE enc = 8 -> Done(FromUtf8(c))
    [] enc = 16 -> FromUtf16(c)
    [] enc = 32 -> Done(Number(c.units[1]))

Utf8Units(cp) ==
  LET tail(n) == [k \in 1 .. n |-> <<128 + Low(High(cp, 6 * (n - k)), 6)>>]
  IN  IF cp <= 127 THEN <<<<cp>>>>
      ELSE IF cp <= 2047 THEN <<<<192 + High(cp, 6)>>>> \o tail(1)
      ELSE IF cp <= 65535 THEN <<<<224 + High(cp, 12)>>>> \o tail(2)
      ELSE <<<<240 + High(cp, 18)>>>> \o tail(3)

\* A faulty variant: 0x10000 is not taken off.
Utf16UnitsPlain(cp) ==
  IF cp <= 65535 THEN <<AsUnit(16, cp)>>
  ELSE <<AsUnit(16, 55296 + Low(High(cp, 10), 10)), AsUnit(16, 56320 + Low(cp, 10))>>

Utf16Units(cp) ==
  IF cp <= 65535 THEN <<AsUnit(16, cp)>>
  ELSE <<AsUnit(16, 55296 + High(cp - 65536, 10)), AsUnit(16, 56320 + Low(cp, 10))>>

\* from_code_point: the order chosen is not written into the character.
FromCodePoint(enc, cp, order) ==
  IF cp > MaxCodePoint \/ IsSurrogate(cp) THEN Throws
  ELSE IF cp = 0 THEN Done(NullChar(enc))
  ELSE IF enc # 8 /\ order = "undefined" THEN Throws
  ELSE LET units == CASE enc = 8 -> Utf8Units(cp)
                      [] enc = 16 -> Utf16Units(cp)
                      [] enc = 32 -> <<AsUnit(32, cp)>>
       IN  Done([units |-> IF enc # 8 /\ order = "little" THEN Swapped(units) ELSE units,
                 end |-> "undefined"])

----------------------------------------------------------------------------
(* char_traits of the three kinds of character.                            *)

IsNull(c) == Len(c.units) = 1 /\ \A k \in DOMAIN c.units[1] : c.units[1][k] = 0

\* to_base_char: a unit 0 ends its character, and one more ends the result.
ToBase(enc, chars) ==
  LET kept(c) == LET zeros == {k \in 2 .. Len(c.units) : c.units[k] = ZeroUnit(enc)}
                 IN  SubSeq(c.units, 1, IF zeros = {} THEN Len(c.units) ELSE Min(zeros) - 1)
  IN  FlattenSeq([k \in DOMAIN chars |-> kept(chars[k])]) \o <<ZeroUnit(enc)>>

\* from_base_char: the result starts as a vector of as many null characters as
\* there are units, to which the characters and one more null are appended.
FromBase(enc, units, order, beyond) ==
  LET parsed == ParseUnits(enc, units, order, beyond)
      nulls == [k \in DOMAIN units |-> NullChar(enc)]
  IN  IF parsed.ok THEN Done(nulls \o parsed.value \o <<NullChar(enc)>>) ELSE Throws

\* eq: of UTF-16 characters two nulls are equal whatever their order, of
\* UTF-32 characters only the units count.
EqUtf8(c, d) == c.units = d.units
EqUtf16(c, d) == IF IsNull(c) \/ IsNull(d) THEN IsNull(c) /\ IsNull(d) ELSE c = d
EqUtf32(c, d) == c.units[1] = d.units[1]
Eq(enc, c, d) ==
  CASE enc = 8 -> EqUtf8(c, d) [] enc = 16 -> EqUtf16(c, d) [] enc = 32 -> EqUtf32(c, d)

\* The order of unsigned numbers, on their bytes.
BytesLess(a, b) ==
  \E k \in DOMAIN a : a[k] < b[k] /\ \A l \in 1 .. k - 1 : a[l] = b[l]

\* lt: the code points of the two, which of UTF-32 characters are the units.
Lt(enc, c, d) ==
  IF enc = 32 THEN BytesLess(c.units[1], d.units[1])
  ELSE ToCodePoint(enc, c).value < ToCodePoint(enc, d).value

\* compare: the sign of the first difference.
CompareChars(enc, s, t, n) ==
  LET differ == {k \in 1 .. n : Lt(enc, s[k], t[k]) \/ Lt(enc, t[k], s[k])}
  IN  IF differ = {} THEN 0
      ELSE IF Lt(enc, s[Min(differ)], t[Min(differ)]) THEN -1 ELSE 1

\* length: the characters before the first null.
LengthOf(s) == Min({k \in DOMAIN s : IsNull(s[k])}) - 1

\* find: the place of the first character equal to a, or nowhere.
FindChar(enc, s, n, a) ==
  LET hits == {k \in 1 .. n : Eq(enc, s[k], a)}
  IN  IF hits = {} THEN Nowhere ELSE Min(hits)

\* char_traits_move within one array: forwards, unless the target starts
\* inside the source.
MoveWithin(array, to, from, n) ==
  LET overlap == \E i \in 0 .. n - 2 : to + i = from + n - 1
      one(a, k) == LET i == IF overlap THEN n - k ELSE k - 1
                   IN  [a EXCEPT ![to + i] = a[from + i]]
  IN  IF n = 0 \/ to = from THEN array ELSE FoldLeft(one, array, [k \in 1 .. n |-> k])

\* assign(s, n, a).
AssignN(array, n, a) == [k \in DOMAIN array |-> IF k <= n THEN a ELSE array[k]]

\* int_type of UTF-16 and UTF-32 characters: <<code point, order>>; eof is
\* <<-1, "undefined">>.
Eof == <<-1, "undefined">>
EqInt(c, d) == IF c[1] = 0 \/ d[1] = 0 THEN c[1] = 0 /\ d[1] = 0 ELSE c = d
NotEof(c) == IF EqInt(c, Eof) THEN <<0, "undefined">> ELSE c

ToIntType(enc, c) ==
  LET cp == ToCodePoint(enc, c) IN IF cp.ok THEN Done(<<cp.value, c.end>>) ELSE Throws

ToCharType(enc, c) ==
  IF c[1] < 0 \/ c[1] > MaxCodePoint \/ (enc # 8 /\ c[2] = "undefined")
  THEN Done(NullChar(enc)) ELSE FromCodePoint(enc, c[1], c[2])

----------------------------------------------------------------------------
(* Strings with an endianness.                                             *)

\* verify_endianness(start, end, endian), the characters counted from 0.
VerifyEndianness(s, start, end, e) == \A k \in start + 1 .. end : s[k].end = e

\* get_endianness.
GetEndianness(s) ==
  IF s = <<>> \/ ~VerifyEndianness(s, 0, Len(s), s[1].end) THEN "undefined" ELSE s[1].end

\* set_endianness: character by character, so that a throw leaves the string
\* changed up to the character that cannot be changed.
SetStringEndianness(enc, s, e) ==
  LET stuck == {k \in DOMAIN s : ~SetEndianness(enc, s[k], e).ok}
      stop == IF stuck = {} THEN Len(s) + 1 ELSE Min(stuck)
  IN  [ok |-> stuck = {},
       value |-> [k \in DOMAIN s |-> IF k < stop THEN SetEndianness(enc, s[k], e).value
                                     ELSE s[k]]]

----------------------------------------------------------------------------
(* What the walks and the orders promise, for any memory and any string.   *)

\* Where a character, or what has to do for one, begins.
BeginsAt(enc, order, mem, p) ==
  CASE enc = 8 -> ~Continues(mem[p + 1])
    [] enc = 16 -> /\ p % 2 = 0 /\ p + 1 < Len(mem)
                   /\ ~IsLowSurrogate(Unit16(mem, order, p))
    [] enc = 32 -> p % 4 = 0

\* A step forward from the beginning of a character is undone by a step back,
\* also in text that is not well formed (find_next and find_prev).
StepsAreUndone(enc, order, mem, beyond) ==
  \A p \in 0 .. Len(mem) - 1 : BeginsAt(enc, order, mem, p) =>
    LET q == FindNext(enc, order, mem, beyond, p)
    IN  q # Nowhere => FindPrev(enc, order, mem, q) = p

\* set_endianness of a string either gives every character the order, which the
\* string then reports, keeping what the characters mean, or is refused by one
\* that has none; then those before it are changed already, which the string
\* reports by having no order.  Removing the order removes the text.
OrderIsSeen(enc, s, e) ==
  LET set == SetStringEndianness(enc, s, e)
  IN  /\ set.ok <=> e = "undefined" \/ \A k \in DOMAIN s : s[k].end # "undefined"
      /\ set.ok => GetEndianness(set.value) = e
      /\ ~set.ok => GetEndianness(set.value) = "undefined"
      /\ set.ok /\ e # "undefined" =>
           /\ SetStringEndianness(enc, set.value, e) = set
           /\ GetEndianness(s) # "undefined" =>
                SetStringEndianness(enc, set.value, GetEndianness(s)) = Done(s)
           /\ \A k \in DOMAIN s : SwapEndianness(enc, s[k]) =
                SetEndianness(enc, set.value[k], IF s[k].end = "big" THEN "little" ELSE "big")
      /\ e = "undefined" => \A k \in DOMAIN s :
           s[k].end # "undefined" => set.value[k] = NullChar(enc)

=============================================================================
