--------------------------- MODULE UnicodeStrings ---------------------------
(***************************************************************************)
(* The conversions between the strings of the unistreams library, and how  *)
(* a file's encoding is chosen (unistreams.hpp, string_conversions/*.ipp).  *)
(*                                                                         *)
(* A string of char, char8_t, char16_t, char32_t or wchar_t is a sequence  *)
(* of code units; one of utf8_char, utf16_char or utf32_char a sequence of *)
(* characters, which carry their order with them.  Every converter is one  *)
(* of four steps around a function of simdutf: how the source becomes      *)
(* units, how those are decoded, how the target is encoded, and what the   *)
(* encoded units are put into.                                             *)
(***************************************************************************)
EXTENDS UnicodeText

----------------------------------------------------------------------------
(* simdutf: strict decoding and encoding.  Its utf16be functions read and  *)
(* write units whose bytes lie in memory highest first, that is swapped    *)
(* ones; its UTF-32 functions know the machine's order only.               *)

\* How many units a character has that begins with u, 0 if none does; what of
\* its code point u holds; and what a unit behind u adds to that.
SizeFrom(enc, u) ==
  CASE enc = 8 -> IF u[1] < 128 THEN 1 ELSE IF u[1] < 192 THEN 0 ELSE IF u[1] < 224 THEN 2
                  ELSE IF u[1] < 240 THEN 3 ELSE IF u[1] < 248 THEN 4 ELSE 0
    [] enc = 16 -> IF IsHighSurrogate(u) THEN 2 ELSE IF IsLowSurrogate(u) THEN 0 ELSE 1
    [] enc = 32 -> IF u[1] = 0 /\ u[2] <= 16 THEN 1 ELSE 0
FirstBits(enc, u, size) ==
  CASE enc = 8 -> Low(u[1], IF size = 1 THEN 7 ELSE 7 - size)
    [] enc = 16 -> IF size = 1 THEN Number(u) ELSE Low(Number(u), 10)
    [] enc = 32 -> Number(u)
GoesOn(enc, u) == IF enc = 8 THEN u[1] \in 128 .. 191 ELSE IsLowSurrogate(u)
MoreBits(enc, cp, u) ==
  IF enc = 8 THEN 64 * cp + Low(u[1], 6) ELSE 65536 + 1024 * cp + Low(Number(u), 10)

\* The code points of units that are the valid encoding of some: not longer
\* than it has to be, no surrogates and none beyond the last.
Decoded(enc, units) ==
  LET begin(s, u, size) ==
        [s EXCEPT !.ok = @ /\ size > 0, !.size = size, !.left = IF size = 0 THEN 0 ELSE size - 1,
                  !.cp = FirstBits(enc, u, size)]
      continue(s, u) ==
        [s EXCEPT !.ok = @ /\ GoesOn(enc, u), !.left = @ - 1, !.cp = MoreBits(enc, @, u)]
      shortest(cp, size) == enc # 8 \/ Len(Utf8Units(cp)) = size
      one(s, u) == IF s.left = 0 THEN begin(s, u, SizeFrom(enc, u)) ELSE continue(s, u)
      closed(s) ==
        IF s.left > 0 THEN s
        ELSE [s EXCEPT !.text = Append(@, s.cp),
                       !.ok = @ /\ shortest(s.cp, s.size) /\ ~IsSurrogate(s.cp)
                                /\ s.cp <= MaxCodePoint]
      result(s) == IF s.ok /\ s.left = 0 THEN Done(s.text) ELSE Throws
  IN  result(FoldLeft(LAMBDA s, u : closed(one(s, u)),
                      [ok |-> TRUE, left |-> 0, size |-> 0, cp |-> 0, text |-> <<>>], units))

Encoded(enc, text) ==
  FlattenSeq([k \in DOMAIN text |-> CASE enc = 8 -> Utf8Units(text[k])
                                      [] enc = 16 -> Utf16Units(text[k])
                                      [] enc = 32 -> <<AsUnit(32, text[k])>>])

\* Units of the given order as simdutf's functions of that name mean them, and
\* the swap the converters make for UTF-32: opposite orders are left as they are.
InOrder(enc, units, order) ==
  IF (enc = 16 /\ order = "big") \/ (enc = 32 /\ order = "little")
  THEN Swapped(units) ELSE units

----------------------------------------------------------------------------
(* The steps of a converter.                                               *)

\* The conversion proper: from order and to order are asked for where the
\* encoding has one, and neither may be undefined.  What stands behind the text
\* in the buffer stays there.
Transcode(from, to, units, from_order, to_order, behind) ==
  LET text == Decoded(from, InOrder(from, units, from_order))
  IN  IF (from # 8 /\ from_order = "undefined") \/ (to # 8 /\ to_order = "undefined") \/ ~text.ok
      THEN Throws
      ELSE Done(InOrder(to, Encoded(to, text.value), to_order) \o behind)

\* What converters from strings of plain units to such strings return: the
\* result is made one unit longer than its text.
PlainToPlain(from, to, s, from_order, to_order) ==
  IF s = <<>> THEN Done(<<>>)
  ELSE Transcode(from, to, s, from_order, to_order, <<ZeroUnit(to)>>)

\* The characters made of converted units; the buffer they are parsed in has
\* room for one more unit, which nothing is ever stored in.
PlainToChars(from, to, s, from_order, to_order, garbage) ==
  LET units == Transcode(from, to, s, from_order, to_order, <<>>)
  IN  IF s = <<>> THEN Done(<<>>)
      ELSE IF units.ok THEN FromBase(to, units.value, to_order, garbage) ELSE Throws

\* The units of the characters, with the 0 behind them, in the order the
\* characters agree on.
CharsToPlain(from, to, s, to_order) ==
  IF s = <<>> THEN Done(<<>>)
  ELSE PlainToPlain(from, to, ToBase(from, s), GetEndianness(s), to_order)

\* Between char and char8_t the bytes are copied, and from and to utf8_char
\* they are parsed or collected, without a look at what they encode.
CopyBytes(s) == IF s = <<>> THEN Done(<<>>) ELSE Done(s \o <<ZeroUnit(8)>>)
ParseBytes(s) == IF s = <<>> THEN Done(<<>>) ELSE FromBase(8, s, "undefined", 0)
CollectBytes(s) == IF s = <<>> THEN Done(<<>>) ELSE Done(ToBase(8, s))

\* char and wchar_t: by the codecvt of the locale, into a string of as many
\* units as the source has, doubled while that is too few.  A source that ends
\* inside a character always asks for more room: no result.
Doubled(size, need) ==
  size * 2^(CHOOSE k \in 0 .. need : size * 2^k >= need /\ \A l \in 0 .. k - 1 : size * 2^l < need)
ByCodecvt(from, to, s) ==
  LET text == Decoded(from, s)
      units == Encoded(to, text.value)
      room == Doubled(Len(s), Len(units))
  IN  IF s = <<>> THEN Done(<<>>)
      ELSE IF ~text.ok THEN Throws
      ELSE Done(units \o [k \in 1 .. room - Len(units) |-> ZeroUnit(to)])

----------------------------------------------------------------------------
(* The converters.                                                         *)

CharToWchar(s) == ByCodecvt(8, 32, s)
WcharToChar(s) == ByCodecvt(32, 8, s)
CharToChar8(s) == CopyBytes(s)
Char8ToChar(s) == CopyBytes(s)
CharToChar16(s, to) == PlainToPlain(8, 16, s, "undefined", to)
Char16ToChar(s, from) == PlainToPlain(16, 8, s, from, "undefined")
CharToChar32(s, to) == PlainToPlain(8, 32, s, "undefined", to)
Char32ToChar(s, from) == PlainToPlain(32, 8, s, from, "undefined")
Char8ToChar16(s, to) == PlainToPlain(8, 16, s, "undefined", to)
Char16ToChar8(s, from) == PlainToPlain(16, 8, s, from, "undefined")
Char8ToChar32(s, to) == PlainToPlain(8, 32, s, "undefined", to)
Char32ToChar8(s, from) == PlainToPlain(32, 8, s, from, "undefined")
Char16ToChar32(s, from, to) == PlainToPlain(16, 32, s, from, to)
Char32ToChar16(s, from, to) == PlainToPlain(32, 16, s, from, to)

CharToUtf8(s) == ParseBytes(s)
Utf8ToChar(s) == CollectBytes(s)
Char8ToUtf8(s) == ParseBytes(s)
Utf8ToChar8(s) == CollectBytes(s)
Char16ToUtf8(s, from, garbage) == PlainToChars(16, 8, s, from, "undefined", garbage)
Utf8ToChar16(s, to) == CharsToPlain(8, 16, s, to)
CharToUtf16(s, to) == PlainToChars(8, 16, s, "undefined", to, 0)
Utf16ToChar(s) == CharsToPlain(16, 8, s, "undefined")
Char8ToUtf16(s, to) == PlainToChars(8, 16, s, "undefined", to, 0)
Utf16ToChar8(s) == CharsToPlain(16, 8, s, "undefined")
CharToUtf32(s, to) == PlainToChars(8, 32, s, "undefined", to, 0)
Utf32ToChar(s) == CharsToPlain(32, 8, s, "undefined")
Char8ToUtf32(s, to) == PlainToChars(8, 32, s, "undefined", to, 0)
Utf32ToChar8(s) == CharsToPlain(32, 8, s, "undefined")

----------------------------------------------------------------------------
(* Files.  An encoding_mode is the set of its flags; a byte order mark says *)
(* which one a file has.                                                   *)

Mark == [uni_utf16le |-> <<255, 254>>, uni_utf16be |-> <<254, 255>>,
         uni_utf8 |-> <<239, 187, 191>>, uni_utf32be |-> <<0, 0, 254, 255>>,
         uni_utf32le |-> <<255, 254, 0, 0>>]

Flags == [uni_utf16le |-> {"uni_utf16", "little_endian"},
          uni_utf16be |-> {"uni_utf16", "big_endian"}, uni_utf8 |-> {"uni_utf8"},
          uni_utf32be |-> {"uni_utf32", "big_endian"},
          uni_utf32le |-> {"uni_utf32", "little_endian"}]

\* guess_encoding: the marks are tried in this order, in files of four bytes.
Tried == <<"uni_utf16le", "uni_utf16be", "uni_utf8", "uni_utf32be", "uni_utf32le">>

GuessEncoding(bytes) ==
  LET hits == {k \in DOMAIN Tried : IsPrefix(Mark[Tried[k]], bytes)}
  IN  IF Len(bytes) < 4 \/ hits = {} THEN {"char_utf8"} ELSE Flags[Tried[Min(hits)]]

\* get_encoding_mode: what is asked for is made big endian, also when it was
\* little endian already.
EncodingModeOf(bytes, mode) ==
  IF mode = {} THEN GuessEncoding(bytes)
  ELSE IF mode \cap {"uni_utf16", "uni_utf32"} = {} THEN mode
  ELSE mode \cup {"big_endian"}

\* create_file: which file is made for open_mode and encoding, and its order.
CreateFile(open, encoding) ==
  IF encoding \notin {Flags[f] : f \in DOMAIN Flags} \cup {{"char_utf8"}, {"wchar"}} THEN Throws
  ELSE IF open = {} THEN Throws
  ELSE Done([class |-> IF open = {"read", "write"} THEN "file"
                       ELSE IF open = {"read"} THEN "input_file" ELSE "output_file",
             encoding |-> encoding])

OpenFile(bytes, open, mode) == CreateFile(open, EncodingModeOf(bytes, mode))

\* file_base::get_endianness and set_endianness: the order is removed before
\* the new one is looked at.
FileEndianness(encoding) ==
  IF "big_endian" \in encoding THEN "big"
  ELSE IF "little_endian" \in encoding THEN "little" ELSE "undefined"

SetFileEndianness(encoding, e) ==
  IF encoding \cap {"uni_utf16", "uni_utf32"} = {} THEN [ok |-> TRUE, value |-> encoding]
  ELSE [ok |-> e # "undefined",
        value |-> (encoding \ {"big_endian", "little_endian"})
                  \cup (CASE e = "big" -> {"big_endian"}
                          [] e = "little" -> {"little_endian"}
                          [] e = "undefined" -> {})]

\* file_base::create_char: the first byte of the file is the highest of the
\* unit, whatever the order; of UTF-16 two units make two characters.
CreateChars(enc, bytes, encoding) ==
  LET unit(k) == SubSeq(bytes, Width(enc) * (k - 1) + 1, Width(enc) * k)
  IN  IF Len(bytes) # 4 /\ ~(enc = 16 /\ Len(bytes) = 2) THEN Throws
      ELSE Done([k \in 1 .. Len(bytes) \div Width(enc) |->
                   [units |-> <<unit(k)>>, end |-> FileEndianness(encoding)]])

=============================================================================
