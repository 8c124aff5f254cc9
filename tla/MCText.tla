------------------------------- MODULE MCText -------------------------------
(***************************************************************************)
(* The data algorithms, checked over small inputs.  TLC picks one subject, *)
(* which is what an algorithm is given; the properties compare what the    *)
(* code computes for it with what its result should be.                    *)
(***************************************************************************)
EXTENDS UnicodeStrings, SourceText, SaturatedArithmetic, TLC

CONSTANT MaxCp    \* of the tables of the Unicode data generator

Ucd == INSTANCE UcdTables

VARIABLE subject

Nothing == [about |-> "nothing"]

\* One code point from each side of the bounds at which the lengths change.
Points == {65, 127, 128, 2047, 2048, 55295, 57344, 65535, 65536, 1114111}
FewPoints == {65, 233, 8364, 128512}

Texts == {<<a>> : a \in Points} \cup {<<a, b>> : a, b \in Points}
         \cup {<<a, b, c>> : a, b, c \in FewPoints}

Orders(enc) == IF enc = 8 THEN {"undefined"} ELSE Order

\* Units and bytes no encoder makes: 'A', a high and a low surrogate, and the
\* bytes UTF-8 knows.
OddUnits == UNION {[1 .. n -> {<<0, 65>>, <<216, 61>>, <<222, 0>>}] : n \in 1 .. 4}
OddBytes == UNION {[1 .. n -> {65, 130, 195, 226, 240}] : n \in 1 .. 4}

PickText ==
  \E text \in Texts, from, to \in Encoding :
    \E a \in Orders(from), b \in Orders(to), beyond \in {0, 65, 130} :
      subject' = [about |-> "text", text |-> text, from |-> from, to |-> to,
                  a |-> a, b |-> b, beyond |-> beyond]

PickBytes ==
  \/ \E mem \in OddBytes, beyond \in {0, 130} :
       subject' = [about |-> "bytes", enc |-> 8, mem |-> mem, order |-> "undefined",
                   beyond |-> beyond]
  \/ \E units \in OddUnits, order \in Order :
       subject' = [about |-> "bytes", enc |-> 16, beyond |-> 0, order |-> order,
                   mem |-> Memory(IF order = "big" THEN Swapped(units) ELSE units)]

\* The character of a code point in an order, or undefined: what reading it
\* leaves, or create_char.
Char(enc, cp, e) ==
  [end |-> e, units |-> LET units == Encoded(enc, <<cp>>)
                        IN  IF e = "little" THEN Swapped(units) ELSE units]
FewChars(enc) == {Char(enc, cp, e) : cp \in FewPoints, e \in Orders(enc)}
Strings(enc) ==
  UNION {[1 .. n -> FewChars(enc) \cup {NullChar(enc)}] : n \in 1 .. 2}
  \cup [1 .. 3 -> {Char(enc, 65, "big"), Char(enc, 65, "little"), NullChar(enc)}]

PickCharacters ==
  \/ \E enc \in Encoding : \E a \in Orders(enc), c, d, e \in Points :
       subject' = [about |-> "three", enc |-> enc, a |-> a,
                   three |-> <<Char(enc, c, a), Char(enc, d, a), Char(enc, e, a)>>]
  \/ \E enc \in {16, 32}, e \in Endianness : \E s \in Strings(enc) :
       subject' = [about |-> "string", enc |-> enc, s |-> s, e |-> e]
  \/ \E to, from \in 1 .. 6, n \in 0 .. 6 :
       /\ to + n <= 7 /\ from + n <= 7
       /\ subject' = [about |-> "move", to |-> to, from |-> from, n |-> n]

PickFile ==
  \E f \in DOMAIN Mark \cup {"char_utf8"}, text \in {<<65>>, <<65, 233>>, <<65, 66, 128512>>} :
    subject' = [about |-> "file", format |-> f, text |-> text]

SourceTexts == UNION {[1 .. n -> {"a", "b", "nl", "nul"}] : n \in 0 .. 4}
Contexts == UNION {[1 .. n -> {"a", " ", "tab"}] : n \in 0 .. 5}

\* A piece of a template: a character, an escaped dollar, or an argument and
\* the character behind it.
Segments == {<<"a">>, <<"nl">>, <<"\\", "$">>, <<"$", "1", "x">>, <<"$", "0", "2", " ">>,
             <<"$", "2", "5", "7", "a">>}

PickSource ==
  \/ \E text \in SourceTexts : \E erased \in SUBSET DOMAIN ParseText(text) :
       subject' = [about |-> "source", text |-> text, erased |-> erased]
  \/ \E context \in Contexts, col \in 0 .. 6 :
       subject' = [about |-> "error", context |-> context, col |-> col]
  \/ \E text \in SourceTexts, delim \in {<<"a">>, <<"a", "b">>, <<"a", "a">>, <<>>} :
       subject' = [about |-> "split", text |-> text, delim |-> delim]
  \/ \E n \in 0 .. 3 : \E segments \in [1 .. n -> Segments], last \in {<<>>, <<"$", "1">>},
                        ahead \in 0 .. 1 :
       subject' = [about |-> "template", segments |-> segments, last |-> last, ahead |-> ahead]
  \/ \E l, r \in (0 .. 2) \X (0 .. 2), flags \in SUBSET {"START", "END"} :
       subject' = [about |-> "places", l |-> l, r |-> r, flags |-> flags]

\* Files of up to four lines, one pair of them a range or none.
Entries(cps, range) ==
  LET cp == SetToSortSeq(cps, <)
  IN  [k \in DOMAIN cp |->
         [cp |-> cp[k], cat |-> IF range # 0 /\ k \in {range, range + 1} THEN "Lo"
                               ELSE IF k % 2 = 0 THEN "Lu" ELSE "Nd",
          mark |-> IF k = range THEN "first" ELSE IF range # 0 /\ k = range + 1 THEN "last"
                   ELSE "single"]]

PickTable ==
  \/ \E cps \in kSubset(2, Ucd!CodePoint) \cup kSubset(4, 0 .. 10), range \in 0 .. 3, n \in 1 .. 4 :
       \E chunks \in {<<0>>} \cup {<<i, j>> : i, j \in 1 .. n - 1} :
         /\ range < Cardinality(cps)
         /\ Len(chunks) = 2 => chunks[1] # chunks[2]
         /\ subject' = [about |-> "look-up", lines |-> Entries(cps, range), n |-> n,
                        chunks |-> chunks]
  \/ \E n \in 0 .. 6 : \E text \in [1 .. n -> {"x", "blank", "nl"}] :
       subject' = [about |-> "lines", text |-> text]
  \/ \E cps \in SUBSET (0 .. 5), width \in {2, 3, 4, 5, 8} :
       subject' = [about |-> "bits", width |-> width,
                   cps |-> {cp \in Ucd!CodePoint : cp % 6 \in cps}]

\* Integers of one to four bits.
SmallTypes ==
  {[lowest |-> 0, max |-> 2 ^ w - 1] : w \in 1 .. 4}
  \cup {[lowest |-> -(2 ^ (w - 1)), max |-> 2 ^ (w - 1) - 1] : w \in 1 .. 4}

PickIntegers == \E type \in IntTypes : subject' = [about |-> "integers", type |-> type]

TextInit == subject = Nothing
TextNext ==
  \/ subject = Nothing /\ (PickText \/ PickBytes \/ PickCharacters \/ PickFile
                            \/ PickSource \/ PickTable \/ PickIntegers)
  \/ subject # Nothing /\ subject' = Nothing

TextSpec == TextInit /\ [][TextNext]_subject

----------------------------------------------------------------------------
\* The saturated operations give the value between their bounds that is nearest to
\* the exact one, also where the type cannot hold the exact one, and refuse
\* operands outside the bounds; a cast gives the value of the new type that is
\* nearest.
SaturationIsExact == subject.about = "integers" => TypeSaturates(subject.type)

----------------------------------------------------------------------------
(* Where the characters of units begin, and their end.                     *)
Boundaries(enc, text) ==
  {Len(Memory(Encoded(enc, SubSeq(text, 1, k)))) : k \in 0 .. Len(text)}

Reached(Step(_), from, size) ==
  LET reach[k \in 0 .. size] ==
        IF k = 0 THEN {from}
        ELSE reach[k - 1] \cup ({Step(p) : p \in reach[k - 1]} \ {Nowhere})
  IN  reach[size]

\* find_next from the beginning and find_prev from the end visit the
\* boundaries of the characters and nothing else, of every encoding and in both
\* orders - but find_next_u8 does not reach the end when the byte behind it,
\* which it reads, looks like the continuation of a character.  In text that is
\* not well formed a step forward from the beginning of a character is undone
\* by a step backward, unless it went over a low surrogate.
WalksMeet ==
  /\ subject.about = "text" =>
       LET s == subject
           mem == Memory(InOrder(16, Encoded(s.from, s.text), IF s.from = 16 THEN s.a ELSE "little"))
           next(p) == FindNext(s.from, s.a, mem, s.beyond, p)
           prev(p) == FindPrev(s.from, s.a, mem, p)
           lost == IF s.from = 8 /\ Continues(s.beyond) THEN {Len(mem)} ELSE {}
       IN  /\ Reached(next, 0, Len(s.text)) = Boundaries(s.from, s.text) \ lost
           /\ Reached(prev, Len(mem), Len(s.text)) = Boundaries(s.from, s.text)
  /\ subject.about = "bytes" =>
       StepsAreUndone(subject.enc, subject.order, subject.mem, subject.beyond)

----------------------------------------------------------------------------
\* The converters between strings of plain units.
Plain(from, to, s, a, b) ==
  CASE from = 8 /\ to = 8 -> {CharToChar8(s), Char8ToChar(s)}
    [] from = 8 /\ to = 16 -> {CharToChar16(s, b), Char8ToChar16(s, b)}
    [] from = 8 /\ to = 32 -> {CharToChar32(s, b), Char8ToChar32(s, b)}
    [] from = 16 /\ to = 8 -> {Char16ToChar(s, a), Char16ToChar8(s, a)}
    [] from = 32 /\ to = 8 -> {Char32ToChar(s, a), Char32ToChar8(s, a)}
    [] from = 16 /\ to = 32 -> {Char16ToChar32(s, a, b)}
    [] from = 32 /\ to = 16 -> {Char32ToChar16(s, a, b)}
    [] from = to /\ from # 8 -> {}

\* Those that make characters, and those that take them apart.
ToChars(from, to, s, a, b, beyond) ==
  CASE from = 8 /\ to = 8 -> {CharToUtf8(s), Char8ToUtf8(s)}
    [] from = 8 /\ to = 16 -> {CharToUtf16(s, b), Char8ToUtf16(s, b)}
    [] from = 8 /\ to = 32 -> {CharToUtf32(s, b), Char8ToUtf32(s, b)}
    [] from = 16 /\ to = 8 -> {Char16ToUtf8(s, a, beyond)}
    [] OTHER -> {}
FromChars(from, to, s, b) ==
  CASE from = 8 /\ to = 8 -> {Utf8ToChar(s), Utf8ToChar8(s)}
    [] from = 8 /\ to = 16 -> {Utf8ToChar16(s, b)}
    [] from = 16 /\ to = 8 -> {Utf16ToChar(s), Utf16ToChar8(s)}
    [] from = 32 /\ to = 8 -> {Utf32ToChar(s), Utf32ToChar8(s)}
    [] OTHER -> {}

\* Units without the zeros at their end.
Trimmed(enc, units) ==
  LET ink == {k \in DOMAIN units : units[k] # ZeroUnit(enc)}
  IN  SubSeq(units, 1, IF ink = {} THEN 0 ELSE Max(ink))

\* A text survives its conversion to any other plain encoding, in either order,
\* and back; every conversion leaves one 0 more at its end, except that of the
\* locale, which may leave as many as it reserved.  Units cut off inside a
\* character are refused.
ConversionsKeepText ==
  subject.about = "text" =>
    LET s == subject
        zero == <<ZeroUnit(s.from)>>
        torn == s.from # 32 /\ Len(Encoded(s.from, <<Last(s.text)>>)) > 1
    IN  \A source \in {InOrder(s.from, Encoded(s.from, s.text), s.a)} :
          /\ \A there \in Plain(s.from, s.to, source, s.a, s.b) :
               /\ there.ok
               /\ Plain(s.to, s.from, there.value, s.b, s.a) = {Done(source \o zero \o zero)}
          /\ torn /\ s.to # s.from => \A cut \in {SubSeq(source, 1, Len(source) - 1)} :
               Plain(s.from, s.to, cut, s.a, s.b) \subseteq {Throws}
          /\ s.from = 8 => \A wide \in {CharToWchar(source)} :
               /\ wide.ok
               /\ \A narrow \in {WcharToChar(Trimmed(32, wide.value))} :
                    narrow.ok /\ Trimmed(8, narrow.value) = source

\* A string of characters made from units carries the text: behind as many null
\* characters as there are units, which the constructor of the vector leaves
\* there, one character for each code point, all of the order asked for, and a
\* null - unless the byte behind the buffer, which the converters to UTF-8 never
\* set, makes the last character unreachable: that is refused.  Taken apart in
\* its own order the text is the same units again; with the null at its end
\* it has no order any more, and is refused except by UTF-8.
CharactersCarryText ==
  subject.about = "text" =>
    LET s == subject
        lost == s.from = 16 /\ s.to = 8 /\ Continues(s.beyond)
    IN  \A source \in {InOrder(s.from, Encoded(s.from, s.text), s.a)},
           units \in {InOrder(s.to, Encoded(s.to, s.text), s.b)} :
        \A made \in ToChars(s.from, s.to, source, s.a, s.b, s.beyond), count \in {Len(units)} :
          /\ made.ok = ~lost
          /\ made.ok =>
               \A chars \in {SubSeq(made.value, count + 1, count + Len(s.text))} :
               LET end == Append(chars, NullChar(s.to))
               IN  /\ made.value = [k \in 1 .. count |-> NullChar(s.to)] \o end
                   /\ FlattenSeq([k \in DOMAIN chars |-> chars[k].units]) = units
                   /\ GetEndianness(chars) = s.b
                   /\ \A apart \in FromChars(s.to, s.from, chars, s.a) :
                        /\ apart.ok /\ Trimmed(s.from, apart.value) = source
                        /\ Len(apart.value) - Len(source) <= 2
                   /\ s.to # 8 => FromChars(s.to, s.from, end, s.a) \subseteq {Throws}

----------------------------------------------------------------------------
\* Within one order eq and lt put the characters in a total order, which for
\* UTF-8 and UTF-16, and for UTF-32 of big order, is that of the code points;
\* compare, length and find agree with them; the int_type of a character is
\* never eof, and made a character again keeps the units and loses the order.
\* move within a string does what memmove does; that of ParsedCharTraits is
\* refused when it goes down over itself.
TraitsAgree ==
  /\ subject.about = "three" =>
       LET enc == subject.enc
           c == subject.three[1]  d == subject.three[2]  e == subject.three[3]
           point(x) == ToCodePoint(enc, IF enc = 32 THEN [x EXCEPT !.units =
                         IF x.end = "little" THEN Swapped(@) ELSE @] ELSE x).value
           s == subject.three \o <<NullChar(enc)>>
       IN  /\ Cardinality({r \in {"lt", "eq", "gt"} :
                CASE r = "lt" -> Lt(enc, c, d) [] r = "gt" -> Lt(enc, d, c)
                  [] r = "eq" -> Eq(enc, c, d)}) = 1
           /\ Lt(enc, c, d) /\ Lt(enc, d, e) => Lt(enc, c, e)
           /\ enc # 32 \/ subject.a = "big" => (Lt(enc, c, d) <=> point(c) < point(d))
           /\ CompareChars(enc, <<c, d>>, <<d, e>>, 2) = -CompareChars(enc, <<d, e>>, <<c, d>>, 2)
           /\ CompareChars(enc, <<c, d>>, <<d, e>>, 2) = 0 <=> <<c, d>> = <<d, e>>
           /\ LengthOf(s) = 3
           /\ CompareChars(enc, AssignN(s, 3, e), <<e, e, e>>, 3) = 0 /\ LengthOf(AssignN(s, 3, e)) = 3
           /\ enc = 8 => AssignUtf8(c, d.units) = Done(d)
           /\ FindChar(enc, s, 3, e) = (IF c = e THEN 1 ELSE IF d = e THEN 2 ELSE 3)
           /\ enc # 32 \/ subject.a = "big" =>
                LET int == ToIntType(enc, c)
                IN  /\ int.ok /\ ~EqInt(int.value, Eof) /\ NotEof(int.value) = int.value
                    /\ ToCharType(enc, int.value) = Done([c EXCEPT !.end = "undefined"])
  /\ subject.about = "move" =>
       LET from == subject.from  to == subject.to  n == subject.n
           array == [k \in 1 .. 6 |-> k]
           moved == [k \in 1 .. 6 |-> IF k \in to .. to + n - 1 THEN k - to + from ELSE k]
       IN  /\ MoveWithin(array, to, from, n) = moved
           /\ ParsedMove(array, to, from, n)
                = IF to < from /\ from < to + n THEN Fails ELSE Fine(moved)

\* An order that was only partly set does not go unnoticed.  New units can be
\* given to the characters of a string that have an order, and to any of UTF-32.
PartlySetIsSeen ==
  subject.about = "string" =>
    LET enc == subject.enc  s == subject.s
    IN  /\ OrderIsSeen(enc, s, subject.e)
        /\ \A k \in DOMAIN s : \A units \in {<<>>, s[1].units} :
             LET new == IF enc = 16 THEN AssignUtf16(s[k], units) ELSE AssignUtf32(s[k], units)
             IN  /\ new.ok <=> IF enc = 16 THEN s[k].end # "undefined" ELSE units # <<>>
                 /\ new.ok => /\ new.value.end = s[k].end
                              /\ Memory(new.value.units) = Memory(IF units = <<>> THEN NullChar(enc).units
                                                                  ELSE units)

\* A file that begins with a byte order mark and has a character behind it is
\* taken for what the mark says, except one of UTF-32LE, whose mark begins
\* with that of UTF-16LE; one without a mark is taken for plain UTF-8.  Asked
\* for by its encoding, a file can be opened unless the order asked for is
\* little; its order can be set, and setting it to undefined is refused only
\* when the order is gone.  The bytes of a character read from it give the
\* character in the order of the file, or two for a pair of surrogates.
FilesAreRecognised ==
  subject.about = "file" =>
    LET f == subject.format
        enc == CASE f \in {"uni_utf8", "char_utf8"} -> 8
                 [] f \in {"uni_utf16le", "uni_utf16be"} -> 16
                 [] f \in {"uni_utf32le", "uni_utf32be"} -> 32
        little == f \in {"uni_utf16le", "uni_utf32le"}
        units == Encoded(enc, subject.text)
        text == Memory(IF little \/ enc = 8 THEN units ELSE Swapped(units))
        mode == IF f = "char_utf8" THEN {"char_utf8"} ELSE Flags[f]
        bytes == (IF f = "char_utf8" THEN <<>> ELSE Mark[f]) \o text
    IN  /\ GuessEncoding(bytes) = (CASE f = "uni_utf32le" -> Flags["uni_utf16le"]
                                     [] Len(bytes) < 4 -> {"char_utf8"} [] OTHER -> mode)
        /\ Len(bytes) < 4 => f = "char_utf8"
        /\ OpenFile(bytes, {"read"}, mode).ok <=> ~little
        /\ OpenFile(bytes, {"read"}, {}).ok /\ ~OpenFile(bytes, {}, {}).ok
        /\ \A e \in Endianness :
             LET set == SetFileEndianness(mode, e)
             IN  /\ set.ok => FileEndianness(set.value) = IF enc = 8 THEN "undefined" ELSE e
                 /\ ~set.ok => e = "undefined" /\ FileEndianness(set.value) = "undefined"
                 /\ set.ok /\ enc # 8 => SetFileEndianness(set.value, FileEndianness(mode)) = Done(mode)
        /\ enc # 8 => \A k \in DOMAIN subject.text :
             \A char \in {Char(enc, subject.text[k], FileEndianness(mode))} :
             LET there == Len(Memory(Encoded(enc, SubSeq(subject.text, 1, k - 1))))
                 read == CreateChars(enc, SubSeq(text, there + 1, there + Width(enc) * Len(char.units)), mode)
             IN  /\ read.ok
                 /\ \A j \in DOMAIN read.value : read.value[j].end = char.end
                 /\ FlattenSeq([j \in DOMAIN read.value |-> read.value[j].units]) = char.units

----------------------------------------------------------------------------
\* The look-ups of a thread that takes the chunks one after the other.
LookUps(lines, n, chunks) ==
  LET step(s, cp) == LET a == Ucd!LookupCat(lines, s.thread, cp)
                     IN  [thread |-> a.thread, answers |-> s.answers @@ (cp :> a)]
      cps == FlattenSeq([k \in DOMAIN chunks |->
               [j \in 1 .. Cardinality(Ucd!Chunk(n, chunks[k])) |->
                  Ucd!ChunkFirst(n, chunks[k]) + j - 1]])
  IN  FoldLeft(step, [thread |-> Ucd!FreshThread, answers |-> <<>>], cps).answers

Wrong(lines, n, chunks) ==
  LET answers == LookUps(lines, n, chunks)
  IN  {cp \in DOMAIN answers : ~answers[cp].ok \/ answers[cp].cat # Ucd!CategoryOf(lines, cp)}

\* A thread finds the category of every code point of its chunks, whatever it
\* looked up before, except where a range crosses the beginning of a chunk, or
\* begins there when the thread comes from a later chunk: its hint then is the
\* First line, which the code takes for line 0.  Splitting the text gives the
\* lines between the newlines, when it does not begin with white space.  The
\* words written for a category have exactly the bits of its code points, as
\* have the bytes packed into the buffer they are read from, but for a last
\* byte that is not full, which is left out.  A reader of the words as they are
\* printed finds other code points only in a word with its first code point: words
\* of 4 bits have one digit too many for a buffer of 2 from 10 on, as those of 64
\* bits have for one of 20 from 10^19 on.
TablesAreRight ==
  /\ subject.about = "look-up" =>
       LET lines == subject.lines  n == subject.n  chunks == subject.chunks
           begins(cp) == \E k \in DOMAIN lines :
             lines[k].mark = "first" /\ lines[k].cp = cp
       IN  /\ Ucd!WellFormed(lines)
           /\ \A cp \in Wrong(lines, n, chunks) :
                \/ Ucd!SplitRange(lines, n, cp)
                \/ Len(chunks) = 2 /\ chunks[1] > chunks[2] /\ begins(Ucd!ChunkFirst(n, chunks[2]))
  /\ subject.about = "lines" =>
       LET text == subject.text
       IN  text # <<>> /\ text[1] \notin Ucd!White => Ucd!SplitLines(text) = Ucd!LinesOf(text)
  /\ subject.about = "bits" =>
       LET width == subject.width
           table == [cp \in Ucd!CodePoint |-> IF cp \in subject.cps THEN "Lu" ELSE "Cn"]
           words == Ucd!Words(Ucd!Buffer(table, "LC"), width)
           bytes == Ucd!PackInPlace(Ucd!Buffer(table, "LC"), width)
           read == Ucd!Unpacked([k \in DOMAIN words |-> Ucd!Printed(words[k], 2)], width)
       IN  /\ Ucd!Unpacked(words, width) = subject.cps
           /\ bytes = SubSeq(words, 1, (MaxCp + 1) \div width)
           /\ width = 4 => \A cp \in SymDiff(read, subject.cps) : cp - (cp % 4) \in subject.cps

----------------------------------------------------------------------------
\* A text made into characters with their places and back is the text without
\* the newlines before its first and behind its last character, also when
\* characters were taken out in between, and fills exactly the array made for
\* it; c_str ends in one 0.
TextIsRebuilt ==
  subject.about = "source" =>
    LET text == subject.text
        chars == ParseText(text)
        kept == {k \in DOMAIN chars : k \notin subject.erased}
        s == [k \in 1 .. Cardinality(kept) |->
                chars[CHOOSE j \in kept : Cardinality({l \in kept : l < j}) = k - 1]]
        number(p) == Cardinality({q \in 1 .. p : text[q] # "nl"})
        ink == {p \in DOMAIN text : text[p] # "nl" /\ number(p) \in kept}
        rest == {p \in DOMAIN text : p \in ink \/ text[p] = "nl"}
        between == {p \in rest : ink # {} /\ Min(ink) <= p /\ p <= Max(ink)}
        wanted == [k \in 1 .. Cardinality(between) |->
                     text[CHOOSE p \in between : Cardinality({q \in between : q < p}) = k - 1]]
    IN  /\ s # <<>> => Data(s) = wanted
        /\ Len(Data(s)) = DataRoom(s) /\ Len(CStr(s)) = CStrRoom(s)
        /\ Last(CStr(s)) = "nul" /\ IsPrefix(Data(s), CStr(s))
        /\ \A k \in DOMAIN CStr(ParseText(UpToNul(text))) :
             CStr(ParseText(UpToNul(text)))[k] = "nul" <=> k = Len(CStr(ParseText(UpToNul(text))))

\* The word that an error underlines is the one the column is in.
UnderlineIsTheWord == subject.about = "error" => WordIsWhole(subject.context, subject.col)

\* The tokens of a split string joined with the delimiter are the string again,
\* or the string without the delimiter at its end when that is one character;
\* none of them has the delimiter in it.  Skipping white space loses nothing
\* but that.
SplitsJoin ==
  subject.about = "split" =>
    LET text == subject.text  delim == subject.delim
        tokens == SplitByString(text, delim)
        joined == FlattenSeq([k \in DOMAIN tokens.value |->
                    IF k = 1 THEN tokens.value[1] ELSE delim \o tokens.value[k]])
        within(t) == \E p \in 1 .. Len(t) - Len(delim) + 1 :
                       SubSeq(t, p, p + Len(delim) - 1) = delim
    IN  /\ \A cursor \in 0 .. Len(text) :
             LET rest(p) == SubSeq(text, p + 1, Len(text))
                 there == SkipWhitespaces(text, cursor)
             IN  /\ RemoveWhitespaces(rest(there), TRUE) = RemoveWhitespaces(rest(cursor), TRUE)
                 /\ there < Len(text) => text[there + 1] \notin Space
        /\ tokens.ok <=> delim # <<>>
        /\ tokens.ok => /\ joined = text \/ (Len(delim) = 1 /\ joined \o delim = text)
                        /\ \A k \in DOMAIN tokens.value : ~within(tokens.value[k])

\* A template in which something stands between any two arguments is filled by
\* putting each argument in the place of its number, taken in eight bits, and of
\* the character behind it; an escaped dollar is dropped.  get_argc asks for as
\* many arguments as that takes, and with fewer substitute refuses.  Only when
\* the template begins with a dollar or a backslash does what lies in memory in
\* front of it matter.
TemplatesAreFilled ==
  subject.about = "template" =>
    LET segments == Append(subject.segments, subject.last)
        text == FlattenSeq(<<<<"d", " ", "nl", "tab", "nl">>>> \o segments \o <<<<" ", "nl">>>>)
        pragma == Pragma(text)
        body == pragma.body
        raw == FlattenSeq(segments)
        argument(g) == IF Len(g) < 2 \/ g[1] # "$" THEN 0
                       ELSE IF g[2] = "0" THEN 2 ELSE 1
        filled(g) == IF argument(g) > 0 THEN <<<<"first">>, <<"second", "!">>>>[argument(g)]
                     ELSE IF g = <<"\\", "$">> THEN <<"\\">> ELSE g
        most == Max({0} \cup {argument(segments[k]) : k \in DOMAIN segments})
        ahead == IF body # <<>> /\ body[1] \in {"$", "\\"} THEN 0 ELSE subject.ahead
        args(n) == SubSeq(<<<<"first">>, <<"second", "!">>>>, 1, n)
    IN  /\ pragma.id = <<"d">> /\ body = RemoveAtEnds(raw, TRUE)
        /\ body = raw =>
             /\ GetArgc(body, ahead) = most
             /\ Substitute(body, args(most), ahead)
                  = Fine(FlattenSeq([k \in DOMAIN segments |-> filled(segments[k])]))
             /\ most > 0 => ~Substitute(body, args(most - 1), ahead).ok

\* The five comparisons of places agree with one another.
PlacesCompare == subject.about = "places" => PlacesAgree(subject.l, subject.r, subject.flags)

----------------------------------------------------------------------------
\* What characters, strings and files say of byte orders agrees, and an order
\* that was only partly set does not go unnoticed.
CharactersAgree == TraitsAgree /\ PartlySetIsSeen /\ FilesAreRecognised

\* Text is the same text in every encoding and type it is carried in, a walk over it
\* finds its characters, and these keep their meaning and their order.
TextSurvives == WalksMeet /\ ConversionsKeepText /\ CharactersCarryText /\ CharactersAgree

\* Text that is read from a source file is what the file has: its characters
\* with their places and the order of those, the word an error underlines, the
\* pieces it is split in and the templates it is filled in.
SourceTextIsRead ==
  TextIsRebuilt /\ UnderlineIsTheWord /\ SplitsJoin /\ TemplatesAreFilled /\ PlacesCompare
=============================================================================
