----------------------------- MODULE UcdTables -----------------------------
(***************************************************************************)
(* The data side of the Unicode data generator (unistreams/impl/compiled/  *)
(* main.c): how UnicodeData.txt becomes lines, how the code points are     *)
(* shared out over the threads, how one thread looks up the category of    *)
(* its code points, and how a category becomes the bits of an output file. *)
(*                                                                         *)
(* A line of UnicodeData.txt is a record [cp, cat, mark]: its code point,  *)
(* its general category, and whether its name makes it the First or the    *)
(* Last line of a range.  Categories go by their names, so that the two    *)
(* conversions between names and masks are the identity on Category; a     *)
(* mask is the set of the categories whose bits it has.                    *)
(***************************************************************************)
EXTENDS Integers, Sequences, FiniteSets, SequencesExt

CONSTANT MaxCp      \* MAX_CODEPOINT

ASSUME MaxCpAssumption == MaxCp \in Nat \ {0}

CodePoint == 0 .. MaxCp

----------------------------------------------------------------------------
(* General categories.                                                     *)

\* The masks of several bits: the categories whose bits they unite.
Union == [LC |-> {"Lu", "Ll", "Lt"},
          L  |-> {"Lu", "Ll", "Lt", "Lm", "Lo"},
          M  |-> {"Mn", "Mc", "Me"},
          N  |-> {"Nd", "Nl", "No"},
          P  |-> {"Pc", "Pd", "Ps", "Pe", "Pi", "Pf", "Po"},
          S  |-> {"Sm", "Sc", "Sk", "So"},
          Z  |-> {"Zs", "Zl", "Zp"},
          C  |-> {"Cc", "Cf", "Cs", "Co", "Cn"}]

\* The masks of one bit.
Single == UNION {Union[u] : u \in DOMAIN Union}

\* all_cats[]: one output file is written for each.
Category == Single \cup DOMAIN Union

\* cat_by_cp[i] & cat
Members(cat) == IF cat \in DOMAIN Union THEN Union[cat] ELSE {cat}

\* The category a field of UnicodeData.txt names; what it does not know is Cn.
CategoryFromString(field) == IF field \in Category THEN field ELSE "Cn"

----------------------------------------------------------------------------
(* Lines.                                                                  *)

White == {"nl", "blank"}

\* One character of the file: white space is skipped behind a newline, but
\* what is skipped before the first line still is part of the first line.
SplitChar(s, c) ==
  IF s.skip /\ c \in White
  THEN IF s.lines = <<>> THEN [s EXCEPT !.line = Append(@, c)] ELSE s
  ELSE IF c = "nl"
  THEN [lines |-> Append(s.lines, s.line), line |-> <<>>, skip |-> TRUE]
  ELSE [s EXCEPT !.line = Append(@, c), !.skip = FALSE]

\* unicode_data_split_lines: a last line without a newline is left out.
SplitLines(text) ==
  FoldLeft(SplitChar, [lines |-> <<>>, line |-> <<>>, skip |-> TRUE], text).lines

\* The lines as UnicodeData.txt means them: what is between two newlines, less
\* the white space in front, when something is left.
LinesOf(text) ==
  LET ends == {i \in DOMAIN text : text[i] = "nl"}
      from(e) == IF \E d \in ends : d < e
                 THEN 1 + CHOOSE d \in ends : d < e /\ \A f \in ends : f < e => f <= d
                 ELSE 1
      ink(e) == {i \in from(e) .. e : text[i] \notin White}
      first(e) == CHOOSE i \in ink(e) : \A j \in ink(e) : i <= j
      full == SetToSortSeq({e \in ends : ink(e) # {}}, <)
  IN  [k \in DOMAIN full |-> SubSeq(text, first(full[k]), full[k] - 1)]

----------------------------------------------------------------------------
(* Sharing out the code points: chunk 0 is the main thread's, the chunks   *)
(* 1 .. n - 1 are the tasks of the pool.                                   *)

Quota(n) == MaxCp \div n

ChunkFirst(n, i) == IF i = 0 THEN (n - 1) * Quota(n) ELSE (i - 1) * Quota(n)
ChunkLast(n, i) == IF i = 0 THEN (MaxCp % n) + n * Quota(n) ELSE i * Quota(n) - 1

Chunk(n, i) == ChunkFirst(n, i) .. ChunkLast(n, i)

----------------------------------------------------------------------------
(* Looking up one code point.  A thread keeps, from one call to the next   *)
(* and from one task to the next, the range it is in and a line from which *)
(* to go on.  Lines count from 0, as in the code.                          *)

Line(lines, l) == lines[l + 1]
Count(lines) == Len(lines)

\* The bound of a range that has none yet: (size_t)-1.
NoBound == MaxCp + 1

\* The thread_local variables of a thread that looked up nothing yet.
FreshThread == [in |-> FALSE, start |-> NoBound, end |-> NoBound, cat |-> "Cn",
                restart_from |-> 0]

\* line - 2 where it is stored without a test: below 2 it wraps around to a
\* number no file has lines for.
TwoBefore(lines, line) == IF line >= 2 THEN line - 2 ELSE Count(lines)

Answer(cat, thread) == [ok |-> TRUE, cat |-> cat, thread |-> thread]
Error(thread) == [ok |-> FALSE, cat |-> "Cn", thread |-> thread]

\* The label found: entry is the line of the code point, line its number.
Found(lines, thread, cp, entry, line) ==
  LET cat == CategoryFromString(entry.cat)
      back == [thread EXCEPT !.restart_from = IF line >= 2 THEN line - 2 ELSE 0]
      next == Line(lines, line + 1)
  IN  IF entry.mark # "first" THEN Answer(cat, back)
      ELSE IF line + 1 >= Count(lines) \/ next.cat # entry.cat THEN Error(thread)
      ELSE Answer(cat, [back EXCEPT !.in = TRUE, !.start = cp, !.cat = cat,
                            !.end = IF next.mark = "last" THEN next.cp ELSE @])

\* The hint is a line the file has, and not the first.
HasHint(lines, thread) ==
  0 < thread.restart_from /\ thread.restart_from < Count(lines)

\* The first line from line "from" on whose code point is not below cp.
NotBelow(lines, from, cp) ==
  LET hits == {l \in from .. Count(lines) - 1 : Line(lines, l).cp >= cp}
  IN  IF hits = {} THEN Count(lines)
      ELSE CHOOSE l \in hits : \A k \in hits : l <= k

\* parse_unicode_lookup_cat behind the test of the stored range.
Search(lines, thread, cp) ==
  LET hint == Line(lines, thread.restart_from)
      line == NotBelow(lines, IF HasHint(lines, thread) /\ hint.cp < cp
                              THEN thread.restart_from ELSE 0, cp)
      last == Line(lines, Count(lines) - 1)
  IN  IF HasHint(lines, thread) /\ hint.cp = cp
      THEN Found(lines, thread, cp, hint, 0)
      ELSE IF line = Count(lines)
      THEN Answer("Cn", [thread EXCEPT !.in = TRUE, !.start = last.cp + 1,
                                       !.end = MaxCp, !.cat = "Cn"])
      ELSE IF Line(lines, line).cp = cp
      THEN Found(lines, thread, cp, Line(lines, line), line)
      ELSE Answer("Cn", [thread EXCEPT !.restart_from = TwoBefore(lines, line)])

InRange(thread, cp) == thread.in /\ thread.start <= cp /\ cp <= thread.end

\* unicode_data_parse_cp: in a text that is no UnicodeData.txt already the first
\* line has no code point.
Unreadable(lines) == Line(lines, 0).mark = "page"

\* parse_unicode_lookup_cat.
LookupCat(lines, thread, cp) ==
  IF InRange(thread, cp) THEN Answer(thread.cat, thread)
  ELSE IF Unreadable(lines) THEN Error(thread)
  ELSE Search(lines, [thread EXCEPT !.in = FALSE], cp)

----------------------------------------------------------------------------
(* What UnicodeData.txt says of a code point: a line of its own, or the    *)
(* range whose First and Last line it lies between.                        *)

WellFormed(lines) ==
  /\ lines # <<>>
  /\ \A k \in 1 .. Len(lines) - 1 : lines[k].cp < lines[k + 1].cp
  /\ \A k \in DOMAIN lines :
       /\ lines[k].mark = "first" => /\ k < Len(lines)
                                     /\ lines[k + 1].mark = "last"
                                     /\ lines[k + 1].cat = lines[k].cat
       /\ lines[k].mark = "last" => k > 1 /\ lines[k - 1].mark = "first"

\* The line whose range cp lies inside of: behind First, not behind Last.
Inside(lines, cp) ==
  {k \in 1 .. Len(lines) - 1 :
     lines[k].mark = "first" /\ lines[k].cp < cp /\ cp < lines[k + 1].cp}

CategoryOf(lines, cp) ==
  LET hits == {k \in DOMAIN lines : lines[k].cp = cp} \cup Inside(lines, cp)
  IN  IF hits = {} THEN "Cn" ELSE lines[CHOOSE k \in hits : TRUE].cat

\* The code point lies in a range that began before the chunk it is in.
SplitRange(lines, n, cp) ==
  \E i \in 0 .. n - 1 :
    /\ cp \in Chunk(n, i)
    /\ Inside(lines, cp) \cap Inside(lines, ChunkFirst(n, i)) # {}

----------------------------------------------------------------------------
(* Output files.  A text of '0' and '1' has one character per code point.  *)

Zero == 48
One == 49

\* dump_unicode_data_cat: the buffer of a category.
Buffer(table, cat) == [i \in CodePoint |-> IF table[i] \in Members(cat) THEN One ELSE Zero]

\* A faulty variant: a bit is never cleared.
SetBitOnly(word, bit, on) ==
  IF on /\ (word \div 2^bit) % 2 = 0 THEN word + 2^bit ELSE word

\* Bit number bit of word, set or cleared.
SetBit(word, bit, on) ==
  LET low == word % 2^bit
      high == word \div 2^(bit + 1)
  IN  high * 2^(bit + 1) + (IF on THEN 2^bit ELSE 0) + low

\* gen_bitset_decl for C: the words of width bits, the first code point in
\* the highest bit; "current" starts at 0 with every word.
Words(elems, width) ==
  LET one(s, i) ==
        LET bit == width - 1 - (i % width)
            current == SetBit(s.current, bit, elems[i] = One)
        IN  IF bit = 0 THEN [words |-> Append(s.words, current), current |-> 0]
            ELSE [s EXCEPT !.current = current]
      end == FoldLeft(one, [words |-> <<>>, current |-> 0],
                      [k \in 1 .. MaxCp + 1 |-> k - 1])
  IN  IF (MaxCp + 1) % width = 0 THEN end.words ELSE Append(end.words, end.current)

\* snprintf into num[]: of more than digits - 1 digits the last are cut off.
Printed(word, digits) ==
  IF word >= 10^(digits - 1) THEN word \div 10 ELSE word

\* compress_data: bytes of width bits, packed into the buffer they are read
\* from; "current" is never reset.
PackInPlace(elems, width) ==
  LET one(s, i) ==
        LET bit == width - (i % width) - 1
            current == SetBit(s.current, bit, s.data[i] = One)
        IN  [current |-> current,
             data |-> IF bit = 0 THEN [s.data EXCEPT ![i \div width] = current]
                      ELSE s.data]
      end == FoldLeft(one, [data |-> elems, current |-> 0],
                      [k \in 1 .. MaxCp + 1 |-> k - 1])
  IN  [k \in 1 .. (MaxCp + 1) \div width |-> end.data[k - 1]]

\* The code points a reader of the words finds in them.
Unpacked(words, width) ==
  {i \in CodePoint : (words[(i \div width) + 1] \div 2^(width - 1 - (i % width))) % 2 = 1}

=============================================================================
