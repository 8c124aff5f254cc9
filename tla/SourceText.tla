----------------------------- MODULE SourceText -----------------------------
(***************************************************************************)
(* The text helpers of common/sup_def.hpp: characters that remember where  *)
(* they were read, error messages that underline a word, splitting, the    *)
(* templates of pragmas with their numbered arguments, and the comparison  *)
(* of the places of pragmas.  All of it is data.                           *)
(*                                                                         *)
(* A character is a string; "nl" is the newline and "nul" the character 0. *)
(* Lines, columns and positions in the text count from 0, as in the code,  *)
(* positions in sequences from 1.  What can throw or abort is a record     *)
(* [ok, value].                                                            *)
(***************************************************************************)
EXTENDS Integers, Sequences, FiniteSets, SequencesExt

Fine(value) == [ok |-> TRUE, value |-> value]
Fails == [ok |-> FALSE, value |-> <<>>]

Blank == {" ", "tab"}
Space == Blank \cup {"nl"}

Digit == {"0", "1", "2", "3", "4", "5", "6", "7", "8", "9"}
ValueOf == [d \in Digit |->
  CASE d = "0" -> 0 [] d = "1" -> 1 [] d = "2" -> 2 [] d = "3" -> 3 [] d = "4" -> 4
    [] d = "5" -> 5 [] d = "6" -> 6 [] d = "7" -> 7 [] d = "8" -> 8 [] d = "9" -> 9]

----------------------------------------------------------------------------
(* ParsedChar, ParsedCharTraits, ParsedCharString.                         *)

ParsedChar(line, col, val) == [line |-> line, col |-> col, val |-> val]

\* The loop of every constructor and assignment from a string: newlines count
\* and are left out.
ParseText(text) ==
  LET one(s, c) == IF c = "nl" THEN [s EXCEPT !.line = @ + 1, !.col = 0]
                   ELSE [s EXCEPT !.col = @ + 1,
                                  !.chars = Append(@, ParsedChar(s.line, s.col, c))]
  IN  FoldLeft(one, [line |-> 0, col |-> 0, chars |-> <<>>], text).chars

\* Those from a pointer without a length stop at the character 0.
UpToNul(text) ==
  LET nuls == {k \in DOMAIN text : text[k] = "nul"}
  IN  SubSeq(text, 1, IF nuls = {} THEN Len(text) ELSE Min(nuls) - 1)

NewlineCount(s) == IF s = <<>> THEN 0 ELSE Last(s).line - s[1].line

\* data(): newlines are put back where the line goes up.
Data(s) ==
  LET up(k) == IF s[k].line > s[k - 1].line
               THEN [j \in 1 .. s[k].line - s[k - 1].line |-> "nl"] ELSE <<>>
      piece(k) == IF k = 1 THEN <<s[1].val>> ELSE Append(up(k), s[k].val)
  IN  IF s = <<>> THEN <<"nul">> ELSE FlattenSeq([k \in DOMAIN s |-> piece(k)])
DataRoom(s) == IF s = <<>> THEN 1 ELSE Len(s) + NewlineCount(s)

\* c_str(): the same and a 0, unless the last character is one.
HasNul(s) == s # <<>> /\ Last(s).val = "nul"
CStr(s) ==
  LET data == Data(s)
  IN  IF s = <<>> \/ HasNul(s) THEN data
      ELSE [k \in 1 .. Len(s) + NewlineCount(s) + 1 |->
              IF k = Len(s) + NewlineCount(s) + 1 THEN "nul" ELSE data[k]]
CStrRoom(s) == Len(s) + NewlineCount(s) + (IF HasNul(s) THEN 0 ELSE 1)

\* ParsedCharTraits::move within one array: downwards over itself it calls
\* copy, which asserts that nothing overlaps.
ParsedMove(array, to, from, n) ==
  LET overlap == (to <= from /\ from < to + n) \/ (from <= to /\ to < from + n)
      one(a, k) == LET i == IF overlap THEN n - k ELSE k - 1
                   IN  [a EXCEPT ![to + i] = a[from + i]]
  IN  IF overlap /\ to < from THEN Fails
      ELSE Fine(FoldLeft(one, array, [k \in 1 .. n |-> k]))

----------------------------------------------------------------------------
(* format_error: the word of the context that is underlined, as the range  *)
(* from start to before end.  The search for its beginning goes down to 0  *)
(* and on with the greatest number there is, at which at() throws out of a *)
(* function that does not throw.                                           *)

UnderlinedWord(context, col) ==
  LET size == Len(context)
      blanks == {i \in 0 .. size - 1 : context[i + 1] \in Blank}
      before == {i \in blanks : i <= col - 1}
      behind == {i \in blanks : i >= col - 1}
      start == Max(before) + 1
      end == IF behind = {} THEN size ELSE Min(behind)
  IN  IF col = 0 \/ col > size \/ before = {} \/ end < start THEN Fails
      ELSE Fine([start |-> start, end |-> end])

----------------------------------------------------------------------------
(* split_string.                                                           *)

\* By a character: what getline reads; nothing is behind a delimiter at the end.
SplitByChar(str, delim) ==
  LET one(s, c) == IF c = delim THEN [tokens |-> Append(s.tokens, s.token), token |-> <<>>]
                   ELSE [s EXCEPT !.token = Append(@, c)]
      end == FoldLeft(one, [tokens |-> <<>>, token |-> <<>>], str)
  IN  IF end.token = <<>> THEN end.tokens ELSE Append(end.tokens, end.token)

\* By a string of one character by that, by a longer one where find finds it
\* first; an empty one is found forever.
SplitByString(str, delim) ==
  LET hits(p) == {k \in p .. Len(str) - Len(delim) + 1 :
                    SubSeq(str, k, k + Len(delim) - 1) = delim}
      from[p \in 1 .. Len(str) + 1] ==
        IF hits(p) = {} THEN <<SubSeq(str, p, Len(str))>>
        ELSE <<SubSeq(str, p, Min(hits(p)) - 1)>> \o from[Min(hits(p)) + Len(delim)]
  IN  IF delim = <<>> THEN Fails
      ELSE Fine(IF Len(delim) = 1 THEN SplitByChar(str, delim[1]) ELSE from[1])

----------------------------------------------------------------------------
(* White space.                                                            *)

\* remove_whitespaces, everywhere and at the two ends.
RemoveWhitespaces(s, rm_nl) ==
  SelectSeq(s, LAMBDA c : c \notin (IF rm_nl THEN Space ELSE Blank))

RemoveAtEnds(s, rm_nl) ==
  LET ink == {k \in DOMAIN s : s[k] \notin (IF rm_nl THEN Space ELSE Blank)}
  IN  IF ink = {} THEN <<>> ELSE SubSeq(s, Min(ink), Max(ink))

SkipWhitespaces(str, cursor) ==
  LET ink == {p \in cursor .. Len(str) - 1 : str[p + 1] \notin Space}
  IN  IF ink # {} THEN Min(ink) ELSE IF cursor < Len(str) THEN Len(str) ELSE cursor

----------------------------------------------------------------------------
(* PragmaDef.                                                              *)

\* The constructor from the place of a pragma: the first line is its name,
\* what is behind it the template.
Pragma(text) ==
  LET ends == {k \in DOMAIN text : text[k] = "nl"}
      first == IF ends = {} THEN Len(text) ELSE Min(ends) - 1
  IN  [id |-> RemoveWhitespaces(SubSeq(text, 1, first), TRUE),
       body |-> RemoveAtEnds(SubSeq(text, first + 2, Len(text)), TRUE)]

\* The backslashes counted in front of position p: when they reach back to the
\* first character, the count goes on in front of the text, where there may be
\* "ahead" more.
Backslashes(body, p, ahead) ==
  LET others == {i \in 0 .. p - 1 : body[i + 1] # "\\"}
  IN  IF others = {} THEN p + ahead ELSE p - 1 - Max(others)

\* A faulty variant: the last digit is the number.
ArgNumberLast(digits) == ValueOf[digits[Len(digits)]]

\* An argument's number, in the eight bits it is added up in.
ArgNumber(digits) == FoldLeft(LAMBDA n, d : (10 * n + ValueOf[d]) % 256, 0, digits)

\* The walk over a template that get_argc and substitute share: pieces are the
\* characters kept and the numbers of the arguments.  pos falls behind by one
\* for each character skipped inside an argument.
WalkTemplate(body, ahead) ==
  LET closed(s) == [s EXCEPT !.pieces = Append(@, <<"arg", ArgNumber(s.digits)>>),
                             !.in_arg = FALSE, !.digits = <<>>]
      one(s, c) ==
        IF c = "$" /\ s.in_arg THEN s
        ELSE IF c = "$"
        THEN [s EXCEPT !.in_arg = Backslashes(body, s.pos, ahead) % 2 = 0, !.pos = @ + 1]
        ELSE IF ~s.in_arg THEN [s EXCEPT !.pieces = Append(@, <<"char", c>>), !.pos = @ + 1]
        ELSE IF c \in Digit THEN [s EXCEPT !.digits = Append(@, c), !.pos = @ + 1]
        ELSE IF s.digits = <<>> THEN s
        ELSE [closed(s) EXCEPT !.pos = @ + 1]
      end == FoldLeft(one, [pieces |-> <<>>, in_arg |-> FALSE, digits |-> <<>>, pos |-> 0], body)
  IN  IF end.in_arg /\ end.digits # <<>> THEN closed(end).pieces ELSE end.pieces

Numbers(pieces) == {pieces[k][2] : k \in {l \in DOMAIN pieces : pieces[l][1] = "arg"}}

GetArgc(body, ahead) == Max({0} \cup Numbers(WalkTemplate(body, ahead)))

\* substitute: the argument number 0 is the one in front of the first, which
\* is none.
Wild == <<"wild">>
Substitute(body, args, ahead) ==
  LET pieces == WalkTemplate(body, ahead)
      text(p) == IF p[1] = "char" THEN <<p[2]>> ELSE IF p[2] = 0 THEN Wild ELSE args[p[2]]
  IN  IF \E n \in Numbers(pieces) : n > Len(args) THEN Fails
      ELSE Fine(FlattenSeq([k \in DOMAIN pieces |-> text(pieces[k])]))

----------------------------------------------------------------------------
(* PragmaLocCompare: a place is the pair of its start and its end.  Every  *)
(* set of flags but the empty one asks for both.                           *)

LocEq(l, r, flags) == flags # {} /\ l[1] = r[1] /\ l[2] = r[2]
LocLt(l, r, flags) == flags # {} /\ l[1] < r[1] /\ l[2] < r[2]
LocGt(l, r, flags) == flags # {} /\ l[1] > r[1] /\ l[2] > r[2]
LocLe(l, r, flags) == flags # {} /\ l[1] <= r[1] /\ l[2] <= r[2]
LocGe(l, r, flags) == flags # {} /\ l[1] >= r[1] /\ l[2] >= r[2]

----------------------------------------------------------------------------
(* What is promised of words and places, for any line and any places.      *)

\* format_error underlines the word the column is in: it has no blank, and ends
\* at a blank or with the line.  It does not return when there is no such word,
\* nor when the word is the first of the line without a blank in front.
WordIsWhole(context, col) ==
  LET word == UnderlinedWord(context, col)
      inside(i) == i \in 0 .. Len(context) - 1
      blank(i) == inside(i) /\ context[i + 1] \in Blank
  IN  /\ word.ok <=> /\ inside(col - 1) /\ ~blank(col - 1)
                     /\ \E i \in 0 .. col - 1 : blank(i)
      /\ word.ok => LET w == word.value IN
           /\ w.start <= col - 1 /\ col - 1 < w.end
           /\ \A i \in w.start .. w.end - 1 : inside(i) /\ ~blank(i)
           /\ blank(w.start - 1) /\ (blank(w.end) \/ w.end = Len(context))

\* Whatever it is asked for, PragmaLocCompare compares both ends of two places:
\* one is less when it begins and ends earlier.  So two different places may be
\* neither less nor greater, and lt is not le without eq; but le and ge are each
\* other's converse and meet in eq, and lt implies le.
PlacesAgree(l, r, flags) ==
  /\ LocLt(l, r, flags) => LocLe(l, r, flags) /\ ~LocGe(l, r, flags)
  /\ LocLt(l, r, flags) = LocGt(r, l, flags) /\ LocLe(l, r, flags) = LocGe(r, l, flags)
  /\ LocEq(l, r, flags) <=> LocLe(l, r, flags) /\ LocGe(l, r, flags)
  /\ ~(LocLe(l, r, flags) \/ LocGe(l, r, flags))
       <=> flags = {} \/ (l[1] - r[1]) * (l[2] - r[2]) < 0
  /\ flags # {} => LocEq(l, r, flags) = (l = r)

=============================================================================
