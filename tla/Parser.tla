------------------------------- MODULE Parser --------------------------------
(***************************************************************************)
(* SupDef::Parser: a file is read, its comments are stripped, and two      *)
(* coroutines search it for import pragmas and for the blocks between a    *)
(* begin and an end pragma.  Both erase what they find from the same       *)
(* vector of lines, each with an index of its own, and the caller resumes  *)
(* them as it likes.                                                       *)
(*                                                                         *)
(* A character is one of those the comments depend on, an ordinary one     *)
(* ("a"), or a whole pragma, whose quotes come in pairs around ordinary    *)
(* characters.  A ParsedChar is a character with the number of its line in *)
(* the file.                                                               *)
(***************************************************************************)
EXTENDS Integers, Sequences, FiniteSets, SequencesExt

CONSTANTS
  Lines,      \* the lines files are made of
  MaxLines    \* bound on the lines of a file

NL == "newline"

\* A newline stands only at the end of a line.
ASSUME LinesAssumption ==
  /\ MaxLines \in Nat
  /\ \A line \in Lines : line \in Seq(STRING) /\ \A k \in DOMAIN line : line[k] # NL

Quote == "quote"
BlankCh == "blank"
Backslash == "backslash"
BeginName == [b \in {"begin_A", "begin_B"} |-> IF b = "begin_A" THEN "A" ELSE "B"]
EndName == [e \in {"end_A", "end_B"} |-> IF e = "end_A" THEN "A" ELSE "B"]

Coroutines == {"search_imports", "search_super_defines"}

VARIABLES
  file,           \* the lines of the file, and whether the last one is ended
  stage,          \* which of slurp_file and strip_comments have been called
  raw,            \* file_content_raw
  content,        \* file_content
  lines,          \* this->lines
  stripped,       \* this->lines as strip_comments left it
  raw_copy,       \* file_content_raw_copy of strip_comments
  pos,            \* the position its loop looks at
  in_str_lit,     \* and whether that is in a string literal
  state,          \* state[c]: how far the coroutine c is
  i,              \* i[c]: its index in lines
  running,        \* the coroutine that runs, or "caller"
  mixed,          \* a coroutine was resumed while the other had not ended
  imported,        \* the lines of the imported found
  blocks,         \* the blocks found
  in_supdef_body, \* search_super_defines is inside a block
  block           \* the block it is in

files == <<file, stage, raw, stripped>>
loop_vars == <<raw_copy, pos, in_str_lit>>
searches == <<state, i, running, mixed>>
found == <<imported, blocks, in_supdef_body, block>>
parserVars == <<files, loop_vars, content, lines, searches, found>>

NoBlock == [name |-> "none", start |-> 0, end |-> 0, body |-> <<>>]

ParserInit ==
  /\ file \in [text : UNION {[1 .. n -> Lines] : n \in 1 .. MaxLines}, ended : BOOLEAN]
  /\ stage = "created"
  /\ raw = <<>>
  /\ content = <<>>
  /\ lines = <<>>
  /\ stripped = <<>>
  /\ raw_copy = <<>> /\ pos = 1 /\ in_str_lit = FALSE
  /\ state = [c \in Coroutines |-> "created"]
  /\ i = [c \in Coroutines |-> 1]
  /\ running = "caller"
  /\ mixed = FALSE
  /\ imported = <<>>
  /\ blocks = <<>>
  /\ in_supdef_body = FALSE
  /\ block = NoBlock

-----------------------------------------------------------------------------
(* slurp_file *)

Chars(text) == [k \in DOMAIN text |-> text[k].ch]

\* The line n of the file as ParsedChars, its newline included.
Parsed(n) ==
  [k \in 1 .. Len(file.text[n]) + 1 |->
    [line |-> n, ch |-> IF k <= Len(file.text[n]) THEN file.text[n][k] ELSE NL]]

Whole ==
  LET upto[n \in 0 .. Len(file.text)] == IF n = 0 THEN <<>> ELSE upto[n - 1] \o Parsed(n)
  IN upto[Len(file.text)]

\* Split at the newlines; what follows the last one is dropped.
Split(text) ==
  LET upto[k \in 0 .. Len(text)] ==
        IF k = 0 THEN [lines |-> <<>>, line |-> <<>>]
        ELSE LET so == upto[k - 1] IN
          IF text[k].ch = NL THEN [lines |-> Append(so.lines, so.line), line |-> <<>>]
          ELSE [so EXCEPT !.line = Append(@, text[k])]
  IN upto[Len(text)].lines

\* Only the raw content has a last line that no newline ends.
SlurpFile ==
  LET last == Len(Parsed(Len(file.text))) IN
  /\ stage = "created"
  /\ stage' = "slurped"
  /\ raw' = Chars(IF file.ended THEN Whole ELSE Front(Whole))
  /\ content' = IF file.ended THEN Whole ELSE SubSeq(Whole, 1, Len(Whole) - last)
  /\ lines' = Split(content')
  /\ UNCHANGED <<file, stripped, loop_vars, searches, found>>

-----------------------------------------------------------------------------
(* strip_comments *)

CommentAt(text, k) == k < Len(text) /\ text[k] = "/" /\ text[k + 1] \in {"/", "*"}

\* The first of the positions, or 0.
First(S) == IF S = {} THEN 0 ELSE CHOOSE k \in S : \A m \in S : k <= m
Find(text, ch, from) == First({k \in from .. Len(text) : text[k] = ch})

\* The newline that ends the comment at k: a backslash anywhere before a
\* newline takes the next line with it.  A search that fails (0) goes on at the
\* start.
LineEnd(text, k) ==
  LET TakesNext(r) == r.bsl # 0 /\ (r.nl = 0 \/ (r.bsl < r.nl /\ r.nl < Len(text)))
      round[n \in 0 .. Len(text)] ==
        IF n = 0 THEN [nl |-> Find(text, NL, k), bsl |-> Find(text, Backslash, k)]
        ELSE LET r == round[n - 1] IN
          IF TakesNext(r)
          THEN [nl |-> Find(text, NL, r.nl + 1), bsl |-> Find(text, Backslash, r.bsl + 1)]
          ELSE r
  IN round[Len(text)].nl

\* The text without the positions from k to m - 1.
Cut(text, k, m) == SubSeq(text, 1, k - 1) \o SubSeq(text, m, Len(text))

\* The blanks before position k.
Blanks(text, k) == Cardinality({m \in 1 .. k - 1 : \A j \in m .. k - 1 : text[j] = BlankCh})

StartStripping ==
  /\ stage = "slurped"
  /\ IF content = <<>>
     THEN stage' = "internal_error" /\ UNCHANGED raw_copy
     ELSE stage' = "stripping" /\ raw_copy' = raw
  /\ UNCHANGED <<file, raw, stripped, pos, in_str_lit, content, lines, searches, found>>

\* The loop looks at a character.
AtChar == stage = "stripping" /\ pos <= Len(raw_copy)
AtComment == AtChar /\ ~in_str_lit /\ CommentAt(raw_copy, pos)

ReadQuote ==
  /\ AtChar /\ raw_copy[pos] = Quote
  /\ in_str_lit' = ((pos > 1 /\ raw_copy[pos - 1] # Backslash) # in_str_lit)
  /\ pos' = pos + 1
  /\ UNCHANGED <<files, raw_copy, content, lines, searches, found>>

ReadChar ==
  /\ AtChar /\ raw_copy[pos] # Quote /\ ~AtComment
  /\ pos' = pos + 1
  /\ UNCHANGED <<files, raw_copy, in_str_lit, content, lines, searches, found>>

\* Both contents lose the positions from k to m - 1.  The ParsedChars end
\* earlier than the characters when no newline ends the file.
CanErase(k, m) == k <= m /\ m <= Len(content) + 1

\* The comment goes up to its newline or to the end of the file, with the
\* blanks before it only up to a newline.
StripLine ==
  LET nl == LineEnd(raw_copy, pos)
      from == IF nl = 0 THEN pos ELSE pos - Blanks(raw_copy, pos)
      upto(text) == IF nl = 0 THEN Len(text) + 1 ELSE nl
  IN /\ AtComment /\ raw_copy[pos + 1] = "/"
     /\ IF CanErase(pos, upto(content))
        THEN /\ raw_copy' = Cut(raw_copy, from, upto(raw_copy))
             /\ content' = Cut(content, from, upto(content))
             /\ pos' = from
             /\ UNCHANGED stage
        ELSE /\ stage' = "undefined"
             /\ UNCHANGED <<raw_copy, content, pos>>
     /\ UNCHANGED <<file, raw, stripped, in_str_lit, lines, searches, found>>

\* A blank takes the place of the comment and the line of what follows it.
AddBlank(text, k) ==
  InsertAt(text, k, [line |-> text[IF k > Len(text) THEN k - 1 ELSE k].line, ch |-> BlankCh])

\* The end is searched from the start of the comment on.
StripBlock ==
  LET last == First({m \in pos .. Len(raw_copy) - 1 : raw_copy[m] = "*" /\ raw_copy[m + 1] = "/"})
      upto(text) == IF last + 1 = Len(raw_copy) THEN Len(text) + 1 ELSE last + 2
      rest == Cut(content, pos, upto(content))
      problem == IF last = 0 THEN "syntax_error"
                 ELSE IF ~CanErase(pos, upto(content)) THEN "undefined"
                 ELSE IF rest = <<>> THEN "internal_error" ELSE "none"
  IN /\ AtComment /\ raw_copy[pos + 1] = "*"
     /\ IF problem = "none"
        THEN /\ raw_copy' = InsertAt(Cut(raw_copy, pos, upto(raw_copy)), pos, BlankCh)
             /\ content' = AddBlank(rest, pos)
             /\ UNCHANGED stage
        ELSE /\ stage' = problem
             /\ content' = IF problem = "internal_error" THEN rest ELSE content
             /\ UNCHANGED raw_copy
     /\ UNCHANGED <<file, raw, stripped, pos, in_str_lit, lines, searches, found>>

\* Both contents must be the same in the end.  A text that could not be
\* stripped is left half done, and nobody reads it again.
EndStripping ==
  /\ stage = "stripping" /\ pos > Len(raw_copy)
  /\ IF raw_copy = Chars(content)
     THEN stage' = "stripped" /\ lines' = Split(content)
     ELSE stage' = "internal_error" /\ UNCHANGED lines
  /\ stripped' = lines'
  /\ UNCHANGED <<file, raw, loop_vars, content, searches, found>>

-----------------------------------------------------------------------------
(* The coroutines.  One runs until it yields or ends.                       *)

ResumeSearch(c) ==
  /\ stage = "stripped"
  /\ running = "caller"
  /\ state[c] \in {"created", "suspended"}
  /\ running' = c
  /\ state' = [state EXCEPT ![c] =
       IF @ = "created" /\ (content = <<>> \/ lines = <<>>) THEN "empty" ELSE "running"]
  /\ mixed' = (mixed \/ \E d \in Coroutines \ {c} : state[d] = "suspended")
  /\ UNCHANGED <<files, loop_vars, content, lines, i, found>>

\* A coroutine that found nothing to search reports an error.
ReturnEmpty(c) ==
  /\ state[c] = "empty"
  /\ state' = [state EXCEPT ![c] = "error"]
  /\ running' = "caller"
  /\ UNCHANGED <<files, loop_vars, content, lines, i, mixed, found>>

Running(c) == running = c /\ state[c] = "running"
AtLine(c) == Running(c) /\ i[c] <= Len(lines)

Yields(c) ==
  /\ running' = "caller"
  /\ state' = [state EXCEPT ![c] = "suspended"]
EndsInError(c) ==
  /\ running' = "caller"
  /\ state' = [state EXCEPT ![c] = "error"]
KeepsRunning == UNCHANGED <<running, state>>

\* The line is erased, so the index stays where it is.
Takes(c) == lines' = RemoveAt(lines, i[c]) /\ UNCHANGED i

Leaves(c) == i' = [i EXCEPT ![c] = @ + 1] /\ UNCHANGED lines

\* The pragma of a line that holds nothing else, or "none".
Marks(line) == {k \in DOMAIN line : line[k].ch # BlankCh}
PragmaOf(line) ==
  IF \E k \in DOMAIN line : Marks(line) = {k}
  THEN line[CHOOSE k \in DOMAIN line : Marks(line) = {k}].ch ELSE "none"

\* An import pragma with more behind it: of the forms that are rejected, the
\* one that any import pragma can be given.
BadImport(line) == Cardinality(Marks(line)) > 1 /\ line[First(Marks(line))].ch = "import"

\* The line number that is reported.
CurrLine(line) == line[1].line

\* What remains is the new file_content.  A newline stands at the line of the
\* character before it.
Joined(text) ==
  LET upto[n \in 0 .. Len(text)] ==
        IF n = 0 THEN <<>>
        ELSE LET both == upto[n - 1] \o text[n] IN
          Append(both, [line |-> IF both = <<>> THEN 1 ELSE Last(both).line, ch |-> NL])
  IN upto[Len(text)]

End(c) ==
  /\ Running(c)
  /\ i[c] > Len(lines)
  /\ content' = Joined(lines)
  /\ running' = "caller"
  /\ state' = [state EXCEPT ![c] = "null"]
  /\ UNCHANGED <<files, loop_vars, lines, i, mixed, found>>

-----------------------------------------------------------------------------
(* search_imports *)

SI == "search_imports"

FindImport ==
  /\ AtLine(SI)
  /\ PragmaOf(lines[i[SI]]) = "import"
  /\ imported' = Append(imported, lines[i[SI]])
  /\ Takes(SI)
  /\ Yields(SI)
  /\ UNCHANGED <<files, loop_vars, content, mixed, blocks, in_supdef_body, block>>

\* An error is yielded, and the search goes on when it is resumed.
RejectImport ==
  /\ AtLine(SI)
  /\ BadImport(lines[i[SI]])
  /\ Leaves(SI)
  /\ Yields(SI)
  /\ UNCHANGED <<files, loop_vars, content, mixed, found>>

PassLine ==
  /\ AtLine(SI)
  /\ PragmaOf(lines[i[SI]]) # "import" /\ ~BadImport(lines[i[SI]])
  /\ Leaves(SI)
  /\ KeepsRunning
  /\ UNCHANGED <<files, loop_vars, content, mixed, found>>

-----------------------------------------------------------------------------
(* search_super_defines *)

SSD == "search_super_defines"
Line == lines[i[SSD]]

BeginBlock ==
  /\ AtLine(SSD)
  /\ PragmaOf(Line) \in DOMAIN BeginName
  /\ IF in_supdef_body
     THEN /\ EndsInError(SSD)
          /\ UNCHANGED <<lines, i, in_supdef_body, block>>
     ELSE /\ block' = [NoBlock EXCEPT !.name = BeginName[PragmaOf(Line)], !.start = CurrLine(Line)]
          /\ in_supdef_body' = TRUE
          /\ Takes(SSD)
          /\ KeepsRunning
  /\ UNCHANGED <<files, loop_vars, content, mixed, imported, blocks>>

EndBlock ==
  /\ AtLine(SSD)
  /\ PragmaOf(Line) \in DOMAIN EndName
  /\ IF in_supdef_body /\ EndName[PragmaOf(Line)] = block.name
     THEN /\ blocks' = Append(blocks, [block EXCEPT !.end = CurrLine(Line)])
          /\ in_supdef_body' = FALSE
          /\ Takes(SSD)
          /\ Yields(SSD)
     ELSE /\ EndsInError(SSD)
          /\ UNCHANGED <<lines, i, in_supdef_body, blocks>>
  /\ UNCHANGED <<files, loop_vars, content, mixed, imported, block>>

IsText(line) == line # <<>> /\ PragmaOf(line) \notin DOMAIN BeginName \cup DOMAIN EndName

\* Faulty variant: the body is written anew by every line of it.
BodyLineOnce ==
  /\ AtLine(SSD)
  /\ IsText(Line) /\ in_supdef_body
  /\ block' = [block EXCEPT !.body = <<Line>>]
  /\ Takes(SSD)
  /\ KeepsRunning
  /\ UNCHANGED <<files, loop_vars, content, mixed, imported, blocks, in_supdef_body>>

BodyLine ==
  /\ AtLine(SSD)
  /\ IsText(Line) /\ in_supdef_body
  /\ block' = [block EXCEPT !.body = Append(@, Line)]
  /\ Takes(SSD)
  /\ KeepsRunning
  /\ UNCHANGED <<files, loop_vars, content, mixed, imported, blocks, in_supdef_body>>

\* Empty lines stay outside, also those of a block.
OutsideLine ==
  /\ AtLine(SSD)
  /\ Line = <<>> \/ (IsText(Line) /\ ~in_supdef_body)
  /\ Leaves(SSD)
  /\ KeepsRunning
  /\ UNCHANGED <<files, loop_vars, content, mixed, found>>

-----------------------------------------------------------------------------
ParserNext ==
  \/ SlurpFile
  \/ StartStripping \/ ReadQuote \/ ReadChar \/ StripLine \/ StripBlock \/ EndStripping
  \/ \E c \in Coroutines : ResumeSearch(c) \/ ReturnEmpty(c) \/ End(c)
  \/ FindImport \/ RejectImport \/ PassLine
  \/ BeginBlock \/ EndBlock \/ BodyLine \/ OutsideLine

ParserSpec == ParserInit /\ [][ParserNext]_parserVars

-----------------------------------------------------------------------------
(* Properties *)

\* A character stands in its line, blanks and newlines aside.
IsParsed(text) ==
  \A k \in DOMAIN text :
    /\ text[k].line \in DOMAIN file.text
    /\ text[k].ch \in {BlankCh, NL} \cup ToSet(file.text[text[k].line])

\* Every variable holds a value of its type; the index of a coroutine that has
\* a line to look at is in range.
ParserTypeOK ==
  /\ stage \in {"created", "slurped", "stripping", "stripped",
                "syntax_error", "internal_error", "undefined"}
  /\ pos \in 1 .. Len(raw_copy) + 1 /\ in_str_lit \in BOOLEAN
  /\ IsParsed(content)
  /\ \A n \in DOMAIN lines : IsParsed(lines[n]) /\ \A k \in DOMAIN lines[n] : lines[n][k].ch # NL
  /\ state \in [Coroutines -> {"created", "empty", "running", "suspended", "null", "error"}]
  /\ i \in [Coroutines -> 1 .. Len(stripped) + 1]
  /\ running \in Coroutines \cup {"caller"}
  /\ mixed \in BOOLEAN /\ in_supdef_body \in BOOLEAN
  /\ in_supdef_body => block.name \in {"A", "B"}

\* What a C compiler makes of the comments, in words of positions: a position
\* belongs to a comment that started at the last position that could start one.
\* Texts with a quote at the start, a backslash, or the characters / * / are
\* not covered: strip_comments reads those differently.
Covered(text) ==
  /\ text[1] # Quote
  /\ \A k \in DOMAIN text : text[k] # Backslash
  /\ \A k \in 1 .. Len(text) - 2 : ~(text[k] = "/" /\ text[k + 1] = "*" /\ text[k + 2] = "/")

\* The mode of a lexer behind the first k characters.  "*/" and the opening
\* characters take two positions.
Lexer(text) ==
  LET mode[k \in 0 .. Len(text)] ==
        IF k = 0 THEN "code"
        ELSE LET m == mode[k - 1] ch == text[k] last == IF k = 1 THEN NL ELSE text[k - 1] IN
          CASE m = "code" /\ ch = Quote -> "string"
            [] m = "string" /\ ch = Quote -> "code"
            [] m = "code" /\ CommentAt(text, k) -> "opening"
            [] m = "opening" -> IF ch = "/" THEN "line" ELSE "block"
            [] m = "line" /\ ch = NL -> "code"
            [] m = "block" /\ last = "*" /\ ch = "/" -> "closed"
            [] m = "closed" -> IF ch = Quote THEN "string"
                               ELSE IF CommentAt(text, k) THEN "opening" ELSE "code"
            [] OTHER -> m
  IN mode

\* The positions of a text that pass the test, in order.
Where(text, Test(_)) == SelectSeq([k \in DOMAIN text |-> k], Test)

\* The characters a compiler sees, with a mark where a line comment starts: a
\* block comment is one blank.
Marked(text) ==
  LET mode == Lexer(text)
      LineComment(k) == mode[k] = "opening" /\ text[k + 1] = "/"
      order == Where(text, LAMBDA k : mode[k] \in {"code", "string", "closed"} \/ LineComment(k))
  IN [n \in DOMAIN order |-> IF LineComment(order[n]) THEN "mark"
                             ELSE IF mode[order[n]] = "closed" THEN BlankCh ELSE text[order[n]]]

\* The marks are taken out again, with the blanks before them.
Seen(text) ==
  LET marked == Marked(text)
      Leads(k) == \E m \in k .. Len(marked) :
        marked[m] = "mark" /\ \A j \in k .. m - 1 : marked[j] = BlankCh
      order == Where(marked, LAMBDA k : ~Leads(k))
  IN [n \in DOMAIN order |-> marked[order[n]]]

\* strip_comments leaves what a compiler sees, blanks before a line comment
\* aside, and fails only when a block comment is not closed.
StripIsExact ==
  stage \notin {"created", "slurped", "stripping"} /\ file.ended /\ Covered(raw)
  /\ (\A c \in Coroutines : state[c] = "created") =>
    IF Lexer(raw)[Len(raw)] = "block" THEN stage = "syntax_error"
    ELSE stage = "stripped" /\ Chars(content) = Seen(raw)

\* The lines of the file a block was found in are the lines of its pragmas.  A
\* pragma behind the end of a block comment is reported where the line begins
\* that the comment made of several.
LocationsAreReal ==
  \A n \in DOMAIN blocks :
    LET b == blocks[n]
        Holds(line, pragma) == \E k \in DOMAIN file.text[line] :
          file.text[line][k] = pragma
            \/ (k < Len(file.text[line]) /\ file.text[line][k] = "/" /\ file.text[line][k + 1] = "*")
    IN /\ b.start < b.end
       /\ \E p \in DOMAIN BeginName : BeginName[p] = b.name /\ Holds(b.start, p)
       /\ \E p \in DOMAIN EndName : EndName[p] = b.name /\ Holds(b.end, p)
       /\ n > 1 => blocks[n - 1].end < b.start

\* However the searches are resumed, no text is lost or doubled: a line that is
\* no pragma is in the file or in the body of one block.
Bodies == [n \in DOMAIN blocks |-> blocks[n].body] \o IF in_supdef_body THEN <<block.body>> ELSE <<>>
TextIsKept ==
  LET places == <<lines>> \o Bodies
  IN stage = "stripped" =>
       \A n \in DOMAIN stripped : LET line == stripped[n] IN
         IsText(line) /\ PragmaOf(line) # "import" =>
           Cardinality({pl \in DOMAIN places : line \in ToSet(places[pl])}) = 1

\* When one search ran to its end after the other, the blocks are what stands
\* between a begin and the end of the same name, and no import is left.
BlocksAreExact ==
  LET Is(n, names) == PragmaOf(stripped[n]) \in DOMAIN names
      Pairs == {p \in (DOMAIN stripped) \X (DOMAIN stripped) :
                 /\ p[1] < p[2] /\ Is(p[1], BeginName) /\ Is(p[2], EndName)
                 /\ \A n \in p[1] + 1 .. p[2] - 1 : ~Is(n, BeginName) /\ ~Is(n, EndName)}
      Body(p) == {stripped[n] : n \in p[1] + 1 .. p[2] - 1} \ ({<<>>} \cup ToSet(imported))
  IN /\ state[SSD] = "null" /\ ~mixed =>
          /\ Len(blocks) = Cardinality(Pairs)
          /\ \A n \in DOMAIN blocks : \E p \in Pairs :
               /\ BeginName[PragmaOf(stripped[p[1]])] = blocks[n].name
               /\ EndName[PragmaOf(stripped[p[2]])] = blocks[n].name
               /\ Body(p) \subseteq ToSet(blocks[n].body)
     /\ state[SI] = "null" /\ ~mixed =>
          \A n \in DOMAIN lines : PragmaOf(lines[n]) # "import"

\* Whatever order the two searches are resumed in, they find the blocks that are
\* there, where they are, and lose no text.
ParserIsExact == ParserTypeOK /\ LocationsAreReal /\ TextIsKept /\ BlocksAreExact
=============================================================================
