---------------------------- MODULE NomaiFormat ----------------------------
(* The `.nomai` text format (nomai_format.rs): how titles and other header    *)
(* values, tags, the attributes of a @connection block and block bodies are   *)
(* quoted when a document is rendered and read back when it is parsed.  The   *)
(* quoting rules are what the properties are about, so texts are sequences of *)
(* the characters that the rules tell apart.  A document is one section of a  *)
(* kind; the sections do not influence each other, except that an unreadable  *)
(* one makes the whole file unreadable, and that nothing keeps a client's     *)
(* title, tag or attribute from having line breaks: what follows one in the   *)
(* file is no longer a part of the section.                                   *)
(* Tab stands for all white space but spaces and line breaks (a carriage      *)
(* return too, which goes with the line break behind it); carriage returns in *)
(* bodies are left out.                                                       *)
EXTENDS Naturals, SequencesExt

CONSTANTS Unreadable, \* the result of parsing what cannot be read
          MaxRaw,     \* bound: characters of a section of a file that a person writes
          MaxText,    \* bound: characters of a text that a client sends, line breaks included
          MaxLines    \* bound: lines of a body

VARIABLES file, \* the section in the file
          doc,  \* the section in the row and its blocks
          from  \* where doc came from: "none", "client", "file"

vars == <<file, doc, from>>

Quote == "quote"
Backslash == "backslash"
White == {"space", "tab"}
\* The characters of a line, which at its start a # and an @ are told from, and
\* those of a text of a client.
Chars == {"letter", "comma", Quote, Backslash} \union White
Break == "break"
TextChars == Chars \union {"hash", "at", Break}
Nothing == [kind |-> "none"]
Section(k, x) == [kind |-> k, text |-> x]

Raw(n) == SeqOf(Chars, n)
Texts(n) == SeqOf(TextChars, n)

\* What cannot be read is no text that a client could have sent.
FormatAssumption ==
  /\ MaxRaw \in Nat /\ MaxText \in Nat /\ MaxLines \in Nat
  /\ \A s \in Texts(MaxText) : s # Unreadable

Has(s, c) == c \in Range(s)
Starts(line, c) == line # <<>> /\ line[1] = c

Trim(s) ==
  LET kept == {i \in DOMAIN s : s[i] \notin White}
  IN IF kept = {} THEN <<>> ELSE SubSeq(s, Min(kept), Max(kept))

\* A slip: backslashes are escaped as well, though the parser does not expect it.
EscapedBoth(s) ==
  FlattenSeq([i \in DOMAIN s |-> IF s[i] \in {Quote, Backslash} THEN <<Backslash, s[i]>> ELSE <<s[i]>>])

\* A quote inside a quoted text gets a backslash; a backslash does not.
Escaped(s) == FlattenSeq([i \in DOMAIN s |-> IF s[i] = Quote THEN <<Backslash, Quote>> ELSE <<s[i]>>])
Wrapped(s) == <<Quote>> \o Escaped(s) \o <<Quote>>

--------------------------------------------------------------------------
(* Header values and attribute values.                                        *)

EscapeValue(v) ==
  IF v = <<>> \/ Has(v, "space") \/ Has(v, Quote) \/ Has(v, "comma") THEN Wrapped(v) ELSE v

\* A backslash takes the next character with it, and goes only before a quote.
UnescapeStep(a, c) ==
  IF a.esc THEN [out |-> a.out \o (IF c = Quote THEN <<c>> ELSE <<Backslash, c>>), esc |-> FALSE]
  ELSE IF c = Backslash THEN [a EXCEPT !.esc = TRUE]
  ELSE [a EXCEPT !.out = Append(@, c)]

UnescapePairs(s) ==
  LET end == FoldLeft(UnescapeStep, [out |-> <<>>, esc |-> FALSE], s)
  IN IF end.esc THEN Append(end.out, Backslash) ELSE end.out

UnescapeValue(s) ==
  LET t == Trim(s)
  IN IF t = <<>> \/ t[1] # Quote THEN t
     ELSE IF Len(t) < 2 \/ Last(t) # Quote THEN Unreadable
     ELSE UnescapePairs(SubSeq(t, 2, Len(t) - 1))

--------------------------------------------------------------------------
(* Line breaks.  A section of a header is what its first line says.           *)

Breaks(s) == {i \in DOMAIN s : s[i] = Break}
FirstLine(s) == IF Breaks(s) = {} THEN s ELSE SubSeq(s, 1, Min(Breaks(s)) - 1)
LaterLines(s) == {FirstLine(SubSeq(s, i + 1, Len(s))) : i \in Breaks(s)}

\* A # and a key, white space, and a value that can be read.
IsHeader(line) ==
  /\ Starts(line, "hash")
  /\ \E i \in DOMAIN line :
       /\ line[i] \in White
       /\ \A j \in 1..(i - 1) : line[j] \notin White
       /\ UnescapeValue(SubSeq(line, i + 1, Len(line))) # Unreadable

\* The lines behind a header's first: blank ones and headers of their own can be read;
\* behind the attributes of a block they are lines of its body, unless an @ starts a
\* block (no type is spelt with our letters).
GoOnAsHeaders(s) == \A line \in LaterLines(s) : line = <<>> \/ IsHeader(line)
GoOnAsBody(s) == \A line \in LaterLines(s) : ~Starts(line, "at")

--------------------------------------------------------------------------
(* Tags.                                                                      *)

\* A slip: a quote alone does not put a tag in quotes.
RenderTagForCommas(t) == IF Has(t, "comma") THEN Wrapped(t) ELSE t

\* Only a comma or a quote puts a tag in quotes.
RenderTag(t) == IF Has(t, "comma") \/ Has(t, Quote) THEN Wrapped(t) ELSE t

RenderTags(ts) ==
  FlattenSeq([i \in DOMAIN ts |-> (IF i = 1 THEN <<>> ELSE <<"comma">>) \o RenderTag(ts[i])])

\* In quotes a backslash is dropped and keeps the next character.
QuotedTagStep(a, c) ==
  IF a.esc THEN [a EXCEPT !.cur = Append(@, c), !.esc = FALSE]
  ELSE IF c = Quote THEN [a EXCEPT !.quote = FALSE]
  ELSE IF c = Backslash THEN [a EXCEPT !.esc = TRUE]
  ELSE [a EXCEPT !.cur = Append(@, c)]

BareTagStep(a, c) ==
  IF c = Quote THEN [a EXCEPT !.quote = TRUE, !.cur = IF Trim(@) = <<>> THEN <<>> ELSE @]
  ELSE IF c = "comma" THEN [a EXCEPT !.tags = Append(@, a.cur), !.cur = <<>>]
  ELSE [a EXCEPT !.cur = Append(@, c)]

TagStep(a, c) == IF a.quote THEN QuotedTagStep(a, c) ELSE BareTagStep(a, c)

ParseTags(s) ==
  LET t == Trim(s)
      end == FoldLeft(TagStep, [tags |-> <<>>, cur |-> <<>>, quote |-> FALSE, esc |-> FALSE], t)
  IN IF t = <<>> THEN <<>> ELSE IF end.quote THEN Unreadable ELSE Append(end.tags, end.cur)

--------------------------------------------------------------------------
(* The attributes of a @connection, which must have both.                     *)

Keys == {"relation=", "target="}

RenderAttrs(d) ==
  <<"relation=">> \o EscapeValue(d["relation="]) \o <<"space", "target=">> \o EscapeValue(d["target="])

\* White space outside quotes ends a token; in quotes a backslash takes the
\* next character with it.
TokenStep(a, c) ==
  IF a.quote
  THEN [a EXCEPT !.cur = Append(@, c),
                 !.esc = ~a.esc /\ c = Backslash,
                 !.quote = a.esc \/ c # Quote]
  ELSE IF c \in White
  THEN [a EXCEPT !.cur = <<>>, !.toks = IF a.cur = <<>> THEN @ ELSE Append(@, a.cur)]
  ELSE [a EXCEPT !.cur = Append(@, c), !.quote = c = Quote]

SplitTokens(s) ==
  LET end == FoldLeft(TokenStep, [toks |-> <<>>, cur |-> <<>>, quote |-> FALSE, esc |-> FALSE], s)
  IN IF end.cur = <<>> THEN end.toks ELSE Append(end.toks, end.cur)

ParseAttrs(s) ==
  LET toks == SplitTokens(Trim(s))
      value(k) == UnescapeValue(Tail(toks[Max({i \in DOMAIN toks : toks[i][1] = k})]))
  IN IF \/ \E i \in DOMAIN toks : Range(toks[i]) \intersect Keys = {}
        \/ \E k \in Keys : \A i \in DOMAIN toks : toks[i][1] # k
        \/ \E i \in DOMAIN toks : toks[i][1] \in Keys /\ UnescapeValue(Tail(toks[i])) = Unreadable
     THEN Unreadable
     ELSE [k \in Keys |-> value(k)]

--------------------------------------------------------------------------
(* Bodies: the lines of the blocks that follow a first block header.  The     *)
(* line <<"at", "letter">> is the header of another block; any other line     *)
(* that starts with an @ has an unknown type.                                 *)

LineChars == {"letter", "at", Backslash}
Lines == SeqOf(LineChars, 2)
Header == <<"at", "letter">>
EscapedAt(line) == Starts(line, Backslash) /\ Starts(Tail(line), "at")

\* Blank lines at the end of a block separate it from the next.
WithoutSeparators(lines) ==
  LET kept == {i \in DOMAIN lines : lines[i] # <<>>}
  IN IF kept = {} THEN <<>> ELSE SubSeq(lines, 1, Max(kept))

RenderLine(line) == IF Starts(line, "at") THEN <<Backslash>> \o line ELSE line
RenderLines(lines) == [j \in DOMAIN lines |-> RenderLine(lines[j])]

\* The row's text has no line break at its end; create and rerender append one, which
\* makes a blank line of the text without lines.
Ended(lines) == IF lines = <<>> THEN << <<>> >> ELSE lines

RenderBody(bs) ==
  FlattenSeq([i \in DOMAIN bs |-> (IF i = 1 THEN <<>> ELSE << <<>>, Header >>)
                                    \o RenderLines(Ended(bs[i]))])

\* A line with an @ starts a block; any other belongs to the last one.
LineStep(a, line) ==
  IF Starts(line, "at") THEN [a EXCEPT !.bad = @ \/ line # Header, !.blocks = Append(@, <<>>)]
  ELSE [a EXCEPT !.blocks[Len(a.blocks)] =
          Append(@, IF EscapedAt(line) THEN Tail(line) ELSE line)]

ParseBody(lines) ==
  LET end == FoldLeft(LineStep, [blocks |-> << <<>> >>, bad |-> FALSE], lines)
  IN IF end.bad THEN Unreadable
     ELSE [i \in DOMAIN end.blocks |-> WithoutSeparators(end.blocks[i])]

--------------------------------------------------------------------------
Render(d) ==
  Section(d.kind, CASE d.kind = "value" -> EscapeValue(d.text)
                    [] d.kind = "tags"  -> RenderTags(d.text)
                    [] d.kind = "attrs" -> RenderAttrs(d.text)
                    [] d.kind = "body"  -> RenderBody(d.text))

Parse(f) ==
  LET s == f.text
      x == CASE f.kind = "value" -> IF GoOnAsHeaders(s) THEN UnescapeValue(FirstLine(s)) ELSE Unreadable
             [] f.kind = "tags"  -> IF GoOnAsHeaders(s) THEN ParseTags(FirstLine(s)) ELSE Unreadable
             [] f.kind = "attrs" -> IF GoOnAsBody(s) THEN ParseAttrs(FirstLine(s)) ELSE Unreadable
             [] f.kind = "body"  -> ParseBody(s)
  IN Section(f.kind, x)

Readable(d) == d.text # Unreadable

Init == file = Nothing /\ doc = Nothing /\ from = "none"

\* A person writes the file of an entry.
Write ==
  /\ from = "none" /\ file = Nothing
  /\ \/ \E k \in {"value", "tags"}, s \in Raw(MaxRaw) : file' = Section(k, s)
     \/ \E s \in Raw(MaxRaw - 1), t \in Raw(MaxRaw - 2) :
          file' = Section("attrs", <<"relation=">> \o s \o <<"space", "target=">> \o t)
     \/ \E lines \in SeqOf(Lines, MaxLines) : file' = Section("body", lines)
  /\ UNCHANGED <<doc, from>>

\* A client creates or updates the entry.
Create ==
  /\ from = "none" /\ file = Nothing
  /\ \/ \E v \in Texts(MaxText) : doc' = Section("value", v)
     \/ \E tags \in SeqOf(Texts(MaxText - 1), 2) : doc' = Section("tags", tags)
     \/ \E attrs \in [Keys -> Texts(MaxText - 1)] : doc' = Section("attrs", attrs)
     \/ \E lines \in SeqOf(Lines, MaxLines) \ {<< <<>> >>} : doc' = Section("body", <<lines>>)
  /\ from' = "client"
  /\ UNCHANGED file

\* A mutation renders the row and its blocks into the file.
Rerender == from # "none" /\ file' = Render(doc) /\ UNCHANGED <<doc, from>>

\* An index pass reads the file, and skips it when it is unreadable.
Index ==
  /\ file # Nothing
  /\ Readable(Parse(file))
  /\ doc' = Parse(file) /\ from' = "file"
  /\ UNCHANGED file

Next == Write \/ Create \/ Rerender \/ Index

Spec == Init /\ [][Next]_vars

--------------------------------------------------------------------------
\* Backslashes right before position i of s.
Run(s, i) == LET others == {j \in 1..(i - 1) : s[j] # Backslash}
             IN i - 1 - (IF others = {} THEN 0 ELSE Max(others))
Odd(n) == n % 2 = 1

\* Texts that survive: as a header value, as an attribute before another one,
\* as a tag.
SafeValue(v) ==
  /\ ~Has(v, Break)
  /\ IF EscapeValue(v) = v THEN Trim(v) = v
     ELSE \A i \in DOMAIN v : v[i] = Quote => ~Odd(Run(v, i))
SafeAttr(v) ==
  /\ SafeValue(v)
  /\ EscapeValue(v) = v => ~Has(v, "tab")
  /\ EscapeValue(v) # v => ~Odd(Run(v, Len(v) + 1))
SafeTag(t) ==
  /\ ~Has(t, Break)
  /\ IF RenderTag(t) = t THEN t # <<>> /\ Trim(t) = t ELSE ~Has(t, Backslash)

Safe(d) ==
  CASE d.kind = "value" -> SafeValue(d.text)
    [] d.kind = "tags"  -> \A i \in DOMAIN d.text : SafeTag(d.text[i])
    [] d.kind = "attrs" -> SafeAttr(d.text["relation="]) /\ SafeAttr(d.text["target="])
    [] d.kind = "body"  -> \A i \in DOMAIN d.text :
                             /\ \A j \in DOMAIN d.text[i] : ~EscapedAt(d.text[i][j])
                             /\ WithoutSeparators(d.text[i]) = d.text[i]
    [] OTHER -> FALSE

Kept(d) == Parse(Render(d)) = d

\* A safe document, whoever wrote it, is read back as it was rendered, and so is
\* every body that was once read from a file.
SafeKept == Safe(doc) \/ (doc.kind = "body" /\ from = "file") => Kept(doc)

\* A header value comes back as it was exactly when it is safe: without a line break,
\* without an odd run of backslashes before a quote, and without a tab at an end.
ValueExact == doc.kind = "value" => (Kept(doc) <=> SafeValue(doc.text))

\* What is read back and what is not: safe documents are, and of header values no others.
ReadBack == SafeKept /\ ValueExact

\* The comment on render: a document that parse produced survives.
RoundTrip == from = "file" => Kept(doc)
=============================================================================
