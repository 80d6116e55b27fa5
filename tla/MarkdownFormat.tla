--------------------------- MODULE MarkdownFormat ---------------------------
(***************************************************************************)
(* The text of a ticket file: how writer.go lays it out and what reader.go *)
(* takes it for.                                                           *)
(*                                                                         *)
(* A text is a sequence of lines, and a line has the kind the reader looks *)
(* for: an empty line, the rule "---", a line with ## Description or with  *)
(* ## Comments in it, a line that starts with "### ", the YAML of the      *)
(* front matter (one line here), or any other.  The reader looks for       *)
(* the first line of a kind wherever it stands, so what a description or a *)
(* comment says can be taken for the structure of the file.                *)
(*                                                                         *)
(* The characters of a line are below this model.  The reader trims the    *)
(* spaces as well that end a description or a comment, the writer leaves   *)
(* out the fraction of a second of a time.  A text that ends in a space,   *)
(* or an author with a space at either end or a line break, does not come  *)
(* back as it was sent, and nothing here says so.                          *)
(*                                                                         *)
(*   ticket    [labels, description, comments], the fields that vary here  *)
(*   comment   [by, text], by standing for its time and its author         *)
(***************************************************************************)
EXTENDS Naturals, Sequences, FiniteSets

SX == INSTANCE SequencesExt

Line(kind) == [is |-> kind]
Words(what) == [is |-> "words", of |-> what]
FrontMatter(labels) == [is |-> "yaml", labels |-> labels]
CommentHeader(by) == [is |-> "###", by |-> by]

Blank == Line("blank")
Rule == Line("---")

\* The first line of a kind, 0 if there is none.
FirstLine(text, kind) == SX!SelectInSeq(text, LAMBDA l : l.is = kind)

LastLine(text, kind) == SX!SelectLastInSeq(text, LAMBDA l : l.is = kind)

From(text, i) == SubSeq(text, i, Len(text))

\* What stands before a line, 0 for the end.
Before(text, i) == IF i = 0 THEN text ELSE SubSeq(text, 1, i - 1)

-----------------------------------------------------------------------------
(***************************************************************************)
(* The writer.                                                             *)
(***************************************************************************)

FormatComment(c) == <<Blank, CommentHeader(c.by), Blank>> \o c.text

FormatTicket(k) ==
    <<Rule, FrontMatter(k.labels), Rule, Blank, Line("Description"), Blank>>
        \o k.description
        \o <<Blank, Line("Comments")>>
        \o SX!FlattenSeq([i \in DOMAIN k.comments |-> FormatComment(k.comments[i])])

\* The comment goes to the end of the file, whatever is there.
AppendComment(text, c) == text \o FormatComment(c)

-----------------------------------------------------------------------------
(***************************************************************************)
(* The reader.                                                             *)
(***************************************************************************)

\* The lines of the text, its last without the spaces that may end it.
Trim(text) ==
    LET first == SX!SelectInSeq(text, LAMBDA l : l # Blank)
        last == SX!SelectLastInSeq(text, LAMBDA l : l # Blank)
    IN  IF first = 0 THEN <<>> ELSE SubSeq(text, first, last)

ParseDescriptionToLast(body) ==
    LET start == FirstLine(body, "Description")
        after == From(body, start + 1)
    IN  IF start = 0 THEN <<>> ELSE Trim(Before(after, LastLine(after, "Comments")))

ParseDescription(body) ==
    LET start == FirstLine(body, "Description")
        after == From(body, start + 1)
    IN  IF start = 0 THEN <<>> ELSE Trim(Before(after, FirstLine(after, "Comments")))

Heads(section) == {i \in 1..Len(section) : section[i].is = "###"}

\* The k-th of some line numbers.
Nth(lines, k) == CHOOSE i \in lines : Cardinality({j \in lines : j <= i}) = k

\* A comment goes from its header to the next.  A header that is not one of a
\* comment starts one by nobody.
CommentAt(section, i) ==
    LET after == From(section, i + 1)
    IN  [by |-> section[i].by, text |-> Trim(Before(after, FirstLine(after, "###")))]

CommentsInUnflushed(section) ==
    [k \in 1..(Cardinality(Heads(section)) - 1) |-> CommentAt(section, Nth(Heads(section), k))]

CommentsIn(section) ==
    [k \in 1..Cardinality(Heads(section)) |-> CommentAt(section, Nth(Heads(section), k))]

ParseComments(body) ==
    LET start == FirstLine(body, "Comments")
    IN  IF start = 0 THEN <<>> ELSE CommentsIn(From(body, start + 1))

Unparsable == "unparsable"

\* The front matter stands between the first line and the next rule.
Parses(text) ==
    text # <<>> /\ Head(text) = Rule /\ FirstLine(Tail(text), "---") = 2 /\ text[2].is = "yaml"

ParseTicket(text) ==
    LET body == From(text, 4)
    IN  IF Parses(text) THEN [labels |-> text[2].labels,
                              description |-> ParseDescription(body),
                              comments |-> ParseComments(body)]
                        ELSE Unparsable

-----------------------------------------------------------------------------
(***************************************************************************)
(* What reads back.                                                        *)
(***************************************************************************)

Without(text, kind) == \A i \in 1..Len(text) : text[i].is # kind

\* Blank lines neither start nor end the text, nor do spaces, below the model,
\* end its last line.
Trimmed(text) == text # <<>> => text[1] # Blank /\ text[Len(text)] # Blank

\* In its place in a file, such a text is read as it was written.
ReadsAsDescription(text) == Trimmed(text) /\ Without(text, "Comments")

ReadsAsComment(text) == Trimmed(text) /\ Without(text, "###")

\* A file with front matter, and with a section for comments after the one for
\* the description: what the writer writes.
HasFrontMatter(text) ==
    Len(text) >= 3 /\ text[1] = Rule /\ text[2].is = "yaml" /\ text[3].is = "---"

HasSections(text) ==
    \E i, j \in 4..Len(text) : i < j /\ text[i].is = "Description" /\ text[j].is = "Comments"

Sectioned(text) == HasFrontMatter(text) /\ HasSections(text)
=============================================================================
