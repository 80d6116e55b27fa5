--------------------------- MODULE MCTicketFiles ---------------------------
(* Small instances of TicketFiles for TLC. *)
EXTENDS TicketFiles

CONSTANTS t1, l1

\* A comment that says what the file is made of, and a plain one.
MCComments ==
    {[by |-> "ann", text |-> <<Line("Comments"), Blank, Rule, Line("Description")>>],
     [by |-> "bob", text |-> <<Words("yes")>>]}

\* A description with a rule, a heading and what the reader looks for first.
MCDescriptions == {<<Words("see"), Rule, CommentHeader("nobody"), Blank, Line("Description")>>}

\* Files of an editor, with both sections: without blank lines and with a heading
\* among the comments, or with blank lines only.
MCHandTexts ==
    {<<Rule, FrontMatter({l1}), Rule, Line("Description"), Words("by hand"), Line("Comments"),
       CommentHeader("bob"), Words("yes"), CommentHeader("nobody"), Words("odd")>>,
     <<Rule, FrontMatter({}), Rule, Line("Description"), Line("Comments"), Blank, Blank>>}

PlainComment == {[by |-> "bob", text |-> <<Words("yes")>>]}

\* The file of the reader's test, with no section for comments.
NoCommentsText ==
    {<<Rule, FrontMatter({}), Rule, Blank, Line("Description"), Blank, Words("by hand")>>}

\* FilesReadBack is proved of the instances that satisfy TextsReadable: all but
\* this one.
ASSUME ReadableAssumption == TextsReadable <=> HandTexts # NoCommentsText
=============================================================================
