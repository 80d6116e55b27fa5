---------------------------- MODULE TicketFiles ----------------------------
(***************************************************************************)
(* TicketStore with the text of its files.                                 *)
(*                                                                         *)
(* TicketStore takes a file that is written to be read as what was         *)
(* written.  Here the steps that write one write its text, an added        *)
(* comment is appended to the text that was read without it being parsed,  *)
(* and people edit the files in between, as the README invites them to.    *)
(* What a request says beside the labels, the description, is chosen when  *)
(* it is written.                                                          *)
(***************************************************************************)
EXTENDS TicketStore, MarkdownFormat

CONSTANTS
    Authors,        \* of comments
    Phrases,        \* what the other lines say
    Descriptions,   \* the descriptions requests carry
    HandTexts,      \* the texts people leave in a file
    MaxComments     \* no comment is added to a file with so many

Lines ==
    {Blank, Rule, Line("Description"), Line("Comments")}
        \cup {FrontMatter(L) : L \in SUBSET Labels}
        \cup {CommentHeader(a) : a \in Authors}
        \cup {Words(p) : p \in Phrases}

Texts == Seq(Lines)

\* A file that does not parse makes every call that reads it fail, and the next
\* start: people leave none.
ASSUME TextsAssumption ==
    /\ Comments \subseteq [by : Authors, text : Texts]
    /\ Descriptions \subseteq Texts
    /\ HandTexts \subseteq Texts
    /\ \A lines \in HandTexts : Parses(lines)

VARIABLES
    text,    \* text[t]: the lines of tickets/<t>.md, <<>> where there is none
    known,   \* known[t]: the ticket that was written, or None
    copy     \* copy[w]: both, as worker w has read them, or None

varsF == <<md, index, pc, req, mem, todo, hits, res, text, known, copy>>

InitF ==
    /\ Init
    /\ text = [t \in Tickets |-> <<>>]
    /\ known = [t \in Tickets |-> None]
    /\ copy = [w \in Workers |-> None]

Put(t, lines, ticket) ==
    /\ text' = [text EXCEPT ![t] = lines]
    /\ known' = [known EXCEPT ![t] = ticket]

Same == UNCHANGED <<text, known>>

Forgets(w) == copy' = [copy EXCEPT ![w] = None]

-----------------------------------------------------------------------------

\* A comment is requested only while the file has room, to bound the model.
BeginF(w, q) ==
    /\ Begin(w, q)
    /\ q.op = "AddComment" /\ known[q.id] # None => Len(known[q.id].comments) < MaxComments
    /\ Same /\ UNCHANGED copy

ReadText(w) ==
    /\ Read(w)
    /\ copy' = [copy EXCEPT ![w] = IF req[w].op = "AddComment"
                                   THEN [text |-> text[req[w].id], known |-> known[req[w].id]]
                                   ELSE None]
    /\ Same

\* The ticket a create or an update writes: its request has no comments.
Written(q, description) == [labels |-> q.labels, description |-> description, comments |-> <<>>]

WriteTicketText(w) ==
    /\ WriteTicket(w)
    /\ \E d \in Descriptions :
          Put(req[w].id, FormatTicket(Written(req[w], d)), Written(req[w], d))
    /\ UNCHANGED copy

WithComment(ticket, c) == [ticket EXCEPT !.comments = Append(@, c)]

WriteCommentText(w) ==
    /\ WriteComment(w)
    /\ Put(req[w].id, AppendComment(copy[w].text, req[w].comment),
                      WithComment(copy[w].known, req[w].comment))
    /\ Forgets(w)

RemoveText(w) ==
    /\ RemoveFile(w)
    /\ Put(req[w].id, <<>>, None)
    /\ UNCHANGED copy

OtherStep(w) ==
    /\ \/ NotFound(w)   \/ IndexCreated(w)  \/ IndexUpdated(w)
       \/ ReadForDelete(w)  \/ Unindex(w)
       \/ AskIndex(w)   \/ ReadDir(w)       \/ ListDone(w)
       \/ \E t \in Tickets : ReadListed(w, t) \/ ListedFileGone(w, t)
       \/ Respond(w)
    /\ Same /\ UNCHANGED copy

StepF(w) ==
    \/ ReadText(w) \/ WriteTicketText(w) \/ WriteCommentText(w) \/ RemoveText(w) \/ OtherStep(w)

IOErrorF(w) == IOError(w) /\ Same /\ Forgets(w)

DropFileF(t) == DropFile(t) /\ Put(t, <<>>, None) /\ UNCHANGED copy

RestartF == Restart /\ Same /\ copy' = [w \in Workers |-> None]

\* What TicketStore keeps of a ticket.
Content(ticket) ==
    [labels |-> ticket.labels, comments |-> Comments \cap SX!ToSet(ticket.comments)]

ByHand == [lines \in HandTexts |-> ParseTicket(lines)]

\* Someone writes the file anew, while no request changes it.  The index does
\* not know until the restart.
HandEdit(t, lines) ==
    LET ticket == ByHand[lines]
    IN  /\ \A w \in Workers : pc[w] # "idle" /\ Mutates(req[w]) => req[w].id # t
        /\ Put(t, lines, ticket)
        /\ md' = [md EXCEPT ![t] = Content(ticket)]
        /\ UNCHANGED <<index, pc, req, mem, todo, hits, res, copy>>

NextF ==
    \/ \E w \in Workers : StepF(w) \/ IOErrorF(w) \/ \E q \in Requests : BeginF(w, q)
    \/ \E t \in Tickets : DropFileF(t) \/ \E lines \in HandTexts : HandEdit(t, lines)
    \/ RestartF

SpecF == InitF /\ [][NextF]_varsF

\* As in TicketStore: a handler that has begun runs to its response.
FairSpecF == SpecF /\ \A w \in Workers : WF_varsF(StepF(w))

-----------------------------------------------------------------------------
(***************************************************************************)
(* Properties.                                                             *)
(***************************************************************************)

\* What people and requests write if every file is to read back.  The program
\* does not see to it.  This is said of lines: that the last line of a text does
\* not end in a space, and that times and authors are such as can be read again,
\* is below the model.
TextsReadable ==
    /\ \A d \in Descriptions : ReadsAsDescription(d)
    /\ \A c \in Comments : ReadsAsComment(c.text)
    /\ \A lines \in HandTexts : Sectioned(lines)

\* The reader finds in each file the ticket that was last written there with
\* every comment added since, in their order and nothing more: whatever the
\* description and the comments say, and also after someone has edited the file.
\* So each file parses, and the program can start again.
FilesReadBack == \A t \in Tickets : md[t] # None => ParseTicket(text[t]) = known[t]

\* What TicketStore has for the content of a file is what the reader finds in it:
\* the labels and comments that its properties speak of are those of the text.
FilesHoldContents ==
    \A t \in Tickets : md[t] = IF text[t] = <<>> THEN None ELSE Content(ParseTicket(text[t]))
=============================================================================
