---------------------------- MODULE TicketStore ----------------------------
(***************************************************************************)
(* The ticket files of one tracking set and the label index beside them.   *)
(*                                                                         *)
(* A ticket is a markdown file.  The store writes, reads and removes these *)
(* files and keeps an index from labels to ticket IDs in memory; a file    *)
(* and its index entries change in different steps, the index under a lock *)
(* of its own.  Plans and meta-plans are ticket files too, written by      *)
(* stores that know nothing of the index.  A list with labels asks the     *)
(* index for candidates, then reads the directory, then one file after the *)
(* other, and checks each against the filter again.  The list of plans is  *)
(* one with the label kind:plan that does not ask the index.  A restart    *)
(* builds the index from the files.                                        *)
(*                                                                         *)
(* Tracking sets share neither files nor index entries, so one is enough.  *)
(* Of a ticket the model keeps its labels and its comments; the other      *)
(* fields a list can filter by are read from the file, never the index.    *)
(***************************************************************************)
EXTENDS Naturals

CONSTANTS
    Tickets,        \* ticket IDs
    Labels,
    Comments,       \* the comments requests add, each with its author and time
    Kinds,          \* who writes: "ticket" for TicketStore, "plan" for PlanStore
    Workers,        \* goroutines that serve requests
    Exclusive,      \* clients send one mutation of a ticket at a time
    MayFail,        \* the steps at which a file-system call may fail
    None

ASSUME KindsAssumption == Kinds \subseteq {"ticket", "plan"}
ASSUME ExclusiveAssumption == Exclusive \in BOOLEAN
ASSUME MayFailAssumption == MayFail \subseteq {"begin", "write", "remove", "scan", "read"}

Contents == [labels : SUBSET Labels, comments : SUBSET Comments]

ASSUME NoContentAssumption == None \notin Contents

Requests ==
    [op : {"Create", "Update"}, kind : Kinds, id : Tickets, labels : SUBSET Labels]
        \cup [op : {"Delete"}, kind : Kinds, id : Tickets]
        \cup [op : {"AddComment"}, id : Tickets, comment : Comments]
        \cup [op : {"Get"}, id : Tickets]
        \cup [op : {"List"}, labels : SUBSET Labels]
        \cup [op : {"ListPlans"}, labels : {{l} : l \in Labels}]  \* any l may be kind:plan

ListOps == {"List", "ListPlans"}

ASSUME NoRequestAssumption == None \notin Requests

VARIABLES
    md,      \* md[t]: the content of tickets/<t>.md, or None
    index,   \* index[l]: the IDs the label index has under label l
    pc,      \* pc[w]: the next step of worker w
    req,     \* req[w]: the request it serves, or None
    mem,     \* mem[w]: the content it has read, or None
    todo,    \* todo[w]: the tickets a list has still to look at
    hits,    \* hits[w]: the tickets a list has found
    res      \* res[w]: the answer

files == <<md, index>>
vars == <<md, index, pc, req, mem, todo, hits, res>>

-----------------------------------------------------------------------------
(***************************************************************************)
(* The label index.  Each operator is one call, made under its lock.       *)
(***************************************************************************)

Add(ix, t, L) == [l \in Labels |-> IF l \in L THEN ix[l] \cup {t} ELSE ix[l]]

Remove(ix, t, L) == [l \in Labels |-> IF l \in L THEN ix[l] \ {t} ELSE ix[l]]

UpdateRemovesLast(ix, t, old, new) == Remove(Add(ix, t, new), t, old)

\* Only the difference is applied: a label in both is left as it is.
Update(ix, t, old, new) == Add(Remove(ix, t, old \ new), t, new \ old)

MatchLabels(ix, L) == {t \in Tickets : \A l \in L : t \in ix[l]}

BuildIndex(md_) == [l \in Labels |-> {t \in Tickets : md_[t] # None /\ l \in md_[t].labels}]

-----------------------------------------------------------------------------

Init ==
    /\ md = [t \in Tickets |-> None]
    /\ index = [l \in Labels |-> {}]
    /\ pc = [w \in Workers |-> "idle"]
    /\ req = [w \in Workers |-> None]
    /\ mem = [w \in Workers |-> None]
    /\ todo = [w \in Workers |-> {}]
    /\ hits = [w \in Workers |-> {}]
    /\ res = [w \in Workers |-> "ok"]

Goes(w, step) == pc' = [pc EXCEPT ![w] = step]

\* The call returns r; what it has read is dropped, and what it has found if it
\* fails.
Answer(w, r) ==
    /\ Goes(w, "done")
    /\ res' = [res EXCEPT ![w] = r]
    /\ mem' = [mem EXCEPT ![w] = None]
    /\ todo' = [todo EXCEPT ![w] = {}]
    /\ hits' = [hits EXCEPT ![w] = IF r = "ok" THEN @ ELSE {}]
    /\ UNCHANGED req

At(w, step, op) == pc[w] = step /\ req[w].op = op

Mutates(q) == q.op \in {"Create", "Update", "Delete", "AddComment"}

\* Create has nothing to read, and PlanStore.Delete reads nothing.
FirstStep(q) ==
    CASE q.op = "Create" -> "write"
      [] q.op = "Delete" /\ q.kind = "plan" -> "remove"
      [] OTHER -> "begin"

Begin(w, q) ==
    /\ pc[w] = "idle"
    /\ Exclusive /\ Mutates(q) =>
          \A v \in Workers : pc[v] # "idle" /\ Mutates(req[v]) => req[v].id # q.id
    /\ req' = [req EXCEPT ![w] = q]
    /\ Goes(w, FirstStep(q))
    /\ UNCHANGED <<md, index, mem, todo, hits, res>>

-----------------------------------------------------------------------------
(***************************************************************************)
(* One ticket.                                                             *)
(***************************************************************************)

File(w) == md[req[w].id]

WriteFile(w, content) == md' = [md EXCEPT ![req[w].id] = content]

ReadOp(w) == pc[w] = "begin" /\ req[w].op \in {"Get", "Update", "AddComment"}

NotFound(w) ==
    /\ ReadOp(w)
    /\ File(w) = None
    /\ Answer(w, "notfound")
    /\ UNCHANGED files

Read(w) ==
    /\ ReadOp(w)
    /\ File(w) # None
    /\ mem' = [mem EXCEPT ![w] = File(w)]
    /\ Goes(w, IF req[w].op = "Get" THEN "done" ELSE "write")
    /\ UNCHANGED <<md, index, req, todo, hits, res>>

\* Create overwrites a ticket of that ID, and neither request carries comments:
\* those of an updated ticket are not written again.
WriteTicket(w) ==
    /\ pc[w] = "write"
    /\ req[w].op \in {"Create", "Update"}
    /\ WriteFile(w, [labels |-> req[w].labels, comments |-> {}])
    /\ \/ req[w].kind = "ticket" /\ Goes(w, "index") /\ UNCHANGED <<req, mem, todo, hits, res>>
       \/ req[w].kind = "plan" /\ Answer(w, "ok")
    /\ UNCHANGED index

IndexCreated(w) ==
    /\ At(w, "index", "Create")
    /\ index' = Add(index, req[w].id, req[w].labels)
    /\ Answer(w, "ok")
    /\ UNCHANGED md

IndexUpdated(w) ==
    /\ At(w, "index", "Update")
    /\ index' = Update(index, req[w].id, mem[w].labels, req[w].labels)
    /\ Answer(w, "ok")
    /\ UNCHANGED md

WriteCommentAlone(w) ==
    /\ At(w, "write", "AddComment")
    /\ WriteFile(w, [mem[w] EXCEPT !.comments = {req[w].comment}])
    /\ Answer(w, "ok")
    /\ UNCHANGED index

WriteComment(w) ==
    /\ At(w, "write", "AddComment")
    /\ WriteFile(w, [mem[w] EXCEPT !.comments = @ \cup {req[w].comment}])
    /\ Answer(w, "ok")
    /\ UNCHANGED index

ReadForDeleteUnchecked(w) ==
    /\ At(w, "begin", "Delete")
    /\ mem' = [mem EXCEPT ![w] = File(w)]
    /\ Goes(w, "unindex")
    /\ UNCHANGED <<md, index, req, todo, hits, res>>

\* Delete reads the labels it has to remove from the index; it goes on when it
\* cannot read them.
ReadForDelete(w) ==
    /\ At(w, "begin", "Delete")
    /\ mem' = [mem EXCEPT ![w] = File(w)]
    /\ Goes(w, IF File(w) = None THEN "remove" ELSE "unindex")
    /\ UNCHANGED <<md, index, req, todo, hits, res>>

Unindex(w) ==
    /\ At(w, "unindex", "Delete")
    /\ index' = Remove(index, req[w].id, mem[w].labels)
    /\ Goes(w, "remove")
    /\ UNCHANGED <<md, req, mem, todo, hits, res>>

RemoveFile(w) ==
    /\ pc[w] = "remove"
    /\ Answer(w, IF File(w) = None THEN "notfound" ELSE "ok")
    /\ WriteFile(w, None)
    /\ UNCHANGED index

-----------------------------------------------------------------------------
(***************************************************************************)
(* The tickets with given labels.                                          *)
(***************************************************************************)

Matches(content, L) == content # None /\ L \subseteq content.labels

\* Without labels there is nothing to ask the index.
Candidates(w) ==
    IF req[w].op = "ListPlans" \/ req[w].labels = {} THEN Tickets
                                                    ELSE MatchLabels(index, req[w].labels)

AskIndex(w) ==
    /\ pc[w] = "begin" /\ req[w].op \in ListOps
    /\ todo' = [todo EXCEPT ![w] = Candidates(w)]
    /\ Goes(w, IF Candidates(w) = {} THEN "done" ELSE "scan")
    /\ UNCHANGED <<md, index, req, mem, hits, res>>

ReadDir(w) ==
    /\ pc[w] = "scan"
    /\ todo' = [todo EXCEPT ![w] = {t \in @ : md[t] # None}]
    /\ Goes(w, "read")
    /\ UNCHANGED <<md, index, req, mem, hits, res>>

ReadListedAgain(w, t) ==
    /\ pc[w] = "read"
    /\ t \in todo[w]
    /\ md[t] # None
    /\ hits' = [hits EXCEPT ![w] = IF Matches(md[t], req[w].labels) THEN @ \cup {t} ELSE @]
    /\ UNCHANGED <<md, index, pc, req, mem, todo, res>>

ReadListedUnchecked(w, t) ==
    /\ pc[w] = "read"
    /\ t \in todo[w]
    /\ md[t] # None
    /\ todo' = [todo EXCEPT ![w] = @ \ {t}]
    /\ hits' = [hits EXCEPT ![w] = @ \cup {t}]
    /\ UNCHANGED <<md, index, pc, req, mem, res>>

ReadListed(w, t) ==
    /\ pc[w] = "read"
    /\ t \in todo[w]
    /\ md[t] # None
    /\ todo' = [todo EXCEPT ![w] = @ \ {t}]
    /\ hits' = [hits EXCEPT ![w] = IF Matches(md[t], req[w].labels) THEN @ \cup {t} ELSE @]
    /\ UNCHANGED <<md, index, pc, req, mem, res>>

ListedFileGoneEnds(w, t) ==
    /\ pc[w] = "read"
    /\ t \in todo[w]
    /\ md[t] = None
    /\ Answer(w, "ok")
    /\ UNCHANGED files

\* The file has gone since the directory was read: the list gives up.  (The list
\* of plans also reads the graph here, for the tasks; it fails with it, as in
\* IOError.)
ListedFileGone(w, t) ==
    /\ pc[w] = "read"
    /\ t \in todo[w]
    /\ md[t] = None
    /\ Answer(w, "error")
    /\ UNCHANGED files

ListDone(w) ==
    /\ pc[w] = "read"
    /\ todo[w] = {}
    /\ Answer(w, "ok")
    /\ UNCHANGED files

-----------------------------------------------------------------------------

IOError(w) ==
    /\ pc[w] \in MayFail
    /\ IF At(w, "begin", "Delete")
       THEN Goes(w, "remove") /\ UNCHANGED <<req, mem, todo, hits, res>>
       ELSE Answer(w, "error")
    /\ UNCHANGED files

Respond(w) ==
    /\ pc[w] = "done"
    /\ Goes(w, "idle")
    /\ req' = [req EXCEPT ![w] = None]
    /\ mem' = [mem EXCEPT ![w] = None]
    /\ todo' = [todo EXCEPT ![w] = {}]
    /\ hits' = [hits EXCEPT ![w] = {}]
    /\ res' = [res EXCEPT ![w] = "ok"]
    /\ UNCHANGED files

\* Deleting the tracking set removes its files, and leaves the index alone.
DropFile(t) ==
    /\ md' = [md EXCEPT ![t] = None]
    /\ UNCHANGED <<index, pc, req, mem, todo, hits, res>>

\* The program stops at any point and starts again.
Restart ==
    /\ index' = BuildIndex(md)
    /\ pc' = [w \in Workers |-> "idle"]
    /\ req' = [w \in Workers |-> None]
    /\ mem' = [w \in Workers |-> None]
    /\ todo' = [w \in Workers |-> {}]
    /\ hits' = [w \in Workers |-> {}]
    /\ res' = [w \in Workers |-> "ok"]
    /\ UNCHANGED md

Step(w) ==
    \/ NotFound(w)       \/ Read(w)
    \/ WriteTicket(w)    \/ IndexCreated(w)  \/ IndexUpdated(w)
    \/ WriteComment(w)
    \/ ReadForDelete(w)  \/ Unindex(w)       \/ RemoveFile(w)
    \/ AskIndex(w)       \/ ReadDir(w)       \/ ListDone(w)
    \/ \E t \in Tickets : ReadListed(w, t) \/ ListedFileGone(w, t)
    \/ Respond(w)

Next ==
    \/ \E w \in Workers : Step(w) \/ IOError(w) \/ \E q \in Requests : Begin(w, q)
    \/ \E t \in Tickets : DropFile(t)
    \/ Restart

Spec == Init /\ [][Next]_vars

\* A handler is straight-line code, and its list is finite: once begun it runs
\* to its response.
FairSpec == Spec /\ \A w \in Workers : WF_vars(Step(w))

-----------------------------------------------------------------------------
(***************************************************************************)
(* Properties.                                                             *)
(***************************************************************************)

Steps == {"idle", "begin", "write", "index", "unindex", "remove", "scan", "read", "done"}

\* The files hold tickets, and a worker waits at a step only with a request
\* that has this step and with what the steps before it have read.
TypeOK ==
    /\ md \in [Tickets -> Contents \cup {None}]
    /\ index \in [Labels -> SUBSET Tickets]
    /\ pc \in [Workers -> Steps]
    /\ req \in [Workers -> Requests \cup {None}]
    /\ mem \in [Workers -> Contents \cup {None}]
    /\ todo \in [Workers -> SUBSET Tickets]
    /\ hits \in [Workers -> SUBSET Tickets]
    /\ res \in [Workers -> {"ok", "notfound", "error"}]
    /\ \A w \in Workers :
          /\ pc[w] = "idle" <=> req[w] = None
          /\ pc[w] = "begin" => req[w].op # "Create"
          /\ pc[w] = "write" => req[w].op \in {"Create", "Update", "AddComment"}
          /\ pc[w] = "index" => req[w].op \in {"Create", "Update"} /\ req[w].kind = "ticket"
          /\ pc[w] \in {"unindex", "remove"} => req[w].op = "Delete"
          /\ pc[w] \in {"scan", "read"} => req[w].op \in ListOps
          /\ pc[w] \in {"write", "index"} /\ req[w].op # "Create" => mem[w] # None
          /\ pc[w] = "unindex" => mem[w] # None

\* What it takes to keep the index as complete as the program keeps it: mutations
\* of one ticket do not overlap, and no plan is written.
IndexMaintained == Exclusive /\ Kinds = {"ticket"}

\* Worker w has taken its ticket out of the index, and not yet removed the file.
HasUnindexed(w) == pc[w] = "remove" /\ mem[w] # None

Removing(t) == \E v \in Workers : HasUnindexed(v) /\ req[v].id = t

\* A change to t has been made in one place and not yet in the other.
Unsettled(t) == Removing(t) \/ \E v \in Workers : pc[v] = "index" /\ req[v].id = t

\* Every ticket is in the index under each of its labels, but for the moment
\* between the two steps of a change to it.  (It may also be under labels it
\* no longer has.)  Calls for different tickets change the index at the same
\* time; an update applies the difference to the labels it has read.
IndexComplete ==
    \A t \in Tickets :
        md[t] # None /\ ~ Unsettled(t) => t \in MatchLabels(index, md[t].labels)

\* A comment is added to the ticket that is in the file when it is written: no
\* comment and no label change is undone by it.
CommentAppended ==
    [][\A w \in Workers :
          At(w, "write", "AddComment") /\ pc'[w] = "done" /\ res'[w] = "ok" /\ File(w) # None
             => md'[req[w].id] = [File(w) EXCEPT !.comments = @ \cup {req[w].comment}]]_vars

\* Every request is answered, or forgotten in a restart.
RequestsComplete == \A w \in Workers : pc[w] # "idle" ~> pc[w] = "idle"
=============================================================================
