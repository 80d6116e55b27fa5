# TLA+ models of forge-tracker

forge-tracker is a ticket tracker that keeps everything in files: one directory
per tracking set, with `tracking-set.yaml` (the graph: ticket IDs and typed
edges) and `tickets/<id>.md` (one markdown file per ticket, plan or meta-plan).
REST handlers run concurrently, share these files without any lock, and write
each by temp file and rename. The only state in memory is an index from labels
to tickets. The design states an assumption, "single-writer" (DESIGN.md, Risks),
and the questions these modules ask are what the program guarantees under it,
what it still guarantees without it, and what errors and crashes between two
steps leave behind.

## The system and its hard parts

| Component | State | Operations | What is hard |
|---|---|---|---|
| Graph store (`adapter/markdown/graph.go`) | `tracking-set.yaml` | AddNode, RemoveNode, AddEdge, RemoveEdge, Get, GetEdges, GetChildren, GetBlocking | unlocked read-modify-write; the set deleted in between |
| Tracking-set store and service (`trackingset.go`) | the set's directory | Create, Get, List, Delete | RemoveAll in several steps; a create over an existing set |
| Ticket store (`store.go`) | `tickets/<id>.md` | Create, Get, List, Update, Delete, AddComment | file and index change in different steps; a list reads file after file |
| Label index (`index.go`) | `label -> set of IDs`, one lock | BuildIndex, Add, Remove, Update, MatchLabels | updates by difference; stale entries; rebuilt at start |
| Plan store (`plan.go`) | the same ticket files | Create, Get, List, Update, Delete | writes tickets behind the index's back |
| Meta-plan store (`metaplan.go`) | `<id>.md` and `<id>.metaplan.yaml` | Create, Get, List, Update, Delete | two files, one after the other |
| Ticket, plan, graph services (`controller/`) | none | sequences of store calls | an error or a crash between two calls |
| Reader and writer (`reader.go`, `writer.go`) | none | parse, format, append a comment | what a ticket says looks like the structure of its file; edits by hand |
| REST handler, `main` | none | request and error mapping, start, stop | a stop at any point; a client error after half of the work |
| End-to-end test runner | variables of a suite | load, substitute, execute, assert | teardown after a failure |

Services call stores, stores call the file system; the graph service also loads
tickets for the IDs it finds in a graph. There are no messages and no callbacks.
Concurrency is that of `net/http`: a goroutine per request. A stop
(`srv.Close`) or a crash drops the requests in flight.

What makes each correct: a graph is closed (edges end at nodes), lists a node once,
lies in a directory of a valid name; a mutation that is answered `ok` has happened
and is not undone by a later one; a set that is deleted stays deleted; the index
misses no ticket; a list is complete and sound; a node has its file; both files of a
meta-plan change; a file reads back as the ticket it holds; a client error means
that nothing was done; everything is answered.

## Modules

| Module | Models |
|---|---|
| `TicketGraph` | `types.Graph` and the edits of it, as bags of nodes and edges |
| `GraphStore` | the graph store and the tracking-set store under concurrent handlers, with the input checks of their services |
| `SetDeletes` | `GraphStore` with a history variable for the sets that have been deleted |
| `SetLists` | `GraphStore` with a list of the tracking sets, and a history variable for what it owes its client |
| `AtomicGraph` | abstract specification: each graph request takes effect in one step |
| `TicketStore` | ticket files and label index under concurrent handlers; plans as ticket files that bypass the index |
| `TicketLists` | `TicketStore` with three history variables, for what a list owes its client and what the index may miss |
| `MarkdownFormat` | the text of a ticket file: the writer and the reader, as functions on lines |
| `TicketFiles` | `TicketStore` with the text of its files, and people who edit them |
| `MetaPlanStore` | the two files of each meta-plan, under the meta-plan service |
| `Tracker` | TicketService, PlanService, MetaPlanService, GraphService and TrackingSetService as sequences of store calls |
| `TrackerApi` | `Tracker` with the status of each answer, and two history variables for what it says |
| `MC...` | small instances for TLC |
| `...Proofs` | theorems |

Graphs are bags because the code keeps slices, appends an edge without looking
for it, and never reads an order. An answer is a word for the error the REST
handler maps to a status.

**GraphStore.** `pc[w]` is the next file-system step of a handler: `begin` (the
read of `readTrackingSet`, or `MkdirAll`, or the first step of `RemoveAll`),
`write` (the rename of `writeTrackingSet`; `ts[w]` is the edited graph in
memory), `rmdir` (the last step of `RemoveAll`), `done`. In-memory edits belong
to the step that reads. `dir[s]` says whether the directory is there and whether
it has a `tickets` subdirectory; `MakeTicketDir` is the `MkdirAll` that the
writer of any ticket makes, also for a set that does not exist. A file-system
call may fail at each step (`IOError`). The bodies of `GetEdges`, `GetChildren` and
`GetBlocking` are reads like `Get`.

**SetDeletes.** `gone` is history: the sets whose DELETE has been answered `ok`
and whose directory nobody has made again. A handler that has read a graph before
the delete, or a create that has made its directory before it, must fail when it
comes to write, because `writeTrackingSet` does not make the directory; that is
`DeletedStaysDeleted`. A create or the write of a ticket does make the directory
again, and after it an old handler may bring the old graph back: such a set is no
longer `gone`.

**SetLists.** One more goroutine lists the sets: `ReadSetsDir` is the `ReadDir`,
then `ReadSet(s)` is one `readTrackingSet`, in any order, and `SetWithoutGraph`
the error of a directory without a graph. `kept` is history: the sets whose graph
has been there since the list came in.

**TicketStore.** One tracking set (sets share neither files nor entries). A
ticket keeps its labels and its comments. `write` is the rename of
`atomicWrite`, `index` and `unindex` the calls of the index under its lock,
`remove` the `os.Remove`. A list asks the index, reads the directory and then
one file per step, in any order; the list of plans is one that does not ask the
index. `DropFile` is the deletion of the tracking set,
`Restart` a stop and `BuildIndex`. The constant `Exclusive` is the
single-writer assumption for one ticket, `Kinds` says whether plans are written
too, `MayFail` where calls may fail. `TicketLists` adds what a list owes (`kept`,
`seen`) and which tickets a delete has taken out of the index before it failed at
the file (`cut`), until a create or a restart puts them back.

**MarkdownFormat and TicketFiles.** `TicketStore` takes a file to be read as what
was written. `TicketFiles` drops this: `text[t]` is the file, a sequence of lines of
the kinds the reader looks for, which `FormatTicket` and `AppendComment` write and
`ParseTicket` reads; `known[t]` is the ticket that was meant. The characters of a
line are below the model: see "Runs" for what this means for texts, times and
authors. `AddComment` does not parse the file, it appends to the bytes it has read
(`copy[w]`). `HandEdit` is someone with an editor, as the README of the repository
invites; the index does not see it until a restart. `Content` is what `TicketStore`
keeps of a ticket, and `FilesHoldContents` says that `md[t]` is the content of what
the reader finds in `text[t]`.

**MetaPlanStore.** `md[i]` and `yaml[i]` are the two files, `pc[w]` the next
file-system call. Mutations come one at a time, reads at any time. A removal
that fails does not keep `Delete` from the other file; `res[w]` carries what
happened to the first. `TicketEndpoint` and `DropFile` change the files from
outside. `failed` and `whole` are history: whether a call of the request has
failed, and which plans have been there all the time since it came.

**Tracker and TrackerApi.** `graph`, `file[t]` and `meta[t]` (the yaml file of a
meta-plan) are the disk; `pc[w]` is the next store call of a service method, or
the next file of a call of the meta-plan store. All mutations of the interface are
here, and all reads but the four lists, which are in `SetLists`, `TicketLists`
and `MetaPlanStore`. A meta-plan has its files in common with tickets and plans:
a delete of the meta-plan `t` removes `tickets/<t>.md` of whatever has that ID, and
no node. It goes on to the yaml file when the first removal fails; `res[w]` carries
how that went. An update of a plan comes with tasks, as the API has it, and no
step looks at them. Mutations do not overlap, so a call of the
graph store is one step: that is the theorem `SingleWriterIsAtomic`. `todo[w]`
holds the tasks of a plan still to be linked, one `AddEdge` call each, or the
tickets a query still has to load, in any order. A call may fail with nothing
changed, `Crash` ends all requests, and `Clear` removes the files of a deleted
set one by one, in any order, with errors and crashes between. `TrackerApi`
gives each answer the status its handler sends: the mappings differ, so a
missing set is a 500 for a ticket create, a 404 for a delete and a 400 for an
edge. `touched` says whether the mutation under way has written or removed
anything, `steady` which reads have found nothing missing or removed so far.

## Runs

| Run | Shows |
|---|---|
| `graph_concurrent` | two writers, no lock: `GraphsWellFormed` and `DeletedStaysDeleted` |
| `graph_single_writer` | one writer, one reader, one list of the sets: `WritesAreFresh`, `ImplementsAtomicGraph` (refinement), `SetsComplete`, and `GraphsInSets` with a name the service refuses, which is also the directory without a graph a list meets |
| `ticket_lists` | `IndexMissesOnlyCut` and `ListComplete` with mutations of different tickets at once and every failure |
| `ticket_lists_any` | `ListSound` with plans, overlapping mutations and every failure |
| `ticket_comments` | `FilesReadBack`, `FilesHoldContents`, `CommentAppended`, and `RequestsComplete` under fairness, over the text of the files |
| `metaplans` | `MutationsAreWhole`, `ReadsFindWhole` and `OrphanByDelete` with errors and crashes between the two files |
| `tracker` | `DanglingByDelete`, `AnswersAreTrue`, `ClientErrorsChangeNothing` and `QueriesSucceed` over every mutation and the two queries |
| `graph_delete_missing` | violated: `DeleteReportsMissing`. DELETE of a missing set succeeds; the API documents a 404 |
| `ticket_hand_edit` | violated: `FilesReadBack`. A comment added to a file without a section for comments is read as description |
| `ticket_plan_index` | violated: `IndexComplete`. Plan writes do not update the index |
| `tracker_create` | violated: `FailedCreateLeavesNothing`. File and node are not created atomically |
| `tracker_plan_delete` | violated: `NodesHaveFiles`. A deleted plan leaves its node and edges |

The five violated properties are what a document of the repository says; the
other runs pass. Two writers do lose updates of `tracking-set.yaml`, as the
design says; that is why freshness and the refinement assume one writer.

Some of the properties that hold name exceptions, which the runs do reach.

* `ClientErrorsChangeNothing`: a delete of a ticket whose file is gone takes the
  node away and answers 404; an update of a plan in a set without a graph rewrites
  the file and answers 404; and a delete of a meta-plan that finds one of its two
  files removes it and answers 404 for the other. The last takes the file of any
  ticket that has the ID.
* `AnswersAreTrue`: an update of a plan is answered 200 and links none of the tasks
  it came with (`TasksIgnored`).
* `DanglingByDelete`: deletes of plans, of meta-plans and of the whole set leave a
  node without its file. `OrphanByDelete`: deletes leave a yaml file without its
  ticket.

`FilesReadBack` is about descriptions and comments with rules, headings and
headers of the other sections in them. It does not hold of every text, and the
program does not see to it that it does. `TextsReadable` says of which it does:
a description without a line that contains `## Comments`, a comment without a
line that begins with `### `, neither with blank lines around it, and a file
edited by hand with `## Description` and, after it, `## Comments`. No document
says that the others should read back, but for the last: `ticket_hand_edit`
has a file without `## Comments`, which a document and a test say is one. All this
is said of lines. Below them, the reader also trims the spaces that end a description
or a comment (reader.go:91, 159) and those around an author, a line break in an
author ends the header, and times are kept to the second: such texts, authors and
times do not read back either, and the models, whose lines, times and authors are
opaque, do not show it.
`MCTicketFiles` has TLC evaluate that the texts of `ticket_comments` satisfy
`TextsReadable` and that those of `ticket_hand_edit` do not.

**Bounds.** Two goroutines: every hazard listed is a race of two. Two tickets and an
edge either way are enough for an edge and the removal of its endpoint, in both
directions; a third edge has a type the service refuses. `MaxCopies` bounds how
often an edge is listed (2 in `graph_single_writer`, so that duplicates occur; 1
elsewhere); the nodes are bounded by the look of `AddNode`. Two labels let an update
add one, drop one and keep one. `ticket_lists` has two tickets with one label and
one ticket with two (`OneAndTwo`): calls of the index for different tickets never
touch the same entry. Three tickets in `Tracker` make a plan with two tasks, so that
a create can stop between the tasks; its one meta-plan has the ID of one of them.
Reads of one call are left out of `tracker`, since no property there speaks of them;
the theorems have them. Two meta-plans let a list fail at one and find the other;
two values tell the two files of a plan apart. `MaxComments` bounds the comments
that requests add to a ticket: two, so that one follows another. One ticket and one
label are enough for texts, since a file is read by itself. Symmetry is used over
labels, tickets, plans, values and workers in the list and meta-plan runs, and over
workers in `tracker`, where no liveness is checked; `ticket_lists` and
`ticket_lists_any` leave the history variables that no step and no property of the
run reads out of the state (`VIEW`).

**Fairness.** A handler is straight-line code run by a goroutine; the Go
scheduler runs every goroutine, and file-system calls return. So each worker has
weak fairness on its own steps (`WF_vars(Step(w))`), never on the arrival of
requests, on errors, on edits or on crashes. A request that a crash drops counts
as over: its client sees a closed connection.

## Theorems

Proved with TLAPS for all values of the constants (any number of handlers,
sets, tickets, edges and labels), from the named assumptions on constants only.

* `GraphStoreProofs`: `TypeCorrect`, `AlwaysWellFormed`, `AlwaysInSets`,
  `AlwaysFresh`, `DeletesAreFinal` (`DeletedStaysDeleted`), and
  `SingleWriterIsAtomic`, that GraphStore implements AtomicGraph when there is one
  writer. The invariants for any number of writers are inductive with the types,
  because a handler holds a whole graph that was well-formed when it was read:
  whichever rename wins, it puts a whole graph there. `DeletesAreFinal` rests on
  `GoneInv`, that a set that is gone has no directory either, so that no rename can
  succeed there. The refinement needs freshness: the edit in memory is still that of
  the graph in the file, as the only writer is the one that holds it. The abstract
  request then takes effect at the rename. About `SetLists`, `SetListsAreComplete`,
  for any number of writers: a graph lies in its directory (`GraphsInSets`), so the
  directory read at the start leads the list to every set that stays.
* `TicketStoreProofs`: `TypeCorrect`, and `IndexAlwaysComplete` where mutations of
  one ticket do not overlap, no plan is written (`IndexMaintained`) and removes do
  not fail. The completeness of the index is not inductive: an update applies the
  difference of the labels it has read to an index that has changed since. The
  strengthening `IndexInv(S)` says that a mutation between its steps still finds
  the ticket indexed under the labels it has read and the file as it has written
  it, and that mutations of one ticket do not overlap. It speaks of a set `S` of
  tickets, so that the same steps also prove what is left when removes fail
  (`OnlyCutIsMissed`): `S` shrinks with a failed delete and grows with a create or
  a restart (`IndexStep`). `CommentsAreAppended`,
  under `Exclusive` alone: what a comment under way has read is still in the file,
  unless the set has been deleted. `CommentsAreAppendedToFiles` in
  `TicketFilesProofs` says the same beside edits by hand.
* `TicketFilesProofs`: `FilesAlwaysReadBack`, under `TextsReadable`, for texts of any
  length and any number of comments, without any assumption on who writes when. The
  first half is about `MarkdownFormat`: a file of the right shape is read as its
  parts (`ParseSectioned`), what the writer makes has that shape (`FormatReads`),
  and a comment at the end of such a file adds itself to what is read and changes
  nothing else (`ParseAppended`). The second half is `FilesInv`: every file, and every
  copy of one that a comment under way holds, has this shape and reads as the ticket
  that was written. The shape has to be part of it: a file may read back as it
  should and no longer do so with one comment more, which is what
  `ticket_hand_edit` shows. `FilesAlwaysHoldContents` rests on it and on `ContentInv`:
  `TicketStore` has the labels and comments of the ticket that was written, and a
  comment under way has read both at the same time. Where nobody edits files,
  `TicketFiles` implements `TicketStore` (`FilesAreThoseOfTicketStore`).
* `TicketListsProofs`: `ListsAreSound`, without any assumption on the index, and
  under `IndexMaintained`, whatever fails, `OnlyCutIsMissed` and `ListsAreComplete`:
  a ticket that keeps matching is still to be read or already found, because it
  was a candidate when the index was asked (it is not cut and no change to it was
  half done, and an update never takes it out under a label it keeps) and its file
  is never gone.
* `TrackerProofs`: `TypeCorrect`, `OkIsTrue` (`AnswersAreTrue`),
  `DanglingOnlyByDelete`, and `NodesKeepFiles`: where neither plans nor meta-plans
  nor sets are deleted, nodes keep their files for ever, whatever else is requested.
  The strengthening `ServiceInv` says of each request what its calls so far have
  achieved, and that at most one request mutates, so that no other has undone it;
  every call is then `Sound`.
* `TrackerApiProofs`: `ClientErrorsAreHarmless` and `SteadyQueriesSucceed`. For
  the first, `ApiInv` says at which calls a mutation has touched nothing yet, and
  what the calls behind a "not found" have found missing. For the second,
  `QueryInv` says that edges end at nodes, that a steady read has a graph whose
  nodes have files, and that what it has still to load is among those files.
* `MetaPlanStoreProofs`: `TypeCorrect`, `MutationsWhole`, `OrphansOnlyByDelete`
  and `ReadsFind`. The strengthening says what each call of the mutation under
  way has made of the two files, that at most one mutation is under way, that the
  plan whose yaml file is next to be written has its ticket, and that a plan that
  has been whole since a read began is still to be read or already found.

Only model-checked: `RequestsComplete` (liveness, out of the prover's reach) and
the violations.

## Not modelled, and why

* Routing, decoding and encoding of requests, which are generated code, and the
  type filter of the list of edges. Input checks are in the model where a
  property speaks of them (`Valid`).
* The YAML library: a front matter or a graph that was written is read as it was.
  Creation and update times are left out.
* Temp files that a crash leaves behind: they end neither in `.md` nor in
  `.metaplan.yaml` nor are they `tracking-set.yaml`, so no one reads them.
* The end-to-end test runner, the mocks and the deployment files: they are beside
  the program, sequential, and keep nothing.

Seen while modelling, and left without a run: a list of edges, children or
blocking tickets of an unknown set is answered 500 where DESIGN.md:256 describes
404 for what is not found (`EdgeStatus` and `QueryStatus` have it); an update
of a ticket drops its comments.
