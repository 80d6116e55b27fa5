----------------------------- MODULE GraphStore -----------------------------
(***************************************************************************)
(* tracking-set.yaml under concurrent request handlers.                    *)
(*                                                                         *)
(* One file per tracking set holds its whole graph.  Every mutation reads  *)
(* the file, edits the graph in memory and renames a new file over the old *)
(* one; nothing is locked, so the handlers of two requests interleave      *)
(* between the read and the rename.  Creating a set makes its directory,   *)
(* then the file; deleting it removes the files, then the directory.  A    *)
(* crash drops every request in flight and keeps the files.                *)
(***************************************************************************)
EXTENDS TicketGraph

CONSTANTS
    Sets,             \* tracking set names that occur in request paths
    ValidNames,       \* those that validNamePattern accepts
    ValidEdgeTypes,   \* parent, blocks, relates-to
    Workers,          \* goroutines that serve requests
    Writers,          \* the workers that may serve a mutation
    MaxCopies         \* no AddEdge is sent for an edge listed so often

ASSUME NamesAssumption == ValidNames \subseteq Sets
ASSUME WritersAssumption == Writers \subseteq Workers

NodeOps == {"AddNode", "RemoveNode"}
EdgeOps == {"AddEdge", "RemoveEdge"}
SetOps == {"CreateSet", "DeleteSet"}

Requests ==
    [op : NodeOps, set : Sets, node : Tickets]
        \cup [op : EdgeOps, set : Sets, edge : Edges]
        \cup [op : SetOps \cup {"Get"}, set : Sets]

ASSUME NoRequestAssumption == None \notin Requests

Answers == {"ok", "validation", "notfound", "nonode", "error"}

\* The directory of a set is not there, there without a tickets
\* subdirectory, or there with one.
DirStates == {"none", "bare", "full"}

VARIABLES
    yaml,   \* yaml[s]: the graph in tracking-sets/<s>/tracking-set.yaml, or None
    dir,    \* dir[s]: the directory tracking-sets/<s>, see DirStates
    pc,     \* pc[w]: the next file-system step of worker w
    req,    \* req[w]: the request it serves, or None
    ts,     \* ts[w]: the graph it will write, or has read for its client
    res     \* res[w]: its answer

files == <<yaml, dir>>
local == <<pc, req, ts, res>>
vars == <<yaml, dir, pc, req, ts, res>>

-----------------------------------------------------------------------------

Init ==
    /\ yaml = [s \in Sets |-> None]
    /\ dir = [s \in Sets |-> "none"]
    /\ pc = [w \in Workers |-> "idle"]
    /\ req = [w \in Workers |-> None]
    /\ ts = [w \in Workers |-> EmptyGraph]
    /\ res = [w \in Workers |-> "ok"]

\* The store call of w returns r, and the graph g to a client that asked for it.
Answer(w, r, g) ==
    /\ pc' = [pc EXCEPT ![w] = "done"]
    /\ ts' = [ts EXCEPT ![w] = g]
    /\ res' = [res EXCEPT ![w] = r]
    /\ UNCHANGED req

\* w has edited the graph in memory and goes on to write it.
Edited(w, g) ==
    /\ pc' = [pc EXCEPT ![w] = "write"]
    /\ ts' = [ts EXCEPT ![w] = g]
    /\ UNCHANGED <<yaml, dir, req, res>>

ValidAnyName(q) == q.op = "AddEdge" => q.edge.type \in ValidEdgeTypes

\* The checks the services make before they call a store.
Valid(q) ==
    /\ q.op = "CreateSet" => q.set \in ValidNames
    /\ q.op = "AddEdge" => q.edge.type \in ValidEdgeTypes

\* A bound on the model: the edge is listed less than MaxCopies times, in the
\* file and in the graphs that may be written over it.
MayRepeat(q) ==
    /\ yaml[q.set] # None => yaml[q.set].edges[q.edge] < MaxCopies
    /\ \A w \in Workers : ts[w].edges[q.edge] < MaxCopies

BeginUnchecked(w, q) ==
    /\ pc[w] = "idle"
    /\ q.op # "Get" => w \in Writers
    /\ q.op = "AddEdge" => MayRepeat(q)
    /\ req' = [req EXCEPT ![w] = q]
    /\ pc' = [pc EXCEPT ![w] = "begin"]
    /\ UNCHANGED <<yaml, dir, ts, res>>

Begin(w, q) ==
    /\ pc[w] = "idle"
    /\ q.op # "Get" => w \in Writers
    /\ q.op = "AddEdge" => MayRepeat(q)
    /\ req' = [req EXCEPT ![w] = q]
    /\ IF Valid(q)
       THEN pc' = [pc EXCEPT ![w] = "begin"] /\ UNCHANGED res
       ELSE pc' = [pc EXCEPT ![w] = "done"] /\ res' = [res EXCEPT ![w] = "validation"]
    /\ UNCHANGED <<yaml, dir, ts>>

-----------------------------------------------------------------------------
(***************************************************************************)
(* The read of a read-modify-write.                                        *)
(***************************************************************************)

At(w, step, ops) == pc[w] = step /\ req[w].op \in ops

File(w) == yaml[req[w].set]

ReadsGraph(w, ops) == At(w, "begin", ops) /\ File(w) # None

SetNotFound(w) ==
    /\ At(w, "begin", NodeOps \cup EdgeOps \cup {"Get"})
    /\ File(w) = None
    /\ Answer(w, "notfound", EmptyGraph)
    /\ UNCHANGED files

Get(w) ==
    /\ ReadsGraph(w, {"Get"})
    /\ Answer(w, "ok", File(w))
    /\ UNCHANGED files

AddNode(w) ==
    /\ ReadsGraph(w, {"AddNode"})
    /\ ~ HasNode(File(w), req[w].node)
    /\ Edited(w, WithNode(File(w), req[w].node))

AddNodeAgain(w) ==
    /\ ReadsGraph(w, {"AddNode"})
    /\ HasNode(File(w), req[w].node)
    /\ Answer(w, "ok", EmptyGraph)
    /\ UNCHANGED files

RemoveNode(w) ==
    /\ ReadsGraph(w, {"RemoveNode"})
    /\ Edited(w, WithoutNode(File(w), req[w].node))

AddEdgeUnchecked(w) ==
    /\ ReadsGraph(w, {"AddEdge"})
    /\ Edited(w, WithEdge(File(w), req[w].edge))

AddEdge(w) ==
    /\ ReadsGraph(w, {"AddEdge"})
    /\ EndpointsExist(File(w), req[w].edge)
    /\ Edited(w, WithEdge(File(w), req[w].edge))

AddEdgeNoNode(w) ==
    /\ ReadsGraph(w, {"AddEdge"})
    /\ ~ EndpointsExist(File(w), req[w].edge)
    /\ Answer(w, "nonode", EmptyGraph)
    /\ UNCHANGED files

RemoveEdge(w) ==
    /\ ReadsGraph(w, {"RemoveEdge"})
    /\ Edited(w, WithoutEdge(File(w), req[w].edge))

-----------------------------------------------------------------------------
(***************************************************************************)
(* The write, and the steps of creating and deleting a tracking set.       *)
(***************************************************************************)

\* Create does not look for an existing set: it writes an empty graph.
MakeSetDir(w) ==
    /\ At(w, "begin", {"CreateSet"})
    /\ dir' = [dir EXCEPT ![req[w].set] = "full"]
    /\ pc' = [pc EXCEPT ![w] = "write"]
    /\ ts' = [ts EXCEPT ![w] = EmptyGraph]
    /\ UNCHANGED <<yaml, req, res>>

WriteTrackingSetMakesDir(w) ==
    /\ pc[w] = "write"
    /\ yaml' = [yaml EXCEPT ![req[w].set] = ts[w]]
    /\ dir' = [dir EXCEPT ![req[w].set] = IF @ = "none" THEN "bare" ELSE @]
    /\ Answer(w, "ok", EmptyGraph)

\* CreateTemp needs the directory: writeTrackingSet does not make it.
WriteTrackingSet(w) ==
    /\ pc[w] = "write"
    /\ dir[req[w].set] # "none"
    /\ yaml' = [yaml EXCEPT ![req[w].set] = ts[w]]
    /\ Answer(w, "ok", EmptyGraph)
    /\ UNCHANGED dir

\* os.RemoveAll unlinks what it finds in the directory ...
RemoveFiles(w) ==
    /\ At(w, "begin", {"DeleteSet"})
    /\ dir[req[w].set] # "none"
    /\ yaml' = [yaml EXCEPT ![req[w].set] = None]
    /\ dir' = [dir EXCEPT ![req[w].set] = "bare"]
    /\ pc' = [pc EXCEPT ![w] = "rmdir"]
    /\ UNCHANGED <<req, ts, res>>

\* ... and then removes it.
RemoveDir(w) ==
    /\ pc[w] = "rmdir"
    /\ File(w) = None
    /\ dir[req[w].set] # "full"
    /\ dir' = [dir EXCEPT ![req[w].set] = "none"]
    /\ Answer(w, "ok", EmptyGraph)
    /\ UNCHANGED yaml

\* A directory that is not there counts as removed.
RemoveNothing(w) ==
    /\ At(w, "begin", {"DeleteSet"})
    /\ dir[req[w].set] = "none"
    /\ Answer(w, "ok", EmptyGraph)
    /\ UNCHANGED files

Fails(w) == Answer(w, "error", EmptyGraph) /\ UNCHANGED files

\* The set was deleted between the read and the write.
WriteNoDir(w) ==
    /\ pc[w] = "write"
    /\ dir[req[w].set] = "none"
    /\ Fails(w)

\* The directory was filled again between the two steps of RemoveAll.
RemoveDirInUse(w) ==
    /\ pc[w] = "rmdir"
    /\ File(w) # None \/ dir[req[w].set] = "full"
    /\ Fails(w)

IOErrorTruncating(w) ==
    /\ pc[w] \in {"begin", "write", "rmdir"}
    /\ Answer(w, "error", EmptyGraph)
    /\ yaml' = IF pc[w] = "write" THEN [yaml EXCEPT ![req[w].set] = None] ELSE yaml
    /\ UNCHANGED dir

\* Any other error of a file-system call: a temp file is removed again, and
\* nothing has changed.
IOError(w) == pc[w] \in {"begin", "write", "rmdir"} /\ Fails(w)

Respond(w) ==
    /\ pc[w] = "done"
    /\ pc' = [pc EXCEPT ![w] = "idle"]
    /\ req' = [req EXCEPT ![w] = None]
    /\ ts' = [ts EXCEPT ![w] = EmptyGraph]
    /\ res' = [res EXCEPT ![w] = "ok"]
    /\ UNCHANGED files

-----------------------------------------------------------------------------

\* A ticket write makes the directories above its file.
MakeTicketDir(s) ==
    /\ dir' = [dir EXCEPT ![s] = "full"]
    /\ UNCHANGED <<yaml, pc, req, ts, res>>

Crash ==
    /\ pc' = [w \in Workers |-> "idle"]
    /\ req' = [w \in Workers |-> None]
    /\ ts' = [w \in Workers |-> EmptyGraph]
    /\ res' = [w \in Workers |-> "ok"]
    /\ UNCHANGED files

Step(w) ==
    \/ SetNotFound(w)  \/ Get(w)
    \/ AddNode(w)      \/ AddNodeAgain(w)   \/ RemoveNode(w)
    \/ AddEdge(w)      \/ AddEdgeNoNode(w)  \/ RemoveEdge(w)
    \/ MakeSetDir(w)   \/ WriteTrackingSet(w)
    \/ WriteNoDir(w)
    \/ RemoveFiles(w)  \/ RemoveDir(w)      \/ RemoveDirInUse(w)
    \/ RemoveNothing(w)
    \/ Respond(w)

Next ==
    \/ \E w \in Workers : Step(w) \/ IOError(w) \/ \E q \in Requests : Begin(w, q)
    \/ \E s \in Sets : MakeTicketDir(s)
    \/ Crash

Spec == Init /\ [][Next]_vars

-----------------------------------------------------------------------------
(***************************************************************************)
(* Properties.                                                             *)
(***************************************************************************)

Steps == {"idle", "begin", "write", "rmdir", "done"}

\* The files hold graphs, and a worker waits at a file-system step only with
\* a request that has such a step.
TypeOK ==
    /\ yaml \in [Sets -> Graphs \cup {None}]
    /\ dir \in [Sets -> DirStates]
    /\ pc \in [Workers -> Steps]
    /\ req \in [Workers -> Requests \cup {None}]
    /\ ts \in [Workers -> Graphs]
    /\ res \in [Workers -> Answers]
    /\ \A w \in Workers :
          /\ pc[w] = "idle" <=> req[w] = None
          /\ pc[w] = "write" => req[w].op \in {"AddNode", "RemoveNode", "AddEdge", "RemoveEdge", "CreateSet"}
          /\ pc[w] = "rmdir" => req[w].op = "DeleteSet"
          /\ pc[w] \in {"begin", "write", "rmdir"} => Valid(req[w])

EdgesClosed(g) == \A e \in Edges : HasEdge(g, e) => EndpointsExist(g, e)

NodesListedOnce(g) == \A t \in Tickets : g.nodes[t] <= 1

EdgesTyped(g) == \A e \in Edges : HasEdge(g, e) => e.type \in ValidEdgeTypes

WellFormed(g) == EdgesClosed(g) /\ NodesListedOnce(g) /\ EdgesTyped(g)

\* Whatever the handlers overwrite of each other's work, no file and no answer
\* ever holds an edge to a node that is not listed, a node listed twice or an
\* edge of an unknown type: each write is the edit of one whole graph, checked
\* against that same graph.  AddEdge's endpoint check and RemoveNode's removal
\* of the edges at the node keep this, whichever of two racing writes wins.
GraphsWellFormed ==
    /\ \A s \in Sets : yaml[s] # None => WellFormed(yaml[s])
    /\ \A w \in Workers : WellFormed(ts[w])

\* A graph exists only inside a directory, and only under a name the pattern
\* accepts: a handler whose set was deleted under it cannot leave a file
\* behind where no set can be created or addressed.
GraphsInSets == \A s \in Sets : yaml[s] # None => s \in ValidNames /\ dir[s] # "none"

\* The API documents a 404 for the DELETE of a tracking set that does not exist,
\* and the handler has a branch that answers it.
DeleteReportsMissing ==
    [][\A w \in Workers :
          At(w, "begin", {"DeleteSet"}) /\ dir[req[w].set] = "none" /\ pc'[w] = "done"
             => res'[w] \in {"notfound", "error"}]_vars

-----------------------------------------------------------------------------
(***************************************************************************)
(* With one writer at a time, the assumption the design states, the files  *)
(* behave as if every request took effect at once.                         *)
(***************************************************************************)

SingleWriter == \A v, w \in Writers : v = w

\* What req[w] makes of the graph in its file.
EditOf(w) ==
    CASE req[w].op = "AddNode" -> WithNode(File(w), req[w].node)
      [] req[w].op = "RemoveNode" -> WithoutNode(File(w), req[w].node)
      [] req[w].op = "AddEdge" -> WithEdge(File(w), req[w].edge)
      [] req[w].op = "RemoveEdge" -> WithoutEdge(File(w), req[w].edge)
      [] OTHER -> EmptyGraph

Fresh(w) ==
    /\ ts[w] = EditOf(w)
    /\ req[w].op # "CreateSet" => File(w) # None
    /\ req[w].op = "AddNode" => ~ HasNode(File(w), req[w].node)
    /\ req[w].op = "AddEdge" => EndpointsExist(File(w), req[w].edge)

\* The graph a handler is about to write is the edit it was asked for of the
\* graph still in the file, and what it has checked of that graph still holds:
\* nothing was read before another write and is written after it.
WritesAreFresh == SingleWriter => \A w \in Workers : pc[w] = "write" => Fresh(w)

\* An abstract worker has not acted before its answer is known, and holds the
\* graph its client asked for from then on.
AbstractPc ==
    [w \in Workers |-> IF pc[w] \in {"write", "rmdir"} THEN "begin" ELSE pc[w]]

AbstractVal == [w \in Workers |-> IF pc[w] = "done" THEN ts[w] ELSE EmptyGraph]

Abstract == INSTANCE AtomicGraph WITH graph <- yaml, pc <- AbstractPc, val <- AbstractVal

\* Requests take effect one at a time, at the rename that publishes their edit:
\* no graph is seen half changed, no answered request is undone by a later one,
\* and a request that fails, or that a crash forgets, has changed nothing.
ImplementsAtomicGraph == Abstract!Spec

=============================================================================
