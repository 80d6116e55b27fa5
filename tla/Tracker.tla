------------------------------ MODULE Tracker ------------------------------
(***************************************************************************)
(* The services of one tracking set.                                       *)
(*                                                                         *)
(* A ticket is a file and a node of the graph; a plan is one too, with a   *)
(* parent edge to each of its tasks.  TicketService, PlanService and       *)
(* GraphService keep the two together by calling the ticket store and the  *)
(* graph store one after the other.  A meta-plan is the file of a ticket   *)
(* and a yaml file beside it; MetaPlanService knows nothing of the graph.  *)
(* There is no transaction around the calls: an error ends the request     *)
(* with the calls before it done, and a crash ends it anywhere.            *)
(*                                                                         *)
(* Clients send one mutation at a time here, as the design assumes, beside *)
(* any number of reads.  A call of the graph store is one step then, as    *)
(* GraphStoreProofs shows; a call of the ticket store is its step on the   *)
(* file, one of the meta-plan store a step on each of its two files.       *)
(* Labels, comments and the index are TicketStore's, what a meta-plan says *)
(* is MetaPlanStore's.  Requests that a service refuses before its first   *)
(* call touch nothing and are left out, and so are the four lists, which   *)
(* only read: they are in SetLists, TicketStore and MetaPlanStore.         *)
(***************************************************************************)
EXTENDS TicketGraph

CONSTANTS
    Plans,          \* the IDs plan requests name; ticket requests name them too
    MetaPlans,      \* the IDs meta-plan requests name, and others as well
    Workers,        \* goroutines that serve requests
    Ops,            \* the operations clients request
    MaxCopies       \* no edge is requested that is listed so often

TicketOps == {"CreateTicket", "UpdateTicket", "DeleteTicket", "AddComment"}
PlanOps == {"CreatePlan", "UpdatePlan", "DeletePlan"}
MetaOps == {"CreateMetaPlan", "UpdateMetaPlan", "DeleteMetaPlan"}
EdgeOps == {"AddEdge", "RemoveEdge"}
SetOps == {"CreateSet", "DeleteSet"}
Deletes == {"DeleteTicket", "DeletePlan", "DeleteMetaPlan", "DeleteSet"}
Rewrites == {"UpdateTicket", "UpdatePlan", "UpdateMetaPlan", "AddComment"}
ReadOps == {"GetTicket", "GetPlan", "GetMetaPlan", "GetChildren", "GetBlocking"}
SetReads == {"GetSet", "ListEdges"}

\* Every mutation, and every read but for the lists of sets and of tickets.
AllOps == TicketOps \cup PlanOps \cup MetaOps \cup EdgeOps \cup SetOps \cup ReadOps \cup SetReads

ASSUME PlansAssumption == Plans \subseteq Tickets
ASSUME MetaPlansAssumption == MetaPlans \subseteq Tickets
ASSUME OpsAssumption == Ops \subseteq AllOps

Parent(p, t) == [from |-> p, to |-> t, type |-> "parent"]

\* An update of a plan carries tasks as a create does.
Requests ==
    [op : Ops \cap (TicketOps \cup {"GetTicket", "GetChildren", "GetBlocking"}), id : Tickets]
        \cup [op : Ops \cap {"GetPlan", "DeletePlan"}, id : Plans]
        \cup {q \in [op : Ops \cap {"CreatePlan", "UpdatePlan"}, id : Plans, tasks : SUBSET Tickets] :
                 \A t \in q.tasks : Parent(q.id, t) \in Edges}
        \cup [op : Ops \cap (MetaOps \cup {"GetMetaPlan"}), id : MetaPlans]
        \cup [op : Ops \cap EdgeOps, edge : Edges]
        \cup [op : Ops \cap (SetOps \cup SetReads)]

ASSUME NoRequestAssumption == None \notin Requests

VARIABLES
    graph,   \* the graph in tracking-set.yaml, or None
    file,    \* file[t]: tickets/<t>.md is there
    meta,    \* meta[t]: tickets/<t>.metaplan.yaml is there
    pc,      \* pc[w]: the next call of worker w
    req,     \* req[w]: the request it serves, or None
    todo,    \* todo[w]: the tasks still to link, or the tickets still to load
    res      \* res[w]: the answer, or how the first half of a removal went

disk == <<graph, file, meta>>
vars == <<graph, file, meta, pc, req, todo, res>>

-----------------------------------------------------------------------------

Init ==
    /\ graph = None
    /\ file = [t \in Tickets |-> FALSE]
    /\ meta = [t \in Tickets |-> FALSE]
    /\ pc = [w \in Workers |-> "idle"]
    /\ req = [w \in Workers |-> None]
    /\ todo = [w \in Workers |-> {}]
    /\ res = [w \in Workers |-> "ok"]

Mutates(q) == q.op \notin ReadOps \cup SetReads

FirstDeleteFileFirst(q) ==
    CASE q.op \in {"DeleteTicket", "DeletePlan"} -> "remove"
      [] q.op = "DeleteMetaPlan" -> "removeTicket"
      [] q.op = "DeleteSet" -> "clear"

FirstDeleteTicketOnly(q) ==
    CASE q.op = "DeleteTicket" -> "unlink"
      [] q.op \in {"DeletePlan", "DeleteMetaPlan"} -> "remove"
      [] q.op = "DeleteSet" -> "clear"

FirstDelete(q) ==
    CASE q.op = "DeleteTicket" -> "unlink"
      [] q.op = "DeletePlan" -> "remove"
      [] q.op = "DeleteMetaPlan" -> "removeTicket"
      [] q.op = "DeleteSet" -> "clear"

\* The first call of each service method.
FirstStep(q) ==
    CASE q.op \in {"CreateTicket", "CreatePlan", "CreateMetaPlan"} -> "write"
      [] q.op \in Rewrites -> "read"
      [] q.op \in Deletes -> FirstDelete(q)
      [] q.op \in EdgeOps -> "edge"
      [] q.op = "CreateSet" -> "reset"
      [] q.op \in {"GetTicket", "GetPlan", "GetMetaPlan"} -> "reread"
      [] q.op \in SetReads -> "graph"
      [] OTHER -> "query"

\* The edges a request adds.
Adds(q) ==
    CASE q.op = "CreatePlan" -> {Parent(q.id, t) : t \in q.tasks}
      [] q.op = "AddEdge" -> {q.edge}
      [] OTHER -> {}

\* A bound on the model: the edges are listed less than MaxCopies times.
MayRepeat(q) == graph # None => \A e \in Adds(q) : graph.edges[e] < MaxCopies

Begin(w, q) ==
    /\ pc[w] = "idle"
    /\ Mutates(q) => \A v \in Workers : pc[v] # "idle" => ~ Mutates(req[v])
    /\ MayRepeat(q)
    /\ req' = [req EXCEPT ![w] = q]
    /\ todo' = [todo EXCEPT ![w] = IF q.op = "CreatePlan" THEN q.tasks ELSE {}]
    /\ pc' = [pc EXCEPT ![w] = FirstStep(q)]
    /\ UNCHANGED <<graph, file, meta, res>>

\* The call of w has returned, and with the tasks or tickets left it goes on.
Continue(w, step, left) ==
    /\ pc' = [pc EXCEPT ![w] = step]
    /\ todo' = [todo EXCEPT ![w] = left]
    /\ UNCHANGED <<req, res>>

\* The call of w was its last, or failed.
Answer(w, r) ==
    /\ pc' = [pc EXCEPT ![w] = "done"]
    /\ todo' = [todo EXCEPT ![w] = {}]
    /\ res' = [res EXCEPT ![w] = r]
    /\ UNCHANGED req

-----------------------------------------------------------------------------
(***************************************************************************)
(* Calls of the ticket store.                                              *)
(***************************************************************************)

\* A create does not look whether there is such a set or such a ticket.
WriteFile(w) ==
    /\ pc[w] = "write"
    /\ file' = [file EXCEPT ![req[w].id] = TRUE]
    /\ \/ req[w].op \in {"CreateTicket", "CreatePlan"} /\ Continue(w, "node", todo[w])
       \/ req[w].op \in {"UpdateTicket", "UpdatePlan"} /\ Continue(w, "reread", {})
       \/ req[w].op \in {"CreateMetaPlan", "UpdateMetaPlan"} /\ Continue(w, "writeYaml", {})
       \/ req[w].op = "AddComment" /\ Answer(w, "ok")
    /\ UNCHANGED <<graph, meta>>

\* An update reads the file before it writes, and its service once more after.
ReadFile(w) ==
    /\ pc[w] \in {"read", "reread"}
    /\ file[req[w].id]
    /\ \/ pc[w] = "read" /\ Continue(w, "write", {})
       \/ pc[w] = "reread" /\ req[w].op \in {"UpdateTicket", "GetTicket"} /\ Answer(w, "ok")
       \/ pc[w] = "reread" /\ req[w].op \in {"UpdatePlan", "GetPlan"} /\ Continue(w, "graph", {})
       \/ pc[w] = "reread" /\ req[w].op \in {"UpdateMetaPlan", "GetMetaPlan"} /\ Continue(w, "readYaml", {})
    /\ UNCHANGED disk

FileMissing(w) ==
    /\ pc[w] \in {"read", "reread", "remove"}
    /\ ~ file[req[w].id]
    /\ Answer(w, "notfound")
    /\ UNCHANGED disk

RemoveFile(w) ==
    /\ pc[w] = "remove"
    /\ file[req[w].id]
    /\ file' = [file EXCEPT ![req[w].id] = FALSE]
    /\ Answer(w, "ok")
    /\ UNCHANGED <<graph, meta>>

-----------------------------------------------------------------------------
(***************************************************************************)
(* Calls of the meta-plan store that touch the yaml file.                  *)
(***************************************************************************)

WriteYaml(w) ==
    /\ pc[w] = "writeYaml"
    /\ meta' = [meta EXCEPT ![req[w].id] = TRUE]
    /\ \/ req[w].op = "CreateMetaPlan" /\ Answer(w, "ok")
       \/ req[w].op = "UpdateMetaPlan" /\ Continue(w, "reread", {})
    /\ UNCHANGED <<graph, file>>

\* A meta-plan whose yaml file is missing is not found.
ReadYaml(w) ==
    /\ pc[w] = "readYaml"
    /\ Answer(w, IF meta[req[w].id] THEN "ok" ELSE "notfound")
    /\ UNCHANGED disk

\* The yaml file is removed even when the ticket file cannot be.
ThenYaml(w, r) ==
    /\ pc' = [pc EXCEPT ![w] = "removeYaml"]
    /\ res' = [res EXCEPT ![w] = r]
    /\ UNCHANGED <<req, todo>>

\* The ticket of any ID goes, and its node in the graph stays.
RemoveTicket(w) ==
    /\ pc[w] = "removeTicket"
    /\ file' = [file EXCEPT ![req[w].id] = FALSE]
    /\ ThenYaml(w, IF file[req[w].id] THEN "ok" ELSE "notfound")
    /\ UNCHANGED <<graph, meta>>

\* What happened to the ticket file is answered first.
Worst(ticketRes, yamlRes) == IF ticketRes = "ok" THEN yamlRes ELSE ticketRes

RemoveYaml(w) ==
    /\ pc[w] = "removeYaml"
    /\ meta' = [meta EXCEPT ![req[w].id] = FALSE]
    /\ Answer(w, Worst(res[w], IF meta[req[w].id] THEN "ok" ELSE "notfound"))
    /\ UNCHANGED <<graph, file>>

-----------------------------------------------------------------------------
(***************************************************************************)
(* Calls of the graph store.                                               *)
(***************************************************************************)

GraphMissing(w) ==
    /\ pc[w] \in {"node", "unlink", "edge", "graph", "query"}
    /\ graph = None
    /\ Answer(w, "notfound")
    /\ UNCHANGED disk

\* The request goes on to link what is left, or is served.
LinkOrAnswer(w, left) == IF left = {} THEN Answer(w, "ok") ELSE Continue(w, "edge", left)

AddNode(w) ==
    /\ pc[w] = "node"
    /\ graph # None
    /\ ~ HasNode(graph, req[w].id)
    /\ graph' = WithNode(graph, req[w].id)
    /\ LinkOrAnswer(w, todo[w])
    /\ UNCHANGED <<file, meta>>

AddNodeAgainAnswers(w) ==
    /\ pc[w] = "node"
    /\ graph # None
    /\ HasNode(graph, req[w].id)
    /\ Answer(w, "ok")
    /\ UNCHANGED disk

AddNodeAgain(w) ==
    /\ pc[w] = "node"
    /\ graph # None
    /\ HasNode(graph, req[w].id)
    /\ LinkOrAnswer(w, todo[w])
    /\ UNCHANGED disk

RemoveNode(w) ==
    /\ pc[w] = "unlink"
    /\ graph # None
    /\ graph' = WithoutNode(graph, req[w].id)
    /\ Continue(w, "remove", {})
    /\ UNCHANGED <<file, meta>>

\* The edges a worker may add next, one call for each.
Linking(w) ==
    CASE req[w].op = "CreatePlan" -> {Parent(req[w].id, t) : t \in todo[w]}
      [] req[w].op = "AddEdge" -> {req[w].edge}
      [] OTHER -> {}

AddEdge(w, e) ==
    /\ pc[w] = "edge"
    /\ graph # None
    /\ e \in Linking(w)
    /\ EndpointsExist(graph, e)
    /\ graph' = WithEdge(graph, e)
    /\ LinkOrAnswer(w, todo[w] \ {e.to})
    /\ UNCHANGED <<file, meta>>

\* The edges a plan has before this one stay.
AddEdgeNoNode(w, e) ==
    /\ pc[w] = "edge"
    /\ graph # None
    /\ e \in Linking(w)
    /\ ~ EndpointsExist(graph, e)
    /\ Answer(w, "nonode")
    /\ UNCHANGED disk

RemoveEdge(w) ==
    /\ pc[w] = "edge"
    /\ graph # None
    /\ req[w].op = "RemoveEdge"
    /\ graph' = WithoutEdge(graph, req[w].edge)
    /\ Answer(w, "ok")
    /\ UNCHANGED <<file, meta>>

Children(g, p) ==
    {t \in Tickets : \E e \in Edges : HasEdge(g, e) /\ e.type = "parent" /\ e.from = p /\ e.to = t}

Blocking(g, b) ==
    {t \in Tickets : \E e \in Edges : HasEdge(g, e) /\ e.type = "blocks" /\ e.to = b /\ e.from = t}

\* A plan has its tasks from the graph; so have the edges and the set itself.
ReadGraph(w) ==
    /\ pc[w] = "graph"
    /\ graph # None
    /\ Answer(w, "ok")
    /\ UNCHANGED disk

Query(w) ==
    /\ pc[w] = "query"
    /\ graph # None
    /\ Continue(w, "load", IF req[w].op = "GetChildren" THEN Children(graph, req[w].id)
                                                      ELSE Blocking(graph, req[w].id))
    /\ UNCHANGED disk

\* Then each ticket is loaded; one that is missing ends the query.
Load(w, t) ==
    /\ pc[w] = "load"
    /\ t \in todo[w]
    /\ IF file[t] THEN Continue(w, "load", todo[w] \ {t}) ELSE Answer(w, "notfound")
    /\ UNCHANGED disk

Loaded(w) ==
    /\ pc[w] = "load"
    /\ todo[w] = {}
    /\ Answer(w, "ok")
    /\ UNCHANGED disk

-----------------------------------------------------------------------------
(***************************************************************************)
(* The set, failures and the program.                                      *)
(***************************************************************************)

\* A set that is there is created again: its graph is lost, its files are not.
ResetGraph(w) ==
    /\ pc[w] = "reset"
    /\ graph' = EmptyGraph
    /\ Answer(w, "ok")
    /\ UNCHANGED <<file, meta>>

\* RemoveAll removes the files one after the other, in the order it finds them.
Clear(w) ==
    /\ pc[w] = "clear"
    /\ \/ graph # None /\ graph' = None /\ UNCHANGED <<file, meta>>
       \/ \E t \in Tickets : file[t] /\ file' = [file EXCEPT ![t] = FALSE] /\ UNCHANGED <<graph, meta>>
       \/ \E t \in Tickets : meta[t] /\ meta' = [meta EXCEPT ![t] = FALSE] /\ UNCHANGED <<graph, file>>
    /\ UNCHANGED <<pc, req, todo, res>>

Cleared(w) ==
    /\ pc[w] = "clear"
    /\ graph = None /\ \A t \in Tickets : ~ file[t] /\ ~ meta[t]
    /\ Answer(w, "ok")
    /\ UNCHANGED disk

\* A file-system call fails and has changed nothing.
IOError(w) ==
    /\ \/ pc[w] = "removeTicket" /\ ThenYaml(w, "error")
       \/ pc[w] = "removeYaml" /\ Answer(w, Worst(res[w], "error"))
       \/ pc[w] \notin {"idle", "removeTicket", "removeYaml", "done"} /\ Answer(w, "error")
    /\ UNCHANGED disk

Respond(w) ==
    /\ pc[w] = "done"
    /\ pc' = [pc EXCEPT ![w] = "idle"]
    /\ req' = [req EXCEPT ![w] = None]
    /\ res' = [res EXCEPT ![w] = "ok"]
    /\ UNCHANGED <<graph, file, meta, todo>>

\* The program stops at any point and starts again.
Crash ==
    /\ pc' = [w \in Workers |-> "idle"]
    /\ req' = [w \in Workers |-> None]
    /\ todo' = [w \in Workers |-> {}]
    /\ res' = [w \in Workers |-> "ok"]
    /\ UNCHANGED disk

Step(w) ==
    \/ WriteFile(w)     \/ ReadFile(w)      \/ FileMissing(w)  \/ RemoveFile(w)
    \/ WriteYaml(w)     \/ ReadYaml(w)      \/ RemoveTicket(w) \/ RemoveYaml(w)
    \/ GraphMissing(w)
    \/ AddNode(w)       \/ AddNodeAgain(w)  \/ RemoveNode(w)
    \/ \E e \in Edges : AddEdge(w, e) \/ AddEdgeNoNode(w, e)
    \/ RemoveEdge(w)
    \/ ReadGraph(w)     \/ Query(w)         \/ Loaded(w)
    \/ \E t \in Tickets : Load(w, t)
    \/ ResetGraph(w)    \/ Clear(w)         \/ Cleared(w)
    \/ Respond(w)

Next ==
    \/ \E w \in Workers : Step(w) \/ IOError(w) \/ \E q \in Requests : Begin(w, q)
    \/ Crash

Spec == Init /\ [][Next]_vars

-----------------------------------------------------------------------------
(***************************************************************************)
(* Properties.                                                             *)
(***************************************************************************)

Steps ==
    {"idle", "write", "read", "reread", "remove", "writeYaml", "readYaml", "removeTicket", "removeYaml",
     "node", "unlink", "edge", "graph", "query", "load", "reset", "clear", "done"}

Serves(w, ops) == req[w] # None /\ req[w].op \in ops

\* The disk holds a graph and files, and a worker waits at a call only with a
\* request whose service makes it.
TypeOK ==
    /\ graph \in Graphs \cup {None}
    /\ file \in [Tickets -> BOOLEAN]
    /\ meta \in [Tickets -> BOOLEAN]
    /\ pc \in [Workers -> Steps]
    /\ req \in [Workers -> Requests \cup {None}]
    /\ todo \in [Workers -> SUBSET Tickets]
    /\ res \in [Workers -> {"ok", "notfound", "nonode", "error"}]
    /\ \A w \in Workers :
          /\ pc[w] = "idle" <=> req[w] = None
          /\ pc[w] = "write" => Serves(w, {"CreateTicket", "CreatePlan", "CreateMetaPlan"} \cup Rewrites)
          /\ pc[w] = "read" => Serves(w, Rewrites)
          /\ pc[w] = "reread" =>
                Serves(w, {"UpdateTicket", "GetTicket", "UpdatePlan", "GetPlan", "UpdateMetaPlan", "GetMetaPlan"})
          /\ pc[w] = "writeYaml" => Serves(w, {"CreateMetaPlan", "UpdateMetaPlan"})
          /\ pc[w] = "readYaml" => Serves(w, {"UpdateMetaPlan", "GetMetaPlan"})
          /\ pc[w] \in {"removeTicket", "removeYaml"} => Serves(w, {"DeleteMetaPlan"})
          /\ pc[w] = "graph" => Serves(w, {"UpdatePlan", "GetPlan"} \cup SetReads)
          /\ pc[w] = "node" => Serves(w, {"CreateTicket", "CreatePlan"})
          /\ pc[w] = "unlink" => Serves(w, {"DeleteTicket"})
          /\ pc[w] = "remove" => Serves(w, {"DeleteTicket", "DeletePlan"})
          /\ pc[w] = "edge" => Serves(w, EdgeOps \cup {"CreatePlan"})
          /\ pc[w] \in {"query", "load"} => Serves(w, {"GetChildren", "GetBlocking"})
          /\ pc[w] = "reset" => Serves(w, {"CreateSet"})
          /\ pc[w] = "clear" => Serves(w, {"DeleteSet"})
          /\ todo[w] # {} =>
                \/ pc[w] \in {"write", "node", "edge"} /\ Serves(w, {"CreatePlan"})
                \/ pc[w] = "load"

HasTicket(t) == graph # None /\ HasNode(graph, t)

\* A node without its file: GET children and GET blocking, which load a file for
\* each node at an edge, answer with an error.
Dangling(t) == HasTicket(t) /\ ~ file[t]

\* Only the delete of a plan, of a meta-plan or of the whole set leaves a node
\* without its file.  Nothing else does, in whatever state failed calls and
\* crashes have left the disk: a file is written before its node is added, and
\* removed after it.
DanglingByDelete ==
    [][\A t \in Tickets :
          Dangling(t)' /\ ~ Dangling(t)
             => \E w \in Workers :
                   /\ Serves(w, {"DeletePlan", "DeleteMetaPlan", "DeleteSet"})
                   /\ pc[w] \in {"remove", "removeTicket", "clear"}]_vars

\* The services keep the graph consistent with the files: each node has one.
NodesHaveFiles == \A t \in Tickets : ~ Dangling(t)

\* TicketService creates "ticket + graph node atomically": a create that is
\* answered with an error leaves no file without its node behind.
FailedCreateLeavesNothing ==
    [][\A w \in Workers :
          Serves(w, {"CreateTicket"}) /\ pc[w] # "done" /\ pc'[w] = "done" /\ res'[w] # "ok"
             => (file'[req[w].id] => HasTicket(req[w].id)')]_vars

\* What a request asks for is done.
Achieved(q) ==
    CASE q.op = "CreateTicket" -> file[q.id] /\ HasTicket(q.id)
      [] q.op = "CreatePlan" ->
            /\ file[q.id] /\ HasTicket(q.id)
            /\ \A t \in q.tasks : HasTicket(t) /\ HasEdge(graph, Parent(q.id, t))
      [] q.op \in {"UpdateTicket", "AddComment"} -> file[q.id]
      [] q.op = "UpdatePlan" -> file[q.id] /\ \A t \in q.tasks : HasEdge(graph, Parent(q.id, t))
      [] q.op \in {"CreateMetaPlan", "UpdateMetaPlan"} -> file[q.id] /\ meta[q.id]
      [] q.op = "DeleteTicket" ->
            /\ ~ file[q.id] /\ ~ HasTicket(q.id)
            /\ \A e \in Edges : Incident(e, q.id) => ~ HasEdge(graph, e)
      [] q.op = "DeletePlan" -> ~ file[q.id]
      [] q.op = "DeleteMetaPlan" -> ~ file[q.id] /\ ~ meta[q.id]
      [] q.op = "AddEdge" -> HasEdge(graph, q.edge) /\ HasTicket(q.edge.from) /\ HasTicket(q.edge.to)
      [] q.op = "RemoveEdge" -> ~ HasEdge(graph, q.edge)
      [] q.op = "CreateSet" -> graph = EmptyGraph
      [] q.op = "DeleteSet" -> graph = None /\ \A t \in Tickets : ~ file[t] /\ ~ meta[t]
      [] OTHER -> TRUE

\* An update of a plan has written the file, and looked at none of the tasks it
\* was given.
TasksIgnored(q) == q.op = "UpdatePlan" /\ file[q.id]

\* A request that is answered "ok" has achieved all it asks for, whatever half
\* done requests it has found on the disk: a client that repeats a create or a
\* delete until it is answered "ok" has repaired what the earlier tries left.
\* There is one exception: the tasks that come with an update of a plan are
\* accepted and ignored, and its "ok" speaks of the file alone.
AnswersAreTrue ==
    [][\A w \in Workers :
          pc[w] # "done" /\ pc'[w] = "done" /\ res'[w] = "ok"
             => (Achieved(req[w]) \/ TasksIgnored(req[w]))']_vars
=============================================================================
