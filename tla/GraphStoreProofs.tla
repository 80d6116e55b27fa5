-------------------------- MODULE GraphStoreProofs --------------------------
(***************************************************************************)
(* Proofs about GraphStore, SetLists and SetDeletes, for every set of      *)
(* tickets, edges, names and workers.                                      *)
(***************************************************************************)
EXTENDS SetLists, SetDeletes, TicketGraphProofs

(***************************************************************************)
(* The edits keep a graph well formed.                                     *)
(***************************************************************************)

\* A set of the API starts with a graph that is well formed.
LEMMA EmptyGraphWellFormed == WellFormed(EmptyGraph)
  BY DEF EmptyGraph, WellFormed, EdgesClosed, NodesListedOnce, EdgesTyped, HasEdge

\* Listing a node that is not listed yet keeps a graph well formed.
LEMMA WithNodeWellFormed ==
    ASSUME NEW g \in Graphs, NEW t \in Tickets, WellFormed(g), ~ HasNode(g, t)
    PROVE  WellFormed(WithNode(g, t))
  <1> DEFINE h == WithNode(g, t)
  <1>1. h.edges = g.edges
    BY DEF WithNode, Graphs
  <1>2. h.nodes[t] = 1 /\ \A u \in Tickets : u # t => h.nodes[u] = g.nodes[u]
    BY DEF WithNode, Graphs, HasNode
  <1>3. EdgesClosed(h)
    BY <1>1, <1>2, EdgesAssumption DEF WellFormed, EdgesClosed, EndpointsExist, HasEdge, HasNode
  <1>4. NodesListedOnce(h)
    <2> SUFFICES ASSUME NEW u \in Tickets PROVE h.nodes[u] <= 1
      BY DEF NodesListedOnce
    <2>1. g.nodes[u] \in Nat /\ g.nodes[u] <= 1
      BY DEF WellFormed, NodesListedOnce, Graphs
    <2>2. h.nodes[u] = 1 \/ h.nodes[u] = g.nodes[u]
      BY <1>2
    <2> QED BY <2>1, <2>2
  <1>5. EdgesTyped(h)
    BY <1>1 DEF WellFormed, EdgesTyped, HasEdge
  <1> QED BY <1>3, <1>4, <1>5 DEF WellFormed

\* Removing a node together with the edges at it keeps a graph well formed.
LEMMA WithoutNodeWellFormed ==
    ASSUME NEW g \in Graphs, NEW t \in Tickets, WellFormed(g)
    PROVE  WellFormed(WithoutNode(g, t))
  <1> DEFINE h == WithoutNode(g, t)
  <1>1. \A u \in Tickets : h.nodes[u] = IF u = t THEN 0 ELSE g.nodes[u]
    BY DEF WithoutNode
  <1>2. \A e \in Edges : h.edges[e] = IF Incident(e, t) THEN 0 ELSE g.edges[e]
    BY DEF WithoutNode
  <1>3. EdgesClosed(h)
    BY <1>1, <1>2, EdgesAssumption
    DEF WellFormed, EdgesClosed, EndpointsExist, HasEdge, HasNode, Incident
  <1>4. NodesListedOnce(h)
    <2> SUFFICES ASSUME NEW u \in Tickets PROVE h.nodes[u] <= 1
      BY DEF NodesListedOnce
    <2>1. g.nodes[u] \in Nat /\ g.nodes[u] <= 1
      BY DEF WellFormed, NodesListedOnce, Graphs
    <2>2. h.nodes[u] = 0 \/ h.nodes[u] = g.nodes[u]
      BY <1>1
    <2> QED BY <2>1, <2>2
  <1>5. EdgesTyped(h)
    BY <1>2 DEF WellFormed, EdgesTyped, HasEdge
  <1> QED BY <1>3, <1>4, <1>5 DEF WellFormed

\* Listing an edge of a known type between listed nodes keeps a graph well formed.
LEMMA WithEdgeWellFormed ==
    ASSUME NEW g \in Graphs, NEW e \in Edges, WellFormed(g),
           EndpointsExist(g, e), e.type \in ValidEdgeTypes
    PROVE  WellFormed(WithEdge(g, e))
  <1> DEFINE h == WithEdge(g, e)
  <1>1. h.nodes = g.nodes
    BY DEF WithEdge, Graphs
  <1>2. \A f \in Edges : f # e => h.edges[f] = g.edges[f]
    BY DEF WithEdge, Graphs
  <1>3. EdgesClosed(h)
    BY <1>1, <1>2 DEF WellFormed, EdgesClosed, EndpointsExist, HasEdge, HasNode
  <1>4. NodesListedOnce(h)
    BY <1>1 DEF WellFormed, NodesListedOnce
  <1>5. EdgesTyped(h)
    BY <1>2 DEF WellFormed, EdgesTyped, HasEdge
  <1> QED BY <1>3, <1>4, <1>5 DEF WellFormed

\* Removing an edge keeps a graph well formed.
LEMMA WithoutEdgeWellFormed ==
    ASSUME NEW g \in Graphs, NEW e \in Edges, WellFormed(g)
    PROVE  WellFormed(WithoutEdge(g, e))
  <1> DEFINE h == WithoutEdge(g, e)
  <1>1. h.nodes = g.nodes
    BY DEF WithoutEdge, Graphs
  <1>2. \A f \in Edges : HasEdge(h, f) => HasEdge(g, f)
    BY DEF WithoutEdge, Graphs, HasEdge
  <1>3. EdgesClosed(h)
    BY <1>1, <1>2 DEF WellFormed, EdgesClosed, EndpointsExist, HasNode
  <1>4. NodesListedOnce(h)
    BY <1>1 DEF WellFormed, NodesListedOnce
  <1>5. EdgesTyped(h)
    BY <1>2 DEF WellFormed, EdgesTyped
  <1> QED BY <1>3, <1>4, <1>5 DEF WellFormed

-----------------------------------------------------------------------------
(***************************************************************************)
(* Requests.                                                               *)
(***************************************************************************)

\* What a request carries depends on its operation alone.
LEMMA RequestFields ==
    ASSUME NEW q \in Requests
    PROVE  /\ q.op \in NodeOps \cup EdgeOps \cup SetOps \cup {"Get"}
           /\ q.set \in Sets
           /\ q.op \in NodeOps => q.node \in Tickets
           /\ q.op \in EdgeOps => q.edge \in Edges
  BY DEF Requests, NodeOps, EdgeOps, SetOps

\* A worker that is not idle serves a request.
LEMMA Serving ==
    ASSUME TypeOK, NEW w \in Workers, pc[w] # "idle"
    PROVE  req[w] \in Requests
  BY DEF TypeOK

\* Steps of a worker wait only on a request of the kind that has the step.
LEMMA AtStep ==
    ASSUME TypeOK, NEW w \in Workers, NEW step, NEW ops, At(w, step, ops), step # "idle"
    PROVE  /\ pc[w] = step
           /\ req[w] \in Requests
           /\ req[w].op \in ops
           /\ req[w].set \in Sets
           /\ File(w) \in Graphs \cup {None}
  BY Serving, RequestFields DEF At, TypeOK, File

-----------------------------------------------------------------------------
(***************************************************************************)
(* Type correctness.                                                       *)
(***************************************************************************)

\* A worker that answers leaves a well-typed state, whatever it did to the files.
LEMMA AnswerTyped ==
    ASSUME TypeOK, NEW w \in Workers, pc[w] # "idle",
           NEW r \in Answers, NEW g \in Graphs, Answer(w, r, g),
           yaml' \in [Sets -> Graphs \cup {None}], dir' \in [Sets -> DirStates]
    PROVE  TypeOK'
  BY DEF TypeOK, Answer, Steps

\* A worker that has edited a graph leaves a well-typed state.
LEMMA EditedTyped ==
    ASSUME TypeOK, NEW w \in Workers, pc[w] = "begin", NEW g \in Graphs, Edited(w, g),
           req[w].op \in NodeOps \cup EdgeOps
    PROVE  TypeOK'
  BY DEF TypeOK, Edited, Steps, NodeOps, EdgeOps

\* Every step keeps the types.
LEMMA TypeStep == TypeOK /\ [Next]_vars => TypeOK'
  <1> SUFFICES ASSUME TypeOK, [Next]_vars PROVE TypeOK'
    OBVIOUS
  <1> USE EditsAreGraphs
  <1>1. ASSUME NEW w \in Workers, NEW q \in Requests, Begin(w, q) PROVE TypeOK'
    <2>1. q # None
      BY NoRequestAssumption
    <2>2. CASE Valid(q)
      BY <1>1, <2>1, <2>2 DEF TypeOK, Begin, Steps, Valid
    <2>3. CASE ~ Valid(q)
      BY <1>1, <2>1, <2>3 DEF TypeOK, Begin, Steps, Answers
    <2> QED BY <2>2, <2>3
  <1>2. ASSUME NEW w \in Workers, Step(w) \/ IOError(w) PROVE TypeOK'
    <2>1. CASE SetNotFound(w)
      BY <2>1, AtStep, AnswerTyped DEF SetNotFound, files, Answers, TypeOK
    <2>2. CASE Get(w)
      BY <2>2, AtStep, AnswerTyped DEF Get, ReadsGraph, files, Answers, TypeOK
    <2>3. CASE AddNode(w)
      BY <2>3, AtStep, RequestFields, EditedTyped DEF AddNode, ReadsGraph, NodeOps
    <2>4. CASE AddNodeAgain(w)
      BY <2>4, AtStep, AnswerTyped DEF AddNodeAgain, ReadsGraph, files, Answers, TypeOK
    <2>5. CASE RemoveNode(w)
      BY <2>5, AtStep, RequestFields, EditedTyped DEF RemoveNode, ReadsGraph, NodeOps
    <2>6. CASE AddEdge(w)
      BY <2>6, AtStep, RequestFields, EditedTyped DEF AddEdge, ReadsGraph, EdgeOps
    <2>7. CASE AddEdgeNoNode(w)
      BY <2>7, AtStep, AnswerTyped DEF AddEdgeNoNode, ReadsGraph, files, Answers, TypeOK
    <2>8. CASE RemoveEdge(w)
      BY <2>8, AtStep, RequestFields, EditedTyped DEF RemoveEdge, ReadsGraph, EdgeOps
    <2>9. CASE MakeSetDir(w)
      BY <2>9, AtStep DEF MakeSetDir, TypeOK, Steps, DirStates
    <2>10. CASE WriteTrackingSet(w)
      BY <2>10, Serving, RequestFields, AnswerTyped DEF WriteTrackingSet, Answers, TypeOK
    <2>11. CASE WriteNoDir(w)
      BY <2>11, AnswerTyped DEF WriteNoDir, Fails, files, Answers, TypeOK
    <2>12. CASE RemoveFiles(w)
      BY <2>12, AtStep DEF RemoveFiles, TypeOK, Steps, DirStates
    <2>13. CASE RemoveDir(w)
      BY <2>13, Serving, RequestFields, AnswerTyped DEF RemoveDir, Answers, TypeOK, DirStates
    <2>14. CASE RemoveDirInUse(w)
      BY <2>14, AnswerTyped DEF RemoveDirInUse, Fails, files, Answers, TypeOK
    <2>15. CASE RemoveNothing(w)
      BY <2>15, AtStep, AnswerTyped DEF RemoveNothing, files, Answers, TypeOK
    <2>16. CASE Respond(w)
      BY <2>16 DEF Respond, TypeOK, Steps, files, Answers
    <2>17. CASE IOError(w)
      BY <2>17, AnswerTyped DEF IOError, Fails, files, Answers, TypeOK
    <2> QED
      BY <1>2, <2>1, <2>2, <2>3, <2>4, <2>5, <2>6, <2>7, <2>8, <2>9, <2>10, <2>11, <2>12,
         <2>13, <2>14, <2>15, <2>16, <2>17 DEF Step
  <1>3. ASSUME NEW s \in Sets, MakeTicketDir(s) PROVE TypeOK'
    BY <1>3 DEF MakeTicketDir, TypeOK, DirStates
  <1>4. CASE Crash
    BY <1>4 DEF Crash, TypeOK, Steps, files, Answers
  <1>5. CASE UNCHANGED vars
    BY <1>5 DEF vars, TypeOK, Valid
  <1> QED BY <1>1, <1>2, <1>3, <1>4, <1>5 DEF Next

\* The program starts in a well-typed state.
LEMMA TypeInit == Init => TypeOK
  BY EditsAreGraphs DEF Init, TypeOK, DirStates, Steps, Answers

\* The files always hold graphs, and a worker waits at a file-system step only
\* with a request that has such a step.
THEOREM TypeCorrect == Spec => []TypeOK
  BY TypeInit, TypeStep, PTL DEF Spec

-----------------------------------------------------------------------------
(***************************************************************************)
(* The graphs are well formed, whoever writes them at the same time.       *)
(***************************************************************************)

\* A worker that answers with a well-formed graph keeps every graph well formed
\* when the file it leaves behind is.
LEMMA AnswerWellFormed ==
    ASSUME TypeOK, GraphsWellFormed, NEW w \in Workers, NEW r, NEW g, Answer(w, r, g),
           WellFormed(g), \A s \in Sets : yaml'[s] # None => WellFormed(yaml'[s])
    PROVE  GraphsWellFormed'
  <1>1. \A v \in Workers : ts'[v] = g \/ ts'[v] = ts[v]
    BY DEF Answer, TypeOK
  <1> QED BY <1>1 DEF GraphsWellFormed

\* A worker that edits a graph well keeps every graph well formed.
LEMMA EditedWellFormed ==
    ASSUME TypeOK, GraphsWellFormed, NEW w \in Workers, NEW g, Edited(w, g), WellFormed(g)
    PROVE  GraphsWellFormed'
  <1>1. \A v \in Workers : ts'[v] = g \/ ts'[v] = ts[v]
    BY DEF Edited, TypeOK
  <1> QED BY <1>1 DEF GraphsWellFormed, Edited

\* Every step keeps every graph well formed: an edit is checked against the graph
\* it is made to, and the write publishes that graph as a whole.
LEMMA WellFormedStep == TypeOK /\ GraphsWellFormed /\ [Next]_vars => GraphsWellFormed'
  <1> SUFFICES ASSUME TypeOK, GraphsWellFormed, [Next]_vars PROVE GraphsWellFormed'
    OBVIOUS
  <1> USE EmptyGraphWellFormed
  <1>1. ASSUME NEW w \in Workers, NEW q \in Requests, Begin(w, q) PROVE GraphsWellFormed'
    BY <1>1 DEF Begin, GraphsWellFormed
  <1>2. ASSUME NEW w \in Workers, Step(w) \/ IOError(w) PROVE GraphsWellFormed'
    <2>1. ASSUME NEW r, Answer(w, r, EmptyGraph), UNCHANGED files PROVE GraphsWellFormed'
      BY <2>1, AnswerWellFormed DEF files, GraphsWellFormed
    <2>2. CASE SetNotFound(w) \/ AddNodeAgain(w) \/ AddEdgeNoNode(w) \/ RemoveNothing(w)
               \/ WriteNoDir(w) \/ RemoveDirInUse(w) \/ IOError(w)
      BY <2>1, <2>2 DEF SetNotFound, AddNodeAgain, AddEdgeNoNode, RemoveNothing,
                        WriteNoDir, RemoveDirInUse, IOError, Fails
    <2>3. ASSUME NEW ops, ReadsGraph(w, ops)
          PROVE  req[w] \in Requests /\ req[w].op \in ops
                   /\ File(w) \in Graphs /\ WellFormed(File(w))
      <3>1. req[w] \in Requests /\ req[w].op \in ops /\ req[w].set \in Sets
              /\ File(w) \in Graphs \cup {None} /\ File(w) # None
        BY <2>3, AtStep DEF ReadsGraph
      <3> QED BY <3>1 DEF GraphsWellFormed, File
    <2>4. CASE Get(w)
      BY <2>3, <2>4, AnswerWellFormed DEF Get, files, GraphsWellFormed
    <2>5. CASE AddNode(w)
      BY <2>3, <2>5, RequestFields, EditedWellFormed, WithNodeWellFormed DEF AddNode, NodeOps
    <2>6. CASE RemoveNode(w)
      BY <2>3, <2>6, RequestFields, EditedWellFormed, WithoutNodeWellFormed
      DEF RemoveNode, NodeOps
    <2>7. CASE AddEdge(w)
      <3>1. ReadsGraph(w, {"AddEdge"}) /\ EndpointsExist(File(w), req[w].edge)
              /\ Edited(w, WithEdge(File(w), req[w].edge))
        BY <2>7 DEF AddEdge
      <3>2. req[w].edge \in Edges
        BY <3>1, <2>3, RequestFields DEF EdgeOps
      <3>3. req[w].edge.type \in ValidEdgeTypes
        BY <3>1, <2>3 DEF TypeOK, Valid, ReadsGraph, At
      <3> QED BY <3>1, <3>2, <3>3, <2>3, EditedWellFormed, WithEdgeWellFormed
    <2>8. CASE RemoveEdge(w)
      BY <2>3, <2>8, RequestFields, EditedWellFormed, WithoutEdgeWellFormed
      DEF RemoveEdge, EdgeOps
    <2>9. CASE MakeSetDir(w)
      BY <2>9 DEF MakeSetDir, GraphsWellFormed, TypeOK
    <2>10. CASE WriteTrackingSet(w)
      <3>1. \A s \in Sets : yaml'[s] = ts[w] \/ yaml'[s] = yaml[s]
        BY <2>10 DEF WriteTrackingSet, TypeOK
      <3>2. \A s \in Sets : yaml'[s] # None => WellFormed(yaml'[s])
        BY <3>1 DEF GraphsWellFormed
      <3> QED BY <2>10, <3>2, AnswerWellFormed DEF WriteTrackingSet
    <2>11. CASE RemoveFiles(w)
      BY <2>11 DEF RemoveFiles, GraphsWellFormed, TypeOK
    <2>12. CASE RemoveDir(w)
      BY <2>12, AnswerWellFormed DEF RemoveDir, GraphsWellFormed
    <2>13. CASE Respond(w)
      BY <2>13 DEF Respond, files, GraphsWellFormed, TypeOK
    <2> QED
      BY <1>2, <2>2, <2>4, <2>5, <2>6, <2>7, <2>8, <2>9, <2>10, <2>11, <2>12, <2>13 DEF Step
  <1>3. ASSUME NEW s \in Sets, MakeTicketDir(s) PROVE GraphsWellFormed'
    BY <1>3 DEF MakeTicketDir, GraphsWellFormed
  <1>4. CASE Crash
    BY <1>4 DEF Crash, files, GraphsWellFormed
  <1>5. CASE UNCHANGED vars
    BY <1>5 DEF vars, GraphsWellFormed
  <1> QED BY <1>1, <1>2, <1>3, <1>4, <1>5 DEF Next

\* No file and no answer ever holds a dangling edge, a node listed twice or an
\* edge of an unknown type, however many handlers write at once and wherever the
\* program crashes.
THEOREM AlwaysWellFormed == Spec => []GraphsWellFormed
  <1>1. Init => GraphsWellFormed
    BY EmptyGraphWellFormed DEF Init, GraphsWellFormed
  <1> QED BY <1>1, TypeInit, TypeStep, WellFormedStep, PTL DEF Spec

-----------------------------------------------------------------------------
(***************************************************************************)
(* Graphs stay inside the directories of sets with accepted names.         *)
(***************************************************************************)

\* A handler that has got as far as writing was let in by the name check of
\* CreateSet, or has found the set it writes to.
WritesNamed == \A w \in Workers : pc[w] = "write" => req[w].set \in ValidNames

\* Every step keeps the graphs and the writes to come inside valid sets.
LEMMA InSetsStep ==
    TypeOK /\ GraphsInSets /\ WritesNamed /\ [Next]_vars => GraphsInSets' /\ WritesNamed'
  <1> SUFFICES ASSUME TypeOK, GraphsInSets, WritesNamed, [Next]_vars
               PROVE  GraphsInSets' /\ WritesNamed'
    OBVIOUS
  <1>1. ASSUME NEW w \in Workers, NEW r, NEW g, Answer(w, r, g), pc[w] # "idle"
        PROVE  WritesNamed'
    BY <1>1 DEF Answer, WritesNamed, TypeOK
  <1>2. ASSUME NEW w \in Workers, NEW r, NEW g, Answer(w, r, g), UNCHANGED files, pc[w] # "idle"
        PROVE  GraphsInSets' /\ WritesNamed'
    BY <1>1, <1>2 DEF files, GraphsInSets
  <1>3. ASSUME NEW w \in Workers, NEW ops, NEW g, ReadsGraph(w, ops), Edited(w, g)
        PROVE  GraphsInSets' /\ WritesNamed'
    <2>1. req[w].set \in ValidNames
      BY <1>3, AtStep DEF ReadsGraph, File, GraphsInSets
    <2> QED BY <1>3, <2>1 DEF Edited, GraphsInSets, WritesNamed, TypeOK
  <1>4. ASSUME NEW w \in Workers, NEW q \in Requests, Begin(w, q)
        PROVE  GraphsInSets' /\ WritesNamed'
    BY <1>4 DEF Begin, GraphsInSets, WritesNamed, TypeOK
  <1>5. ASSUME NEW w \in Workers, Step(w) \/ IOError(w)
        PROVE  GraphsInSets' /\ WritesNamed'
    <2>1. CASE SetNotFound(w) \/ Get(w) \/ AddNodeAgain(w) \/ AddEdgeNoNode(w)
               \/ RemoveNothing(w) \/ WriteNoDir(w) \/ RemoveDirInUse(w) \/ IOError(w)
      BY <1>2, <2>1 DEF SetNotFound, Get, AddNodeAgain, AddEdgeNoNode, RemoveNothing,
                        WriteNoDir, RemoveDirInUse, IOError, Fails, ReadsGraph, At
    <2>2. CASE AddNode(w) \/ RemoveNode(w) \/ AddEdge(w) \/ RemoveEdge(w)
      BY <1>3, <2>2 DEF AddNode, RemoveNode, AddEdge, RemoveEdge
    <2>3. CASE MakeSetDir(w)
      <3>1. req[w].set \in ValidNames
        BY <2>3 DEF MakeSetDir, At, TypeOK, Valid
      <3> QED BY <2>3, <3>1 DEF MakeSetDir, GraphsInSets, WritesNamed, TypeOK
    <2>4. CASE WriteTrackingSet(w)
      <3>1. req[w].set \in ValidNames /\ dir[req[w].set] # "none"
        BY <2>4 DEF WriteTrackingSet, WritesNamed
      <3>2. GraphsInSets'
        BY <2>4, <3>1 DEF WriteTrackingSet, GraphsInSets, TypeOK
      <3> QED BY <2>4, <3>2, <1>1 DEF WriteTrackingSet
    <2>5. CASE RemoveFiles(w)
      BY <2>5 DEF RemoveFiles, GraphsInSets, WritesNamed, TypeOK
    <2>6. CASE RemoveDir(w)
      <3>1. GraphsInSets'
        BY <2>6 DEF RemoveDir, File, GraphsInSets, TypeOK
      <3> QED BY <2>6, <3>1, <1>1 DEF RemoveDir
    <2>7. CASE Respond(w)
      BY <2>7 DEF Respond, files, GraphsInSets, WritesNamed, TypeOK
    <2> QED BY <1>5, <2>1, <2>2, <2>3, <2>4, <2>5, <2>6, <2>7 DEF Step
  <1>6. ASSUME NEW s \in Sets, MakeTicketDir(s) PROVE GraphsInSets' /\ WritesNamed'
    BY <1>6 DEF MakeTicketDir, GraphsInSets, WritesNamed, TypeOK
  <1>7. CASE Crash
    BY <1>7 DEF Crash, files, GraphsInSets, WritesNamed
  <1>8. CASE UNCHANGED vars
    BY <1>8 DEF vars, GraphsInSets, WritesNamed
  <1> QED BY <1>4, <1>5, <1>6, <1>7, <1>8 DEF Next

\* A graph exists only in the directory of a set with an accepted name, also
\* while sets are deleted and created again under the feet of other handlers.
THEOREM AlwaysInSets == Spec => []GraphsInSets
  <1>1. Init => GraphsInSets /\ WritesNamed
    BY DEF Init, GraphsInSets, WritesNamed
  <1> QED BY <1>1, TypeInit, TypeStep, InSetsStep, PTL DEF Spec

-----------------------------------------------------------------------------
(***************************************************************************)
(* With one writer the store implements AtomicGraph.                       *)
(***************************************************************************)

\* Only writers serve mutations.
MutationsByWriters ==
    \A w \in Workers : req[w] # None /\ req[w].op # "Get" => w \in Writers

\* A worker that holds no graph, for the file or for its client, holds the empty one.
Blank == \A w \in Workers : pc[w] \in {"idle", "begin", "rmdir"} => ts[w] = EmptyGraph

AtomicInv == MutationsByWriters /\ Blank /\ WritesAreFresh

\* The step of the only writer may not be disturbed: every other step keeps
\* the files of the sets, or is made by the writer itself.
LEMMA OthersKeepFiles ==
    ASSUME SingleWriter, TypeOK, MutationsByWriters,
           NEW v \in Workers, pc[v] = "write",
           NEW w \in Workers, w # v, Step(w) \/ IOError(w)
    PROVE  UNCHANGED yaml /\ pc'[v] = pc[v] /\ req'[v] = req[v] /\ ts'[v] = ts[v]
  <1>1. v \in Writers
    BY NoRequestAssumption, Serving DEF TypeOK, MutationsByWriters
  <1>2. w \notin Writers
    BY <1>1 DEF SingleWriter
  <1>3. req[w] # None => req[w].op = "Get"
    BY <1>2 DEF MutationsByWriters
  <1>4. pc[w] # "idle" => req[w].op = "Get"
    BY <1>3 DEF TypeOK
  <1>5. SetNotFound(w) \/ Get(w) \/ IOError(w) \/ Respond(w)
    BY <1>4, Serving DEF Step, IOError, AddNode, AddNodeAgain, RemoveNode, AddEdge, AddEdgeNoNode,
       RemoveEdge, MakeSetDir, WriteTrackingSet, WriteNoDir, RemoveFiles, RemoveDir,
       RemoveDirInUse, RemoveNothing, ReadsGraph, At, NodeOps, EdgeOps, TypeOK
  <1> QED
    BY <1>5 DEF SetNotFound, Get, IOError, Respond, Fails, Answer, files, TypeOK

\* Every step of the single-writer store keeps its invariant.
LEMMA AtomicStep ==
    ASSUME SingleWriter, TypeOK, AtomicInv, [Next]_vars
    PROVE  AtomicInv'
  <1>1. ASSUME NEW v \in Workers, pc[v] = "write", Fresh(v), UNCHANGED yaml,
               req'[v] = req[v], ts'[v] = ts[v]
        PROVE  Fresh(v)'
    BY <1>1 DEF Fresh, EditOf, File
  <1>2. ASSUME NEW w \in Workers, NEW q \in Requests, Begin(w, q) PROVE AtomicInv'
    <2>1. MutationsByWriters'
      BY <1>2 DEF Begin, AtomicInv, MutationsByWriters, TypeOK
    <2>2. Blank'
      BY <1>2 DEF Begin, AtomicInv, Blank, TypeOK
    <2>3. ASSUME NEW v \in Workers, pc'[v] = "write"
          PROVE  pc[v] = "write" /\ req'[v] = req[v] /\ ts'[v] = ts[v] /\ UNCHANGED yaml
      BY <1>2, <2>3 DEF Begin, TypeOK
    <2> QED BY <2>1, <2>2, <2>3, <1>1 DEF AtomicInv, WritesAreFresh
  <1>3. ASSUME NEW w \in Workers, Step(w) \/ IOError(w) PROVE AtomicInv'
    <2>1. \A v \in Workers : v # w => pc'[v] = pc[v] /\ req'[v] = req[v] /\ ts'[v] = ts[v]
      BY <1>3 DEF Step, SetNotFound, Get, AddNode, AddNodeAgain, RemoveNode, AddEdge,
         AddEdgeNoNode, RemoveEdge, MakeSetDir, WriteTrackingSet, WriteNoDir, RemoveFiles,
         RemoveDir, RemoveDirInUse, RemoveNothing, IOError, Respond, Fails, Answer, Edited, TypeOK
    <2>2. req'[w] = req[w] \/ req'[w] = None
      BY <1>3 DEF Step, SetNotFound, Get, AddNode, AddNodeAgain, RemoveNode, AddEdge,
         AddEdgeNoNode, RemoveEdge, MakeSetDir, WriteTrackingSet, WriteNoDir, RemoveFiles,
         RemoveDir, RemoveDirInUse, RemoveNothing, IOError, Respond, Fails, Answer, Edited, TypeOK
    <2>3. MutationsByWriters'
      BY <2>1, <2>2 DEF AtomicInv, MutationsByWriters
    <2>4. pc'[w] \in {"idle", "begin", "rmdir"} => ts'[w] = EmptyGraph
      BY <1>3 DEF Step, SetNotFound, Get, AddNode, AddNodeAgain, RemoveNode, AddEdge,
         AddEdgeNoNode, RemoveEdge, MakeSetDir, WriteTrackingSet, WriteNoDir, RemoveFiles,
         RemoveDir, RemoveDirInUse, RemoveNothing, IOError, Respond, Fails, Answer, Edited, At,
         TypeOK, AtomicInv, Blank
    <2>5. Blank'
      BY <2>1, <2>4 DEF AtomicInv, Blank
    <2>6. ASSUME pc'[w] = "write" PROVE Fresh(w)'
      <3>1. AddNode(w) \/ RemoveNode(w) \/ AddEdge(w) \/ RemoveEdge(w) \/ MakeSetDir(w)
        BY <1>3, <2>6 DEF Step, SetNotFound, Get, AddNodeAgain, AddEdgeNoNode, WriteTrackingSet,
           WriteNoDir, RemoveFiles, RemoveDir, RemoveDirInUse, RemoveNothing, IOError, Respond,
           Fails, Answer, TypeOK
      <3>2. UNCHANGED yaml /\ req' = req /\ File(w)' = File(w)
        BY <3>1 DEF AddNode, RemoveNode, AddEdge, RemoveEdge, MakeSetDir, Edited, File
      <3>3. CASE AddNode(w)
        BY <3>2, <3>3 DEF AddNode, Edited, ReadsGraph, At, Fresh, EditOf, TypeOK
      <3>4. CASE RemoveNode(w)
        BY <3>2, <3>4 DEF RemoveNode, Edited, ReadsGraph, At, Fresh, EditOf, TypeOK
      <3>5. CASE AddEdge(w)
        BY <3>2, <3>5 DEF AddEdge, Edited, ReadsGraph, At, Fresh, EditOf, TypeOK
      <3>6. CASE RemoveEdge(w)
        BY <3>2, <3>6 DEF RemoveEdge, Edited, ReadsGraph, At, Fresh, EditOf, TypeOK
      <3>7. CASE MakeSetDir(w)
        BY <3>2, <3>7 DEF MakeSetDir, At, Fresh, EditOf, TypeOK
      <3> QED BY <3>1, <3>3, <3>4, <3>5, <3>6, <3>7
    <2>7. ASSUME NEW v \in Workers, v # w, pc'[v] = "write" PROVE Fresh(v)'
      BY <2>1, <2>7, <1>1, <1>3, OthersKeepFiles DEF AtomicInv, WritesAreFresh
    <2> QED BY <2>3, <2>5, <2>6, <2>7 DEF AtomicInv, WritesAreFresh
  <1>4. ASSUME NEW s \in Sets, MakeTicketDir(s) PROVE AtomicInv'
    BY <1>1, <1>4 DEF MakeTicketDir, AtomicInv, MutationsByWriters, Blank, WritesAreFresh
  <1>5. CASE Crash
    BY <1>5 DEF Crash, AtomicInv, MutationsByWriters, Blank, WritesAreFresh
  <1>6. CASE UNCHANGED vars
    BY <1>1, <1>6 DEF vars, AtomicInv, MutationsByWriters, Blank, WritesAreFresh
  <1> QED BY <1>2, <1>3, <1>4, <1>5, <1>6 DEF Next

\* With one writer at a time, no handler writes the edit of a graph that is no
\* longer in the file.
THEOREM AlwaysFresh == SingleWriter => (Spec => []WritesAreFresh)
  <1> SUFFICES ASSUME SingleWriter PROVE Spec => []WritesAreFresh
    OBVIOUS
  <1>1. Init => AtomicInv
    BY DEF Init, AtomicInv, MutationsByWriters, Blank, WritesAreFresh
  <1>2. TypeOK /\ AtomicInv /\ [Next]_vars => AtomicInv'
    BY AtomicStep
  <1>3. AtomicInv => WritesAreFresh
    BY DEF AtomicInv
  <1> QED BY <1>1, <1>2, <1>3, TypeInit, TypeStep, PTL DEF Spec

\* The abstract specification speaks of the same graphs.
LEMMA SameGraphs ==
    /\ Abstract!EmptyGraph = EmptyGraph
    /\ \A g, t : /\ Abstract!HasNode(g, t) <=> HasNode(g, t)
                 /\ Abstract!WithNode(g, t) = WithNode(g, t)
                 /\ Abstract!WithoutNode(g, t) = WithoutNode(g, t)
    /\ \A g, e : /\ Abstract!WithEdge(g, e) = WithEdge(g, e)
                 /\ Abstract!WithoutEdge(g, e) = WithoutEdge(g, e)
  BY DEF Abstract!EmptyGraph, EmptyGraph, Abstract!HasNode, HasNode, Abstract!WithNode, WithNode,
         Abstract!WithoutNode, WithoutNode, Abstract!Incident, Incident,
         Abstract!WithEdge, WithEdge, Abstract!WithoutEdge, WithoutEdge

\* A worker that answers does what an abstract worker does when its request
\* takes effect.
LEMMA AnswerIsOutcome ==
    ASSUME TypeOK, NEW w \in Workers, pc[w] \in {"begin", "write", "rmdir"},
           NEW r, NEW g, Answer(w, r, g), NEW h, yaml' = [yaml EXCEPT ![req[w].set] = h]
    PROVE  Abstract!Outcome(w, h, r, g) /\ AbstractPc[w] = "begin"
  <1>1. AbstractPc' = [AbstractPc EXCEPT ![w] = "done"]
    BY DEF AbstractPc, Answer, TypeOK
  <1>2. AbstractVal' = [AbstractVal EXCEPT ![w] = g]
    BY DEF AbstractVal, Answer, TypeOK
  <1> QED BY <1>1, <1>2 DEF Abstract!Outcome, Answer, AbstractPc

\* A worker that answers without touching the files leaves the graph it found.
LEMMA AnswerFromFile ==
    ASSUME TypeOK, NEW w \in Workers, pc[w] \in {"begin", "write", "rmdir"},
           NEW r, NEW g, Answer(w, r, g), UNCHANGED files
    PROVE  Abstract!Outcome(w, File(w), r, g) /\ AbstractPc[w] = "begin"
  <1>1. req[w].set \in Sets
    BY Serving, RequestFields
  <1>2. yaml' = [yaml EXCEPT ![req[w].set] = File(w)]
    BY <1>1 DEF TypeOK, files, File
  <1> QED BY <1>2, AnswerIsOutcome

\* The step by which a worker edits its copy of a graph is invisible.
LEMMA EditedIsStutter ==
    ASSUME TypeOK, NEW w \in Workers, pc[w] = "begin", NEW g, Edited(w, g)
    PROVE  UNCHANGED Abstract!vars
  BY DEF TypeOK, Edited, Abstract!vars, AbstractPc, AbstractVal

\* Every step of the single-writer store is a step of AtomicGraph or invisible
\* to it.
LEMMA AtomicRefines ==
    ASSUME SingleWriter, TypeOK, GraphsInSets, AtomicInv, [Next]_vars
    PROVE  [Abstract!Next]_(Abstract!vars)
  <1> USE SameGraphs
  <1>1. ASSUME NEW w \in Workers, NEW q \in Requests, Begin(w, q) PROVE Abstract!Begin(w, q)
    <2>1. AbstractVal' = AbstractVal
      BY <1>1 DEF Begin, TypeOK, AbstractVal, AtomicInv, Blank
    <2>2. AbstractPc[w] = "idle"
            /\ AbstractPc' = [AbstractPc EXCEPT ![w] = IF Valid(q) THEN "begin" ELSE "done"]
      BY <1>1 DEF Begin, TypeOK, AbstractPc
    <2>3. Abstract!Rejected(q) <=> ~ Valid(q)
      BY DEF Abstract!Rejected, Valid
    <2> QED BY <1>1, <2>1, <2>2, <2>3 DEF Begin, Abstract!Begin
  <1>2. ASSUME NEW w \in Workers, Step(w) \/ IOError(w)
        PROVE  \/ UNCHANGED Abstract!vars
               \/ Abstract!Perform(w) \/ Abstract!Erase(w) \/ Abstract!Respond(w)
    <2>1. CASE SetNotFound(w)
      BY <2>1, AnswerFromFile
      DEF SetNotFound, At, File, NodeOps, EdgeOps, Abstract!Perform
    <2>2. CASE Get(w)
      BY <2>2, AnswerFromFile DEF Get, ReadsGraph, At, File, Abstract!Perform, Abstract!OnGraph
    <2>3. CASE AddNodeAgain(w)
      BY <2>3, AnswerFromFile
      DEF AddNodeAgain, ReadsGraph, At, File, Abstract!Perform, Abstract!OnGraph
    <2>4. CASE AddEdgeNoNode(w)
      BY <2>4, AnswerFromFile
      DEF AddEdgeNoNode, ReadsGraph, At, File, EndpointsExist, Abstract!Perform, Abstract!OnGraph
    <2>5. CASE AddNode(w) \/ RemoveNode(w) \/ AddEdge(w) \/ RemoveEdge(w)
      BY <2>5, EditedIsStutter DEF AddNode, RemoveNode, AddEdge, RemoveEdge, ReadsGraph, At
    <2>6. CASE MakeSetDir(w)
      BY <2>6 DEF MakeSetDir, At, TypeOK, Abstract!vars, AbstractPc, AbstractVal
    <2>7. CASE WriteTrackingSet(w)
      <3>1. Abstract!Outcome(w, ts[w], "ok", EmptyGraph) /\ AbstractPc[w] = "begin"
        BY <2>7, AnswerIsOutcome DEF WriteTrackingSet
      <3>2. Fresh(w) /\ req[w].op \in {"AddNode", "RemoveNode", "AddEdge", "RemoveEdge", "CreateSet"}
        BY <2>7 DEF WriteTrackingSet, AtomicInv, WritesAreFresh, TypeOK
      <3>3. CASE req[w].op = "AddNode"
        BY <3>1, <3>2, <3>3 DEF Fresh, EditOf, File, Abstract!Perform, Abstract!OnGraph
      <3>4. CASE req[w].op = "RemoveNode"
        BY <3>1, <3>2, <3>4 DEF Fresh, EditOf, File, Abstract!Perform, Abstract!OnGraph
      <3>5. CASE req[w].op = "AddEdge"
        BY <3>1, <3>2, <3>5
        DEF Fresh, EditOf, EndpointsExist, File, Abstract!Perform, Abstract!OnGraph
      <3>6. CASE req[w].op = "RemoveEdge"
        BY <3>1, <3>2, <3>6 DEF Fresh, EditOf, File, Abstract!Perform, Abstract!OnGraph
      <3>7. CASE req[w].op = "CreateSet"
        BY <3>1, <3>2, <3>7 DEF Fresh, EditOf, File, Abstract!Perform
      <3> QED BY <3>2, <3>3, <3>4, <3>5, <3>6, <3>7
    <2>8. CASE WriteNoDir(w) \/ RemoveDirInUse(w) \/ IOError(w)
      BY <2>8, AnswerFromFile DEF WriteNoDir, RemoveDirInUse, IOError, Fails, File, Abstract!Perform
    <2>9. CASE RemoveFiles(w)
      <3>1. AbstractPc' = AbstractPc /\ AbstractVal' = AbstractVal /\ AbstractPc[w] = "begin"
        BY <2>9 DEF RemoveFiles, At, TypeOK, AbstractPc, AbstractVal
      <3> QED BY <2>9, <3>1 DEF RemoveFiles, At, Abstract!Erase
    <2>10. CASE RemoveDir(w)
      <3>1. req[w].set \in Sets /\ req[w].op = "DeleteSet" /\ File(w) = None
        BY <2>10, Serving, RequestFields DEF RemoveDir, TypeOK
      <3>2. yaml' = [yaml EXCEPT ![req[w].set] = None]
        BY <2>10, <3>1 DEF RemoveDir, File, TypeOK
      <3>3. Abstract!Outcome(w, None, "ok", EmptyGraph) /\ AbstractPc[w] = "begin"
        BY <2>10, <3>2, AnswerIsOutcome DEF RemoveDir
      <3> QED BY <3>1, <3>3 DEF File, Abstract!Perform
    <2>11. CASE RemoveNothing(w)
      <3>1. req[w].op = "DeleteSet" /\ File(w) = None
        BY <2>11, AtStep DEF RemoveNothing, At, File, GraphsInSets
      <3>2. Abstract!Outcome(w, None, "ok", EmptyGraph) /\ AbstractPc[w] = "begin"
        BY <2>11, <3>1, AnswerFromFile DEF RemoveNothing, At
      <3> QED BY <3>1, <3>2 DEF File, Abstract!Perform
    <2>12. CASE Respond(w)
      <3>1. AbstractPc[w] = "done" /\ AbstractPc' = [AbstractPc EXCEPT ![w] = "idle"]
              /\ AbstractVal' = [AbstractVal EXCEPT ![w] = EmptyGraph]
        BY <2>12 DEF Respond, TypeOK, AbstractPc, AbstractVal
      <3> QED BY <2>12, <3>1 DEF Respond, files, Abstract!Respond
    <2> QED
      BY <1>2, <2>1, <2>2, <2>3, <2>4, <2>5, <2>6, <2>7, <2>8, <2>9, <2>10, <2>11, <2>12 DEF Step
  <1>3. ASSUME NEW s \in Sets, MakeTicketDir(s) PROVE UNCHANGED Abstract!vars
    BY <1>3 DEF MakeTicketDir, Abstract!vars, AbstractPc, AbstractVal
  <1>4. CASE Crash
    <2>1. AbstractPc' = [w \in Workers |-> "idle"] /\ AbstractVal' = [w \in Workers |-> EmptyGraph]
      BY <1>4 DEF Crash, AbstractPc, AbstractVal
    <2>2. Abstract!Crash
      BY <1>4, <2>1 DEF Crash, files, Abstract!Crash, Abstract!Forgotten
    <2> QED BY <2>2 DEF Abstract!Next
  <1>5. CASE UNCHANGED vars
    BY <1>5 DEF vars, Abstract!vars, AbstractPc, AbstractVal
  <1> QED BY <1>1, <1>2, <1>3, <1>4, <1>5 DEF Next, Abstract!Next

\* With one writer at a time, the endpoints behave as if every request took
\* effect at once: the design's single-writer assumption is enough for it.
THEOREM SingleWriterIsAtomic == SingleWriter => (Spec => ImplementsAtomicGraph)
  <1> SUFFICES ASSUME SingleWriter PROVE Spec => Abstract!Spec
    BY DEF ImplementsAtomicGraph
  <1>1. Init => Abstract!Init
    BY SameGraphs DEF Init, Abstract!Init, Abstract!Forgotten, AbstractPc, AbstractVal
  <1>2. Init => GraphsInSets /\ WritesNamed /\ AtomicInv
    BY DEF Init, GraphsInSets, WritesNamed, AtomicInv, MutationsByWriters, Blank, WritesAreFresh
  <1>3. TypeOK /\ AtomicInv /\ [Next]_vars => AtomicInv'
    BY AtomicStep
  <1>4. TypeOK /\ GraphsInSets /\ AtomicInv /\ [Next]_vars => [Abstract!Next]_(Abstract!vars)
    BY AtomicRefines
  <1> QED BY <1>1, <1>2, <1>3, <1>4, TypeInit, TypeStep, InSetsStep, PTL DEF Spec, Abstract!Spec
-----------------------------------------------------------------------------
(***************************************************************************)
(* Lists of the sets.                                                      *)
(***************************************************************************)

\* A set that has been there all the time is there now, and a list that reads
\* files has still to look for it or has found it.
KeptInv ==
    /\ lpc # "idle" => kept \subseteq Present
    /\ lpc = "read" => kept \subseteq todo \cup hits
    /\ SetsComplete

\* The list changes no file, and every other step is one of GraphStore.
LEMMA ListStepsAside == [NextL]_varsL => [Next]_vars
  <1> SUFFICES ASSUME [NextL]_varsL PROVE [Next]_vars
    OBVIOUS
  <1>1. CASE BeginList \/ ListStep \/ ListFails
    BY <1>1 DEF BeginList, ListStep, ListFails, ReadSetsDir, ListEnds, RespondList, ReadSet,
                SetWithoutGraph, AnswerList
  <1>2. CASE Elsewhere
    BY <1>2 DEF Elsewhere, Next
  <1>3. CASE CrashL
    BY <1>3 DEF CrashL, Next
  <1>4. CASE UNCHANGED varsL
    BY <1>4 DEF varsL, vars
  <1> QED BY <1>1, <1>2, <1>3, <1>4 DEF NextL

\* Every step keeps what a list owes its client within its reach.
LEMMA KeptStep == GraphsInSets /\ KeptInv /\ [NextL]_varsL => KeptInv'
  <1> SUFFICES ASSUME GraphsInSets, KeptInv, [NextL]_varsL PROVE KeptInv'
    OBVIOUS
  <1>1. CASE BeginList
    BY <1>1 DEF BeginList, KeptInv, SetsComplete, Present, vars
  <1>2. CASE ReadSetsDir
    <2>1. Present \subseteq todo'
      BY <1>2 DEF ReadSetsDir, Present, GraphsInSets
    <2> QED BY <1>2, <2>1 DEF ReadSetsDir, KeptInv, SetsComplete, Present, vars
  <1>3. ASSUME NEW s \in Sets, ReadSet(s) PROVE KeptInv'
    BY <1>3 DEF ReadSet, KeptInv, SetsComplete, Present, vars
  <1>4. ASSUME lpc \in {"begin", "read"}, AnswerList("error") PROVE KeptInv'
    BY <1>4 DEF AnswerList, KeptInv, SetsComplete, Present, vars
  <1>5. CASE ListEnds
    BY <1>5 DEF ListEnds, AnswerList, KeptInv, SetsComplete, Present, vars
  <1>6. CASE RespondList
    BY <1>6 DEF RespondList, KeptInv, SetsComplete
  <1>7. CASE Elsewhere
    BY <1>7 DEF Elsewhere, lister, KeptInv, SetsComplete
  <1>8. CASE CrashL
    BY <1>8 DEF CrashL, KeptInv, SetsComplete
  <1>9. CASE UNCHANGED varsL
    BY <1>9 DEF varsL, KeptInv, SetsComplete, Present
  <1>10. ASSUME NEW s \in Sets, SetWithoutGraph(s) PROVE KeptInv'
    BY <1>10, <1>4 DEF SetWithoutGraph
  <1>11. CASE ListFails
    BY <1>11, <1>4 DEF ListFails
  <1> QED
    BY <1>1, <1>2, <1>3, <1>5, <1>6, <1>7, <1>8, <1>9, <1>10, <1>11 DEF NextL, ListStep

\* A list of tracking sets that succeeds has every set whose graph was there all
\* the time while it ran, with any number of handlers that create, change and
\* delete sets meanwhile: a graph lies in its directory (GraphsInSets), so the
\* directory read at the start has led the list to it.
THEOREM SetListsAreComplete == SpecL => []SetsComplete
  <1>1. InitL => Init /\ KeptInv
    BY DEF InitL, KeptInv, SetsComplete
  <1>2. Init => TypeOK /\ GraphsInSets /\ WritesNamed
    BY TypeInit DEF Init, GraphsInSets, WritesNamed
  <1>3. KeptInv => SetsComplete
    BY DEF KeptInv
  <1> QED
    BY <1>1, <1>2, <1>3, ListStepsAside, TypeStep, InSetsStep, KeptStep, PTL DEF SpecL

-----------------------------------------------------------------------------
(***************************************************************************)
(* Deletes of the sets.                                                    *)
(***************************************************************************)

\* What makes a deleted set stay deleted: it has no directory either.
GoneInv == \A s \in gone : yaml[s] = None /\ dir[s] = "none"

\* Every step keeps the deleted sets without a graph and without a directory.
LEMMA GoneStep == TypeOK /\ GraphsInSets /\ GoneInv /\ [NextD]_varsD => GoneInv'
  <1> SUFFICES ASSUME TypeOK, GraphsInSets, GoneInv, [NextD]_varsD, NEW s \in gone'
               PROVE  yaml'[s] = None /\ dir'[s] = "none"
    BY DEF GoneInv
  <1>1. CASE UNCHANGED varsD
    BY <1>1 DEF varsD, GoneInv
  <1>2. CASE NextD
    <2>1. /\ s \in Sets
          /\ s \in gone \/ \E w \in Workers : Deletes(w) /\ req[w].set = s
          /\ ~ MakesDir(s)
      BY <1>2 DEF NextD, Observe
    <2>2. ASSUME NEW w \in Workers, Deletes(w), req[w].set = s
          PROVE  yaml'[s] = None /\ dir'[s] = "none"
      BY <2>1, <2>2 DEF Deletes, RemoveDir, RemoveNothing, File, GraphsInSets, files, TypeOK
    <2>3. CASE s \in gone
      <3>1. yaml[s] = None /\ dir[s] = "none"
        BY <2>3 DEF GoneInv
      <3>2. ASSUME NEW w \in Workers, Step(w) \/ IOError(w)
            PROVE  yaml'[s] = None /\ dir'[s] = "none"
        <4>1. CASE UNCHANGED files
          BY <3>1, <4>1 DEF files
        <4>2. CASE AddNode(w) \/ RemoveNode(w) \/ AddEdge(w) \/ RemoveEdge(w)
          BY <3>1, <4>2 DEF AddNode, RemoveNode, AddEdge, RemoveEdge, Edited, files
        <4>3. CASE MakeSetDir(w)
          <5>1. req[w].set # s
            BY <2>1, <4>3 DEF MakesDir
          <5> QED BY <3>1, <4>3, <5>1 DEF MakeSetDir, TypeOK
        <4>4. CASE WriteTrackingSet(w) \/ RemoveFiles(w)
          <5>1. req[w].set # s
            BY <3>1, <4>4 DEF WriteTrackingSet, RemoveFiles
          <5> QED BY <2>1, <3>1, <4>4, <5>1 DEF WriteTrackingSet, RemoveFiles, TypeOK
        <4>5. CASE RemoveDir(w)
          BY <3>1, <4>5 DEF RemoveDir, TypeOK
        <4> QED
          BY <3>2, <4>1, <4>2, <4>3, <4>4, <4>5
          DEF Step, SetNotFound, Get, AddNodeAgain, AddEdgeNoNode, WriteNoDir, RemoveDirInUse,
              RemoveNothing, Respond, IOError, Fails
      <3>3. ASSUME NEW w \in Workers, NEW q \in Requests, Begin(w, q)
            PROVE  yaml'[s] = None /\ dir'[s] = "none"
        BY <3>1, <3>3 DEF Begin
      <3>4. ASSUME NEW u \in Sets, MakeTicketDir(u)
            PROVE  yaml'[s] = None /\ dir'[s] = "none"
        <4>1. u # s
          BY <2>1, <3>4 DEF MakesDir
        <4> QED BY <3>1, <3>4, <4>1 DEF MakeTicketDir, TypeOK
      <3>5. CASE Crash
        BY <3>1, <3>5 DEF Crash, files
      <3> QED BY <1>2, <3>2, <3>3, <3>4, <3>5 DEF NextD, Next
    <2> QED BY <2>1, <2>2, <2>3
  <1> QED BY <1>1, <1>2

\* A set that has been deleted stays deleted until its directory is made again,
\* whatever any number of handlers had read of it before.
THEOREM DeletesAreFinal == SpecD => []DeletedStaysDeleted
  <1>1. InitD => Init /\ GoneInv
    BY DEF InitD, GoneInv
  <1>2. Init => TypeOK /\ GraphsInSets /\ WritesNamed
    BY TypeInit DEF Init, GraphsInSets, WritesNamed
  <1>3. [NextD]_varsD => [Next]_vars
    BY DEF NextD, varsD, vars
  <1>4. GoneInv => DeletedStaysDeleted
    BY DEF GoneInv, DeletedStaysDeleted
  <1> QED
    BY <1>1, <1>2, <1>3, <1>4, TypeStep, InSetsStep, GoneStep, PTL DEF SpecD
=============================================================================
