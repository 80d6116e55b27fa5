--------------------------- MODULE TrackerProofs ---------------------------
(***************************************************************************)
(* Proofs about Tracker, for every set of tickets, edges, operations and   *)
(* workers.                                                                *)
(***************************************************************************)
EXTENDS Tracker, TicketGraphProofs

\* What a request carries depends on its operation alone.
LEMMA RequestFields ==
    ASSUME NEW q \in Requests
    PROVE  /\ q.op \in Ops
           /\ q.op \in AllOps
           /\ q.op \in TicketOps \cup PlanOps \cup MetaOps \cup ReadOps => q.id \in Tickets
           /\ q.op = "CreatePlan" => /\ q.tasks \in SUBSET Tickets
                                     /\ \A t \in q.tasks : Parent(q.id, t) \in Edges
           /\ q.op \in EdgeOps => q.edge \in Edges
  BY OpsAssumption, PlansAssumption, MetaPlansAssumption
  DEF Requests, AllOps, TicketOps, PlanOps, MetaOps, EdgeOps, SetOps, ReadOps, SetReads

\* A worker that is not idle serves a request.
LEMMA Serving ==
    ASSUME TypeOK, NEW w \in Workers, pc[w] # "idle"
    PROVE  req[w] \in Requests
  BY DEF TypeOK

\* The first call of a request tells what the request may be.
LEMMA FirstSteps ==
    ASSUME NEW q \in Requests
    PROVE  /\ FirstStep(q) \in {"write", "read", "unlink", "remove", "removeTicket", "edge", "reset", "clear",
                               "reread", "graph", "query"}
           /\ FirstStep(q) = "write" => q.op \in {"CreateTicket", "CreatePlan", "CreateMetaPlan"}
           /\ FirstStep(q) = "read" => q.op \in Rewrites
           /\ FirstStep(q) = "unlink" => q.op = "DeleteTicket"
           /\ FirstStep(q) = "remove" => q.op = "DeletePlan"
           /\ FirstStep(q) = "removeTicket" => q.op = "DeleteMetaPlan"
           /\ FirstStep(q) = "edge" => q.op \in EdgeOps
           /\ FirstStep(q) = "reset" => q.op = "CreateSet"
           /\ FirstStep(q) = "clear" => q.op = "DeleteSet"
           /\ FirstStep(q) = "reread" => q.op \in {"GetTicket", "GetPlan", "GetMetaPlan"}
           /\ FirstStep(q) = "graph" => q.op \in SetReads
           /\ FirstStep(q) = "query" => q.op \in {"GetChildren", "GetBlocking"}
           /\ q.op = "CreatePlan" => FirstStep(q) = "write"
  BY RequestFields
  DEF FirstStep, FirstDelete, Deletes, AllOps, Rewrites, EdgeOps, SetOps, ReadOps, SetReads, TicketOps,
      PlanOps, MetaOps

-----------------------------------------------------------------------------
(***************************************************************************)
(* Type correctness.                                                       *)
(***************************************************************************)

\* A worker that answers leaves a well-typed state, whatever it did to the disk.
LEMMA AnswerTyped ==
    ASSUME TypeOK, NEW w \in Workers, pc[w] # "idle",
           NEW r \in {"ok", "notfound", "nonode", "error"}, Answer(w, r),
           graph' \in Graphs \cup {None}, file' \in [Tickets -> BOOLEAN],
           meta' \in [Tickets -> BOOLEAN]
    PROVE  TypeOK'
  BY DEF TypeOK, Answer, Serves, Steps

\* So does a worker that goes on to a call its service makes.
LEMMA ContinueTyped ==
    ASSUME TypeOK, NEW w \in Workers, pc[w] # "idle",
           NEW step \in Steps \ {"idle"}, NEW left \in SUBSET Tickets, Continue(w, step, left),
           /\ step = "write" => Serves(w, {"CreateTicket", "CreatePlan", "CreateMetaPlan"} \cup Rewrites)
           /\ step = "read" => Serves(w, Rewrites)
           /\ step = "reread" =>
                 Serves(w, {"UpdateTicket", "GetTicket", "UpdatePlan", "GetPlan", "UpdateMetaPlan", "GetMetaPlan"})
           /\ step = "writeYaml" => Serves(w, {"CreateMetaPlan", "UpdateMetaPlan"})
           /\ step = "readYaml" => Serves(w, {"UpdateMetaPlan", "GetMetaPlan"})
           /\ step \in {"removeTicket", "removeYaml"} => Serves(w, {"DeleteMetaPlan"})
           /\ step = "graph" => Serves(w, {"UpdatePlan", "GetPlan"} \cup SetReads)
           /\ step = "node" => Serves(w, {"CreateTicket", "CreatePlan"})
           /\ step = "unlink" => Serves(w, {"DeleteTicket"})
           /\ step = "remove" => Serves(w, {"DeleteTicket", "DeletePlan"})
           /\ step = "edge" => Serves(w, EdgeOps \cup {"CreatePlan"})
           /\ step \in {"query", "load"} => Serves(w, {"GetChildren", "GetBlocking"})
           /\ step = "reset" => Serves(w, {"CreateSet"})
           /\ step = "clear" => Serves(w, {"DeleteSet"})
           /\ left # {} => \/ step \in {"node", "edge"} /\ Serves(w, {"CreatePlan"})
                           \/ step = "load",
           graph' \in Graphs \cup {None}, file' \in [Tickets -> BOOLEAN],
           meta' \in [Tickets -> BOOLEAN]
    PROVE  TypeOK'
  BY DEF TypeOK, Continue, Serves

\* And so does the first half of the delete of a meta-plan.
LEMMA ThenYamlTyped ==
    ASSUME TypeOK, NEW w \in Workers, pc[w] = "removeTicket",
           NEW r \in {"ok", "notfound", "nonode", "error"}, ThenYaml(w, r),
           graph' = graph, file' \in [Tickets -> BOOLEAN], meta' = meta
    PROVE  TypeOK'
  BY DEF TypeOK, ThenYaml, Serves, Steps

\* Every step keeps the types.
LEMMA TypeStep == TypeOK /\ [Next]_vars => TypeOK'
  <1> SUFFICES ASSUME TypeOK, [Next]_vars PROVE TypeOK'
    OBVIOUS
  <1>1. ASSUME NEW w \in Workers, NEW q \in Requests, Begin(w, q) PROVE TypeOK'
    <2>1. q # None /\ req'[w] = q
      BY <1>1, NoRequestAssumption DEF Begin, TypeOK
    <2>3. (IF q.op = "CreatePlan" THEN q.tasks ELSE {}) \in SUBSET Tickets
      BY RequestFields
    <2>4. /\ graph' = graph /\ file' = file /\ meta' = meta /\ res' = res
          /\ pc' = [pc EXCEPT ![w] = FirstStep(q)]
          /\ req' = [req EXCEPT ![w] = q]
          /\ todo' = [todo EXCEPT ![w] = IF q.op = "CreatePlan" THEN q.tasks ELSE {}]
      BY <1>1 DEF Begin
    <2>5. todo'[w] # {} => q.op = "CreatePlan" /\ FirstStep(q) = "write"
      BY <2>4, FirstSteps DEF TypeOK
    <2>6. \A v \in Workers \ {w} : pc'[v] = pc[v] /\ req'[v] = req[v] /\ todo'[v] = todo[v]
      BY <2>4 DEF TypeOK
    <2>7. /\ pc' \in [Workers -> Steps] /\ req' \in [Workers -> Requests \cup {None}]
          /\ todo' \in [Workers -> SUBSET Tickets] /\ pc'[w] = FirstStep(q)
      BY <2>3, <2>4, FirstSteps DEF TypeOK, Steps
    <2>8. pc'[w] \notin {"idle", "node", "load", "done", "writeYaml", "readYaml", "removeYaml"}
      BY <2>7, FirstSteps
    <2>9. ASSUME NEW v \in Workers \ {w}
          PROVE  /\ pc'[v] = pc[v] /\ req'[v] = req[v] /\ todo'[v] = todo[v]
                 /\ \A ops : Serves(v, ops)' <=> Serves(v, ops)
      BY <2>6 DEF Serves
    <2>10. /\ graph' \in Graphs \cup {None} /\ file' \in [Tickets -> BOOLEAN] /\ meta' \in [Tickets -> BOOLEAN]
           /\ res' \in [Workers -> {"ok", "notfound", "nonode", "error"}]
      BY <2>4 DEF TypeOK
    <2> QED BY <2>1, <2>5, <2>7, <2>8, <2>9, <2>10, FirstSteps DEF TypeOK, Serves
  <1>2. ASSUME NEW w \in Workers, Step(w) PROVE TypeOK'
    <2>1. CASE WriteFile(w)
      <3>1. /\ req[w] \in Requests /\ file' \in [Tickets -> BOOLEAN] /\ graph' = graph
            /\ meta' \in [Tickets -> BOOLEAN]
        BY <2>1, Serving DEF WriteFile, TypeOK
      <3>2. todo[w] \in SUBSET Tickets /\ graph \in Graphs \cup {None}
        BY DEF TypeOK
      <3>3. CASE req[w].op \in {"CreateTicket", "CreatePlan"}
        <4>1. Continue(w, "node", todo[w])
          BY <2>1, <3>3 DEF WriteFile
        <4> QED BY <2>1, <3>1, <3>2, <3>3, <4>1, ContinueTyped DEF WriteFile, Serves, Steps, TypeOK
      <3>4. CASE req[w].op = "AddComment"
        <4>1. Answer(w, "ok")
          BY <2>1, <3>4 DEF WriteFile
        <4> QED BY <2>1, <3>1, <3>2, <4>1, AnswerTyped DEF WriteFile
      <3>5. CASE req[w].op \in {"UpdateTicket", "UpdatePlan"}
        <4>1. Continue(w, "reread", {})
          BY <2>1, <3>5 DEF WriteFile
        <4> QED BY <2>1, <3>1, <3>2, <3>5, <4>1, ContinueTyped DEF WriteFile, Serves, Steps, TypeOK
      <3>6. CASE req[w].op \in {"CreateMetaPlan", "UpdateMetaPlan"}
        <4>1. Continue(w, "writeYaml", {})
          BY <2>1, <3>6 DEF WriteFile
        <4> QED BY <2>1, <3>1, <3>2, <3>6, <4>1, ContinueTyped DEF WriteFile, Serves, Steps, TypeOK
      <3> QED BY <2>1, <3>3, <3>4, <3>5, <3>6 DEF WriteFile, TypeOK, Serves, Rewrites
    <2>2. CASE ReadFile(w)
      <3>1. /\ pc[w] # "idle" /\ graph' \in Graphs \cup {None} /\ file' \in [Tickets -> BOOLEAN]
            /\ meta' \in [Tickets -> BOOLEAN]
        BY <2>2 DEF ReadFile, disk, TypeOK
      <3>2. CASE pc[w] = "read"
        <4>1. Continue(w, "write", {})
          BY <2>2, <3>2 DEF ReadFile
        <4>2. req[w] # None /\ req[w].op \in Rewrites
          BY <3>2 DEF TypeOK, Serves
        <4> QED BY <3>1, <4>1, <4>2, ContinueTyped DEF Steps, Serves
      <3>3. CASE pc[w] = "reread" /\ req[w].op \in {"UpdateTicket", "GetTicket"}
        BY <2>2, <3>1, <3>3, AnswerTyped DEF ReadFile
      <3>4. CASE pc[w] = "reread" /\ req[w].op \in {"UpdatePlan", "GetPlan"}
        <4>1. Continue(w, "graph", {}) /\ req[w] # None
          BY <2>2, <3>4 DEF ReadFile, TypeOK, Serves
        <4> QED BY <3>1, <3>4, <4>1, ContinueTyped DEF Steps, Serves
      <3>5. CASE pc[w] = "reread" /\ req[w].op \in {"UpdateMetaPlan", "GetMetaPlan"}
        <4>1. Continue(w, "readYaml", {}) /\ req[w] # None
          BY <2>2, <3>5 DEF ReadFile, TypeOK, Serves
        <4> QED BY <3>1, <3>5, <4>1, ContinueTyped DEF Steps, Serves
      <3> QED BY <2>2, <3>2, <3>3, <3>4, <3>5 DEF ReadFile
    <2>3. CASE FileMissing(w)
      BY <2>3, AnswerTyped DEF FileMissing, disk, TypeOK
    <2>4. CASE RemoveFile(w)
      BY <2>4, AnswerTyped DEF RemoveFile, TypeOK
    <2>5. CASE GraphMissing(w)
      BY <2>5, AnswerTyped DEF GraphMissing, disk, TypeOK
    <2>6. ASSUME NEW left \in SUBSET Tickets, LinkOrAnswer(w, left), pc[w] \in {"node", "edge"},
                 left # {} => req[w].op = "CreatePlan",
                 graph' \in Graphs \cup {None}, file' = file, meta' = meta
          PROVE  TypeOK'
      <3>1. CASE left = {}
        BY <2>6, <3>1, AnswerTyped DEF LinkOrAnswer, TypeOK
      <3>2. CASE left # {}
        BY <2>6, <3>2, ContinueTyped DEF LinkOrAnswer, TypeOK, Serves, Steps
      <3> QED BY <3>1, <3>2
    <2>7. CASE AddNode(w)
      BY <2>7, <2>6, Serving, RequestFields, EditsAreGraphs
      DEF AddNode, TypeOK, Serves, TicketOps, PlanOps
    <2>8. CASE AddNodeAgain(w)
      BY <2>8, <2>6 DEF AddNodeAgain, disk, TypeOK, Serves
    <2>9. CASE RemoveNode(w)
      <3>1. graph' \in Graphs
        BY <2>9, Serving, RequestFields, EditsAreGraphs DEF RemoveNode, TypeOK, Serves, TicketOps
      <3> QED BY <2>9, <3>1, ContinueTyped DEF RemoveNode, TypeOK, Serves, Steps
    <2>10. ASSUME NEW e \in Edges, AddEdge(w, e) PROVE TypeOK'
      <3>1. graph' \in Graphs
        BY <2>10, EditsAreGraphs DEF AddEdge, TypeOK
      <3>2. todo[w] \ {e.to} \in SUBSET Tickets
        BY DEF TypeOK
      <3>3. todo[w] \ {e.to} # {} => req[w].op = "CreatePlan"
        BY <2>10 DEF AddEdge, TypeOK, Serves
      <3> QED BY <2>10, <2>6, <3>1, <3>2, <3>3 DEF AddEdge, TypeOK
    <2>11. ASSUME NEW e \in Edges, AddEdgeNoNode(w, e) PROVE TypeOK'
      BY <2>11, AnswerTyped DEF AddEdgeNoNode, disk, TypeOK
    <2>12. CASE RemoveEdge(w)
      <3>1. graph' \in Graphs
        BY <2>12, Serving, RequestFields, EditsAreGraphs DEF RemoveEdge, TypeOK, EdgeOps
      <3> QED BY <2>12, <3>1, AnswerTyped DEF RemoveEdge, TypeOK
    <2>13. CASE ReadGraph(w)
      BY <2>13, AnswerTyped DEF ReadGraph, disk, TypeOK
    <2>14. CASE Query(w)
      <3>1. Children(graph, req[w].id) \in SUBSET Tickets /\ Blocking(graph, req[w].id) \in SUBSET Tickets
        BY DEF Children, Blocking
      <3> QED BY <2>14, <3>1, ContinueTyped DEF Query, disk, TypeOK, Serves, Steps
    <2>15. CASE Loaded(w)
      BY <2>15, AnswerTyped DEF Loaded, disk, TypeOK
    <2>16. ASSUME NEW t \in Tickets, Load(w, t) PROVE TypeOK'
      <3>1. CASE file[t]
        <4>1. todo[w] \ {t} \in SUBSET Tickets
          BY DEF TypeOK
        <4> QED BY <2>16, <3>1, <4>1, ContinueTyped DEF Load, disk, TypeOK, Serves, Steps
      <3>2. CASE ~ file[t]
        BY <2>16, <3>2, AnswerTyped DEF Load, disk, TypeOK
      <3> QED BY <3>1, <3>2
    <2>17. CASE ResetGraph(w)
      BY <2>17, AnswerTyped, EditsAreGraphs DEF ResetGraph, TypeOK
    <2>18. CASE Clear(w)
      <3>1. /\ graph' \in Graphs \cup {None} /\ file' \in [Tickets -> BOOLEAN] /\ meta' \in [Tickets -> BOOLEAN]
            /\ UNCHANGED <<pc, req, todo, res>>
        BY <2>18 DEF Clear, TypeOK
      <3> QED BY <3>1 DEF TypeOK, Serves
    <2>19. CASE Cleared(w)
      BY <2>19, AnswerTyped DEF Cleared, disk, TypeOK
    <2>20. CASE Respond(w)
      BY <2>20 DEF Respond, TypeOK, Serves, Steps
    <2>21. CASE WriteYaml(w)
      <3>1. meta' \in [Tickets -> BOOLEAN] /\ graph' = graph /\ file' = file
        BY <2>21 DEF WriteYaml, TypeOK
      <3>2. CASE Answer(w, "ok")
        BY <2>21, <3>1, <3>2, AnswerTyped DEF WriteYaml, TypeOK
      <3>3. CASE req[w].op = "UpdateMetaPlan" /\ Continue(w, "reread", {})
        BY <2>21, <3>1, <3>3, ContinueTyped DEF WriteYaml, TypeOK, Serves, Steps
      <3> QED BY <2>21, <3>2, <3>3 DEF WriteYaml
    <2>22. CASE ReadYaml(w)
      BY <2>22, AnswerTyped DEF ReadYaml, disk, TypeOK
    <2>23. CASE RemoveTicket(w)
      BY <2>23, ThenYamlTyped DEF RemoveTicket, TypeOK
    <2>24. CASE RemoveYaml(w)
      <3>1. Worst(res[w], IF meta[req[w].id] THEN "ok" ELSE "notfound") \in {"ok", "notfound", "nonode", "error"}
        BY DEF Worst, TypeOK
      <3> QED BY <2>24, <3>1, AnswerTyped DEF RemoveYaml, TypeOK
    <2> QED
      BY <1>2, <2>1, <2>2, <2>3, <2>4, <2>5, <2>7, <2>8, <2>9, <2>10, <2>11, <2>12, <2>13,
         <2>14, <2>15, <2>16, <2>17, <2>18, <2>19, <2>20, <2>21, <2>22, <2>23, <2>24 DEF Step
  <1>3. ASSUME NEW w \in Workers, IOError(w) PROVE TypeOK'
    <2>1. Worst(res[w], "error") \in {"ok", "notfound", "nonode", "error"}
      BY DEF Worst, TypeOK
    <2>2. graph' = graph /\ file' = file /\ meta' = meta
      BY <1>3 DEF IOError, disk
    <2>3. CASE pc[w] = "removeTicket"
      BY <1>3, <2>2, <2>3, ThenYamlTyped DEF IOError, TypeOK
    <2>4. CASE pc[w] # "removeTicket"
      BY <1>3, <2>1, <2>2, <2>4, AnswerTyped DEF IOError, TypeOK
    <2> QED BY <2>3, <2>4
  <1>4. CASE Crash
    BY <1>4 DEF Crash, disk, TypeOK, Serves, Steps
  <1>5. CASE UNCHANGED vars
    BY <1>5 DEF vars, TypeOK, Serves
  <1> QED BY <1>1, <1>2, <1>3, <1>4, <1>5 DEF Next

\* The program starts in a well-typed state.
LEMMA TypeInit == Init => TypeOK
  BY DEF Init, TypeOK, Serves, Steps

\* The disk always holds a graph and files, and a worker waits at a call only
\* with a request whose service makes it.
THEOREM TypeCorrect == Spec => []TypeOK
  BY TypeInit, TypeStep, PTL DEF Spec
-----------------------------------------------------------------------------
(***************************************************************************)
(* What a request has done so far.                                         *)
(*                                                                         *)
(* The properties speak of the answer of a request, or of the disk; to see *)
(* that they hold one has to know what the calls before the current one    *)
(* have achieved, and that nothing has undone it since: requests that      *)
(* change the disk do not overlap.                                         *)
(***************************************************************************)

OneMutation ==
    \A v, w \in Workers :
        v # w /\ pc[v] # "idle" /\ pc[w] # "idle" => ~ (Mutates(req[v]) /\ Mutates(req[w]))

Linked(q, t) == HasTicket(t) /\ HasEdge(graph, Parent(q.id, t))

OnTheWay(w) ==
    /\ pc[w] \in {"node", "writeYaml"} => file[req[w].id]
    /\ pc[w] = "remove" /\ req[w].op = "DeleteTicket" =>
          /\ graph # None /\ ~ HasTicket(req[w].id)
          /\ \A e \in Edges : Incident(e, req[w].id) => ~ HasEdge(graph, e)
    /\ pc[w] \in {"write", "node"} /\ req[w].op = "CreatePlan" => todo[w] = req[w].tasks
    /\ pc[w] = "edge" /\ req[w].op = "CreatePlan" =>
          /\ file[req[w].id] /\ HasTicket(req[w].id)
          /\ \A t \in req[w].tasks \ todo[w] : Linked(req[w], t)
    /\ pc[w] \in {"reread", "graph", "readYaml"} /\ req[w].op \in Rewrites => file[req[w].id]
    /\ pc[w] \in {"reread", "readYaml"} /\ req[w].op = "UpdateMetaPlan" => meta[req[w].id]
    /\ pc[w] = "removeYaml" => file[req[w].id] = FALSE \/ res[w] = "error"

ServiceInv == OneMutation /\ \A w \in Workers : OnTheWay(w)

\* Worker w moves, and the others stay where they are.
Moves(w) ==
    /\ pc[w] # "idle"
    /\ \A v \in Workers \ {w} : pc'[v] = pc[v] /\ req'[v] = req[v] /\ todo'[v] = todo[v] /\ res'[v] = res[v]
    /\ pc'[w] = "idle" \/ req'[w] = req[w]

\* Worker w is answered "ok" in this step.
Acknowledged(w) == pc[w] # "done" /\ pc'[w] = "done" /\ res'[w] = "ok"

\* What a step of w owes: it changes the disk only for a mutation, it leaves the
\* request where its next call can go on, and its answer is true.
Sound(w) ==
    /\ Moves(w)
    /\ Mutates(req[w]) \/ UNCHANGED disk
    /\ OnTheWay(w)'
    /\ Acknowledged(w) => (Achieved(req[w]) \/ TasksIgnored(req[w]))'

\* A request that ends here has nothing on the way.
LEMMA AnswerMoves ==
    ASSUME TypeOK, NEW w \in Workers, pc[w] # "idle", NEW r, Answer(w, r)
    PROVE  /\ Moves(w) /\ OnTheWay(w)' /\ pc'[w] = "done" /\ res'[w] = r
           /\ req' = req
  BY DEF Answer, Moves, OnTheWay, TypeOK

\* A call that fails or finds nothing owes nothing more.
LEMMA FailureSound ==
    ASSUME TypeOK, NEW w \in Workers, pc[w] # "idle", NEW r, r # "ok", Answer(w, r), UNCHANGED disk
    PROVE  Sound(w)
  BY AnswerMoves DEF Sound, Acknowledged

\* A request that goes on has the same request.
LEMMA ContinueMoves ==
    ASSUME TypeOK, NEW w \in Workers, pc[w] # "idle", NEW step, NEW left, Continue(w, step, left)
    PROVE  /\ Moves(w) /\ pc'[w] = step /\ todo'[w] = left /\ req' = req
  BY DEF Continue, Moves, TypeOK

\* Calls of the ticket store are sound.
LEMMA FileCallsSound ==
    ASSUME TypeOK, ServiceInv, NEW w \in Workers,
           WriteFile(w) \/ ReadFile(w) \/ FileMissing(w) \/ RemoveFile(w)
    PROVE  Sound(w)
  <1>1. OnTheWay(w) /\ req[w] \in Requests /\ pc[w] # "idle"
    BY Serving DEF ServiceInv, WriteFile, ReadFile, FileMissing, RemoveFile
  <1>2. CASE WriteFile(w)
    <2>1. /\ Serves(w, {"CreateTicket", "CreatePlan", "CreateMetaPlan"} \cup Rewrites)
          /\ Mutates(req[w]) /\ req[w].id \in Tickets
      BY <1>1, <1>2, RequestFields
      DEF WriteFile, TypeOK, Serves, Mutates, Rewrites, ReadOps, SetReads, TicketOps, PlanOps, MetaOps
    <2>2. file'[req[w].id] = TRUE
      BY <1>2, <2>1 DEF WriteFile, TypeOK
    <2>3. CASE req[w].op \in {"CreateTicket", "CreatePlan"}
      <3>1. Continue(w, "node", todo[w])
        BY <1>2, <2>3 DEF WriteFile
      <3> QED BY <1>1, <1>2, <2>1, <2>2, <2>3, <3>1, ContinueMoves DEF WriteFile, Sound, OnTheWay, Acknowledged
    <2>4. CASE req[w].op \in {"UpdateTicket", "UpdatePlan"}
      <3>1. Continue(w, "reread", {})
        BY <1>2, <2>4 DEF WriteFile
      <3> QED BY <1>1, <2>1, <2>2, <2>4, <3>1, ContinueMoves DEF Sound, OnTheWay, Acknowledged
    <2>5. CASE req[w].op \in {"CreateMetaPlan", "UpdateMetaPlan"}
      <3>1. Continue(w, "writeYaml", {})
        BY <1>2, <2>5 DEF WriteFile
      <3> QED BY <1>1, <2>1, <2>2, <2>5, <3>1, ContinueMoves DEF Sound, OnTheWay, Acknowledged
    <2>6. CASE req[w].op = "AddComment"
      <3>1. Answer(w, "ok")
        BY <1>2, <2>6 DEF WriteFile
      <3>2. Achieved(req[w])'
        BY <1>1, <2>2, <2>6, <3>1, AnswerMoves DEF Achieved
      <3> QED BY <1>1, <2>1, <3>1, <3>2, AnswerMoves DEF Sound
    <2> QED BY <1>2, <2>3, <2>4, <2>5, <2>6 DEF WriteFile
  <1>3. CASE ReadFile(w)
    <2>1. UNCHANGED disk /\ file[req[w].id]
      BY <1>3 DEF ReadFile
    <2>2. CASE pc[w] = "reread" /\ req[w].op \in {"UpdateTicket", "GetTicket"}
      <3>1. Answer(w, "ok")
        BY <1>3, <2>2 DEF ReadFile
      <3>2. Achieved(req[w])'
        BY <1>1, <2>1, <2>2, <3>1, AnswerMoves DEF Achieved, disk
      <3> QED BY <1>1, <2>1, <3>1, <3>2, AnswerMoves DEF Sound
    <2>3. CASE pc[w] = "read"
      <3>1. Continue(w, "write", {})
        BY <1>3, <2>3 DEF ReadFile
      <3>2. req[w].op # "CreatePlan"
        BY <2>3 DEF TypeOK, Serves, Rewrites
      <3> QED BY <1>1, <2>1, <3>1, <3>2, ContinueMoves DEF Sound, OnTheWay, Acknowledged
    <2>4. CASE pc[w] = "reread" /\ req[w].op \in {"UpdatePlan", "GetPlan"}
      <3>1. Continue(w, "graph", {})
        BY <1>3, <2>4 DEF ReadFile
      <3> QED BY <1>1, <2>1, <3>1, ContinueMoves DEF Sound, OnTheWay, Acknowledged, disk
    <2>5. CASE pc[w] = "reread" /\ req[w].op \in {"UpdateMetaPlan", "GetMetaPlan"}
      <3>1. Continue(w, "readYaml", {})
        BY <1>3, <2>5 DEF ReadFile
      <3>2. pc[w] = "reread"
        BY <2>5
      <3> QED BY <1>1, <2>1, <3>1, <3>2, ContinueMoves DEF Sound, OnTheWay, Acknowledged, disk
    <2> QED BY <1>3, <2>2, <2>3, <2>4, <2>5 DEF ReadFile
  <1>4. CASE FileMissing(w)
    BY <1>1, <1>4, FailureSound DEF FileMissing
  <1>5. CASE RemoveFile(w)
    <2>1. Serves(w, {"DeleteTicket", "DeletePlan"}) /\ Mutates(req[w]) /\ req[w].id \in Tickets
      BY <1>1, <1>5, RequestFields DEF RemoveFile, TypeOK, Serves, Mutates, ReadOps, SetReads, TicketOps, PlanOps
    <2>2. file'[req[w].id] = FALSE /\ graph' = graph /\ req' = req /\ Answer(w, "ok")
      BY <1>1, <1>5, <2>1, AnswerMoves DEF RemoveFile, TypeOK
    <2>3. Achieved(req[w])'
      BY <1>1, <1>5, <2>1, <2>2 DEF RemoveFile, Achieved, OnTheWay, HasTicket, Serves
    <2> QED BY <1>1, <2>1, <2>2, <2>3, AnswerMoves DEF Sound
  <1> QED BY <1>2, <1>3, <1>4, <1>5

\* A request that has added its node, or has found it there, is sound.
LEMMA NodeAddedSound ==
    ASSUME TypeOK, ServiceInv, NEW w \in Workers, pc[w] = "node",
           LinkOrAnswer(w, todo[w]), file' = file, HasTicket(req[w].id)'
    PROVE  Sound(w)
  <1>1. /\ OnTheWay(w) /\ req[w] \in Requests /\ pc[w] # "idle"
        /\ req[w].op \in {"CreateTicket", "CreatePlan"} /\ Mutates(req[w]) /\ req' = req
    BY Serving DEF ServiceInv, TypeOK, Serves, Mutates, ReadOps, SetReads, LinkOrAnswer, Answer, Continue
  <1>2. file'[req[w].id] /\ HasTicket(req[w].id)'
    BY <1>1 DEF OnTheWay
  <1>3. CASE todo[w] = {}
    <2>1. Achieved(req[w])'
      BY <1>1, <1>2, <1>3 DEF Achieved, OnTheWay
    <2> QED BY <1>1, <1>3, <2>1, AnswerMoves DEF LinkOrAnswer, Sound
  <1>4. CASE todo[w] # {}
    <2>1. Continue(w, "edge", todo[w])
      BY <1>4 DEF LinkOrAnswer
    <2>2. req[w].op = "CreatePlan" => todo[w] = req[w].tasks
      BY <1>1 DEF OnTheWay
    <2> QED BY <1>1, <1>2, <2>1, <2>2, ContinueMoves DEF Sound, OnTheWay, Acknowledged
  <1> QED BY <1>3, <1>4

\* A request that has added an edge is sound.
LEMMA EdgeAddedSound ==
    ASSUME TypeOK, ServiceInv, NEW w \in Workers, NEW e \in Edges, AddEdge(w, e)
    PROVE  Sound(w)
  <1>1. /\ OnTheWay(w) /\ req[w] \in Requests /\ pc[w] # "idle" /\ pc[w] = "edge"
        /\ req[w].op \in {"AddEdge", "CreatePlan"} /\ Mutates(req[w]) /\ req' = req
    BY Serving DEF AddEdge, Linking, ServiceInv, TypeOK, Serves, Mutates, ReadOps, SetReads, EdgeOps,
                   LinkOrAnswer, Answer, Continue
  <1>2. /\ graph \in Graphs /\ graph # None /\ graph' \in Graphs /\ graph' # None
        /\ graph' = WithEdge(graph, e) /\ EndpointsExist(graph, e) /\ file' = file
    BY EditsAreGraphs, NoneAssumption DEF AddEdge, TypeOK
  <1>3. /\ HasEdge(graph', e)
        /\ \A f \in Edges : HasEdge(graph, f) => HasEdge(graph', f)
        /\ \A t \in Tickets : HasNode(graph', t) <=> HasNode(graph, t)
    <2>1. HasEdge(graph', e)
      BY <1>2, EdgeEdits
    <2>2. \A t \in Tickets : HasNode(graph', t) <=> HasNode(graph, t)
      BY <1>2 DEF Graphs, WithEdge, HasNode
    <2>3. \A f \in Edges \ {e} : HasEdge(graph', f) <=> HasEdge(graph, f)
      BY <1>2, EdgeEdits
    <2> QED BY <2>1, <2>2, <2>3
  <1>4. e.from \in Tickets /\ e.to \in Tickets /\ HasTicket(e.from)' /\ HasTicket(e.to)'
    BY <1>2, <1>3, EdgesAssumption DEF EndpointsExist, HasTicket
  <1>5. LinkOrAnswer(w, todo[w] \ {e.to})
    BY DEF AddEdge
  <1>6. CASE req[w].op = "AddEdge"
    <2>1. req[w].edge = e
      BY <1>6 DEF AddEdge, Linking
    <2>2. todo[w] = {}
      BY <1>1, <1>6 DEF TypeOK, Serves
    <2>3. Answer(w, "ok")
      BY <1>5, <2>2 DEF LinkOrAnswer
    <2>4. Achieved(req[w])'
      BY <1>1, <1>3, <1>4, <1>6, <2>1 DEF Achieved
    <2> QED BY <1>1, <2>3, <2>4, AnswerMoves DEF Sound
  <1>7. CASE req[w].op = "CreatePlan"
    <2> DEFINE q == req[w]
    <2>1. /\ q.id \in Tickets /\ q.tasks \in SUBSET Tickets
          /\ \A t \in q.tasks : Parent(q.id, t) \in Edges
      BY <1>1, <1>7, RequestFields DEF PlanOps
    <2>2. PICK t \in todo[w] : e = Parent(q.id, t)
      BY <1>7 DEF AddEdge, Linking
    <2>3. e.to = t
      BY <2>2 DEF Parent
    <2>4. file[q.id] /\ HasTicket(q.id) /\ \A u \in q.tasks \ todo[w] : Linked(q, u)
      BY <1>1, <1>7 DEF OnTheWay
    <2>5. \A u \in q.tasks \ (todo[w] \ {e.to}) : HasTicket(u)' /\ HasEdge(graph', Parent(q.id, u))
      <3> SUFFICES ASSUME NEW u \in q.tasks, u = t \/ u \notin todo[w]
                   PROVE  HasTicket(u)' /\ HasEdge(graph', Parent(q.id, u))
        BY <2>3
      <3>1. CASE u = t
        BY <1>3, <1>4, <2>2, <2>3, <3>1
      <3>2. CASE u \notin todo[w]
        BY <1>2, <1>3, <2>1, <2>4, <3>2 DEF Linked, HasTicket
      <3> QED BY <3>1, <3>2
    <2>6. file'[q.id] /\ HasTicket(q.id)'
      BY <1>1, <1>2, <1>3, <2>1, <2>4 DEF HasTicket
    <2>7. CASE todo[w] \ {e.to} = {}
      <3>1. Answer(w, "ok")
        BY <1>5, <2>7 DEF LinkOrAnswer
      <3>2. Achieved(req[w])'
        BY <1>1, <1>7, <2>5, <2>6, <2>7 DEF Achieved
      <3> QED BY <1>1, <3>1, <3>2, AnswerMoves DEF Sound
    <2>8. CASE todo[w] \ {e.to} # {}
      <3>1. Continue(w, "edge", todo[w] \ {e.to})
        BY <1>5, <2>8 DEF LinkOrAnswer
      <3>2. OnTheWay(w)'
        BY <1>1, <2>5, <2>6, <3>1, ContinueMoves DEF OnTheWay, Linked
      <3> QED BY <1>1, <3>1, <3>2, ContinueMoves DEF Sound, Acknowledged
    <2> QED BY <2>7, <2>8
  <1> QED BY <1>1, <1>6, <1>7

\* Calls of the graph store are sound.
LEMMA GraphCallsSound ==
    ASSUME TypeOK, ServiceInv, NEW w \in Workers,
           \/ GraphMissing(w) \/ AddNode(w) \/ AddNodeAgain(w) \/ RemoveNode(w)
           \/ \E e \in Edges : AddEdge(w, e) \/ AddEdgeNoNode(w, e)
           \/ RemoveEdge(w) \/ ReadGraph(w) \/ Query(w)
    PROVE  Sound(w)
  <1>1. OnTheWay(w) /\ req[w] \in Requests /\ pc[w] # "idle"
    BY Serving
    DEF ServiceInv, GraphMissing, AddNode, AddNodeAgain, RemoveNode, AddEdge, AddEdgeNoNode,
        RemoveEdge, ReadGraph, Query
  <1>2. CASE GraphMissing(w)
    BY <1>1, <1>2, FailureSound DEF GraphMissing
  <1>3. CASE AddNode(w)
    <2>1. req[w].id \in Tickets
      BY <1>1, <1>3, RequestFields DEF AddNode, TypeOK, Serves, TicketOps, PlanOps
    <2>2. graph' \in Graphs /\ HasNode(graph', req[w].id) /\ req' = req
      BY <1>3, <2>1, EditsAreGraphs, NodeEdits
      DEF AddNode, TypeOK, LinkOrAnswer, Answer, Continue
    <2> QED BY <1>3, <2>2, NodeAddedSound, NoneAssumption DEF AddNode, HasTicket
  <1>4. CASE AddNodeAgain(w)
    <2>1. req' = req
      BY <1>4 DEF AddNodeAgain, LinkOrAnswer, Answer, Continue
    <2> QED BY <1>4, <2>1, NodeAddedSound DEF AddNodeAgain, disk, HasTicket
  <1>5. CASE RemoveNode(w)
    <2>1. req[w].op = "DeleteTicket" /\ Mutates(req[w]) /\ req[w].id \in Tickets
      BY <1>1, <1>5, RequestFields DEF RemoveNode, TypeOK, Serves, TicketOps, Mutates, ReadOps, SetReads
    <2>2. graph' \in Graphs /\ graph' = WithoutNode(graph, req[w].id) /\ graph \in Graphs
      BY <1>5, <2>1, EditsAreGraphs DEF RemoveNode, TypeOK
    <2>3. /\ graph' # None /\ ~ HasNode(graph', req[w].id)
          /\ \A e \in Edges : Incident(e, req[w].id) => ~ HasEdge(graph', e)
      BY <2>1, <2>2, NodeEdits, NoneAssumption
    <2>4. Continue(w, "remove", {})
      BY <1>5 DEF RemoveNode
    <2> QED BY <1>1, <2>1, <2>3, <2>4, ContinueMoves DEF Sound, OnTheWay, HasTicket, Acknowledged
  <1>6. ASSUME NEW e \in Edges, AddEdgeNoNode(w, e) PROVE Sound(w)
    BY <1>1, <1>6, FailureSound DEF AddEdgeNoNode
  <1>7. CASE RemoveEdge(w)
    <2>1. Mutates(req[w]) /\ req[w].edge \in Edges
      BY <1>1, <1>7, RequestFields DEF RemoveEdge, EdgeOps, Mutates, ReadOps, SetReads
    <2>2. ~ HasEdge(graph', req[w].edge) /\ req' = req
      BY <1>7, <2>1, EdgeEdits DEF RemoveEdge, TypeOK, Answer
    <2>3. Achieved(req[w])'
      BY <1>7, <2>2 DEF RemoveEdge, Achieved
    <2> QED BY <1>1, <1>7, <2>1, <2>3, AnswerMoves DEF RemoveEdge, Sound
  <1>8. CASE ReadGraph(w)
    <2>1. Answer(w, "ok") /\ UNCHANGED disk /\ pc[w] = "graph"
      BY <1>8 DEF ReadGraph
    <2>2. CASE req[w].op = "UpdatePlan"
      <3>1. file[req[w].id]
        BY <1>1, <2>1, <2>2 DEF OnTheWay, Rewrites
      <3>2. TasksIgnored(req[w])'
        BY <1>1, <2>1, <2>2, <3>1, AnswerMoves DEF TasksIgnored, disk
      <3> QED BY <1>1, <2>1, <3>2, AnswerMoves DEF Sound
    <2>3. CASE req[w].op # "UpdatePlan"
      <3>1. req[w].op \in {"GetPlan"} \cup SetReads
        BY <2>1, <2>3 DEF TypeOK, Serves
      <3>2. Achieved(req[w])'
        BY <1>1, <2>1, <3>1, AnswerMoves DEF Achieved, SetReads
      <3> QED BY <1>1, <2>1, <3>2, AnswerMoves DEF Sound
    <2> QED BY <2>2, <2>3
  <1>9. CASE Query(w)
    <2>1. /\ Continue(w, "load", IF req[w].op = "GetChildren" THEN Children(graph, req[w].id)
                                                            ELSE Blocking(graph, req[w].id))
          /\ UNCHANGED disk
      BY <1>9 DEF Query
    <2> QED BY <1>1, <2>1, ContinueMoves DEF Sound, OnTheWay, Acknowledged
  <1> QED BY <1>2, <1>3, <1>4, <1>5, <1>6, <1>7, <1>8, <1>9, EdgeAddedSound

\* A delete of a meta-plan goes on to the yaml file, and has the ticket's file
\* removed or an error to answer.
LEMMA HalfRemoved ==
    ASSUME TypeOK, ServiceInv, NEW w \in Workers, pc[w] = "removeTicket", NEW r, ThenYaml(w, r),
           file'[req[w].id] = FALSE \/ r = "error"
    PROVE  Sound(w)
  <1>1. Mutates(req[w])
    BY DEF TypeOK, Serves, Mutates, ReadOps, SetReads
  <1> QED BY <1>1 DEF ThenYaml, Sound, Moves, OnTheWay, Acknowledged, TypeOK

\* Calls of the meta-plan store are sound.
LEMMA YamlCallsSound ==
    ASSUME TypeOK, ServiceInv, NEW w \in Workers,
           WriteYaml(w) \/ ReadYaml(w) \/ RemoveTicket(w) \/ RemoveYaml(w)
    PROVE  Sound(w)
  <1>1. OnTheWay(w) /\ req[w] \in Requests /\ pc[w] # "idle"
    BY Serving DEF ServiceInv, WriteYaml, ReadYaml, RemoveTicket, RemoveYaml
  <1>2. CASE WriteYaml(w)
    <2>1. /\ Serves(w, {"CreateMetaPlan", "UpdateMetaPlan"}) /\ Mutates(req[w])
          /\ req[w].id \in Tickets /\ file[req[w].id]
      BY <1>1, <1>2, RequestFields DEF WriteYaml, TypeOK, Serves, Mutates, ReadOps, SetReads, MetaOps, OnTheWay
    <2>2. file'[req[w].id] /\ meta'[req[w].id]
      BY <1>2, <2>1 DEF WriteYaml, TypeOK
    <2>3. CASE req[w].op = "CreateMetaPlan"
      <3>1. Answer(w, "ok")
        BY <1>2, <2>3 DEF WriteYaml
      <3>2. Achieved(req[w])'
        BY <1>1, <2>2, <2>3, <3>1, AnswerMoves DEF Achieved
      <3> QED BY <1>1, <2>1, <3>1, <3>2, AnswerMoves DEF Sound
    <2>4. CASE req[w].op = "UpdateMetaPlan"
      <3>1. Continue(w, "reread", {})
        BY <1>2, <2>4 DEF WriteYaml
      <3> QED BY <1>1, <2>1, <2>2, <3>1, ContinueMoves DEF Sound, OnTheWay, Acknowledged
    <2> QED BY <2>1, <2>3, <2>4 DEF Serves
  <1>3. CASE ReadYaml(w)
    <2>1. pc[w] = "readYaml" /\ UNCHANGED disk /\ req[w].op \in {"UpdateMetaPlan", "GetMetaPlan"}
      BY <1>3 DEF ReadYaml, TypeOK, Serves
    <2>2. CASE meta[req[w].id]
      <3>1. Answer(w, "ok")
        BY <1>3, <2>2 DEF ReadYaml
      <3>2. req[w].op = "UpdateMetaPlan" => file[req[w].id]
        BY <1>1, <2>1 DEF OnTheWay, Rewrites
      <3>3. Achieved(req[w])'
        BY <1>1, <2>1, <2>2, <3>1, <3>2, AnswerMoves DEF Achieved, disk
      <3> QED BY <1>1, <2>1, <3>1, <3>3, AnswerMoves DEF Sound
    <2>3. CASE ~ meta[req[w].id]
      BY <1>1, <1>3, <2>1, <2>3, FailureSound DEF ReadYaml
    <2> QED BY <2>2, <2>3
  <1>4. CASE RemoveTicket(w)
    <2>1. req[w].id \in Tickets
      BY <1>1, <1>4, RequestFields DEF RemoveTicket, TypeOK, Serves, MetaOps
    <2> QED BY <1>4, <2>1, HalfRemoved DEF RemoveTicket, TypeOK
  <1>5. CASE RemoveYaml(w)
    <2>1. /\ req[w].op = "DeleteMetaPlan" /\ Mutates(req[w]) /\ req[w].id \in Tickets
          /\ file[req[w].id] = FALSE \/ res[w] = "error"
      BY <1>1, <1>5, RequestFields DEF RemoveYaml, TypeOK, Serves, Mutates, ReadOps, SetReads, MetaOps, OnTheWay
    <2>2. PICK r : Answer(w, r) /\ (r = "ok" => res[w] = "ok")
      BY <1>5 DEF RemoveYaml, Worst
    <2>3. file' = file /\ meta'[req[w].id] = FALSE
      BY <1>5, <2>1 DEF RemoveYaml, TypeOK
    <2>4. r = "ok" => Achieved(req[w])'
      BY <1>1, <2>1, <2>2, <2>3, AnswerMoves DEF Achieved
    <2> QED BY <1>1, <2>1, <2>2, <2>4, AnswerMoves DEF Sound, Acknowledged
  <1> QED BY <1>2, <1>3, <1>4, <1>5

\* So are the other calls, and an answer that tells of an error.
LEMMA OtherCallsSound ==
    ASSUME TypeOK, ServiceInv, NEW w \in Workers,
           \/ Loaded(w) \/ \E t \in Tickets : Load(w, t)
           \/ ResetGraph(w) \/ Clear(w) \/ Cleared(w) \/ IOError(w) \/ Respond(w)
    PROVE  Sound(w)
  <1>1. OnTheWay(w) /\ pc[w] # "idle"
    BY DEF ServiceInv, Loaded, Load, ResetGraph, Clear, Cleared, IOError, Respond
  <1>2. CASE Loaded(w)
    <2>1. Achieved(req[w])'
      BY <1>1, <1>2, AnswerMoves DEF Loaded, Achieved, TypeOK, Serves
    <2> QED BY <1>1, <1>2, <2>1, AnswerMoves DEF Loaded, Sound
  <1>3. ASSUME NEW t \in Tickets, Load(w, t) PROVE Sound(w)
    <2>1. CASE file[t]
      BY <1>1, <1>3, <2>1, ContinueMoves DEF Load, Sound, OnTheWay, Acknowledged
    <2>2. CASE ~ file[t]
      BY <1>1, <1>3, <2>2, FailureSound DEF Load
    <2> QED BY <2>1, <2>2
  <1>4. CASE ResetGraph(w)
    <2>1. req[w].op = "CreateSet" /\ Mutates(req[w])
      BY <1>4 DEF ResetGraph, TypeOK, Serves, Mutates, ReadOps, SetReads
    <2>2. Achieved(req[w])'
      BY <1>1, <1>4, <2>1, AnswerMoves DEF ResetGraph, Achieved
    <2> QED BY <1>1, <1>4, <2>1, <2>2, AnswerMoves DEF ResetGraph, Sound
  <1>5. CASE Clear(w)
    <2>1. Mutates(req[w])
      BY <1>5 DEF Clear, TypeOK, Serves, Mutates, ReadOps, SetReads
    <2>2. pc[w] = "clear" /\ UNCHANGED <<pc, req, todo, res>>
      BY <1>5 DEF Clear
    <2> QED BY <1>1, <2>1, <2>2 DEF Sound, Moves, OnTheWay, Acknowledged
  <1>6. CASE Cleared(w)
    <2>1. req[w].op = "DeleteSet"
      BY <1>6 DEF Cleared, TypeOK, Serves
    <2>2. Achieved(req[w])'
      BY <1>1, <1>6, <2>1, AnswerMoves DEF Cleared, Achieved, disk
    <2> QED BY <1>1, <1>6, <2>2, AnswerMoves DEF Cleared, Sound
  <1>7. CASE IOError(w)
    <2>1. UNCHANGED disk
      BY <1>7 DEF IOError
    <2>2. CASE pc[w] = "removeTicket"
      BY <1>7, <2>1, <2>2, HalfRemoved DEF IOError
    <2>3. CASE pc[w] = "removeYaml"
      <3>1. Worst(res[w], "error") # "ok"
        BY DEF Worst
      <3> QED BY <1>1, <1>7, <2>1, <2>3, <3>1, FailureSound DEF IOError
    <2>4. CASE pc[w] \notin {"removeTicket", "removeYaml"}
      BY <1>1, <1>7, <2>1, <2>4, FailureSound DEF IOError
    <2> QED BY <2>2, <2>3, <2>4
  <1>8. CASE Respond(w)
    BY <1>1, <1>8 DEF Respond, disk, Sound, Moves, OnTheWay, Acknowledged, TypeOK
  <1> QED BY <1>2, <1>3, <1>4, <1>5, <1>6, <1>7, <1>8

\* Every step of a worker is sound.
LEMMA StepSound ==
    ASSUME TypeOK, ServiceInv, NEW w \in Workers, Step(w) \/ IOError(w)
    PROVE  Sound(w)
  BY FileCallsSound, YamlCallsSound, GraphCallsSound, OtherCallsSound DEF Step

\* A step of one worker takes no other off its way: if it changes the disk, the
\* others only read.
LEMMA OthersOnTheWay ==
    ASSUME TypeOK, ServiceInv, NEW w \in Workers, NEW v \in Workers \ {w},
           pc'[v] = pc[v], req'[v] = req[v], todo'[v] = todo[v], res'[v] = res[v],
           UNCHANGED disk \/ (pc[w] # "idle" /\ Mutates(req[w]))
    PROVE  OnTheWay(v)'
  <1>1. OnTheWay(v)
    BY DEF ServiceInv
  <1>2. CASE UNCHANGED disk
    BY <1>1, <1>2 DEF disk, OnTheWay, HasTicket, Linked
  <1>3. CASE pc[w] # "idle" /\ Mutates(req[w])
    <2>1. pc[v] # "idle" => req[v].op \in ReadOps \cup SetReads
      BY <1>3 DEF ServiceInv, OneMutation, Mutates
    <2>2. pc[v] \notin {"write", "node", "remove", "edge", "writeYaml", "removeYaml"}
      BY <2>1 DEF TypeOK, Serves, ReadOps, SetReads, Rewrites, EdgeOps
    <2>3. pc[v] \in {"reread", "graph", "readYaml"} => req[v].op \notin Rewrites
      BY <2>1 DEF ReadOps, SetReads, Rewrites
    <2> QED BY <2>2, <2>3 DEF OnTheWay, Rewrites
  <1> QED BY <1>2, <1>3

\* No step lets two mutations overlap or takes a request off its way.
LEMMA ServiceStep == TypeOK /\ ServiceInv /\ [Next]_vars => ServiceInv'
  <1> SUFFICES ASSUME TypeOK, ServiceInv, [Next]_vars PROVE ServiceInv'
    OBVIOUS
  <1>1. ASSUME NEW w \in Workers, Step(w) \/ IOError(w) PROVE ServiceInv'
    <2>1. Sound(w)
      BY <1>1, StepSound
    <2>2. \A v \in Workers \ {w} : pc'[v] = pc[v] /\ req'[v] = req[v] /\ todo'[v] = todo[v] /\ res'[v] = res[v]
      BY <2>1 DEF Sound, Moves
    <2>3. \A v \in Workers : OnTheWay(v)'
      BY <2>1, <2>2, OthersOnTheWay DEF Sound, Moves
    <2>4. pc[w] # "idle" /\ (pc'[w] = "idle" \/ req'[w] = req[w])
      BY <2>1 DEF Sound, Moves
    <2>5. OneMutation'
      <3> SUFFICES ASSUME NEW u \in Workers, NEW v \in Workers, u # v, pc'[u] # "idle", pc'[v] # "idle"
                   PROVE  ~ (Mutates(req'[u]) /\ Mutates(req'[v]))
        BY DEF OneMutation, Mutates
      <3>1. pc[u] # "idle" /\ req'[u] = req[u] /\ pc[v] # "idle" /\ req'[v] = req[v]
        BY <2>2, <2>4
      <3> QED BY <3>1 DEF ServiceInv, OneMutation
    <2> QED BY <2>3, <2>5 DEF ServiceInv
  <1>2. ASSUME NEW w \in Workers, NEW q \in Requests, Begin(w, q) PROVE ServiceInv'
    <2>1. /\ \A v \in Workers \ {w} : pc'[v] = pc[v] /\ req'[v] = req[v] /\ todo'[v] = todo[v] /\ res'[v] = res[v]
          /\ req'[w] = q /\ pc'[w] = FirstStep(q) /\ UNCHANGED disk
          /\ todo'[w] = IF q.op = "CreatePlan" THEN q.tasks ELSE {}
      BY <1>2 DEF Begin, disk, TypeOK
    <2>2. \A v \in Workers \ {w} : OnTheWay(v)'
      BY <2>1, OthersOnTheWay
    <2>3. /\ FirstStep(q) \notin {"node", "writeYaml", "readYaml", "removeYaml"}
          /\ FirstStep(q) = "remove" => q.op # "DeleteTicket"
          /\ FirstStep(q) = "edge" => q.op # "CreatePlan"
          /\ FirstStep(q) \in {"reread", "graph"} => q.op \notin Rewrites
      BY FirstSteps DEF EdgeOps, SetReads, Rewrites
    <2>4. OnTheWay(w)'
      BY <2>1, <2>3 DEF OnTheWay, Rewrites
    <2>5. OneMutation'
      <3> SUFFICES ASSUME NEW u \in Workers, NEW v \in Workers, u # v, pc'[u] # "idle", pc'[v] # "idle"
                   PROVE  ~ (Mutates(req'[u]) /\ Mutates(req'[v]))
        BY DEF OneMutation, Mutates
      <3>1. Mutates(q) => \A x \in Workers : pc[x] # "idle" => ~ Mutates(req[x])
        BY <1>2 DEF Begin
      <3>2. CASE u = w
        BY <2>1, <3>1, <3>2
      <3>3. CASE v = w
        BY <2>1, <3>1, <3>3
      <3>4. CASE u # w /\ v # w
        BY <2>1, <3>4 DEF ServiceInv, OneMutation
      <3> QED BY <3>2, <3>3, <3>4
    <2> QED BY <2>2, <2>4, <2>5 DEF ServiceInv
  <1>3. CASE Crash
    <2>1. \A v \in Workers : pc'[v] = "idle"
      BY <1>3 DEF Crash
    <2>2. \A v \in Workers : OnTheWay(v)'
      BY <2>1 DEF OnTheWay
    <2>3. OneMutation'
      BY <2>1 DEF OneMutation
    <2> QED BY <2>2, <2>3 DEF ServiceInv
  <1>4. CASE UNCHANGED vars
    BY <1>4 DEF vars, ServiceInv, OneMutation, OnTheWay, HasTicket, Linked, Mutates
  <1> QED BY <1>1, <1>2, <1>3, <1>4 DEF Next

\* The program starts with no request on the way.
LEMMA ServiceInit == Init => ServiceInv
  BY DEF Init, ServiceInv, OneMutation, OnTheWay

\* At every moment each request stands where the calls before have brought it.
THEOREM AlwaysOnTheWay == Spec => [](TypeOK /\ ServiceInv)
  <1>1. Init => TypeOK /\ ServiceInv
    BY TypeInit, ServiceInit
  <1>2. TypeOK /\ ServiceInv /\ [Next]_vars => (TypeOK /\ ServiceInv)'
    BY TypeStep, ServiceStep
  <1> QED BY <1>1, <1>2, PTL DEF Spec

-----------------------------------------------------------------------------
(***************************************************************************)
(* True answers.                                                           *)
(***************************************************************************)

\* A request that is answered "ok" in a step has achieved what it asks for, but
\* for the tasks of an updated plan.
LEMMA AnswersStep ==
    ASSUME TypeOK, ServiceInv, [Next]_vars,
           NEW w \in Workers, pc[w] # "done", pc'[w] = "done", res'[w] = "ok"
    PROVE  (Achieved(req[w]) \/ TasksIgnored(req[w]))'
  <1>1. ASSUME NEW v \in Workers, Step(v) \/ IOError(v)
        PROVE  (Achieved(req[w]) \/ TasksIgnored(req[w]))'
    <2>1. Sound(v)
      BY <1>1, StepSound
    <2>2. v = w
      BY <2>1 DEF Sound, Moves
    <2> QED BY <2>1, <2>2 DEF Sound, Acknowledged
  <1>2. ASSUME NEW v \in Workers, NEW q \in Requests, Begin(v, q) PROVE FALSE
    <2>1. FirstStep(q) # "done"
      BY FirstSteps
    <2> QED BY <1>2, <2>1 DEF Begin, TypeOK
  <1>3. CASE Crash
    BY <1>3 DEF Crash
  <1>4. CASE UNCHANGED vars
    BY <1>4 DEF vars
  <1> QED BY <1>1, <1>2, <1>3, <1>4 DEF Next

\* An "ok" is never a lie, but for the tasks that come with an update of a plan:
\* not after failed calls, half done creates and deletes that were tried before,
\* restarts, or reads that run beside it.
THEOREM OkIsTrue == Spec => AnswersAreTrue
  <1>1. TypeOK /\ ServiceInv /\ [Next]_vars
           => [\A w \in Workers :
                 pc[w] # "done" /\ pc'[w] = "done" /\ res'[w] = "ok"
                    => (Achieved(req[w]) \/ TasksIgnored(req[w]))']_vars
    BY AnswersStep
  <1> QED BY <1>1, AlwaysOnTheWay, PTL DEF Spec, AnswersAreTrue

-----------------------------------------------------------------------------
(***************************************************************************)
(* Nodes and files.                                                        *)
(***************************************************************************)

\* Worker w deletes a plan, a meta-plan or the whole set in this step.
Deleting(w) ==
    /\ Serves(w, {"DeletePlan", "DeleteMetaPlan", "DeleteSet"})
    /\ pc[w] \in {"remove", "removeTicket", "clear"}

\* A call that leaves the graph as it is and no file away leaves a node without
\* its file only where one was.
LEMMA FilesStayNoDangling ==
    ASSUME graph' = graph, \A t \in Tickets : file[t] => file'[t],
           NEW t \in Tickets, Dangling(t)'
    PROVE  Dangling(t)
  BY DEF Dangling, HasTicket

\* A step that leaves a node without its file is one of a delete.
LEMMA DanglingStep ==
    ASSUME TypeOK, ServiceInv, [Next]_vars, NEW t \in Tickets, Dangling(t)', ~ Dangling(t)
    PROVE  \E w \in Workers : Deleting(w)
  <1>1. ASSUME NEW w \in Workers, Step(w), ~ Deleting(w) PROVE FALSE
    <2>1. CASE WriteFile(w)
      <3>1. graph' = graph /\ \A u \in Tickets : file[u] => file'[u]
        BY <2>1 DEF WriteFile, TypeOK
      <3> QED BY <3>1, FilesStayNoDangling
    <2>2. CASE RemoveFile(w)
      <3>1. /\ pc[w] = "remove" /\ req[w].op = "DeleteTicket" /\ req[w].id \in Tickets
            /\ graph' = graph /\ file' = [file EXCEPT ![req[w].id] = FALSE]
        BY <1>1, <2>2, Serving, RequestFields DEF RemoveFile, TypeOK, Serves, Deleting, TicketOps
      <3>2. ~ HasTicket(req[w].id)
        BY <3>1 DEF ServiceInv, OnTheWay
      <3>3. t # req[w].id
        BY <3>1, <3>2 DEF Dangling, HasTicket
      <3> QED BY <3>1, <3>3 DEF Dangling, HasTicket, TypeOK
    <2>3. CASE AddNode(w)
      <3>1. /\ req[w].id \in Tickets /\ graph \in Graphs
            /\ graph' = WithNode(graph, req[w].id) /\ file' = file /\ file[req[w].id]
        BY <2>3, Serving, RequestFields
        DEF AddNode, TypeOK, Serves, ServiceInv, OnTheWay, TicketOps, PlanOps
      <3>2. t # req[w].id
        BY <3>1 DEF Dangling
      <3>3. HasNode(graph', t) => HasNode(graph, t)
        BY <3>1, <3>2, NodeEdits
      <3> QED BY <2>3, <3>1, <3>3 DEF AddNode, Dangling, HasTicket
    <2>4. CASE RemoveNode(w)
      <3>1. /\ graph \in Graphs /\ graph # None /\ req[w].id \in Tickets
            /\ graph' = WithoutNode(graph, req[w].id) /\ file' = file
        BY <2>4, Serving, RequestFields DEF RemoveNode, TypeOK, Serves, TicketOps
      <3>2. HasNode(graph', t) => HasNode(graph, t)
        BY <3>1, NodeEdits
      <3> QED BY <3>1, <3>2 DEF Dangling, HasTicket
    <2>5. ASSUME NEW e \in Edges, AddEdge(w, e) PROVE FALSE
      <3>1. HasNode(graph', t) => HasNode(graph, t)
        BY <2>5 DEF AddEdge, WithEdge, TypeOK, Graphs, HasNode
      <3> QED BY <2>5, <3>1 DEF AddEdge, Dangling, HasTicket
    <2>6. CASE RemoveEdge(w)
      <3>1. HasNode(graph', t) => HasNode(graph, t)
        BY <2>6 DEF RemoveEdge, WithoutEdge, TypeOK, Graphs, HasNode
      <3> QED BY <2>6, <3>1 DEF RemoveEdge, Dangling, HasTicket
    <2>7. CASE ResetGraph(w)
      BY <2>7 DEF ResetGraph, EmptyGraph, Dangling, HasTicket, HasNode
    <2>8. CASE Clear(w)
      BY <1>1, <2>8 DEF Clear, Deleting, TypeOK, Serves
    <2>9. CASE UNCHANGED disk
      BY <2>9 DEF disk, Dangling, HasTicket
    <2>10. CASE WriteYaml(w) \/ RemoveYaml(w)
      BY <2>10 DEF WriteYaml, RemoveYaml, Dangling, HasTicket
    <2>11. CASE RemoveTicket(w)
      BY <1>1, <2>11 DEF RemoveTicket, Deleting, TypeOK, Serves
    <2> QED
      BY <1>1, <2>1, <2>2, <2>3, <2>4, <2>5, <2>6, <2>7, <2>8, <2>9, <2>10, <2>11
      DEF Step, ReadFile, FileMissing, GraphMissing, AddNodeAgain, AddEdgeNoNode, ReadGraph, Query,
          Loaded, Load, Cleared, Respond, ReadYaml, disk
  <1>2. CASE UNCHANGED disk
    BY <1>2 DEF disk, Dangling, HasTicket
  <1> QED BY <1>1, <1>2 DEF Next, IOError, Begin, Crash, vars, disk

\* Only the delete of a plan, of a meta-plan or of the whole set leaves a node
\* without its file.
THEOREM DanglingOnlyByDelete == Spec => DanglingByDelete
  <1>1. TypeOK /\ ServiceInv /\ [Next]_vars
           => [\A t \in Tickets :
                 Dangling(t)' /\ ~ Dangling(t)
                   => \E w \in Workers :
                         /\ Serves(w, {"DeletePlan", "DeleteMetaPlan", "DeleteSet"})
                         /\ pc[w] \in {"remove", "removeTicket", "clear"}]_vars
    BY DanglingStep DEF Deleting
  <1> QED BY <1>1, AlwaysOnTheWay, PTL DEF Spec, DanglingByDelete

\* Where plans, meta-plans and sets are never deleted, each node has its file
\* for ever.
THEOREM NodesKeepFiles ==
    ASSUME Ops \cap {"DeletePlan", "DeleteMetaPlan", "DeleteSet"} = {}
    PROVE  Spec => []NodesHaveFiles
  <1>1. Init => NodesHaveFiles
    BY DEF Init, NodesHaveFiles, Dangling, HasTicket
  <1>2. TypeOK => ~ \E w \in Workers : Deleting(w)
    BY RequestFields DEF TypeOK, Serves, Deleting
  <1>3. TypeOK /\ ServiceInv /\ [Next]_vars /\ NodesHaveFiles => NodesHaveFiles'
    BY <1>2, DanglingStep DEF NodesHaveFiles
  <1> QED BY <1>1, <1>3, AlwaysOnTheWay, PTL DEF Spec
=============================================================================
