-------------------------- MODULE TrackerApiProofs --------------------------
(***************************************************************************)
(* Proofs about TrackerApi, for every set of tickets, edges, operations    *)
(* and workers.  The steps are Tracker's, so what TrackerProofs shows of   *)
(* them, that a request stands where its calls before have brought it, is  *)
(* used here.                                                              *)
(***************************************************************************)
EXTENDS TrackerApi, TrackerProofs

\* Tracker's invariants hold in TrackerApi, which only watches its steps.
LEMMA TrackerInvariants == SpecApi => [](TypeOK /\ ServiceInv)
  <1>1. InitApi => TypeOK /\ ServiceInv
    BY TypeInit, ServiceInit DEF InitApi
  <1>2. TypeOK /\ ServiceInv /\ [NextApi]_varsApi => (TypeOK /\ ServiceInv)'
    <2> SUFFICES ASSUME TypeOK, ServiceInv, [NextApi]_varsApi PROVE (TypeOK /\ ServiceInv)'
      OBVIOUS
    <2>1. [Next]_vars
      BY DEF NextApi, varsApi, vars
    <2> QED BY <2>1, TypeStep, ServiceStep
  <1> QED BY <1>1, <1>2, PTL DEF SpecApi

\* Only the worker that moves writes.
LEMMA OneWrites ==
    ASSUME TypeOK, NEW w \in Workers, NEW v \in Workers, WriteFile(v) \/ WriteYaml(v),
           pc'[v] = pc[v] \/ Moves(w)
    PROVE  v = w /\ Moves(w)
  <1>1. pc[v] \in {"write", "writeYaml"} /\ pc'[v] # pc[v]
    BY DEF WriteFile, WriteYaml, Continue, Answer, TypeOK
  <1> QED BY <1>1 DEF Moves

-----------------------------------------------------------------------------
(***************************************************************************)
(* Client errors.                                                          *)
(***************************************************************************)

\* What excuses the answer of a request that was in error.
Excused(w) ==
    \/ ~ touched
    \/ Serves(w, {"DeleteTicket"}) /\ ~ file[req[w].id] /\ ~ HasTicket(req[w].id)
    \/ Serves(w, {"UpdatePlan"}) /\ graph = None
    \/ Serves(w, {"DeleteMetaPlan"}) /\ ~ file[req[w].id] /\ ~ meta[req[w].id]

\* The calls before which a mutation has changed nothing.
Untouched(w) ==
    \/ pc[w] \in {"read", "unlink", "removeTicket"}
    \/ pc[w] = "removeYaml" /\ res[w] = "notfound"
    \/ pc[w] = "write" /\ req[w].op \in Rewrites
    \/ pc[w] = "remove" /\ req[w].op = "DeletePlan"
    \/ pc[w] = "edge" /\ req[w].op \in EdgeOps

Blameless(w) ==
    Mutating(w) =>
        /\ Untouched(w) => ~ touched
        /\ pc[w] = "done" /\ Status(req[w].op, res[w]) \in ClientErrors => Excused(w)

TouchedByOne == touched => \E w \in Workers : Mutating(w)

ApiInv == TouchedByOne /\ \A w \in Workers : Blameless(w)

\* A client error says that something was not found, and not to a create.
LEMMA ClientErrorStatus ==
    ASSUME NEW op \in AllOps, NEW r, Status(op, r) \in ClientErrors
    PROVE  r = "notfound" /\ op \notin {"CreateTicket", "CreatePlan", "CreateMetaPlan", "RemoveEdge"}
  <1>1. Success(op) \notin ClientErrors /\ 500 \notin ClientErrors
    BY DEF Success, ClientErrors
  <1>2. r = "notfound"
    BY <1>1 DEF Status, SetStatus, TicketStatus, EdgeStatus, PlanStatus, MetaPlanStatus, QueryStatus
  <1>3. ASSUME op = "CreateTicket" PROVE FALSE
    <2>1. Status(op, r) = TicketStatus(op, r)
      BY <1>3 DEF Status, SetOps, TicketOps, EdgeOps, PlanOps, MetaOps
    <2>2. TicketStatus(op, r) = 500
      BY <1>2, <1>3 DEF TicketStatus
    <2> QED BY <1>1, <2>1, <2>2
  <1>4. ASSUME op = "CreatePlan" PROVE FALSE
    <2>1. Status(op, r) = PlanStatus(op, r)
      BY <1>4 DEF Status, SetOps, TicketOps, EdgeOps, PlanOps, MetaOps
    <2>2. PlanStatus(op, r) = 500
      BY <1>2, <1>4 DEF PlanStatus
    <2> QED BY <1>1, <2>1, <2>2
  <1>5. ASSUME op = "RemoveEdge" PROVE FALSE
    <2>1. Status(op, r) = EdgeStatus(op, r)
      BY <1>5 DEF Status, SetOps, TicketOps, EdgeOps, PlanOps, MetaOps
    <2>2. EdgeStatus(op, r) = 500
      BY <1>2, <1>5 DEF EdgeStatus
    <2> QED BY <1>1, <2>1, <2>2
  <1>6. ASSUME op = "CreateMetaPlan" PROVE FALSE
    <2>1. Status(op, r) = MetaPlanStatus(op, r)
      BY <1>6 DEF Status, SetOps, TicketOps, EdgeOps, PlanOps, MetaOps
    <2>2. MetaPlanStatus(op, r) = 500
      BY <1>2, <1>6 DEF MetaPlanStatus
    <2> QED BY <1>1, <2>1, <2>2
  <1> QED BY <1>2, <1>3, <1>4, <1>5, <1>6

\* A mutation that leaves the disk as it was, and had changed nothing before,
\* has changed nothing.
LEMMA StaysUntouched ==
    ASSUME TypeOK, Observe, NEW w \in Workers, Moves(w), UNCHANGED disk,
           pc[w] \notin {"write", "writeYaml"}, ~ touched
    PROVE  ~ touched'
  <1>1. \A v \in Workers : ~ WriteFile(v) /\ ~ WriteYaml(v)
    BY OneWrites DEF WriteFile, WriteYaml
  <1> QED BY <1>1 DEF Observe, Touches

\* A mutation that answers is blameless if a "not found" is excused.
LEMMA AnswerBlameless ==
    ASSUME TypeOK, NEW w \in Workers, pc[w] # "idle", NEW r, Answer(w, r),
           r = "notfound" =>
              \/ req[w].op \in {"CreateTicket", "CreatePlan", "CreateMetaPlan", "RemoveEdge"}
              \/ Excused(w)'
    PROVE  Blameless(w)'
  <1>1. pc'[w] = "done" /\ res'[w] = r /\ req' = req
    BY AnswerMoves
  <1>2. ~ Untouched(w)'
    BY <1>1 DEF Untouched
  <1>3. req[w].op \in AllOps
    BY Serving, RequestFields
  <1>4. Status(req[w].op, r) \in ClientErrors => Excused(w)'
    BY <1>3, ClientErrorStatus
  <1> QED BY <1>1, <1>2, <1>4 DEF Blameless

\* A mutation that goes on is blameless if it goes where something has changed.
LEMMA ContinueBlameless ==
    ASSUME TypeOK, NEW w \in Workers, pc[w] # "idle", NEW step, NEW left, Continue(w, step, left),
           step # "done",
           \/ step \notin {"read", "unlink", "write", "remove", "removeTicket", "removeYaml", "edge"}
           \/ step = "remove" /\ req[w].op # "DeletePlan"
           \/ step = "edge" /\ req[w].op \notin EdgeOps
           \/ ~ touched'
    PROVE  Blameless(w)'
  <1>1. pc'[w] = step /\ req' = req
    BY ContinueMoves
  <1> QED BY <1>1 DEF Blameless, Untouched

\* The calls of a mutation leave it blameless.
LEMMA FileCallsBlameless ==
    ASSUME TypeOK, ServiceInv, Observe, NEW w \in Workers, Mutating(w), Blameless(w),
           WriteFile(w) \/ ReadFile(w) \/ FileMissing(w) \/ RemoveFile(w)
    PROVE  Blameless(w)'
  <1>1. /\ pc[w] # "idle" /\ OnTheWay(w) /\ Sound(w) /\ Moves(w)
        /\ req[w].op \notin ReadOps \cup SetReads
    BY FileCallsSound DEF Mutating, Mutates, ServiceInv, Sound
  <1>2. CASE WriteFile(w)
    BY <1>1, <1>2, AnswerBlameless, ContinueBlameless DEF WriteFile
  <1>3. CASE ReadFile(w)
    <2>1. CASE pc[w] = "read"
      <3>1. ~ touched'
        BY <1>1, <1>3, <2>1, StaysUntouched DEF ReadFile, Blameless, Untouched
      <3> QED BY <1>1, <1>3, <2>1, <3>1, ContinueBlameless DEF ReadFile
    <2>2. CASE pc[w] = "reread"
      BY <1>1, <1>3, <2>2, AnswerBlameless, ContinueBlameless DEF ReadFile
    <2> QED BY <1>3, <2>1, <2>2 DEF ReadFile
  <1>4. CASE FileMissing(w)
    <2>1. Answer(w, "notfound") /\ UNCHANGED disk /\ ~ file[req[w].id] /\ req' = req
      BY <1>1, <1>4, AnswerMoves DEF FileMissing
    <2>2. CASE pc[w] = "read" \/ (pc[w] = "remove" /\ req[w].op = "DeletePlan")
      <3>1. ~ touched'
        BY <1>1, <2>1, <2>2, StaysUntouched DEF Blameless, Untouched
      <3> QED BY <1>1, <2>1, <3>1, AnswerBlameless DEF Excused
    <2>3. CASE pc[w] = "remove" /\ req[w].op = "DeleteTicket"
      <3>1. Serves(w, {"DeleteTicket"}) /\ ~ HasTicket(req[w].id)
        BY <1>1, <2>3, Serving, NoRequestAssumption DEF OnTheWay, Serves
      <3>2. Excused(w)'
        BY <2>1, <3>1 DEF Excused, Serves, HasTicket, disk
      <3> QED BY <1>1, <2>1, <3>2, AnswerBlameless
    <2>4. CASE pc[w] = "reread"
      <3>1. req[w].op \in Rewrites
        BY <1>1, <2>4 DEF TypeOK, Serves, Rewrites, ReadOps
      <3> QED BY <1>1, <2>1, <2>4, <3>1 DEF OnTheWay
    <2> QED BY <1>1, <1>4, <2>2, <2>3, <2>4 DEF FileMissing, TypeOK, Serves
  <1>5. CASE RemoveFile(w)
    BY <1>1, <1>5, AnswerBlameless DEF RemoveFile
  <1> QED BY <1>2, <1>3, <1>4, <1>5

\* The first half of the delete of a meta-plan answers nothing, and has changed
\* nothing when it has found nothing.
LEMMA HalfBlameless ==
    ASSUME TypeOK, NEW w \in Workers, pc[w] = "removeTicket", NEW r, ThenYaml(w, r),
           r = "notfound" => ~ touched'
    PROVE  Blameless(w)'
  BY DEF ThenYaml, Blameless, Untouched, TypeOK

LEMMA YamlCallsBlameless ==
    ASSUME TypeOK, ServiceInv, Observe, NEW w \in Workers, Mutating(w), Blameless(w),
           WriteYaml(w) \/ ReadYaml(w) \/ RemoveTicket(w) \/ RemoveYaml(w)
    PROVE  Blameless(w)'
  <1>1. /\ pc[w] # "idle" /\ OnTheWay(w) /\ Sound(w) /\ Moves(w)
        /\ req[w].op \notin ReadOps \cup SetReads
    BY YamlCallsSound DEF Mutating, Mutates, ServiceInv, Sound
  <1>2. CASE WriteYaml(w)
    BY <1>1, <1>2, AnswerBlameless, ContinueBlameless DEF WriteYaml
  <1>3. CASE ReadYaml(w)
    <2>1. pc[w] = "readYaml" /\ req[w].op = "UpdateMetaPlan"
      BY <1>1, <1>3 DEF ReadYaml, TypeOK, Serves, ReadOps
    <2>2. meta[req[w].id]
      BY <1>1, <2>1 DEF OnTheWay, Rewrites
    <2> QED BY <1>1, <1>3, <2>2, AnswerBlameless DEF ReadYaml
  <1>4. CASE RemoveTicket(w)
    <2>1. pc[w] = "removeTicket" /\ req[w].id \in Tickets
      BY <1>4, Serving, RequestFields DEF RemoveTicket, TypeOK, Serves, MetaOps
    <2>2. CASE file[req[w].id]
      BY <1>4, <2>1, <2>2, HalfBlameless DEF RemoveTicket
    <2>3. CASE ~ file[req[w].id]
      <3>1. UNCHANGED disk
        BY <1>4, <2>1, <2>3 DEF RemoveTicket, disk, TypeOK
      <3>2. ~ touched'
        BY <1>1, <2>1, <3>1, StaysUntouched DEF Blameless, Untouched
      <3> QED BY <1>4, <2>1, <3>2, HalfBlameless DEF RemoveTicket
    <2> QED BY <2>2, <2>3
  <1>5. CASE RemoveYaml(w)
    <2>1. /\ Serves(w, {"DeleteMetaPlan"}) /\ req[w].id \in Tickets
          /\ file[req[w].id] = FALSE \/ res[w] = "error"
      BY <1>1, <1>5, Serving, RequestFields DEF RemoveYaml, TypeOK, Serves, MetaOps, OnTheWay
    <2>2. PICK r : Answer(w, r) /\ (r = "notfound" => res[w] # "error")
      BY <1>5 DEF RemoveYaml, Worst
    <2>3. file' = file /\ meta'[req[w].id] = FALSE /\ req' = req
      BY <1>1, <1>5, <2>1, <2>2, AnswerMoves DEF RemoveYaml, TypeOK
    <2>4. r = "notfound" => Excused(w)'
      BY <2>1, <2>2, <2>3 DEF Excused, Serves
    <2> QED BY <1>1, <2>2, <2>4, AnswerBlameless
  <1> QED BY <1>2, <1>3, <1>4, <1>5

LEMMA GraphCallsBlameless ==
    ASSUME TypeOK, ServiceInv, Observe, NEW w \in Workers, Mutating(w), Blameless(w),
           \/ GraphMissing(w) \/ AddNode(w) \/ AddNodeAgain(w) \/ RemoveNode(w)
           \/ \E e \in Edges : AddEdge(w, e) \/ AddEdgeNoNode(w, e)
           \/ RemoveEdge(w) \/ ReadGraph(w) \/ Query(w)
    PROVE  Blameless(w)'
  <1>1. /\ pc[w] # "idle" /\ OnTheWay(w) /\ Sound(w) /\ Moves(w)
        /\ req[w].op \notin ReadOps \cup SetReads
    BY GraphCallsSound DEF Mutating, Mutates, ServiceInv, Sound
  <1>2. CASE GraphMissing(w)
    <2>1. Answer(w, "notfound") /\ UNCHANGED disk /\ graph = None /\ req' = req
      BY <1>1, <1>2, AnswerMoves DEF GraphMissing
    <2>2. CASE pc[w] = "unlink" \/ (pc[w] = "edge" /\ req[w].op \in EdgeOps)
      <3>1. ~ touched'
        BY <1>1, <2>1, <2>2, StaysUntouched DEF Blameless, Untouched
      <3> QED BY <1>1, <2>1, <3>1, AnswerBlameless DEF Excused
    <2>3. CASE pc[w] = "node" \/ (pc[w] = "edge" /\ req[w].op = "CreatePlan")
      <3>1. req[w].op \in {"CreateTicket", "CreatePlan"}
        BY <2>3 DEF TypeOK, Serves
      <3> QED BY <1>1, <2>1, <3>1, AnswerBlameless
    <2>4. CASE pc[w] = "graph"
      <3>1. Serves(w, {"UpdatePlan"})
        BY <1>1, <2>4 DEF TypeOK, Serves, ReadOps
      <3>2. Excused(w)'
        BY <2>1, <3>1 DEF Excused, Serves, disk
      <3> QED BY <1>1, <2>1, <3>2, AnswerBlameless
    <2>5. pc[w] # "query"
      BY <1>1 DEF TypeOK, Serves, ReadOps
    <2> QED BY <1>2, <2>2, <2>3, <2>4, <2>5 DEF GraphMissing, TypeOK, Serves
  <1>3. ASSUME NEW left, LinkOrAnswer(w, left), left # {} => req[w].op \notin EdgeOps
        PROVE  Blameless(w)'
    <2>1. CASE left = {}
      BY <1>1, <1>3, <2>1, AnswerBlameless DEF LinkOrAnswer
    <2>2. CASE left # {}
      BY <1>1, <1>3, <2>2, ContinueBlameless DEF LinkOrAnswer
    <2> QED BY <2>1, <2>2
  <1>4. CASE AddNode(w) \/ AddNodeAgain(w)
    <2>1. LinkOrAnswer(w, todo[w])
      BY <1>4 DEF AddNode, AddNodeAgain
    <2>2. req[w].op \notin EdgeOps
      BY <1>4 DEF AddNode, AddNodeAgain, TypeOK, Serves, EdgeOps
    <2> QED BY <1>3, <2>1, <2>2
  <1>5. CASE RemoveNode(w)
    <2>1. req[w].op = "DeleteTicket" /\ Continue(w, "remove", {})
      BY <1>5 DEF RemoveNode, TypeOK, Serves
    <2> QED BY <1>1, <2>1, ContinueBlameless
  <1>6. ASSUME NEW e \in Edges, AddEdge(w, e) PROVE Blameless(w)'
    <2>1. LinkOrAnswer(w, todo[w] \ {e.to}) /\ pc[w] = "edge"
      BY <1>6 DEF AddEdge
    <2>2. todo[w] \ {e.to} # {} => req[w].op \notin EdgeOps
      BY <2>1 DEF TypeOK, Serves, EdgeOps
    <2> QED BY <1>3, <2>1, <2>2
  <1>7. ASSUME NEW e \in Edges, AddEdgeNoNode(w, e) PROVE Blameless(w)'
    BY <1>1, <1>7, AnswerBlameless DEF AddEdgeNoNode
  <1>8. CASE RemoveEdge(w) \/ ReadGraph(w)
    BY <1>1, <1>8, AnswerBlameless DEF RemoveEdge, ReadGraph
  <1>9. CASE Query(w)
    BY <1>1, <1>9 DEF Query, TypeOK, Serves, ReadOps
  <1> QED BY <1>2, <1>4, <1>5, <1>6, <1>7, <1>8, <1>9

LEMMA OtherCallsBlameless ==
    ASSUME TypeOK, ServiceInv, Observe, NEW w \in Workers, Mutating(w), Blameless(w),
           \/ Loaded(w) \/ \E t \in Tickets : Load(w, t)
           \/ ResetGraph(w) \/ Clear(w) \/ Cleared(w) \/ IOError(w) \/ Respond(w)
    PROVE  Blameless(w)'
  <1>1. pc[w] # "idle" /\ req[w].op \notin ReadOps \cup SetReads
    BY DEF Mutating, Mutates
  <1>2. pc[w] \notin {"load", "query"}
    BY <1>1 DEF TypeOK, Serves, ReadOps
  <1>3. CASE ResetGraph(w) \/ Cleared(w)
    BY <1>1, <1>3, AnswerBlameless DEF ResetGraph, Cleared
  <1>4. CASE Clear(w)
    BY <1>4 DEF Clear, Blameless, Untouched
  <1>5. CASE Respond(w)
    BY <1>5 DEF Respond, Blameless, Mutating, TypeOK
  <1>6. CASE IOError(w)
    <2>1. UNCHANGED disk /\ Moves(w)
      BY <1>6, StepSound DEF IOError, Sound
    <2>2. CASE pc[w] = "removeTicket"
      BY <1>6, <2>2, HalfBlameless DEF IOError
    <2>3. CASE pc[w] = "removeYaml" /\ res[w] = "notfound"
      <3>1. ~ touched'
        BY <2>1, <2>3, StaysUntouched DEF Blameless, Untouched
      <3>2. Answer(w, "notfound")
        BY <1>6, <2>3 DEF IOError, Worst
      <3> QED BY <1>1, <3>1, <3>2, AnswerBlameless DEF Excused
    <2>4. CASE pc[w] = "removeYaml" /\ res[w] # "notfound"
      <3>1. PICK r : Answer(w, r) /\ r # "notfound"
        BY <1>6, <2>4 DEF IOError, Worst
      <3> QED BY <1>1, <3>1, AnswerBlameless
    <2>5. CASE pc[w] \notin {"removeTicket", "removeYaml"}
      BY <1>1, <1>6, <2>5, AnswerBlameless DEF IOError
    <2> QED BY <2>2, <2>3, <2>4, <2>5
  <1> QED BY <1>2, <1>3, <1>4, <1>5, <1>6 DEF Loaded, Load

\* A worker that did not move is as blameless as it was, if the step of the one
\* that did is a read or it serves a read itself.
LEMMA OthersBlameless ==
    ASSUME TypeOK, ServiceInv, Observe, NEW w \in Workers, NEW v \in Workers \ {w},
           Moves(w), Mutates(req[w]) \/ UNCHANGED disk,
           Blameless(v)
    PROVE  Blameless(v)'
  <1> SUFFICES ASSUME Mutating(v)' PROVE Blameless(v)'
    BY DEF Blameless
  <1>1. pc'[v] = pc[v] /\ req'[v] = req[v] /\ res'[v] = res[v] /\ Mutating(v)
    BY DEF Moves, Mutating, Mutates
  <1>2. ~ Mutates(req[w]) /\ UNCHANGED disk /\ pc[w] # "idle"
    BY <1>1 DEF Moves, Mutating, ServiceInv, OneMutation
  <1>3. pc[w] \notin {"write", "writeYaml"}
    BY <1>2 DEF TypeOK, Serves, Mutates, ReadOps, SetReads, Rewrites
  <1>4. ~ touched => ~ touched'
    BY <1>2, <1>3, StaysUntouched
  <1>5. Excused(v) => Excused(v)'
    BY <1>1, <1>2, <1>4 DEF Excused, Serves, HasTicket, disk
  <1>6. Untouched(v)' => Untouched(v)
    BY <1>1 DEF Untouched
  <1>7. Status(req'[v].op, res'[v]) = Status(req[v].op, res[v])
    BY <1>1
  <1> QED BY <1>1, <1>4, <1>5, <1>6, <1>7 DEF Blameless

\* No step leaves a mutation to blame.
LEMMA BlamelessStep ==
    ASSUME TypeOK, ServiceInv, ApiInv, NextApi
    PROVE  ApiInv'
  <1> USE DEF NextApi
  <1>1. TouchedByOne'
    BY DEF TouchedByOne, Observe
  <1>2. ASSUME NEW w \in Workers, Step(w) \/ IOError(w) PROVE \A v \in Workers : Blameless(v)'
    <2>1. Sound(w) /\ pc[w] # "idle"
      BY <1>2, StepSound DEF Sound, Moves
    <2>2. \A v \in Workers \ {w} : Blameless(v)'
      BY <1>2, <2>1, OthersBlameless DEF Sound, ApiInv
    <2>3. CASE Mutating(w)
      BY <1>2, <2>2, <2>3, FileCallsBlameless, YamlCallsBlameless, GraphCallsBlameless, OtherCallsBlameless
      DEF Step, ApiInv
    <2>4. CASE ~ Mutating(w)
      <3>1. ~ Mutating(w)'
        BY <2>1, <2>4 DEF Sound, Moves, Mutating, Mutates
      <3> QED BY <2>2, <3>1 DEF Blameless
    <2> QED BY <2>3, <2>4
  <1>3. ASSUME NEW w \in Workers, NEW q \in Requests, Begin(w, q)
        PROVE  \A v \in Workers : Blameless(v)'
    <2>1. /\ \A v \in Workers \ {w} : pc'[v] = pc[v] /\ req'[v] = req[v]
          /\ req'[w] = q /\ pc'[w] = FirstStep(q) /\ UNCHANGED disk /\ res' = res /\ pc[w] = "idle"
      BY <1>3 DEF Begin, disk, TypeOK
    <2>2. FirstStep(q) \notin {"done", "idle", "removeYaml"}
      BY FirstSteps
    <2>3. \A v \in Workers : ~ WriteFile(v) /\ ~ WriteYaml(v)
      <3>1. ASSUME NEW v \in Workers, WriteFile(v) \/ WriteYaml(v) PROVE FALSE
        <4>1. pc[v] \in {"write", "writeYaml"} /\ pc'[v] # pc[v]
          BY <3>1 DEF WriteFile, WriteYaml, Continue, Answer, TypeOK
        <4> QED BY <2>1, <4>1
      <3> QED BY <3>1
    <2>4. ~ touched => ~ touched'
      BY <2>1, <2>3 DEF Observe, Touches
    <2>5. Mutates(q) => ~ touched
      BY <1>3 DEF Begin, ApiInv, TouchedByOne, Mutating
    <2>6. Blameless(w)'
      BY <2>1, <2>2, <2>4, <2>5 DEF Blameless, Mutating, Mutates
    <2>7. ASSUME NEW v \in Workers \ {w} PROVE Blameless(v)'
      <3>1. pc'[v] = pc[v] /\ req'[v] = req[v] /\ res'[v] = res[v]
        BY <2>1
      <3>2. Excused(v) => Excused(v)'
        BY <2>1, <2>4, <3>1 DEF Excused, Serves, HasTicket, disk
      <3>3. Untouched(v)' => Untouched(v)
        BY <3>1 DEF Untouched
      <3>4. Status(req'[v].op, res'[v]) = Status(req[v].op, res[v])
        BY <3>1
      <3>5. Mutating(v)' => Mutating(v)
        BY <3>1 DEF Mutating, Mutates
      <3>6. Blameless(v)
        BY DEF ApiInv
      <3> QED BY <2>4, <3>1, <3>2, <3>3, <3>4, <3>5, <3>6 DEF Blameless
    <2> QED BY <2>6, <2>7
  <1>4. CASE Crash
    BY <1>1, <1>4 DEF Crash, ApiInv, Blameless, Mutating
  <1> QED BY <1>1, <1>2, <1>3, <1>4 DEF Next, ApiInv

\* A client that is told that its request was in error has changed nothing, but
\* for the three exceptions the property names.
THEOREM ClientErrorsAreHarmless == SpecApi => []ClientErrorsChangeNothing
  <1>1. InitApi => ApiInv
    BY DEF InitApi, Init, ApiInv, TouchedByOne, Blameless, Mutating
  <1>2. TypeOK /\ ServiceInv /\ ApiInv /\ [NextApi]_varsApi => ApiInv'
    <2>1. ASSUME ApiInv, UNCHANGED varsApi PROVE ApiInv'
      <3>1. /\ graph' = graph /\ file' = file /\ meta' = meta /\ pc' = pc /\ req' = req
            /\ res' = res /\ touched' = touched
        BY <2>1 DEF varsApi
      <3>2. ASSUME NEW v \in Workers PROVE Blameless(v)'
        <4>1. Excused(v)' <=> Excused(v)
          BY <3>1 DEF Excused, Serves, HasTicket
        <4>2. Untouched(v)' <=> Untouched(v)
          BY <3>1 DEF Untouched
        <4>3. Status(req'[v].op, res'[v]) = Status(req[v].op, res[v])
          BY <3>1
        <4>4. Mutating(v)' <=> Mutating(v)
          BY <3>1 DEF Mutating, Mutates
        <4>5. Blameless(v)
          BY <2>1 DEF ApiInv
        <4> QED BY <3>1, <4>1, <4>2, <4>3, <4>4, <4>5 DEF Blameless
      <3>3. TouchedByOne'
        BY <2>1, <3>1 DEF ApiInv, TouchedByOne, Mutating, Mutates
      <3> QED BY <3>2, <3>3 DEF ApiInv
    <2> QED BY <2>1, BlamelessStep
  <1>3. TypeOK /\ ApiInv => ClientErrorsChangeNothing
    <2> SUFFICES ASSUME ApiInv, NEW w \in Workers, pc[w] = "done", Mutates(req[w]),
                        Status(req[w].op, res[w]) \in ClientErrors
                 PROVE  Excused(w)
      BY DEF ClientErrorsChangeNothing, Excused
    <2>1. Mutating(w) /\ Blameless(w)
      BY DEF Mutating, ApiInv
    <2> QED BY <2>1 DEF Blameless
  <1> QED BY <1>1, <1>2, <1>3, TrackerInvariants, PTL DEF SpecApi

-----------------------------------------------------------------------------
(***************************************************************************)
(* Queries.                                                                *)
(***************************************************************************)

\* The graph has edges between its nodes only.
EdgesClosed == graph # None => \A e \in Edges : HasEdge(graph, e) => EndpointsExist(graph, e)

Querying(w) == Serves(w, {"GetChildren", "GetBlocking"})

\* A steady read has what it needs, and has found it so far.
SteadyRead(w) ==
    w \in steady =>
        /\ Reading(w) /\ Consistent
        /\ pc[w] = "load" => \A t \in todo[w] : file[t]
        /\ pc[w] = "done" /\ Querying(w) => res[w] \in {"ok", "error"}

QueryInv == EdgesClosed /\ \A w \in Workers : SteadyRead(w)

\* The edits of the graph keep its edges between its nodes.
LEMMA EdgesClosedStep == TypeOK /\ ServiceInv /\ EdgesClosed /\ [Next]_vars => EdgesClosed'
  <1> SUFFICES ASSUME TypeOK, ServiceInv, EdgesClosed, [Next]_vars PROVE EdgesClosed'
    OBVIOUS
  <1>1. ASSUME NEW w \in Workers, Step(w) PROVE EdgesClosed'
    <2>1. CASE AddNode(w)
      <3>1. graph \in Graphs /\ req[w].id \in Tickets /\ graph' = WithNode(graph, req[w].id) /\ graph # None
        BY <2>1, Serving, RequestFields DEF AddNode, TypeOK, Serves, TicketOps, PlanOps
      <3>2. \A u \in Tickets : HasNode(graph, u) => HasNode(graph', u)
        BY <3>1, NodeEdits
      <3>3. \A e \in Edges : HasEdge(graph', e) => HasEdge(graph, e)
        BY <3>1, NodeEdits
      <3> QED BY <3>1, <3>2, <3>3, EdgesAssumption DEF EdgesClosed, EndpointsExist
    <2>2. CASE RemoveNode(w)
      <3>1. graph \in Graphs /\ req[w].id \in Tickets /\ graph' = WithoutNode(graph, req[w].id) /\ graph # None
        BY <2>2, Serving, RequestFields DEF RemoveNode, TypeOK, Serves, TicketOps
      <3>2. \A e \in Edges : HasEdge(graph', e) => HasEdge(graph, e) /\ ~ Incident(e, req[w].id)
        BY <3>1 DEF WithoutNode, HasEdge, Graphs
      <3>3. \A u \in Tickets \ {req[w].id} : HasNode(graph, u) => HasNode(graph', u)
        BY <3>1, NodeEdits
      <3> QED BY <3>1, <3>2, <3>3, EdgesAssumption DEF EdgesClosed, EndpointsExist, Incident
    <2>3. ASSUME NEW e \in Edges, AddEdge(w, e) PROVE EdgesClosed'
      <3>1. graph \in Graphs /\ graph # None /\ EndpointsExist(graph, e) /\ graph' = WithEdge(graph, e)
        BY <2>3 DEF AddEdge, TypeOK
      <3>2. \A u \in Tickets : HasNode(graph, u) <=> HasNode(graph', u)
        <4>1. \A u \in Tickets : HasNode(WithEdge(graph, e), u) <=> HasNode(graph, u)
          BY <3>1 DEF WithEdge, HasNode, Graphs
        <4> QED BY <3>1, <4>1
      <3>3. \A f \in Edges \ {e} : HasEdge(graph', f) => HasEdge(graph, f)
        BY <3>1, EdgeEdits
      <3> QED BY <3>1, <3>2, <3>3, EdgesAssumption DEF EdgesClosed, EndpointsExist
    <2>4. CASE RemoveEdge(w)
      <3>1. /\ graph \in Graphs /\ graph # None /\ req[w].edge \in Edges
            /\ graph' = WithoutEdge(graph, req[w].edge)
        BY <2>4, Serving, RequestFields DEF RemoveEdge, TypeOK, EdgeOps
      <3>2. \A u \in Tickets : HasNode(graph, u) <=> HasNode(graph', u)
        <4>1. \A u \in Tickets : HasNode(WithoutEdge(graph, req[w].edge), u) <=> HasNode(graph, u)
          BY <3>1 DEF WithoutEdge, HasNode, Graphs
        <4> QED BY <3>1, <4>1
      <3>3. \A f \in Edges : HasEdge(graph', f) => HasEdge(graph, f)
        BY <3>1, EdgeEdits
      <3> QED BY <3>1, <3>2, <3>3, EdgesAssumption DEF EdgesClosed, EndpointsExist
    <2>5. CASE ResetGraph(w)
      BY <2>5 DEF ResetGraph, EmptyGraph, EdgesClosed, HasEdge
    <2>6. CASE Clear(w)
      BY <2>6 DEF Clear, EdgesClosed
    <2>7. CASE graph' = graph
      BY <2>7 DEF EdgesClosed
    <2> QED
      BY <1>1, <2>1, <2>2, <2>3, <2>4, <2>5, <2>6, <2>7
      DEF Step, WriteFile, RemoveFile, ReadFile, FileMissing, GraphMissing, AddNodeAgain, AddEdgeNoNode,
          WriteYaml, ReadYaml, RemoveTicket, RemoveYaml, ReadGraph, Query, Loaded, Load, Cleared, Respond, disk
  <1>2. CASE graph' = graph
    BY <1>2 DEF EdgesClosed
  <1> QED BY <1>1, <1>2 DEF Next, IOError, Begin, Crash, vars, disk

\* Where the graph is consistent with the files, the tickets at an edge can be
\* loaded.
LEMMA SelectedHaveFiles ==
    ASSUME Consistent, EdgesClosed, NEW x, NEW t \in Children(graph, x) \cup Blocking(graph, x)
    PROVE  file[t]
  <1>1. t \in Tickets /\ HasNode(graph, t)
    BY DEF Consistent, EdgesClosed, EndpointsExist, Children, Blocking
  <1> QED BY <1>1 DEF Consistent, NodesHaveFiles, Dangling, HasTicket

\* A step of a steady query leaves it what it needs.
LEMMA QueryStep ==
    ASSUME TypeOK, ServiceInv, QueryInv, Observe, NEW w \in Workers, Step(w) \/ IOError(w),
           w \in steady'
    PROVE  SteadyRead(w)'
  <1>1. /\ Reading(w)' /\ Consistent' /\ Sound(w) /\ Moves(w) /\ pc[w] # "idle" /\ w \in steady
        /\ \A t \in Tickets : file[t] => file'[t]
    BY StepSound DEF Observe, Sound, Moves
  <1>2. Reading(w) /\ Consistent /\ SteadyRead(w) /\ req'[w] = req[w]
    BY <1>1 DEF QueryInv, SteadyRead, Reading, Moves
  <1>3. Querying(w)' <=> Querying(w)
    BY <1>2 DEF Querying, Serves
  <1>4. CASE ~ Querying(w)
    <2>1. pc'[w] # "load"
      <3>1. TypeOK'
        BY TypeStep DEF Next
      <3> QED BY <1>3, <1>4, <3>1 DEF TypeOK, Querying, Serves
    <2> QED BY <1>1, <1>3, <1>4, <2>1 DEF SteadyRead
  <1>5. CASE Querying(w)
    <2>1. pc[w] \in {"query", "load", "done"} /\ graph # None
      <3>1. req[w].op \in {"GetChildren", "GetBlocking"} /\ pc[w] \in Steps
        BY <1>5 DEF Querying, Serves, TypeOK
      <3>2. pc[w] \notin {"write", "read", "reread", "graph", "node", "unlink", "remove", "edge", "reset", "clear",
                         "writeYaml", "readYaml", "removeTicket", "removeYaml"}
        BY <3>1 DEF TypeOK, Serves, Rewrites, EdgeOps, SetReads
      <3> QED BY <1>1, <1>2, <3>1, <3>2 DEF Steps, Consistent
    <2>2. ASSUME NEW r \in {"ok", "error"}, Answer(w, r) PROVE SteadyRead(w)'
      BY <1>1, <2>2, AnswerMoves DEF SteadyRead
    <2>3. CASE Query(w)
      <3>1. PICK left : /\ Continue(w, "load", left)
                        /\ left \subseteq Children(graph, req[w].id) \cup Blocking(graph, req[w].id)
        <4>1. CASE req[w].op = "GetChildren"
          BY <2>3, <4>1 DEF Query
        <4>2. CASE req[w].op # "GetChildren"
          BY <2>3, <4>2 DEF Query
        <4> QED BY <4>1, <4>2
      <3>2. \A t \in left : file[t] /\ t \in Tickets
        BY <1>2, <3>1, SelectedHaveFiles DEF QueryInv, Children, Blocking
      <3> QED BY <1>1, <3>1, <3>2, ContinueMoves DEF SteadyRead
    <2>4. ASSUME NEW t \in Tickets, Load(w, t) PROVE SteadyRead(w)'
      <3>1. pc[w] = "load" /\ file[t] /\ Continue(w, "load", todo[w] \ {t})
        BY <1>1, <1>2, <2>4 DEF Load, SteadyRead
      <3>2. \A u \in todo[w] : file[u] /\ u \in Tickets
        BY <1>1, <1>2, <3>1 DEF SteadyRead, TypeOK
      <3> QED BY <1>1, <3>1, <3>2, ContinueMoves DEF SteadyRead
    <2>5. CASE Loaded(w) \/ IOError(w)
      BY <2>1, <2>2, <2>5 DEF Loaded, IOError
    <2>6. CASE Respond(w)
      BY <1>1, <2>6 DEF Respond, Reading, TypeOK
    <2> QED
      BY <2>1, <2>3, <2>4, <2>5, <2>6
      DEF Step, WriteFile, ReadFile, FileMissing, RemoveFile, GraphMissing, AddNode, AddNodeAgain,
          RemoveNode, AddEdge, AddEdgeNoNode, RemoveEdge, ReadGraph, ResetGraph, Clear, Cleared,
          WriteYaml, ReadYaml, RemoveTicket, RemoveYaml
  <1> QED BY <1>4, <1>5

\* A steady read whose worker does not move keeps what it needs.
LEMMA WaitingReadStep ==
    ASSUME TypeOK, QueryInv, Observe, NEW w \in Workers, w \in steady',
           pc'[w] = pc[w], req'[w] = req[w], todo'[w] = todo[w], res'[w] = res[w]
    PROVE  SteadyRead(w)'
  <1>1. /\ Reading(w)' /\ Consistent' /\ pc[w] # "idle" /\ w \in steady
        /\ \A t \in Tickets : file[t] => file'[t]
    BY DEF Observe, Reading
  <1>2. SteadyRead(w) /\ (Querying(w)' <=> Querying(w))
    BY DEF QueryInv, Querying, Serves
  <1>3. todo[w] \subseteq Tickets
    BY DEF TypeOK
  <1> QED BY <1>1, <1>2, <1>3 DEF SteadyRead

\* A query answers with the tickets, or a file-system call has failed, whenever
\* every node has its file and no file is removed while it runs.
THEOREM SteadyQueriesSucceed == SpecApi => []QueriesSucceed
  <1>1. InitApi => QueryInv
    BY DEF InitApi, Init, QueryInv, EdgesClosed, SteadyRead
  <1>2. TypeOK /\ ServiceInv /\ QueryInv /\ [NextApi]_varsApi => QueryInv'
    <2>1. ASSUME TypeOK, ServiceInv, QueryInv, NextApi PROVE QueryInv'
      <3>1. EdgesClosed'
        BY <2>1, EdgesClosedStep DEF QueryInv, NextApi
      <3>2. ASSUME NEW w \in Workers, w \in steady' PROVE SteadyRead(w)'
        <4>1. ASSUME NEW v \in Workers, Step(v) \/ IOError(v) PROVE SteadyRead(w)'
          <5>1. CASE v = w
            BY <2>1, <3>2, <4>1, <5>1, QueryStep DEF NextApi
          <5>2. CASE v # w
            <6>1. Sound(v)
              BY <2>1, <4>1, StepSound
            <6>2. /\ pc'[w] = pc[w] /\ req'[w] = req[w] /\ todo'[w] = todo[w]
                  /\ res'[w] = res[w]
              BY <2>1, <4>1, <5>2, <6>1 DEF Sound, Moves
            <6> QED BY <2>1, <3>2, <6>2, WaitingReadStep DEF NextApi
          <5> QED BY <5>1, <5>2
        <4>2. ASSUME NEW v \in Workers, NEW q \in Requests, Begin(v, q) PROVE SteadyRead(w)'
          <5>1. CASE v = w
            <6>1. pc'[w] = FirstStep(q) /\ FirstStep(q) \notin {"load", "done"}
              BY <2>1, <4>2, <5>1, FirstSteps DEF Begin, TypeOK
            <6> QED BY <2>1, <3>2, <6>1 DEF SteadyRead, NextApi, Observe
          <5>2. CASE v # w
            <6>1. /\ pc'[w] = pc[w] /\ req'[w] = req[w] /\ todo'[w] = todo[w]
                  /\ res'[w] = res[w]
              BY <2>1, <4>2, <5>2 DEF Begin, TypeOK
            <6> QED BY <2>1, <3>2, <6>1, WaitingReadStep DEF NextApi
          <5> QED BY <5>1, <5>2
        <4>3. CASE Crash
          BY <2>1, <3>2, <4>3 DEF Crash, NextApi, Observe, Reading
        <4> QED BY <2>1, <4>1, <4>2, <4>3 DEF NextApi, Next
      <3>3. \A w \in Workers : SteadyRead(w)'
        BY <3>2 DEF SteadyRead
      <3> QED BY <3>1, <3>3 DEF QueryInv
    <2>2. ASSUME QueryInv, UNCHANGED varsApi PROVE QueryInv'
      <3>1. /\ graph' = graph /\ file' = file /\ pc' = pc /\ req' = req /\ todo' = todo
            /\ res' = res /\ steady' = steady
        BY <2>2 DEF varsApi
      <3>2. ASSUME NEW w \in Workers PROVE SteadyRead(w)'
        <4>1. Reading(w)' <=> Reading(w)
          BY <3>1 DEF Reading, Mutates
        <4>2. Consistent' <=> Consistent
          BY <3>1 DEF Consistent, NodesHaveFiles, Dangling, HasTicket
        <4>3. Querying(w)' <=> Querying(w)
          BY <3>1 DEF Querying, Serves
        <4> QED BY <2>2, <3>1, <4>1, <4>2, <4>3 DEF QueryInv, SteadyRead
      <3>3. EdgesClosed'
        BY <2>2, <3>1 DEF QueryInv, EdgesClosed
      <3> QED BY <3>2, <3>3 DEF QueryInv
    <2> QED BY <2>1, <2>2
  <1>3. QueryInv => QueriesSucceed
    BY DEF QueryInv, SteadyRead, Querying, QueriesSucceed
  <1> QED BY <1>1, <1>2, <1>3, TrackerInvariants, PTL DEF SpecApi
=============================================================================
