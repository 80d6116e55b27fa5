----------------------------- MODULE TrackerApi -----------------------------
(***************************************************************************)
(* What the clients of Tracker see: the status each answer is sent with,   *)
(* and what it says about the disk.  Each handler has its own mapping from *)
(* the errors of its service to a status.                                  *)
(*                                                                         *)
(* Two variables that no step of the program reads watch the requests:     *)
(*                                                                         *)
(*   touched  the mutation under way has written or removed something;     *)
(*   steady   the reads during which the set had a graph, every node had   *)
(*            its file and no file was removed.                            *)
(***************************************************************************)
EXTENDS Tracker

VARIABLES touched, steady

varsApi == <<graph, file, meta, pc, req, todo, res, touched, steady>>

-----------------------------------------------------------------------------

Success(op) ==
    CASE op \in {"CreateSet", "CreateTicket", "CreatePlan", "CreateMetaPlan", "AddComment", "AddEdge"} -> 201
      [] op \in {"DeleteSet", "DeleteTicket", "DeletePlan", "DeleteMetaPlan", "RemoveEdge"} -> 204
      [] OTHER -> 200

\* A create is refused with 400 before its first call, or fails with 500.
SetStatus(op, r) ==
    CASE r = "ok" -> Success(op)
      [] r = "notfound" /\ op # "CreateSet" -> 404
      [] OTHER -> 500

TicketStatusAllMissing(op, r) ==
    CASE r = "ok" -> Success(op)
      [] r = "notfound" -> 404
      [] OTHER -> 500

TicketStatus(op, r) ==
    CASE r = "ok" -> Success(op)
      [] r = "notfound" /\ op # "CreateTicket" -> 404
      [] OTHER -> 500

\* An edge of an unknown set is a bad request, one between unknown nodes an
\* internal error.
EdgeStatus(op, r) ==
    CASE r = "ok" -> Success(op)
      [] r = "notfound" /\ op = "AddEdge" -> 400
      [] OTHER -> 500

QueryStatus(op, r) == IF r = "ok" THEN Success(op) ELSE 500

PlanStatus(op, r) ==
    CASE r = "ok" -> Success(op)
      [] r = "notfound" /\ op # "CreatePlan" -> 404
      [] OTHER -> 500

MetaPlanStatus(op, r) ==
    CASE r = "ok" -> Success(op)
      [] r = "notfound" /\ op # "CreateMetaPlan" -> 404
      [] OTHER -> 500

Status(op, r) ==
    CASE op \in SetOps \cup {"GetSet"} -> SetStatus(op, r)
      [] op \in TicketOps \cup {"GetTicket"} -> TicketStatus(op, r)
      [] op \in EdgeOps \cup {"ListEdges"} -> EdgeStatus(op, r)
      [] op \in PlanOps \cup {"GetPlan"} -> PlanStatus(op, r)
      [] op \in MetaOps \cup {"GetMetaPlan"} -> MetaPlanStatus(op, r)
      [] OTHER -> QueryStatus(op, r)

ClientErrors == {400, 404}

-----------------------------------------------------------------------------

Mutating(w) == pc[w] # "idle" /\ Mutates(req[w])

Reading(w) == pc[w] # "idle" /\ ~ Mutates(req[w])

Consistent == graph # None /\ NodesHaveFiles

InitApi == Init /\ touched = FALSE /\ steady = {}

\* An update writes a file that was there, and so does a create at times.
Touches == disk' # disk \/ \E w \in Workers : WriteFile(w) \/ WriteYaml(w)

Observe ==
    /\ touched' = ((\E w \in Workers : Mutating(w)') /\ (touched \/ Touches))
    /\ steady' = {w \in Workers :
          /\ Reading(w)' /\ Consistent'
          /\ pc[w] # "idle" => w \in steady /\ \A t \in Tickets : file[t] => file'[t]}

NextApi == Next /\ Observe

SpecApi == InitApi /\ [][NextApi]_varsApi

-----------------------------------------------------------------------------
(***************************************************************************)
(* Properties.                                                             *)
(***************************************************************************)

\* A client that is told that its request was in error may drop it: nothing has
\* changed.  There are three exceptions.  A delete that finds the node of a ticket
\* and no file, as a cut delete or that of a plan leaves it, answers "not found"
\* and has taken the node away; an update of a plan whose set has no graph has
\* rewritten the file when it is told that the set is missing; and a delete of a
\* meta-plan that finds one of its files removes it and answers that the other
\* is not found, so that it may remove any ticket with a "not found".
ClientErrorsChangeNothing ==
    \A w \in Workers :
        pc[w] = "done" /\ Mutates(req[w]) /\ Status(req[w].op, res[w]) \in ClientErrors =>
            \/ ~ touched
            \/ Serves(w, {"DeleteTicket"}) /\ ~ file[req[w].id] /\ ~ HasTicket(req[w].id)
            \/ Serves(w, {"UpdatePlan"}) /\ graph = None
            \/ Serves(w, {"DeleteMetaPlan"}) /\ ~ file[req[w].id] /\ ~ meta[req[w].id]

\* GET children and GET blocking load the tickets of a graph they have read
\* before.  They do not miss any as long as every node has its file and none is
\* removed while they run: the graph never has an edge to a ticket that is no
\* node, and tickets that come and edges that go do not matter.
QueriesSucceed ==
    \A w \in Workers :
        pc[w] = "done" /\ Serves(w, {"GetChildren", "GetBlocking"}) /\ w \in steady
           => res[w] \in {"ok", "error"}
=============================================================================
