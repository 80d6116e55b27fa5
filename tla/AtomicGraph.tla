---------------------------- MODULE AtomicGraph ----------------------------
(***************************************************************************)
(* What the graph endpoints promise their clients: each request takes      *)
(* effect on the current graph of its set in one step, between its arrival *)
(* and its answer, and a request that is answered with an error has        *)
(* changed nothing.  Deleting a set is the exception: the set is gone      *)
(* before the answer is known, and stays gone when the answer is an error. *)
(* A crash forgets the requests and keeps the graphs.                      *)
(***************************************************************************)
EXTENDS TicketGraph

CONSTANTS Sets, ValidNames, ValidEdgeTypes, Workers, Requests

VARIABLES
    graph,   \* graph[s]: the graph of set s, or None
    pc,      \* pc[w]: "idle", "begin" (request taken) or "done" (answer ready)
    req,     \* req[w]: the request
    res,     \* res[w]: the answer
    val      \* val[w]: the graph returned to a Get

vars == <<graph, pc, req, res, val>>

Forgotten ==
    /\ pc = [w \in Workers |-> "idle"]
    /\ req = [w \in Workers |-> None]
    /\ res = [w \in Workers |-> "ok"]
    /\ val = [w \in Workers |-> EmptyGraph]

Init == graph = [s \in Sets |-> None] /\ Forgotten

Rejected(q) ==
    \/ q.op = "CreateSet" /\ q.set \notin ValidNames
    \/ q.op = "AddEdge" /\ q.edge.type \notin ValidEdgeTypes

Begin(w, q) ==
    /\ pc[w] = "idle"
    /\ req' = [req EXCEPT ![w] = q]
    /\ \/ /\ Rejected(q)
          /\ pc' = [pc EXCEPT ![w] = "done"]
          /\ res' = [res EXCEPT ![w] = "validation"]
       \/ /\ ~ Rejected(q)
          /\ pc' = [pc EXCEPT ![w] = "begin"]
          /\ UNCHANGED res
    /\ UNCHANGED <<graph, val>>

\* The request of w leaves graph h behind and is answered r, with graph v.
Outcome(w, h, r, v) ==
    /\ graph' = [graph EXCEPT ![req[w].set] = h]
    /\ pc' = [pc EXCEPT ![w] = "done"]
    /\ res' = [res EXCEPT ![w] = r]
    /\ val' = [val EXCEPT ![w] = v]
    /\ UNCHANGED req

OnGraph(w, q, g) ==
    \/ q.op = "Get" /\ Outcome(w, g, "ok", g)
    \/ q.op = "AddNode" /\ ~ HasNode(g, q.node)
         /\ Outcome(w, WithNode(g, q.node), "ok", EmptyGraph)
    \/ q.op = "AddNode" /\ HasNode(g, q.node) /\ Outcome(w, g, "ok", EmptyGraph)
    \/ q.op = "RemoveNode" /\ Outcome(w, WithoutNode(g, q.node), "ok", EmptyGraph)
    \/ q.op = "AddEdge" /\ HasNode(g, q.edge.from) /\ HasNode(g, q.edge.to)
         /\ Outcome(w, WithEdge(g, q.edge), "ok", EmptyGraph)
    \/ q.op = "AddEdge" /\ ~ (HasNode(g, q.edge.from) /\ HasNode(g, q.edge.to))
         /\ Outcome(w, g, "nonode", EmptyGraph)
    \/ q.op = "RemoveEdge" /\ Outcome(w, WithoutEdge(g, q.edge), "ok", EmptyGraph)

Perform(w) ==
    LET q == req[w]
        g == graph[q.set]
    IN  /\ pc[w] = "begin"
        /\ \/ Outcome(w, g, "error", EmptyGraph)
           \/ q.op = "CreateSet" /\ Outcome(w, EmptyGraph, "ok", EmptyGraph)
           \/ q.op = "DeleteSet" /\ g = None /\ Outcome(w, None, "ok", EmptyGraph)
           \/ q.op \notin {"CreateSet", "DeleteSet"} /\ g = None
                /\ Outcome(w, None, "notfound", EmptyGraph)
           \/ q.op \notin {"CreateSet", "DeleteSet"} /\ g # None /\ OnGraph(w, q, g)

Erase(w) ==
    /\ pc[w] = "begin"
    /\ req[w].op = "DeleteSet"
    /\ graph' = [graph EXCEPT ![req[w].set] = None]
    /\ UNCHANGED <<pc, req, res, val>>

Respond(w) ==
    /\ pc[w] = "done"
    /\ pc' = [pc EXCEPT ![w] = "idle"]
    /\ req' = [req EXCEPT ![w] = None]
    /\ res' = [res EXCEPT ![w] = "ok"]
    /\ val' = [val EXCEPT ![w] = EmptyGraph]
    /\ UNCHANGED graph

Crash == Forgotten' /\ UNCHANGED graph

Next ==
    \/ \E w \in Workers :
          \/ Perform(w) \/ Erase(w) \/ Respond(w)
          \/ \E q \in Requests : Begin(w, q)
    \/ Crash

Spec == Init /\ [][Next]_vars
=============================================================================
