---------------------------- MODULE TicketGraph ----------------------------
(***************************************************************************)
(* The graph of a tracking set (types.Graph): the ticket IDs it knows, its *)
(* nodes, and the typed directed edges between them.  Both are Go slices   *)
(* in the program; nothing reads their order, so they are bags here: a     *)
(* graph says how many times each node and each edge is listed.            *)
(*                                                                         *)
(* The operators are the in-memory edits graphStore makes to a graph it    *)
(* has read from disk, and the queries it answers from one.                *)
(***************************************************************************)
EXTENDS Integers

CONSTANTS
    Tickets,    \* the ticket IDs requests may name
    Edges,      \* the edges requests may name
    None        \* no value: a file that is not there, no request

ASSUME EdgesAssumption ==
    \A e \in Edges : e.from \in Tickets /\ e.to \in Tickets

Graphs == [nodes : [Tickets -> Nat], edges : [Edges -> Nat]]

ASSUME NoneAssumption == None \notin Graphs

EmptyGraph == [nodes |-> [t \in Tickets |-> 0], edges |-> [e \in Edges |-> 0]]

HasNode(g, t) == g.nodes[t] > 0

HasEdge(g, e) == g.edges[e] > 0

EndpointsExist(g, e) == HasNode(g, e.from) /\ HasNode(g, e.to)

Incident(e, t) == e.from = t \/ e.to = t

WithNode(g, t) == [g EXCEPT !.nodes[t] = @ + 1]

WithoutNodeOnly(g, t) ==
    [g EXCEPT !.nodes = [u \in Tickets |-> IF u = t THEN 0 ELSE g.nodes[u]]]

\* RemoveNode filters every copy of the node out, and every edge at it.
WithoutNode(g, t) ==
    [nodes |-> [u \in Tickets |-> IF u = t THEN 0 ELSE g.nodes[u]],
     edges |-> [e \in Edges |-> IF Incident(e, t) THEN 0 ELSE g.edges[e]]]

\* AddEdge appends without looking for the edge: a second call lists it twice.
WithEdge(g, e) == [g EXCEPT !.edges[e] = @ + 1]

\* RemoveEdge filters every copy of the edge out.
WithoutEdge(g, e) == [g EXCEPT !.edges[e] = 0]
=============================================================================
