------------------------- MODULE TicketGraphProofs -------------------------
(***************************************************************************)
(* Lemmas about the edits of a graph, for every set of tickets and edges.  *)
(***************************************************************************)
EXTENDS TicketGraph, TLAPS

\* The edits graphStore makes keep a graph a graph.
LEMMA EditsAreGraphs ==
    /\ EmptyGraph \in Graphs
    /\ \A g \in Graphs : \A t \in Tickets : WithNode(g, t) \in Graphs /\ WithoutNode(g, t) \in Graphs
    /\ \A g \in Graphs : \A e \in Edges : WithEdge(g, e) \in Graphs /\ WithoutEdge(g, e) \in Graphs
  <1>1. EmptyGraph \in Graphs
    BY DEF EmptyGraph, Graphs
  <1>2. ASSUME NEW g \in Graphs, NEW t \in Tickets
        PROVE  WithNode(g, t) \in Graphs /\ WithoutNode(g, t) \in Graphs
    BY DEF Graphs, WithNode, WithoutNode
  <1>3. ASSUME NEW g \in Graphs, NEW e \in Edges
        PROVE  WithEdge(g, e) \in Graphs /\ WithoutEdge(g, e) \in Graphs
    BY DEF Graphs, WithEdge, WithoutEdge
  <1> QED BY <1>1, <1>2, <1>3

\* Listing or removing a node changes that node, and removing it the edges at it.
LEMMA NodeEdits ==
    ASSUME NEW g \in Graphs, NEW t \in Tickets
    PROVE  /\ HasNode(WithNode(g, t), t)
           /\ ~ HasNode(WithoutNode(g, t), t)
           /\ \A u \in Tickets \ {t} :
                 /\ HasNode(WithNode(g, t), u) <=> HasNode(g, u)
                 /\ HasNode(WithoutNode(g, t), u) <=> HasNode(g, u)
           /\ \A e \in Edges : HasEdge(WithNode(g, t), e) <=> HasEdge(g, e)
           /\ \A e \in Edges : Incident(e, t) => ~ HasEdge(WithoutNode(g, t), e)
  BY DEF Graphs, WithNode, WithoutNode, HasNode, HasEdge

\* Listing or removing an edge changes that edge alone.
LEMMA EdgeEdits ==
    ASSUME NEW g \in Graphs, NEW e \in Edges
    PROVE  /\ HasEdge(WithEdge(g, e), e)
           /\ ~ HasEdge(WithoutEdge(g, e), e)
           /\ \A f \in Edges \ {e} :
                 /\ HasEdge(WithEdge(g, e), f) <=> HasEdge(g, f)
                 /\ HasEdge(WithoutEdge(g, e), f) <=> HasEdge(g, f)
           /\ \A t \in Tickets : /\ HasNode(WithEdge(g, e), t) <=> HasNode(g, t)
                                /\ HasNode(WithoutEdge(g, e), t) <=> HasNode(g, t)
  BY DEF Graphs, WithEdge, WithoutEdge, HasNode, HasEdge
=============================================================================
