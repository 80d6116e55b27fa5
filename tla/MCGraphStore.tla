---------------------------- MODULE MCGraphStore ----------------------------
(* Small instances of GraphStore for TLC. *)
EXTENDS GraphStore

CONSTANTS t1, t2

Edge(from, to, type) == [from |-> from, to |-> to, type |-> type]

MCTickets == {t1, t2}

MCTypes == {"parent", "blocks", "relates-to"}

\* One edge either way, and one the service must refuse.
MCEdges == {Edge(t1, t2, "blocks"), Edge(t2, t1, "parent"), Edge(t1, t2, "after")}

\* One edge, and one the service must refuse.
MCFewEdges == {Edge(t1, t2, "blocks"), Edge(t1, t2, "after")}
=============================================================================
