\* One goroutine that writes, one that reads and one that lists the sets; one
\* set name the service accepts and one it refuses.
SPECIFICATION SpecL
CONSTANTS
    t1 = t1
    t2 = t2
    None = None
    Tickets <- MCTickets
    Edges <- MCFewEdges
    ValidEdgeTypes <- MCTypes
    Sets = {good, bad}
    ValidNames = {good}
    Workers = {w1, w2}
    Writers = {w1}
    MaxCopies = 2
INVARIANT WritesAreFresh
INVARIANT GraphsInSets
PROPERTY ImplementsAtomicGraph
INVARIANT SetsComplete
