\* Two goroutines that both write, on one set that is deleted and made again.
SPECIFICATION SpecD
CONSTANTS
    t1 = t1
    t2 = t2
    None = None
    Tickets <- MCTickets
    Edges <- MCEdges
    ValidEdgeTypes <- MCTypes
    Sets = {good}
    ValidNames = {good}
    Workers = {w1, w2}
    Writers = {w1, w2}
    MaxCopies = 1
INVARIANT TypeOK
INVARIANT GraphsWellFormed
INVARIANT DeletedStaysDeleted
