\* DELETE of a tracking set that is not there.
SPECIFICATION Spec
CONSTANTS
    t1 = t1
    t2 = t2
    None = None
    Tickets <- MCTickets
    Edges <- MCFewEdges
    ValidEdgeTypes <- MCTypes
    Sets = {good}
    ValidNames = {good}
    Workers = {w1}
    Writers = {w1}
    MaxCopies = 1
PROPERTY DeleteReportsMissing
