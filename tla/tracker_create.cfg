\* A ticket is created.
SPECIFICATION SpecApi
CONSTANTS
    None = None
    t1 = t1
    t2 = t2
    t3 = t3
    Tickets <- MCTickets
    Edges <- MCEdges
    Plans <- MCPlans
    MetaPlans <- MCMetaPlans
    Workers = {w1}
    Ops = {"CreateSet", "CreateTicket"}
    MaxCopies = 1
PROPERTY FailedCreateLeavesNothing
