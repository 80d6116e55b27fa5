\* A plan is created and deleted.
SPECIFICATION SpecApi
CONSTANTS
    None = None
    t1 = t1
    t2 = t2
    t3 = t3
    Tickets <- MCTickets
    Edges <- MCEdges
    Plans <- MCPlans
    MetaPlans <- MCMetaPlans
    Workers = {w1}
    Ops = {"CreateSet", "CreatePlan", "DeletePlan"}
    MaxCopies = 1
INVARIANT NodesHaveFiles
