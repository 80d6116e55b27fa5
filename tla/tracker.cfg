\* Every mutation and the two queries, two goroutines, one mutation at a time.
SPECIFICATION SpecApi
CONSTANTS
    None = None
    t1 = t1
    t2 = t2
    t3 = t3
    Tickets <- MCTickets
    Edges <- MCEdges
    Plans <- MCPlans
    MetaPlans <- MCMetaPlans
    Workers = {w1, w2}
    Ops <- MCOps
    MaxCopies = 1
SYMMETRY WorkerSymmetry
INVARIANT TypeOK
INVARIANT ClientErrorsChangeNothing
INVARIANT QueriesSucceed
PROPERTY DanglingByDelete
PROPERTY AnswersAreTrue
