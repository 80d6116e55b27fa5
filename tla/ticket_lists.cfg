\* Two goroutines, lists beside ticket requests, one mutation of a ticket at a time.
SPECIFICATION SpecL
CONSTANTS
    None = None
    Tickets = {t1, t2}
    Labels = {l1, l2}
    Comments = {}
    Kinds = {"ticket"}
    Workers = {w1, w2}
    Exclusive = TRUE
    MayFail = {"begin", "write", "remove", "scan", "read"}
SYMMETRY Symmetry
VIEW WithoutSeen
CONSTRAINT OneAndTwo
INVARIANT IndexMissesOnlyCut
INVARIANT ListComplete
