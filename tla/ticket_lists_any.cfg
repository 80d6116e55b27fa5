\* Plans and tickets, mutations of one ticket at the same time, every failure.
SPECIFICATION SpecL
CONSTANTS
    None = None
    Tickets = {t1, t2}
    Labels = {l1}
    Comments = {}
    Kinds = {"ticket", "plan"}
    Workers = {w1, w2}
    Exclusive = FALSE
    MayFail = {"begin", "write", "remove", "scan", "read"}
SYMMETRY Symmetry
VIEW OnlySeen
INVARIANT TypeOK
INVARIANT ListSound
