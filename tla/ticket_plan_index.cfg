\* A plan is created through the plan endpoints.
SPECIFICATION Spec
CONSTANTS
    None = None
    Tickets = {t1}
    Labels = {l1}
    Comments = {}
    Kinds = {"ticket", "plan"}
    Workers = {w1}
    Exclusive = TRUE
    MayFail = {}
INVARIANT IndexComplete
