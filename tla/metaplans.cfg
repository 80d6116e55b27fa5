\* Two meta-plans, two goroutines, one mutation at a time.
SPECIFICATION Spec
CONSTANTS
    None = None
    Plans = {p1, p2}
    Values = {v1, v2}
    Workers = {w1, w2}
SYMMETRY Symmetry
INVARIANT TypeOK
INVARIANT MutationsAreWhole
INVARIANT ReadsFindWhole
PROPERTY OrphanByDelete
