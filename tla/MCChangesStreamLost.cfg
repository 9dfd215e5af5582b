SPECIFICATION Spec
CONSTANTS
    d1 = d1
    d2 = d2
    design = design
    DocId = {d1, d2, design}
    Replicable = {d1, d2}
    Limit = {1, 9}
    INTERNAL_LIMIT_MULTIPLIER = 2
    MAX_INTERNAL_LIMIT = 2
    Kinds = {"readable", "unreadable", "missing"}
    MaxSeq = 4
    MaxFaults = 0
INVARIANTS
    LostAreUnreadable
