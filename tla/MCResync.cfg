SPECIFICATION FairSpec
CONSTANTS
    c1 = c1
    d1 = d1
    d2 = d2
    a = a
    b = b
    Client = {c1}
    DocId = {d1, d2}
    Kind = {a, b}
    RuleSets <- Rules
    Clears = {1, 2}
    FaultKinds = {"request", "list", "delete", "crash"}
    MaxSeq = 3
    MaxFaults = 1
INVARIANTS
    TypeOK
    CleanIsExact
    NoOldCheckpoint
PROPERTIES
    NotMissedResyncs
