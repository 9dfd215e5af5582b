SPECIFICATION FairSpec
CONSTANTS
    c1 = c1
    d1 = d1
    d2 = d2
    a = a
    b = b
    Client = {c1}
    DocId = {d1, d2}
    Kind = {a, b}
    RuleSets <- Rules
    Clears = {1}
    FaultKinds = {}
    MaxSeq = 2
    MaxFaults = 0
PROPERTIES
    EveryClientResyncs
