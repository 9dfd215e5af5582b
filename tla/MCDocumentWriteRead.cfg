SPECIFICATION Spec
CONSTANTS
    q1 = q1
    q2 = q2
    author = author
    reviewer = reviewer
    own = own
    shared = shared
    text = text
    Req = {q1, q2}
    User = {author, reviewer}
    System = System
    Key = {own, shared}
    Text = {text}
    Create <- MCCreate
    Update <- MCUpdate
    Delete <- MCDelete
    TextOnly <- MCTextOnly
    Kinds = {"put"}
    FaultKinds = {"read"}
    MaxRev = 3
    MaxFaults = 1
SYMMETRY Slots
INVARIANTS
    UpdateNeedsPermission
\* Requests stop at the bound on revisions.
CHECK_DEADLOCK FALSE
