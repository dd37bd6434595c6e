SPECIFICATION Spec
CONSTANTS
    Calls = {c1}
    Datasets = {d1, d2}
    NoData = NoData
    Privileged = FALSE
    Requests = {planning, r1, r2, r3, r4}
    Planning = planning
    NoRequest = NoRequest
INVARIANTS
    TypeOK
    WaitsForOneAnswer
    ApprovedForThisData
    ResultHasChain
    UsedApprovalsStand
    DraftNeedsResult
    ReworkHasReason
SYMMETRY SameFiles
CHECK_DEADLOCK FALSE
