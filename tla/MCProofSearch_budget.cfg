SPECIFICATION FairSpec
CONSTANTS
    lean = lean
    doc = doc
    head = head
    edited = edited
    gone = gone
    Head = head
    Gone = gone
    None = None
    NJobs = 2
    Parallel = 2
    Attempts = 2
    Limit = 3
    CallCap = 2
    Estimate = 1
    CentUnits = 2
    Files = {}
    LeanInputs = {}
    Contents = {head, gone}
    GitFails = TRUE
    Edits = 0
INVARIANTS TypeOK ChargedWithinLimit ReservationsAccounted
PROPERTIES AllReturn
CHECK_DEADLOCK FALSE
