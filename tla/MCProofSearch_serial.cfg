SPECIFICATION Spec
CONSTANTS
    lean = lean
    doc = doc
    head = head
    edited = edited
    gone = gone
    Head = head
    Gone = gone
    None = None
    NJobs = 2
    Parallel = 1
    Attempts = 2
    Limit = None
    CallCap = 1
    Estimate = 1
    CentUnits = 1
    Files = {lean}
    LeanInputs = {lean}
    Contents = {head, edited, gone}
    GitFails = FALSE
    Edits = 1
INVARIANTS RootRestored TamperRejected
CHECK_DEADLOCK FALSE
