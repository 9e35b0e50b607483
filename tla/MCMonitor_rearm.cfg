SPECIFICATION Spec
CONSTANTS
    None = None
    Commands <- WithPrivileged
    Reports <- MCReports
    PROTECTIVE_SOURCES = {"AI"}
    LastTime = 2
    LastReport = 3
    MAX_GRANTS = 2
    WINDOW_MS = 2
    VETO_LIMIT = 2
    CLOCK_FAULT_LIMIT = 1
    CLOCK_SKEW_MS = 1
    LATCH_SLOTS = 1
    REPLAY_SLOTS = 2
    Grants = 3
INVARIANTS BudgetSurvives
