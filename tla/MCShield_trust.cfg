SPECIFICATION Spec
CONSTANTS
    MAX_GRANTS = 1
    WINDOW_MS = 2
    VETO_LIMIT = 3
    EXCURSION_LIMIT = 2
    DWELL_MS = 2
    MAX_CLOCK_STEP_MS = 1
    Times <- MCTimes
    LastTime = 2
    Levels = {0, 1, 2}
    Requests = {0, 2}
    Flaws = {"remote"}
    Certs = {TRUE, FALSE}
    Grants = 2
    None = None
INVARIANTS RateLimited ModeIsRecord RegularClockTrusted
PROPERTIES PhysicsSustained Served
