SPECIFICATION FairSpec
CONSTANTS
    c1 = c1
    c2 = c2
    c3 = c3
    f1 = f1
    Claims = {c1, c2, c3}
    Functions = {f1}
    FnOf <- OneFunction
    Assumes = {c1, c3}
    Reaches = {f1}
    LeanOK = {c1}
    StructuralOK = {c2, c3}
    Rivals <- ThreeRivals
    TopK = 2
    MaxRefinements = 2
    UseProver = TRUE
    UseCache = TRUE
    Versions = {1, 2}
    Interpreters = {1}
    MaxRuns = 2
    None = None
INVARIANTS
    TypeOK
    VerdictsOfThisModule
    AssumptionsSurface
    RealBugStands
    RepairsAreChains
    NothingLeftOpen
    MarkedIsNoFinding
    ModelDefectsDiagnosed
PROPERTIES
    RunEnds
    FollowsLifecycle
CHECK_DEADLOCK FALSE
