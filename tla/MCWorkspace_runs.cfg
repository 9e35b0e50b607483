SPECIFICATION FairSpec
CONSTANTS
    Cli = {i1, i2}
    MaxKills = 1
    MaxCancels = 2
    MaxChanges = 1
    None = None
CHECK_DEADLOCK FALSE
INVARIANTS OnePipeline OwnVerdict ComparesItsRuns RefusedForCause
PROPERTIES CancellationEnds
