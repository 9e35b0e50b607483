SPECIFICATION Spec
CONSTANTS
    f1 = f1
    g1 = g1
    h1 = h1
    k1 = k1
    m1 = m1
    Funcs = {f1, g1, h1, k1, m1}
    Calls <- MCCalls
    Mentions <- MCMentions
    Inits = {m1}
    Cases = {1, 2}
    Of <- MCOf
    Bad = {1}
    Changing = {k1}
    Versions = {1, 2}
    CHUNK = 2
    ATTEMPTS = 2
    MaxRuns = 2
    MaxChanges = 1
    MaxBuilds = 0
    None = None
CHECK_DEADLOCK FALSE
INVARIANTS ReplayedWhole
