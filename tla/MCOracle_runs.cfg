SPECIFICATION FairSpec
CONSTANTS
    f1 = f1
    g1 = g1
    h1 = h1
    k1 = k1
    m1 = m1
    Funcs = {f1, g1, h1, k1, m1}
    Calls <- MCCalls
    Mentions <- MCMentions
    Inits = {m1}
    Cases = {1, 2}
    Of <- MCOf
    Bad = {1}
    Changing = {h1}
    Versions = {1, 2}
    CHUNK = 2
    ATTEMPTS = 2
    MaxRuns = 3
    MaxChanges = 2
    MaxBuilds = 1
    None = None
CHECK_DEADLOCK FALSE
INVARIANTS ReplayIsTrue Bisected
PROPERTIES RunEnds
