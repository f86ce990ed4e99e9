\* One seeded and two requested builds, one crash, one hot reload, a loop that may be late.
SPECIFICATION ServiceSpec
CONSTANTS
    Builds = {b1, b2, b3}
    SeedPlans = 1
    MaxCrashes = 1
    MaxReloads = 1
    Loops = {l1, l2}
    Period = 1
    MaxSleep = 3
INVARIANTS RowTracksRun LoopAlone
PROPERTIES VerdictKept RowSettles LoopKeepsTicking
