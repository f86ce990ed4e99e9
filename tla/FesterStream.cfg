SPECIFICATION Spec
CONSTANTS
    a = a
    b = b
    Builds = {a, b}
    Script <- TwoBuilds
    NoBuild = NoBuild
    Cap = 2
    Page = 2
    JournalCap = 3
    MaxWire = 1
    MaxDrops = 1
INVARIANTS SubscriptionAgrees DagOfOneBuild DagCatchesUp
PROPERTIES ListRecovers
