\* One build of two targets, so waves of two actions, with every debugger command.
SPECIFICATION FairSpec
CONSTANTS
    dCompile = dCompile
    dTest = dTest
    aCompile = aCompile
    aTest = aTest
    b1 = b1
    b2 = b2
    n1 = n1
    n2 = n2
    NoAction = NoAction
    NoBuild = NoBuild
    NoNode = NoNode
    Builds = {b1}
    Actions = {dCompile, aCompile, dTest, aTest}
    Nodes = {n1, n2}
    Deps <- TwoTargets
    Requests <- BothTargets
    RetryBudgets = {0, 2}
    Commands = {"pause", "resume", "step"}
    Journaled = {}
    MaxTickets = 2
INVARIANTS
    TypeOK
    NoLostWakeup
    StepExact
    RetriesExact
PROPERTIES
    OnlyCancelsAfterCancel
    ImplementsLifecycle
    EveryBuildEnds
    StepsDriveBuild
