\* Cancel, then pause while the action backs off before its retry.
SPECIFICATION FairSpec
CONSTANTS
    dCompile = dCompile
    dTest = dTest
    aCompile = aCompile
    aTest = aTest
    b1 = b1
    b2 = b2
    n1 = n1
    n2 = n2
    NoAction = NoAction
    NoBuild = NoBuild
    NoNode = NoNode
    Builds = {b1}
    Actions = {dCompile, dTest}
    Nodes = {n1}
    Deps <- ShortChain
    Requests <- ShortRequest
    RetryBudgets = {1}
    Commands = {"pause", "resume", "step"}
    Journaled = {}
    MaxTickets = 1
PROPERTIES
    CancelWindsDown
