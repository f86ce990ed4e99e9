\* Two builds of one target's chain, one after or beside the other, cancelled or
\* not, with the events of each.
SPECIFICATION Spec
CONSTANTS
    dCompile = dCompile
    dTest = dTest
    dPackage = dPackage
    dStamp = dStamp
    b1 = b1
    b2 = b2
    n1 = n1
    NoAction = NoAction
    NoBuild = NoBuild
    NoNode = NoNode
    Builds = {b1, b2}
    Actions = {dCompile, dTest, dPackage, dStamp}
    Nodes = {n1}
    Deps <- OneTarget
    Requests <- WholeChain
    RetryBudgets = {1}
    Commands = {}
    Journaled = {b1, b2}
    MaxTickets = 0
INVARIANTS
    SkippedBelowFailure
    VerdictSound
    CacheSound
    NodeAccounting
    AutopsyFaithful
\* every build may have ended
CHECK_DEADLOCK FALSE
