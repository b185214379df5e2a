\* Three nested directories with up to three names, while names vanish and appear
\* without bound; the walk ends, so the system may stop.
SPECIFICATION FairSpec
CONSTANTS
    Node = {0, 1, 2, 3, 4, 5, 6, 7}
    Root = 0
    Parent <- MCParent
    Kind <- MCKind
    Denied = {1}
    BatchSize = 2
INVARIANTS ClosedAtEnd OnlyPathHeld SteadyVariablesListed
PROPERTY KernelWalkEnds
CHECK_DEADLOCK FALSE
