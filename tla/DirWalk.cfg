\* Every tree of two directories with two names each, loops included, which
\* changes once during the walk and may meet one I/O error; the walk ends, so
\* the system may stop.
SPECIFICATION FairSpec
CONSTANTS
    Dir = {top, sub}
    Top = top
    Name = {1, 2}
    MaxRecursionDepth = 3
    BatchSize = 2
    MaxEdits = 1
    MaxFaults = 1
INVARIANTS DescriptorsBounded StableFilesListedOnce ListedInOrder
PROPERTY WalkEnds
CHECK_DEADLOCK FALSE
