\* Every file of up to four chunks, whole lines or parts of longer ones, with at
\* most two read errors; the search ends, so the system may stop.
SPECIFICATION LookupSpec
CONSTANTS
    Chunk <- MCChunk
    Cut <- MCCut
    MaxChunks = 4
    ReadCols = 2
    MaxColons = 2
    Wanted = 1
    MaxFaults = 2
INVARIANTS NameIsFirstRow UnknownMeansAbsent
CHECK_DEADLOCK FALSE
