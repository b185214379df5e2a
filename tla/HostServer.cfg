\* Two clients that may stall anywhere, the debug port open, no version linked in,
\* under the fairness of the process, the drain timer and the kubelet.
SPECIFICATION FairSpec
CONSTANTS
    Conn = {c1, c2}
    LinkedVersion = ""
    DebugPort = TRUE
    FailureThreshold = 2
INVARIANTS VersionFailsOnlyAtFirst
PROPERTIES NoAcceptWhileDraining SignalEndsProcess DeafProcessIsReplaced
