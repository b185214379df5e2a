\* Each sensor on a node that lacks one part at first, or all of them, and on
\* which two parts appear or vanish; every shape of encryption configuration.
SPECIFICATION Spec
CONSTANTS
    Sensor = {"controlplane", "cni", "openedports"}
    Config <- MCConfig
    MaxMissing = 1
    MaxChanges = 2
INVARIANTS SteadyPartsReported SecretsRedacted RestKept
CHECK_DEADLOCK FALSE
