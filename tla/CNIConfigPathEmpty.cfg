\* The same call: an endpoint of the kubelet's leads to a runtime that runs and
\* whose configuration names no directory.
SPECIFICATION RuntimeSpec
CONSTANTS
    KubeletCmd <- MCKubeletCmd
    RuntimeCmd <- MCRuntimeCmd
    ConfFile <- MCConfFile
    ConfDir <- MCConfDir
    MaxChurn = 1
INVARIANTS AlwaysADirectory
CHECK_DEADLOCK FALSE
