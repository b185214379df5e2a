\* Every kubelet and runtime command line below, with every content of the
\* configuration files; the call ends, so the system may stop.
SPECIFICATION RuntimeSpec
CONSTANTS
    KubeletCmd <- MCKubeletCmd
    RuntimeCmd <- MCRuntimeCmd
    ConfFile <- MCConfFile
    ConfDir <- MCConfDir
    MaxChurn = 1
INVARIANTS PrecedenceRespected SteadyRuntimeFound
CHECK_DEADLOCK FALSE
