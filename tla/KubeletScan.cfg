\* The kubelet or kube-proxy among three pids, for which processes come and go
\* without bound; the request ends, so the system may stop.
SPECIFICATION FairSpec
CONSTANTS
    Pid = {1, 2, 3}
    Proc = {k1, k2, x}
    Wanted = {k1, k2}
    BatchSize = 2
    Sensor = {"kubelet", "kubeproxy"}
    MaxMoves = 1
INVARIANTS ConnectionsClosed
PROPERTIES ImplementsSearch SearchEnds
CHECK_DEADLOCK FALSE
