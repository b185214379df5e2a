----------------------------- MODULE KubeletScan -----------------------------
(***************************************************************************)
(* SenseKubeletInfo and SenseKubeProxyInfo (sensor/kubelet.go,             *)
(* sensor/kubeproxy.go, sensor/internal/utils/service.go): the process is  *)
(* located once, and its pid is then used over and over, as a path         *)
(* (/proc/<pid>/root) and in a question to systemd, while the process may  *)
(* exit and the pid go to another one.                                     *)
(*                                                                         *)
(* A file described is the process whose root it was found under, with its *)
(* path.  Whether a path exists there is left open: FileInfo says what a   *)
(* description is worth when files change.                                 *)
(***************************************************************************)
EXTENDS ProcessLocator, Sequences

CONSTANTS
    Sensor,     \* the sensors that run: "kubelet", "kubeproxy"
    MaxMoves    \* bound: processes that start or exit after the search

ASSUME ScanAssumption ==
    /\ Sensor \subseteq {"kubelet", "kubeproxy"}
    /\ MaxMoves \in Nat

VARIABLES
    sensor,
    args,     \* flags of the process found: args[f] is its value, or Unset
    pc,       \* the next step of the sensor
    tried,    \* candidates of the present list that could not be described
    calls,    \* calls made so far to set up D-Bus connections
    bus,      \* D-Bus connections that are open
    broken,   \* history: Auth or Hello has failed
    moves,
    report

scanVars == <<moves, sensor, args, pc, tried, calls, bus, broken, report>>
vars == <<locatorVars, scanVars>>

Unset == "unset"     \* the flag is not there
Empty == ""          \* there, without a value
Nil == <<>>

Flag == {"--config", "--kubeconfig", "--client-ca-file"}
DefaultPaths ==
    [f \in Flag |->
       CASE f = "--config" -> <<"/var/lib/kubelet/config.yaml",
                                "/etc/kubernetes/kubelet/kubelet-config.json">>
         [] f = "--kubeconfig" -> <<"/etc/kubernetes/kubelet.conf", "/var/lib/kubelet/kubeconfig">>
         [] OTHER -> <<>>]

\* A flag may be missing, empty, or name a path.
Arguments == [Flag -> {Unset, Empty, "/flag"}]

\* What reading a configuration for its clientCAFile gives.
Content == {"unparsable", Empty, "/named"}
Located == {<<q, path>> : q \in Proc, path \in {Empty, "/flag", "/named"} \cup
              UNION {{DefaultPaths[f][i] : i \in DOMAIN DefaultPaths[f]} : f \in Flag}}

TypeOK ==
    /\ LocatorTypeOK
    /\ sensor \in Sensor
    /\ args \in Arguments
    /\ pc \in {"locate", "bus", "unit", "services", "--config", "--kubeconfig",
               "--client-ca-file", "done"}
    /\ tried \in 0..1
    /\ calls \in 0..6 /\ bus \in 0..2 /\ moves \in 0..MaxMoves
    /\ report.service \in {Nil, <<"default">>} \cup {<<q>> : q \in Proc}
    /\ report.content \in Content \cup {Unset}
    /\ \A f \in Flag : report[f] \in Located \cup {Nil}

Init ==
    /\ LocatorInit
    /\ sensor \in Sensor
    /\ args = [f \in Flag |-> Unset]
    /\ pc = "locate" /\ tried = 0
    /\ calls = 0 /\ bus = 0 /\ broken = FALSE /\ moves = 0
    /\ report = [x \in Flag \cup {"service", "content"} |-> IF x = "content" THEN Unset ELSE Nil]

\* SenseKubeProxyInfo describes the kubeconfig that a flag names, and no more.
First == IF sensor = "kubeproxy" THEN "--kubeconfig" ELSE "bus"

\* The error of a failed search ends the sensor; else the command line read by
\* the search is kept with the pid.
Found ==
    /\ pc = "locate" /\ answer # Pending
    /\ pc' = IF answer \in {NotFound, Failed} THEN "done" ELSE First
    /\ IF pc' = "done" THEN UNCHANGED args ELSE args' \in Arguments
    /\ UNCHANGED <<locatorVars, moves, sensor, tried, calls, bus, broken, report>>

\* Whatever process has the located pid now.
Owner == procs[answer[1]]

-----------------------------------------------------------------------------
(* GetKubeletServiceFiles.                                                 *)

\* Mutant: the connection set up first is left open when the second fails.
BusFails_LeavesFirst ==
    /\ pc = "bus"
    /\ broken' = (broken \/ calls % 3 # 0)
    /\ report' = [report EXCEPT !.service = <<"default">>]
    /\ pc' = "services" /\ calls' = 0
    /\ UNCHANGED <<locatorVars, moves, sensor, args, tried, bus>>

\* dbus.Dial, Auth, Hello; systemd's NewConnection does it all twice.
BusCall ==
    /\ pc = "bus"
    /\ calls' = calls + 1
    /\ bus' = IF calls % 3 = 0 THEN bus + 1 ELSE bus
    /\ pc' = IF calls' = 6 THEN "unit" ELSE "bus"
    /\ UNCHANGED <<locatorVars, moves, sensor, args, tried, broken, report>>

\* An error: NewConnection closes the first connection if the second fails, and
\* newSystemDbusConnection does not close what Auth or Hello failed on.  The
\* default directory is listed.
BusFails ==
    /\ pc = "bus"
    /\ bus' = IF calls >= 3 THEN bus - 1 ELSE bus
    /\ broken' = (broken \/ calls % 3 # 0)
    /\ report' = [report EXCEPT !.service = <<"default">>]
    /\ pc' = "services" /\ calls' = 0
    /\ UNCHANGED <<locatorVars, moves, sensor, args, tried>>

\* GetUnitNameByPID for the pid, then the unit's first drop-in directory that
\* exists, if any; both connections are closed.
AskSystemd ==
    /\ pc = "unit"
    /\ bus' = 0 /\ calls' = 0
    /\ \E dir \in {<<"default">>} \cup {<<q>> : q \in {Owner} \ {None}} :
         report' = [report EXCEPT !.service = dir]
    /\ pc' = "services"
    /\ UNCHANGED <<locatorVars, moves, sensor, args, tried, broken>>

\* os.ReadDir, and a description of each file; nil if there is none.
ServiceFiles ==
    /\ pc = "services"
    /\ \/ report' = [report EXCEPT !.service = Nil]
       \/ UNCHANGED report
    /\ pc' = "--config"
    /\ UNCHANGED <<locatorVars, moves, sensor, args, tried, calls, bus, broken>>

-----------------------------------------------------------------------------
(* The files of the process.                                               *)

\* caFilePath: the flag, else what the configuration described above says.
ClientCA ==
    IF args["--client-ca-file"] # Unset THEN args["--client-ca-file"]
    ELSE IF report["--config"] # Nil /\ report.content = "/named" THEN "/named" ELSE Empty

\* The paths to be tried for a flag, in order.
Candidates(f) ==
    CASE f = "--client-ca-file" -> IF ClientCA = Empty THEN <<>> ELSE <<ClientCA>>
      [] f # "--client-ca-file" /\ args[f] # Unset -> <<args[f]>>
      [] OTHER -> IF sensor = "kubelet" THEN DefaultPaths[f] ELSE <<>>

After(f) ==
    CASE f = "--config" -> "--kubeconfig"
      [] f = "--kubeconfig" /\ sensor = "kubelet" -> "--client-ca-file"
      [] OTHER -> "done"

\* The kubelet's two configurations are described with their content, which an
\* empty path, the root directory, does not have.
WithContent(f) == f = "--config" \/ (f = "--kubeconfig" /\ sensor = "kubelet")

\* makeContaineredFileInfoVerbose or ...FromListVerbose finds the next candidate
\* under /proc/<pid>/root ...
Described(f) ==
    /\ pc = f /\ tried < Len(Candidates(f)) /\ Owner # None
    /\ Candidates(f)[tried + 1] = Empty => ~WithContent(f)
    /\ \E c \in IF f = "--config" THEN Content ELSE {report.content} :
         report' = [report EXCEPT ![f] = <<Owner, Candidates(f)[tried + 1]>>, !.content = c]
    /\ pc' = After(f) /\ tried' = 0
    /\ UNCHANGED <<locatorVars, moves, sensor, args, calls, bus, broken>>

\* ... or does not, and goes on with the list, or leaves the field nil.
Missing(f) ==
    /\ pc = f
    /\ \/ tried + 1 < Len(Candidates(f)) /\ tried' = tried + 1 /\ UNCHANGED pc
       \/ tried + 1 >= Len(Candidates(f)) /\ tried' = 0 /\ pc' = After(f)
    /\ UNCHANGED <<locatorVars, moves, sensor, args, calls, bus, broken, report>>

-----------------------------------------------------------------------------
Scan ==
    \/ Found \/ BusCall \/ BusFails \/ AskSystemd \/ ServiceFiles
    \/ \E f \in Flag : Described(f) \/ Missing(f)

\* Processes go on coming and going during the scan.
Move ==
    /\ answer # Pending /\ pc # "done" /\ moves < MaxMoves
    /\ HostChurn
    /\ moves' = moves + 1
    /\ UNCHANGED <<sensor, args, pc, tried, calls, bus, broken, report>>

Next ==
    \/ Locate /\ UNCHANGED scanVars
    \/ HostChurn /\ answer = Pending /\ UNCHANGED scanVars
    \/ Move
    \/ Scan

Spec == Init /\ [][Next]_vars
\* The goroutine of the request keeps running.
FairSpec == Spec /\ WF_vars(Locate /\ UNCHANGED scanVars)

-----------------------------------------------------------------------------
(* Properties.                                                             *)

Done == pc = "done"
\* D-Bus connections outlive the request only where the peer refused Auth or
\* Hello, and then a single one.
ConnectionsClosed == Done => bus <= IF broken THEN 1 ELSE 0
=============================================================================
