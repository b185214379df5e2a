-------------------------- MODULE ContainerRuntime --------------------------
(***************************************************************************)
(* Finding the node's CNI configuration directory                          *)
(* (sensor/internal/utils/containerruntime.go, GetArg of process.go): from *)
(* the kubelet's flags, else from a container runtime's flags, else from   *)
(* the runtime's configuration files, else a default.                      *)
(*                                                                         *)
(* A command line is a sequence of arguments [text, eq, val]: "text" alone *)
(* or, when eq, "text=val".  A path is a string; a location adds the root  *)
(* it is resolved in.  A file is what parsing it for the CNI directory     *)
(* gives.                                                                  *)
(***************************************************************************)
EXTENDS Naturals, Sequences

CONSTANTS
    KubeletCmd,     \* command lines the kubelet may have
    RuntimeCmd,     \* RuntimeCmd[r]: command lines container runtime r may have
    ConfFile,       \* ConfFile[l]: the CNI directory that the file at location
                    \* l would name, if it named one
    ConfDir,        \* ConfDir[l]: the same for the files of drop-in directory l,
                    \* in the order of their names
    MaxChurn        \* bound: runtimes that start or exit during a call

Runtime == {"containerd", "crio"}
CNIDefaultConfigDir == "/etc/cni/"
Malformed == "malformed"
Empty == ""         \* a flag without a value, or no directory
Absent == <<>>      \* no process: one with an empty command line is never located
Error == "error"

ASSUME RuntimeAssumption ==
    /\ DOMAIN RuntimeCmd = {"containerd", "crio"}
    /\ MaxChurn \in Nat
    /\ \A l \in DOMAIN ConfFile : ConfFile[l] \notin {Empty, Malformed}
    /\ \A l \in DOMAIN ConfDir :
          /\ ConfDir[l] \in Seq(STRING)
          /\ \A i \in DOMAIN ConfDir[l] : ConfDir[l][i] \notin {Empty, Malformed}

-----------------------------------------------------------------------------
(* ProcessDetails.GetArg.  An argument matches a flag when its text up to  *)
(* the first "=" is the flag; the value follows the "=", or is the whole   *)
(* next argument, or is empty.                                             *)

Whole(arg) == IF arg.eq THEN "text=val" ELSE arg.text
Matches(cmd, flag) == {i \in DOMAIN cmd : cmd[i].text = flag}
HasArg(cmd, flag) == Matches(cmd, flag) # {}
GetArg(cmd, flag) ==
    IF ~HasArg(cmd, flag) THEN Empty
    ELSE LET i == CHOOSE i \in Matches(cmd, flag) : \A j \in Matches(cmd, flag) : i <= j
         IN  IF cmd[i].eq THEN cmd[i].val
             ELSE IF i < Len(cmd) THEN Whole(cmd[i + 1]) ELSE Empty

-----------------------------------------------------------------------------
VARIABLES
    kubelet,   \* the kubelet's command line
    proc,      \* proc[r]: r's command line, or Absent when r does not run
    files,     \* configuration files by location
    dropins,   \* drop-in directories by location: a sequence by file name
    churn,     \* how many runtimes have started or exited
    pc,        \* where GetCNIConfigPath is
    result,    \* what it returned
    source,    \* history: the runtime whose configuration was used, or none
    steady,    \* history: runtimes that have run ever since the call began
    missed     \* history: runtimes that ran when the search for them by name failed

node == <<kubelet, proc, files, dropins>>
runtimeVars == <<node, churn, pc, result, source, steady, missed>>

\* containerdProps and crioProps.
ConfigArgName == "--config"
ConfigDirArgName(r) == IF r = "crio" THEN "--config-dir" ELSE Empty
CNIConfigDirArgName(r) == IF r = "crio" THEN "--cni-config-dir" ELSE Empty
DefaultConfigPath(r) == IF r = "crio" THEN "/etc/crio/crio.conf"
                                      ELSE "/etc/containerd/config.toml"
DefaultConfigDir(r) == IF r = "crio" THEN "/etc/crio/crio.conf.d"
                                     ELSE "/etc/containerd/containerd.conf.d"

\* In the host's file system (under /host_fs) or in the scanner's own.
OnHost(p) == <<"host", p>>
Own(p) == <<"own", p>>

FileAt(loc) == IF loc \in DOMAIN files THEN files[loc] ELSE Malformed
DropInsAt(loc) == IF loc \in DOMAIN dropins THEN dropins[loc] ELSE <<>>

\* getConfigDirPath: a flag's value is used as it is, the default under rootDir.
ConfigDirPath(r) ==
    LET flag == GetArg(proc[r], ConfigDirArgName(r))
    IN  IF flag = Empty THEN OnHost(DefaultConfigDir(r)) ELSE Own(flag)

\* getConfigPath: both under rootDir.
ConfigPath(r) ==
    LET flag == GetArg(proc[r], ConfigArgName)
    IN  OnHost(IF flag = Empty THEN DefaultConfigPath(r) ELSE flag)

\* Mutant: the drop-ins are not reversed.
ConfigList_Ascending(r) == Append(DropInsAt(ConfigDirPath(r)), FileAt(ConfigPath(r)))

\* getCNIConfigDirFromConfig: the drop-ins in descending order of their names,
\* then the configuration file.  An unreadable directory has no drop-ins.
ConfigList(r) ==
    LET d == DropInsAt(ConfigDirPath(r))
    IN  Append([i \in 1..Len(d) |-> d[Len(d) + 1 - i]], FileAt(ConfigPath(r)))

\* getCNIConfigDirFromConfigPaths: the first file that parses and names one.
FirstDir(list) ==
    LET named == {i \in DOMAIN list : list[i] \notin {Empty, Malformed}}
    IN  IF named = {} THEN Empty
        ELSE list[CHOOSE i \in named : \A j \in named : i <= j]

\* getCNIConfigDirFromProcess
CNIConfigDirFromProcess(r) ==
    IF CNIConfigDirArgName(r) = Empty THEN Empty ELSE GetArg(proc[r], CNIConfigDirArgName(r))

\* getCNIConfigDir
CNIConfigDir(r) ==
    IF CNIConfigDirFromProcess(r) # Empty THEN CNIConfigDirFromProcess(r)
                                       ELSE FirstDir(ConfigList(r))

\* newContainerRuntime compares the kind with a name or a bare socket name.
KindOf(kind) ==
    CASE kind \in {"containerd", "/containerd.sock"} -> "containerd"
      [] kind \in {"crio", "/crio.sock"} -> "crio"
      [] OTHER -> Error

\* It may give the runtime if that runs.  Its search may fail nevertheless, when
\* /proc or the command line cannot be read (ProcessLocator).
NewContainerRuntime(kind) ==
    LET r == KindOf(kind)
    IN  IF r # Error /\ proc[r] # Absent THEN {r, Error} ELSE {Error}

\* strings.HasSuffix(endpoint, "/<name>.sock"), by the endpoints in use.
Endpoints ==
    [s \in {"/containerd.sock", "/crio.sock", "/cri-dockerd.sock"} |->
       CASE s = "/containerd.sock" -> {s, "unix:///run/containerd/containerd.sock"}
         [] s = "/crio.sock" -> {s, "unix:///var/run/crio/crio.sock"}
         [] s = "/cri-dockerd.sock" -> {s, "unix:///var/run/cri-dockerd.sock"}]
HasSuffix(endpoint, s) == endpoint \in Endpoints[s]

\* The kind CNIConfigDirFromKubelet looks for, or Error (dockershim, or unknown).
KindFromKubelet ==
    LET endpoint == GetArg(kubelet, "--container-runtime-endpoint")
    IN  IF endpoint = Empty THEN Error
        ELSE IF HasSuffix(endpoint, "/cri-dockerd.sock") THEN "/containerd.sock"
        ELSE endpoint

-----------------------------------------------------------------------------
\* What parsing a file for the CNI directory gives: no such key, an error, or dir.
Outcome == {"silent", "broken", "names"}
Parse(outcome, dir) ==
    CASE outcome = "silent" -> Empty [] outcome = "broken" -> Malformed [] outcome = "names" -> dir
DropIn == UNION {{l} \X DOMAIN ConfDir[l] : l \in DOMAIN ConfDir}

RuntimeInit ==
    /\ kubelet \in KubeletCmd
    /\ \E c \in RuntimeCmd["containerd"] \cup {Absent}, o \in RuntimeCmd["crio"] \cup {Absent} :
         proc = [r \in Runtime |-> IF r = "crio" THEN o ELSE c]
    /\ \E f \in [DOMAIN ConfFile -> Outcome] :
         files = [l \in DOMAIN ConfFile |-> Parse(f[l], ConfFile[l])]
    /\ \E f \in [DropIn -> Outcome] :
         dropins = [l \in DOMAIN ConfDir |->
                      [i \in DOMAIN ConfDir[l] |-> Parse(f[<<l, i>>], ConfDir[l][i])]]
    /\ steady = {r \in Runtime : proc[r] # Absent} /\ missed = {}
    /\ churn = 0
    /\ pc = "kubelet"
    /\ result = Empty
    /\ source = "none"

Finish(dir, r) == pc' = "done" /\ result' = dir /\ source' = r /\ UNCHANGED <<node, churn, steady>>

\* GetCNIConfigPath, first part: CNIConfigDirFromKubelet.  Its answer is final
\* unless it is an error.
FromKubelet ==
    /\ pc = "kubelet"
    /\ LET flag == GetArg(kubelet, "--cni-conf-dir")
           kind == KindFromKubelet
           Given == IF kind = Error THEN {Error} ELSE NewContainerRuntime(kind)
       IN  \/ flag # Empty /\ Finish(flag, "none")
           \/ flag = Empty /\ \E r \in Given \ {Error} : Finish(CNIConfigDir(r), r)
           \/ /\ flag = Empty /\ Error \in Given
              /\ pc' = "containerd"
              /\ UNCHANGED <<node, churn, result, source, steady>>
    /\ UNCHANGED missed

\* Mutant: crio is not tried.
FromProcess_ContainerdOnly(r) ==
    /\ pc = r
    /\ \/ /\ r \in NewContainerRuntime(r)
          /\ Finish(IF CNIConfigDir(r) = Empty THEN CNIDefaultConfigDir ELSE CNIConfigDir(r), r)
          /\ UNCHANGED missed
       \/ /\ missed' = IF proc[r] = Absent THEN missed ELSE missed \cup {r}
          /\ Finish(CNIDefaultConfigDir, "none")

\* GetCNIConfigPath, second part: getContainerRuntimeFromProcess looks through
\* /proc for containerd and then, if the search fails, again for crio.
FromProcess(r) ==
    /\ pc = r
    /\ \/ /\ r \in NewContainerRuntime(r)
          /\ Finish(IF CNIConfigDir(r) = Empty THEN CNIDefaultConfigDir ELSE CNIConfigDir(r), r)
          /\ UNCHANGED missed
       \/ /\ missed' = IF proc[r] = Absent THEN missed ELSE missed \cup {r}
          /\ \/ /\ r = "containerd" /\ pc' = "crio"
                /\ UNCHANGED <<node, churn, result, source, steady>>
             \/ r = "crio" /\ Finish(CNIDefaultConfigDir, "none")

\* A runtime exits, or starts, while the search is under way.
Churn(r) ==
    /\ pc # "done" /\ churn < MaxChurn
    /\ churn' = churn + 1
    /\ \E p \in RuntimeCmd[r] \cup {Absent} :
         (p = Absent) # (proc[r] = Absent) /\ proc' = [proc EXCEPT ![r] = p]
    /\ steady' = steady \ {r}
    /\ UNCHANGED <<kubelet, files, dropins, pc, result, source, missed>>

RuntimeNext == FromKubelet \/ \E r \in Runtime : FromProcess(r) \/ Churn(r)

RuntimeSpec == RuntimeInit /\ [][RuntimeNext]_runtimeVars

-----------------------------------------------------------------------------
(* Properties.                                                             *)

RuntimeTypeOK ==
    /\ kubelet \in KubeletCmd
    /\ \A r \in Runtime : proc[r] \in RuntimeCmd[r] \cup {Absent}
    /\ churn \in 0..MaxChurn
    /\ pc \in {"kubelet", "containerd", "crio", "done"}
    /\ source \in Runtime \cup {"none"}
    /\ steady \subseteq Runtime /\ missed \subseteq Runtime
    /\ result = Empty \/ pc = "done"

KubeletNamesDir == GetArg(kubelet, "--cni-conf-dir") # Empty

\* The precedence that getCNIConfigDirFromConfig documents: the drop-in with the
\* greatest name that parses and names a directory, else the configuration file.
\* A broken or silent file never hides a lower one, and never wins.
Configured(r, dir) ==
    LET d == DropInsAt(ConfigDirPath(r))
        Names(x) == x \notin {Empty, Malformed}
    IN  \/ \E i \in DOMAIN d : /\ d[i] = dir /\ Names(d[i])
                               /\ \A j \in DOMAIN d : Names(d[j]) => j <= i
        \/ /\ \A j \in DOMAIN d : ~Names(d[j])
           /\ FileAt(ConfigPath(r)) = dir /\ Names(dir)

\* Everything that configuration files can say.
Dirs ==
    {ConfFile[l] : l \in DOMAIN ConfFile}
        \cup UNION {{ConfDir[l][i] : i \in DOMAIN ConfDir[l]} : l \in DOMAIN ConfDir}

\* dir is what r's flag says, else what its configuration files say, in the
\* documented order; it is a fallback only when they say nothing.
Follows(r, dir) ==
    \/ dir = CNIConfigDirFromProcess(r) /\ dir # Empty
    \/ CNIConfigDirFromProcess(r) = Empty /\ Configured(r, dir)
    \/ /\ CNIConfigDirFromProcess(r) = Empty
       /\ dir \in {Empty, CNIDefaultConfigDir}
       /\ \A x \in Dirs : ~Configured(r, x)

\* What GetCNIConfigPath takes from a runtime that is still running is its flag
\* or what its configuration files say, in the documented order.
PrecedenceRespected == pc = "done" /\ source \in steady => Follows(source, result)

\* However runtimes come and go during the call, the built-in default is the
\* answer only if the one used says nothing, or if each runtime that ran all the
\* time was missed by the search for itself: none is given up because another one
\* was not found, or because the endpoint's was not.
SteadyRuntimeFound ==
    pc = "done" /\ ~KubeletNamesDir /\ source = "none" => steady \subseteq missed

\* "3. return CNI config dir default that is defined in the container runtime
\* properties": the doc comment of GetCNIConfigPath, which never returns nothing.
AlwaysADirectory == pc = "done" => result # Empty
=============================================================================
