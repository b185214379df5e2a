------------------------- MODULE MCContainerRuntime -------------------------
(* Instances of ContainerRuntime for TLC.  A command line read from        *)
(* /proc/<pid>/cmdline ends with an empty argument, left by its last NUL.  *)
EXTENDS ContainerRuntime

Word(w) == [text |-> w, eq |-> FALSE, val |-> ""]
Flag(f, v) == [text |-> f, eq |-> TRUE, val |-> v]
Cmd(args) == Append(args, Word(""))

MCKubeletCmd ==
    {Cmd(<<Word("kubelet")>> \o args) : args \in {
        <<>>,
        <<Flag("--cni-conf-dir", "/flag")>>,
        <<Word("--container-runtime"), Word("remote")>>,
        <<Flag("--container-runtime-endpoint", "unix:///run/containerd/containerd.sock")>>,
        <<Word("--container-runtime-endpoint"), Word("unix:///var/run/crio/crio.sock")>>,
        <<Flag("--container-runtime-endpoint", "/crio.sock")>>,
        <<Flag("--container-runtime-endpoint", "unix:///var/run/cri-dockerd.sock")>>,
        <<Word("--container-runtime-endpoint")>>}}

MCRuntimeCmd ==
    [r \in {"containerd", "crio"} |->
       IF r = "containerd"
       THEN {Cmd(<<Word("containerd")>>),
             Cmd(<<Word("containerd"), Word("--config"), Word("/custom.conf")>>)}
       ELSE {Cmd(<<Word("crio")>>),
             Cmd(<<Word("crio"), Flag("--cni-config-dir", "/crioflag")>>),
             Cmd(<<Word("crio"), Flag("--config-dir", "/custom.d")>>)}]

MCConfFile ==
    [l \in {<<"host", p>> : p \in {"/etc/containerd/config.toml", "/etc/crio/crio.conf",
                                   "/custom.conf"}} |->
       CASE l[2] = "/etc/containerd/config.toml" -> "/containerd"
         [] l[2] = "/etc/crio/crio.conf" -> "/crio"
         [] OTHER -> "/custom"]

MCConfDir ==
    [l \in {<<"host", p>> : p \in {"/etc/containerd/containerd.conf.d",
                                   "/etc/crio/crio.conf.d", "/custom.d"}} |->
       CASE l[2] = "/etc/containerd/containerd.conf.d" -> <<"/containerd1">>
         [] l[2] = "/etc/crio/crio.conf.d" -> <<"/crio1", "/crio2">>
         [] OTHER -> <<"/customd">>]
=============================================================================
