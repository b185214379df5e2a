---------------------------- MODULE MCFileInfo ----------------------------
(* Instances of FileInfo for TLC.                                          *)
EXTENDS FileInfo

\* kubeletConfigDefaultPathList.
MCCandidates ==
    <<"/var/lib/kubelet/config.yaml", "/etc/kubernetes/kubelet/kubelet-config.json">>
=============================================================================
