------------------------- MODULE MCKernelVariables -------------------------
(* A tree for KernelVariables: files before, between and after nested      *)
(* directories, one that may not be opened, one that is no regular file.   *)
EXTENDS KernelVariables

MCKind == [n \in Node |-> CASE n \in {0, 2, 4} -> "dir" [] n = 3 -> "special" [] OTHER -> "file"]
MCParent == [n \in Node \ {0} |-> CASE n \in {3, 4} -> 2 [] n \in {5, 7} -> 4 [] OTHER -> 0]
=============================================================================
