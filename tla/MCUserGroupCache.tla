-------------------------- MODULE MCUserGroupCache --------------------------
(* Instances of UserGroupCache for TLC.                                    *)
EXTENDS UserGroupCache, TLC

\* Requests, names and heap cells are interchangeable.
Symmetry == Permutations(Req) \cup Permutations(Name) \cup Permutations(Item)
=============================================================================
