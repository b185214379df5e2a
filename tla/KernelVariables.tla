-------------------------- MODULE KernelVariables --------------------------
(***************************************************************************)
(* SenseKernelVariables and walkVarsDir (sensor/kernelvariables.go): the   *)
(* recursive reading of /proc/sys/kernel.  Unlike the walk of DirWalk it   *)
(* keeps every file it has opened until the call for the file's directory  *)
(* returns, and any error of an Open but "permission denied" ends it all,  *)
(* while the kernel adds and removes variables (as it does with CPUs and   *)
(* modules).  The kernel lists a directory by name here; the index that    *)
(* /proc/sys really keeps may skip a name when one before it is removed.   *)
(*                                                                         *)
(* The active calls are the directories on `path'.  Every system call is a *)
(* step, but the Stat and the read of a file, which follow its Open at     *)
(* once.                                                                   *)
(***************************************************************************)
EXTENDS Integers, Sequences, FiniteSets

CONSTANTS
    Node,       \* directories and variables, numbered in the order of the names,
                \* a directory before what is in it
    Root,       \* /proc/sys/kernel
    Parent,     \* Parent[n]: the directory of n
    Kind,       \* Kind[n]: "dir", "file", or "special" for anything else
    Denied,     \* those that may not be opened
    BatchSize   \* names per Readdirnames (100 in the code)

Dir == {n \in Node : Kind[n] = "dir"}

ASSUME VariablesAssumption ==
    /\ Node \subseteq Nat
    /\ Kind \in [Node -> {"dir", "file", "special"}]
    /\ Root \in Dir
    /\ Parent \in [Node \ {Root} -> Dir]
    /\ \A n \in Node \ {Root} : Parent[n] < n
    /\ BatchSize \in Nat \ {0}

VARIABLES
    exists,     \* what there is
    path,       \* the directories of the active calls, outermost first
    last,       \* last[d]: the last name that was read from d
    batch,      \* batch[d]: names of the present batch still to be opened
    deferred,   \* deferred[d]: what the call for d closes when it returns
    open,       \* the files that are open
    list,       \* the variables found, each with how much of its value
    result,
    steady      \* history: what has been there all the time

kernel == <<exists, steady>>
vars == <<kernel, path, last, batch, deferred, open, list, result>>

TypeOK ==
    /\ exists \subseteq Node /\ steady \subseteq exists
    /\ path \in Seq(Dir)
    /\ last \in [Dir -> Int]
    /\ batch \in [Dir -> SUBSET Node]
    /\ deferred \in [Dir -> SUBSET Node]
    /\ open \subseteq Node
    /\ list \in Seq((Node \ Dir) \X {"whole", "part"})
    /\ result \in {"pending", "ok", "failed", "panic"}

Init ==
    /\ exists \in {s \in SUBSET Node : Root \in s}
    /\ steady = exists
    /\ path = <<Root>>
    /\ last = [d \in Dir |-> -1]
    /\ batch = [d \in Dir |-> {}]
    /\ deferred = [d \in Dir |-> IF d = Root THEN {Root} ELSE {}]
    /\ open = {Root}
    /\ list = <<>> /\ result = "pending"

Walking == result = "pending"
Current == path[Len(path)]
OnPath == {path[i] : i \in 1..Len(path)}
\* The names a directory that is still there has left to list.
Ahead == IF OnPath \subseteq exists
         THEN {n \in exists \ {Root} : Parent[n] = Current /\ n > last[Current]} ELSE {}

\* Mutant: names are read from the beginning of the directory.
Readdirnames_Rewinds ==
    /\ Walking /\ batch[Current] = {} /\ Ahead # {}
    /\ \E b \in SUBSET Ahead :
         /\ Cardinality(b) = IF Cardinality(Ahead) < BatchSize THEN Cardinality(Ahead) ELSE BatchSize
         /\ \A n \in b, m \in Ahead \ b : n < m
         /\ batch' = [batch EXCEPT ![Current] = b]
    /\ UNCHANGED <<kernel, path, last, deferred, open, list, result>>

\* procDir.Readdirnames(100).
Readdirnames ==
    /\ Walking /\ batch[Current] = {} /\ Ahead # {}
    /\ \E b \in SUBSET Ahead :
         /\ Cardinality(b) = IF Cardinality(Ahead) < BatchSize THEN Cardinality(Ahead) ELSE BatchSize
         /\ \A n \in b, m \in Ahead \ b : n < m
         /\ batch' = [batch EXCEPT ![Current] = b]
         /\ \E n \in b : (\A m \in b : m <= n) /\ last' = [last EXCEPT ![Current] = n]
    /\ UNCHANGED <<kernel, path, deferred, open, list, result>>

\* Mutant: what the call has opened is left to the garbage collector.
Return_ClosesLate ==
    /\ Walking /\ batch[Current] = {} /\ Ahead = {}
    /\ path' = SubSeq(path, 1, Len(path) - 1)
    /\ result' = IF Len(path) = 1 THEN "ok" ELSE result
    /\ open' = IF Len(path) = 1 THEN {} ELSE open
    /\ last' = [last EXCEPT ![Current] = -1]
    /\ UNCHANGED <<kernel, batch, deferred, list>>

\* Mutant: one batch of names is taken for the whole directory.
Return_OneBatch ==
    /\ Walking /\ batch[Current] = {} /\ (last[Current] # -1 \/ Ahead = {})
    /\ path' = SubSeq(path, 1, Len(path) - 1)
    /\ result' = IF Len(path) = 1 THEN "ok" ELSE result
    /\ open' = open \ deferred[Current]
    /\ deferred' = [deferred EXCEPT ![Current] = {}]
    /\ last' = [last EXCEPT ![Current] = -1]
    /\ UNCHANGED <<kernel, batch, list>>

\* io.EOF: the innermost call closes what it has opened and returns its list,
\* which the caller appends to its own.
Return ==
    /\ Walking /\ batch[Current] = {} /\ Ahead = {}
    /\ path' = SubSeq(path, 1, Len(path) - 1)
    /\ result' = IF Len(path) = 1 THEN "ok" ELSE result
    /\ open' = open \ deferred[Current]
    /\ deferred' = [deferred EXCEPT ![Current] = {}]
    /\ last' = [last EXCEPT ![Current] = -1]
    /\ UNCHANGED <<kernel, batch, list>>

\* Mutant: only the innermost call closes its files.
Unwind_InnermostOnly(r) ==
    /\ path' = <<>> /\ list' = <<>> /\ result' = r
    /\ open' = open \ deferred[Current]
    /\ last' = [d \in Dir |-> -1] /\ batch' = [d \in Dir |-> {}]
    /\ deferred' = [d \in Dir |-> {}]

\* Every active call returns the error, or is left by the panic; nothing that
\* was found is kept.
Unwind(r) ==
    /\ path' = <<>> /\ list' = <<>> /\ result' = r
    /\ open' = open \ UNION {deferred[d] : d \in OnPath}
    /\ last' = [d \in Dir |-> -1] /\ batch' = [d \in Dir |-> {}]
    /\ deferred' = [d \in Dir |-> {}]

ReaddirnamesFails ==
    /\ Walking /\ batch[Current] = {}
    /\ Unwind("failed")
    /\ UNCHANGED kernel

First(n) == Walking /\ n \in batch[Current] /\ \A m \in batch[Current] : n <= m
Taken(n) == batch' = [batch EXCEPT ![Current] = @ \ {n}]
Reachable(n) == n \in exists /\ OnPath \subseteq exists
Opened(n) ==
    /\ open' = open \cup {n}
    /\ deferred' = [deferred EXCEPT ![Current] = @ \cup {n}]

\* os.Open: "permission denied" is passed over ...
OpenDenied(n) ==
    /\ First(n) /\ Reachable(n) /\ n \in Denied
    /\ Taken(n)
    /\ UNCHANGED <<kernel, path, last, deferred, open, list, result>>

\* ... any other error ends the whole walk: the name has vanished, or the files
\* that are held have left no descriptor, or the kernel has reasons of its own.
OpenFails(n) ==
    /\ First(n)
    /\ Unwind("failed")
    /\ UNCHANGED kernel

\* A directory: walkVarsDir calls itself with the open file.
OpenDir(n) ==
    /\ First(n) /\ Reachable(n) /\ n \in Dir \ Denied
    /\ Taken(n) /\ Opened(n)
    /\ path' = Append(path, n)
    /\ UNCHANGED <<kernel, last, list, result>>

\* A regular file is read; an error of io.Copy goes unnoticed, as `err' is
\* tested and not `errCopy', and what was read until then is listed.
OpenFile(n) ==
    /\ First(n) /\ Reachable(n) /\ n \notin Dir \cup Denied
    /\ Taken(n) /\ Opened(n)
    /\ \/ /\ Kind[n] = "file"
          /\ \E v \in {"whole", "part"} : list' = Append(list, <<n, v>>)
       \/ Kind[n] = "special" /\ UNCHANGED list
    /\ UNCHANGED <<kernel, path, last, result>>

\* varFile.Stat fails: `err' is tested and not `errStat', and fileInfo is nil.
StatPanics(n) ==
    /\ First(n) /\ Reachable(n) /\ n \notin Denied
    /\ Unwind("panic")
    /\ UNCHANGED kernel

\* The kernel removes or adds a variable or a directory.
Churn ==
    /\ Walking
    /\ \E n \in Node \ {Root} : exists' \in {exists \ {n}, exists \cup {n}} \ {exists}
    /\ steady' = steady \cap exists'
    /\ UNCHANGED <<path, last, batch, deferred, open, list, result>>

Walk ==
    \/ Readdirnames \/ Return \/ ReaddirnamesFails
    \/ \E n \in Node : OpenDenied(n) \/ OpenFails(n) \/ OpenDir(n) \/ OpenFile(n) \/ StatPanics(n)

Next == Walk \/ Churn

Spec == Init /\ [][Next]_vars
\* The goroutine of the request keeps running.
FairSpec == Spec /\ WF_vars(Walk)

-----------------------------------------------------------------------------
(* Properties.                                                             *)

\* However the walk ends, by an error, by a panic or well, the deferred calls
\* have closed every file: none outlives its request.
ClosedAtEnd == ~Walking => open = {}

\* Only the files of directories that are being walked are held: those of a
\* directory that is done are closed before its next sibling is opened, so that
\* a walk never needs more descriptors than one branch of the tree has names.
OnlyPathHeld == open \subseteq {Root} \cup {n \in Node \ {Root} : Parent[n] \in OnPath}

\* What can be reached through directories that have been there all the time.
Certain ==
    UNION {g \in SUBSET (steady \ (Denied \ {Root})) :
             \A n \in g \ {Root} : Parent[n] \in g}
Listed(n) == {i \in 1..Len(list) : list[i][1] = n}

\* A variable that is there all the time, in directories that are, is listed by
\* a walk that succeeds, and only once, whatever is added and removed around it
\* and however the names fall into batches.
SteadyVariablesListed ==
    result = "ok" => \A n \in Certain : Kind[n] = "file" => Cardinality(Listed(n)) = 1

\* The walk ends although variables come and go for ever.
KernelWalkEnds == <>~Walking
=============================================================================
