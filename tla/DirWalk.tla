------------------------------ MODULE DirWalk ------------------------------
(***************************************************************************)
(* makeHostDirFilesInfoVerbose (sensor/verboseutils.go): the recursive     *)
(* listing of the PKI and of the CNI configuration directory, over a host  *)
(* file system that others change meanwhile and whose symbolic links may   *)
(* form loops.                                                             *)
(*                                                                         *)
(* Each active call is a frame of the stack and holds one open directory.  *)
(* Every system call is a step.  A name is a number, in the order that     *)
(* sort.Strings gives; a path is the sequence of names below the directory *)
(* of the first call.                                                      *)
(***************************************************************************)
EXTENDS Integers, SequencesExt

CONSTANTS
    Dir,                \* directories of the host
    Top,                \* the one that is listed
    Name,               \* names a directory may hold
    MaxRecursionDepth,  \* maxRecursionDepth (10 in the code)
    BatchSize,          \* names per Readdirnames (100 in the code)
    MaxEdits,           \* bound: changes to the file system during the walk
    MaxFaults           \* bound: I/O errors during the walk

File == "file"
Dangling == "dangling"  \* a link to nothing: listed, but stat fails
Gone == "gone"          \* no such entry

ASSUME WalkAssumption ==
    /\ Top \in Dir
    /\ {File, Dangling, Gone} \cap Dir = {}
    /\ Name \subseteq Nat /\ IsFiniteSet(Name)
    /\ MaxRecursionDepth \in Nat \ {0}
    /\ BatchSize \in Nat \ {0}
    /\ MaxEdits \in Nat /\ MaxFaults \in Nat

VARIABLES
    entry,    \* entry[d][a]: what name a of directory d leads to, links followed
    stack,    \* the active calls
    pc,       \* what the innermost call does next
    target,   \* the path it does it to
    out,      \* *fileInfos: the paths listed so far
    err,      \* TRUE when the first call returned an error
    edits,
    touched,  \* history: the entries that were changed
    failed    \* history: directories that could not be opened or read to the end

host == <<entry, edits, touched>>
vars == <<host, stack, pc, target, out, err, failed>>

Target == Dir \cup {File, Dangling, Gone}
Frame == [path : Seq(Name), dir : Dir, level : Nat, read : SUBSET Name, batch : SUBSET Name]

TypeOK ==
    /\ entry \in [Dir -> [Name -> Target]]
    /\ stack \in Seq(Frame)
    /\ pc \in {"open", "loop", "info", "done"}
    /\ target \in Seq(Name)
    /\ out \in Seq(Seq(Name))
    /\ err \in BOOLEAN
    /\ edits \in 0..MaxEdits
    /\ touched \subseteq Dir \X Name
    /\ failed \subseteq Seq(Name)
    /\ pc = "loop" => stack # <<>>

\* What the kernel finds at a path, going down from Top name by name.
At(tree, path) ==
    LET at[i \in 0..Len(path)] ==
          IF i = 0 THEN Top
          ELSE IF at[i - 1] \in Dir THEN tree[at[i - 1]][path[i]] ELSE Gone
    IN  at[Len(path)]
Resolve(path) == At(entry, path)

Init ==
    /\ entry \in [Dir -> [Name -> Target]]
    /\ stack = <<>> /\ pc = "open" /\ target = <<>>
    /\ out = <<>> /\ err = FALSE
    /\ edits = 0 /\ touched = {} /\ failed = {}

Current == stack[Len(stack)]
Update(frame) == stack' = [stack EXCEPT ![Len(stack)] = frame]
Goto(l) == pc' = l /\ UNCHANGED target

\* Mutant: an error of a nested call ends the whole walk.
Return_Propagates(frames, e) ==
    /\ stack' = IF e THEN <<>> ELSE frames
    /\ pc' = IF e \/ frames = <<>> THEN "done" ELSE "loop"
    /\ err' = (err \/ e)
    /\ UNCHANGED target

\* The innermost call returns.  Only the first call's error is looked at.
Return(frames, e) ==
    /\ stack' = frames
    /\ pc' = IF frames = <<>> THEN "done" ELSE "loop"
    /\ err' = (err \/ (e /\ frames = <<>>))
    /\ UNCHANGED target

\* os.Open fails at a path that is gone; at a file the first Readdirnames does.
Open ==
    /\ pc = "open"
    /\ \/ /\ Resolve(target) \in Dir
          /\ stack' = Append(stack, [path |-> target, dir |-> Resolve(target),
                                     level |-> IF stack = <<>> THEN 0 ELSE Current.level + 1,
                                     read |-> {}, batch |-> {}])
          /\ Goto("loop")
          /\ UNCHANGED err
       \/ Resolve(target) \notin Dir /\ Return(stack, TRUE)
    /\ UNCHANGED <<host, out, failed>>

\* Any other reason why a directory cannot be opened, or not be read on.
Fault ==
    /\ Cardinality(failed) < MaxFaults
    /\ \/ /\ pc = "open"
          /\ failed' = failed \cup {target}
          /\ Return(stack, TRUE)
       \/ /\ pc = "loop" /\ Current.batch = {}
          /\ failed' = failed \cup {Current.path}
          /\ Return(Front(stack), TRUE)
    /\ UNCHANGED <<host, out>>

Unread == {a \in Name \ Current.read : entry[Current.dir][a] # Gone}

\* dirInfo.Readdirnames(100): so many names, in no particular order.
Readdirnames ==
    /\ pc = "loop" /\ Current.batch = {} /\ Unread # {}
    /\ \E b \in SUBSET Unread :
         /\ Cardinality(b) = IF Cardinality(Unread) < BatchSize
                             THEN Cardinality(Unread) ELSE BatchSize
         /\ Update([Current EXCEPT !.batch = b, !.read = @ \cup b])
    /\ UNCHANGED <<host, pc, target, out, err, failed>>

\* Mutant: io.EOF is taken for one more empty batch.
EndOfDir_IgnoresEOF ==
    /\ pc = "loop" /\ Current.batch = {} /\ Unread = {}
    /\ UNCHANGED vars

\* io.EOF: the call returns, and its directory is closed.
EndOfDir ==
    /\ pc = "loop" /\ Current.batch = {} /\ Unread = {}
    /\ Return(Front(stack), FALSE)
    /\ UNCHANGED <<host, out, failed>>

\* Mutant: the batch is not sorted.
IsNext_Unsorted(a, batch) == TRUE

\* sort.Strings(fileNames): a batch is gone through in the order of the names.
IsNext(a, batch) == \A b \in batch : a <= b

\* Mutant: the depth is compared with the limit one level too late.
StepFor_OffByOne(at, level) ==
    CASE at \in {Gone, Dangling} -> "loop"
      [] at \in Dir -> IF level = MaxRecursionDepth THEN "loop" ELSE "open"
      [] OTHER -> "info"

\* What os.Stat says decides: an error, or a directory at the depth limit, is
\* skipped.  What a link leads to counts.  The parameter recursive decides
\* nothing: its test is the last statement of the loop.  What is found out about
\* a directory after its nested call is thrown away.
StepFor(at, level) ==
    CASE at \in {Gone, Dangling} -> "loop"
      [] at \in Dir -> IF level + 1 = MaxRecursionDepth THEN "loop" ELSE "open"
      [] OTHER -> "info"

Visit ==
    /\ pc = "loop"
    /\ \E a \in Current.batch :
         /\ IsNext(a, Current.batch)
         /\ Update([Current EXCEPT !.batch = @ \ {a}])
         /\ target' = Append(Current.path, a)
         /\ pc' = StepFor(Resolve(target'), Current.level)
    /\ UNCHANGED <<host, out, err, failed>>

\* makeHostFileInfoVerbose stats the path again, and gives nil if that fails.
Info ==
    /\ pc = "info"
    /\ Goto("loop")
    /\ out' = IF Resolve(target) \in {Gone, Dangling} THEN out ELSE Append(out, target)
    /\ UNCHANGED <<host, stack, err, failed>>

\* Somebody creates, removes or replaces an entry.
Edit(d, a) ==
    /\ pc # "done" /\ edits < MaxEdits
    /\ \E t \in Target \ {entry[d][a]} : entry' = [entry EXCEPT ![d][a] = t]
    /\ edits' = edits + 1
    /\ touched' = touched \cup {<<d, a>>}
    /\ UNCHANGED <<stack, pc, target, out, err, failed>>

Walk == Open \/ Fault \/ Readdirnames \/ EndOfDir \/ Visit \/ Info
Next == Walk \/ \E d \in Dir, a \in Name : Edit(d, a)

Spec == Init /\ [][Next]_vars
\* The goroutine of the request keeps running.
FairSpec == Spec /\ WF_vars(Walk)

-----------------------------------------------------------------------------
(* Properties.                                                             *)

\* Directories stay open until their call returns; however the links loop and
\* the tree changes underfoot, no more than maxRecursionDepth are open at once,
\* although the guard only tests for equality with the limit.
DescriptorsBounded == Len(stack) <= MaxRecursionDepth

Paths == UNION {[1..k -> Name] : k \in 1..MaxRecursionDepth}
Before(path, i) == SubSeq(path, 1, i - 1)

\* Every entry on the way has been there throughout the walk, and every
\* directory on the way could be read.
Stable(path) ==
    \A i \in DOMAIN path : /\ <<Resolve(Before(path, i)), path[i]>> \notin touched
                           /\ Before(path, i) \notin failed

\* "make a list of file infos for all the files inside it": a file that stays
\* where it is during the walk is listed exactly once, whatever else is added,
\* removed or replaced, and whichever other directory cannot be read.
StableFilesListedOnce ==
    pc = "done" => \A p \in Paths :
        Resolve(p) = File /\ Stable(p) => Cardinality({i \in DOMAIN out : out[i] = p}) = 1

Precedes(p, q) ==
    \E k \in DOMAIN p \cap DOMAIN q : p[k] < q[k] /\ \A j \in 1..(k - 1) : p[j] = q[j]

\* "add sorting to make tests deterministic": as long as one batch holds a whole
\* directory and none changes, the list is in the order of a depth-first walk by
\* name, whatever order the kernel gives.
ListedInOrder ==
    Cardinality(Name) <= BatchSize /\ edits = 0 =>
        \A i, j \in DOMAIN out : i < j => Precedes(out[i], out[j])

\* The walk ends, even where directories contain themselves through links.
WalkEnds == <>(pc = "done")
=============================================================================
