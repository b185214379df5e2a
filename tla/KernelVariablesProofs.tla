----------------------- MODULE KernelVariablesProofs -----------------------
(***************************************************************************)
(* walkVarsDir and its open files, for every tree, every batch size and    *)
(* every way in which the kernel changes the tree meanwhile.               *)
(*                                                                         *)
(* The invariant ties the open files to the deferred calls: what is open   *)
(* is what some active call will close, a call closes only its directory's *)
(* names, and a directory that is not being walked has nothing deferred.   *)
(* The last part follows what has been dealt with, to show that what is    *)
(* listed is what was there.                                               *)
(***************************************************************************)
EXTENDS KernelVariables, SequenceTheorems, FiniteSetTheorems, WellFoundedInduction, TLAPS

\* Root belongs to the call for Root (SenseKernelVariables opens and closes it).
Names(d) == {n \in Node \ {Root} : Parent[n] = d}
Held(d) == Names(d) \cup (IF d = Root THEN {Root} ELSE {})

FilesInv ==
    /\ open = UNION {deferred[d] : d \in Dir}
    /\ \A d \in Dir : /\ deferred[d] \subseteq Held(d)
                      /\ batch[d] \subseteq Names(d)
                      /\ deferred[d] # {} => d \in OnPath
    /\ Walking <=> path # <<>>

Inv == TypeOK /\ FilesInv

LEMMA HeldDisjoint ==
  ASSUME NEW d \in Dir, NEW e \in Dir, d # e
  PROVE  Held(d) \cap Held(e) = {}
  BY DEF Held, Names

\* The current directory is the last of the path, and one of the directories.
LEMMA CurrentDir ==
  ASSUME Inv, Walking
  PROVE  /\ Current \in Dir /\ Current \in OnPath
         /\ Len(path) \in Nat \ {0} /\ OnPath \subseteq Dir
  <1>1. path \in Seq(Dir) /\ path # <<>>
    BY DEF Inv, FilesInv, TypeOK
  <1>2. Len(path) \in Nat \ {0}
    BY <1>1, EmptySeq
  <1>3. \A i \in 1..Len(path) : path[i] \in Dir
    BY <1>1, ElementOfSeq
  <1> QED BY <1>2, <1>3 DEF Current, OnPath

LEMMA InitInv == Init => Inv
  <1> SUFFICES ASSUME Init PROVE Inv
    OBVIOUS
  <1> USE VariablesAssumption DEF Init
  <1>1. Root \in Dir /\ Root \in Node /\ OnPath = {Root} /\ path # <<>>
    BY DEF Dir, OnPath
  <1>2. TypeOK
    <2>1. path \in Seq(Dir) /\ list \in Seq((Node \ Dir) \X {"whole", "part"})
      BY <1>1
    <2>2. deferred \in [Dir -> SUBSET Node] /\ open \subseteq Node
      BY <1>1
    <2>3. last \in [Dir -> Int] /\ batch \in [Dir -> SUBSET Node]
      OBVIOUS
    <2>4. exists \subseteq Node /\ steady \subseteq exists
      OBVIOUS
    <2> QED BY <2>1, <2>2, <2>3, <2>4 DEF TypeOK
  <1>3. \A d \in Dir : deferred[d] = IF d = Root THEN {Root} ELSE {}
    OBVIOUS
  <1>4. FilesInv
    BY <1>1, <1>3 DEF FilesInv, Held, Walking
  <1> QED BY <1>2, <1>4 DEF Inv

LEMMA ReaddirnamesInv ==
  ASSUME Inv, Readdirnames
  PROVE  Inv'
  <1>1. Current \in Dir
    BY CurrentDir DEF Readdirnames
  <1>2. PICK b \in SUBSET Ahead : /\ batch' = [batch EXCEPT ![Current] = b]
                                  /\ \E m \in b : last' = [last EXCEPT ![Current] = m]
    BY DEF Readdirnames
  <1> PICK n \in b : last' = [last EXCEPT ![Current] = n]
    BY <1>2
  <1>3. b \subseteq Names(Current) /\ n \in Int /\ b \subseteq Node
    <2>1. Ahead \subseteq Names(Current) /\ Ahead \subseteq Node
      BY DEF Ahead, Names, Inv, TypeOK
    <2> QED BY <2>1, VariablesAssumption
  <1>4. UNCHANGED <<exists, steady, path, deferred, open, list, result>>
    BY DEF Readdirnames, kernel
  <1>5. TypeOK'
    BY <1>1, <1>2, <1>3, <1>4 DEF Inv, TypeOK
  <1>6. FilesInv'
    <2>1. \A d \in Dir : batch'[d] \subseteq Names(d)
      BY <1>1, <1>2, <1>3 DEF Inv, TypeOK, FilesInv
    <2>2. OnPath' = OnPath /\ Walking' = Walking
      BY <1>4 DEF OnPath, Walking
    <2> QED BY <1>4, <2>1, <2>2 DEF Inv, FilesInv, Held, Names
  <1> QED BY <1>5, <1>6 DEF Inv

LEMMA ReturnInv ==
  ASSUME Inv, Return
  PROVE  Inv'
  <1> DEFINE d == Current
  <1>1. d \in Dir /\ d = path[Len(path)] /\ Len(path) \in Nat \ {0} /\ path \in Seq(Dir)
    BY CurrentDir DEF Return, Current, Inv, TypeOK
  <1>2. /\ path' = SubSeq(path, 1, Len(path) - 1)
        /\ result' = IF Len(path) = 1 THEN "ok" ELSE result
        /\ result = "pending"
        /\ open' = open \ deferred[d]
        /\ deferred' = [deferred EXCEPT ![d] = {}]
        /\ last' = [last EXCEPT ![d] = -1]
        /\ UNCHANGED <<exists, steady, batch, list>>
    BY DEF Return, kernel, Walking
  <1>3. /\ path' \in Seq(Dir) /\ Len(path') = Len(path) - 1
        /\ \A i \in 1..(Len(path) - 1) : path'[i] = path[i]
    <2> DEFINE n == Len(path) - 1
    <2>1. n \in Nat /\ \A i \in 1..n : path[i] \in Dir
      BY <1>1
    <2>2. /\ SubSeq(path, 1, n) \in Seq(Dir)
          /\ Len(SubSeq(path, 1, n)) = IF 1 <= n THEN n - 1 + 1 ELSE 0
          /\ \A i \in 1..(n - 1 + 1) : SubSeq(path, 1, n)[i] = path[1 + i - 1]
      BY <2>1, SubSeqProperties
    <2>3. path' = SubSeq(path, 1, n)
      BY <1>2
    <2>4. n = Len(path) - 1
      OBVIOUS
    <2> HIDE DEF n
    <2>5. Len(path') = n /\ \A i \in 1..n : path'[i] = path[i]
      BY <2>1, <2>2, <2>3
    <2> QED BY <2>2, <2>3, <2>4, <2>5
  <1> HIDE DEF d
  <1>4. TypeOK'
    BY <1>1, <1>2, <1>3 DEF Inv, TypeOK
  <1>5. open' = UNION {deferred'[e] : e \in Dir}
    <2>1. deferred \in [Dir -> SUBSET Node] /\ open = UNION {deferred[e] : e \in Dir}
      BY DEF Inv, TypeOK, FilesInv
    <2>2. ASSUME NEW e \in Dir, e # d PROVE deferred[e] \cap deferred[d] = {}
      BY <1>1, <2>2, HeldDisjoint DEF Inv, FilesInv
    <2>3. ASSUME NEW n PROVE n \in open' <=> \E e \in Dir : n \in deferred'[e]
      BY <1>1, <1>2, <2>1, <2>2
    <2> QED BY <2>3
  <1>6. ASSUME NEW e \in Dir
        PROVE  /\ deferred'[e] \subseteq Held(e) /\ batch'[e] \subseteq Names(e)
               /\ deferred'[e] # {} => e \in OnPath'
    <2>1. deferred'[e] \subseteq deferred[e] /\ (e = d => deferred'[e] = {})
      BY <1>1, <1>2 DEF Inv, TypeOK
    <2>2. CASE e \in OnPath /\ e # d
      <3>1. PICK i \in 1..Len(path) : e = path[i]
        BY <2>2 DEF OnPath
      <3>2. i \in 1..(Len(path) - 1)
        BY <1>1, <2>2, <3>1
      <3> QED BY <1>1, <1>2, <1>3, <2>1, <3>1, <3>2 DEF OnPath, Inv, FilesInv
    <2> QED BY <1>2, <2>1, <2>2 DEF Inv, FilesInv
  <1>7. (Walking <=> path # <<>>)'
    <2>1. path' # <<>> <=> Len(path') # 0
      BY <1>3, EmptySeq
    <2> QED BY <1>1, <1>2, <1>3, <2>1 DEF Walking
  <1> QED BY <1>4, <1>5, <1>6, <1>7 DEF Inv, FilesInv, Held, Names

\* The deferred calls of all active calls leave nothing open.
LEMMA UnwindInv ==
  ASSUME Inv, NEW r \in {"failed", "panic"}, Unwind(r), UNCHANGED <<exists, steady>>
  PROVE  Inv'
  <1>1. open' = {}
    <2>1. ASSUME NEW n \in open PROVE \E d \in OnPath : n \in deferred[d]
      BY DEF Inv, FilesInv
    <2> QED BY <2>1 DEF Unwind
  <1>2. TypeOK'
    BY <1>1 DEF Unwind, Inv, TypeOK
  <1>3. FilesInv'
    BY <1>1 DEF Unwind, FilesInv, OnPath, Walking
  <1> QED BY <1>2, <1>3 DEF Inv

LEMMA OpenInv ==
  ASSUME Inv, NEW n \in Node, First(n), Taken(n),
         UNCHANGED <<exists, steady, last, result>>,
         path' \in {path, Append(path, n)}, path' # path => n \in Dir,
         \/ UNCHANGED <<deferred, open>>
         \/ Opened(n),
         list' \in Seq((Node \ Dir) \X {"whole", "part"})
  PROVE  Inv'
  <1> DEFINE d == Current
  <1>1. d \in Dir /\ d \in OnPath /\ path \in Seq(Dir)
    BY CurrentDir DEF First, Inv, TypeOK
  <1>2. n \in batch[d] /\ batch' = [batch EXCEPT ![d] = @ \ {n}]
    BY DEF First, Taken
  <1>3. n \in Names(d) /\ n \in Held(d)
    BY <1>1, <1>2 DEF Inv, FilesInv, Held
  <1>4. path' \in Seq(Dir) /\ OnPath \subseteq OnPath' /\ path' # <<>>
    <2>1. CASE path' = path
      BY <2>1, <1>1 DEF OnPath
    <2>2. CASE path' = Append(path, n) /\ n \in Dir
      BY <2>2, <1>1 DEF OnPath
    <2> QED BY <2>1, <2>2
  <1>5. \/ deferred' = deferred /\ open' = open
        \/ open' = open \cup {n} /\ deferred' = [deferred EXCEPT ![d] = @ \cup {n}]
    BY DEF Opened
  <1> HIDE DEF d
  <1>6. TypeOK'
    BY <1>1, <1>2, <1>4, <1>5 DEF Inv, TypeOK
  <1>7. open' = UNION {deferred'[e] : e \in Dir}
    <2>1. deferred \in [Dir -> SUBSET Node] /\ open = UNION {deferred[e] : e \in Dir}
      BY DEF Inv, TypeOK, FilesInv
    <2>2. CASE open' = open \cup {n} /\ deferred' = [deferred EXCEPT ![d] = @ \cup {n}]
      <3>1. ASSUME NEW m PROVE m \in open' <=> \E e \in Dir : m \in deferred'[e]
        BY <1>1, <2>1, <2>2
      <3> QED BY <3>1
    <2> QED BY <1>5, <2>1, <2>2
  <1>8. ASSUME NEW e \in Dir
        PROVE  /\ deferred'[e] \subseteq Held(e) /\ batch'[e] \subseteq Names(e)
               /\ deferred'[e] # {} => e \in OnPath'
    BY <1>1, <1>2, <1>3, <1>4, <1>5 DEF Inv, TypeOK, FilesInv
  <1>9. (Walking <=> path # <<>>)'
    BY <1>4 DEF First, Walking
  <1> QED BY <1>6, <1>7, <1>8, <1>9 DEF Inv, FilesInv, Held, Names

LEMMA StepInv == Inv /\ [Next]_vars => Inv'
  <1> SUFFICES ASSUME Inv, [Next]_vars PROVE Inv'
    OBVIOUS
  <1>1. CASE Readdirnames
    BY <1>1, ReaddirnamesInv
  <1>2. CASE Return
    BY <1>2, ReturnInv
  <1>3. CASE ReaddirnamesFails
    BY <1>3, UnwindInv DEF ReaddirnamesFails, kernel
  <1>4. ASSUME NEW n \in Node, OpenDenied(n) PROVE Inv'
    BY <1>4, OpenInv DEF OpenDenied, kernel, Inv, TypeOK
  <1>5. ASSUME NEW n \in Node, OpenFails(n) PROVE Inv'
    BY <1>5, UnwindInv DEF OpenFails, kernel, Inv, TypeOK
  <1>6. ASSUME NEW n \in Node, OpenDir(n) PROVE Inv'
    BY <1>6, OpenInv DEF OpenDir, kernel, Inv, TypeOK
  <1>7. ASSUME NEW n \in Node, OpenFile(n) PROVE Inv'
    <2>1. list' \in Seq((Node \ Dir) \X {"whole", "part"})
      <3>1. n \in Node \ Dir /\ list \in Seq((Node \ Dir) \X {"whole", "part"})
        BY <1>7 DEF OpenFile, Inv, TypeOK
      <3>2. list' = list \/ \E v \in {"whole", "part"} : list' = Append(list, <<n, v>>)
        BY <1>7 DEF OpenFile
      <3>3. \A v \in {"whole", "part"} : <<n, v>> \in (Node \ Dir) \X {"whole", "part"}
        BY <3>1
      <3> DEFINE Entry == (Node \ Dir) \X {"whole", "part"}
      <3> HIDE DEF Entry
      <3>4. \A v \in {"whole", "part"} : Append(list, <<n, v>>) \in Seq(Entry)
        BY <3>1, <3>3, AppendProperties DEF Entry
      <3>5. list' \in Seq(Entry)
        BY <3>1, <3>2, <3>4 DEF Entry
      <3> QED BY <3>5 DEF Entry
    <2> QED BY <1>7, <2>1, OpenInv DEF OpenFile, kernel
  <1>8. ASSUME NEW n \in Node, StatPanics(n) PROVE Inv'
    BY <1>8, UnwindInv DEF StatPanics, kernel
  <1>9. CASE Churn
    BY <1>9 DEF Churn, Inv, TypeOK, FilesInv, OnPath, Walking
  <1>10. CASE UNCHANGED vars
    <2>1. TypeOK'
      BY <1>10 DEF vars, kernel, Inv, TypeOK
    <2>2. OnPath' = OnPath /\ Walking' = Walking /\ UNCHANGED <<path, batch, deferred, open>>
      BY <1>10 DEF vars, OnPath, Walking
    <2> QED BY <2>1, <2>2 DEF Inv, FilesInv, Held, Names
  <1> QED BY <1>1, <1>2, <1>3, <1>4, <1>5, <1>6, <1>7, <1>8, <1>9, <1>10 DEF Next, Walk

\* The invariant holds throughout the walk.
THEOREM Invariance == Spec => []Inv
  BY InitInv, StepInv, PTL DEF Spec

\* The walk's state keeps its types, for every tree.
THEOREM TypeCorrect == Spec => []TypeOK
  <1>1. Inv => TypeOK
    BY DEF Inv
  <1> QED BY <1>1, Invariance, PTL

\* However walkVarsDir ends, on an error in a nested call and on a panic too, no
\* file it has opened outlives it.
THEOREM NothingLeftOpen == Spec => []ClosedAtEnd
  <1>1. Inv => ClosedAtEnd
    BY DEF Inv, FilesInv, OnPath, ClosedAtEnd
  <1> QED BY <1>1, Invariance, PTL

\* walkVarsDir holds no file of a directory it has finished.
THEOREM BranchHeld == Spec => []OnlyPathHeld
  <1>1. Inv => OnlyPathHeld
    BY DEF Inv, FilesInv, Held, Names, OnlyPathHeld
  <1> QED BY <1>1, Invariance, PTL

\* The nodes of the path, as it grows and shrinks.
LEMMA OnPathStep ==
  ASSUME Inv, Walking
  PROVE  /\ path' = SubSeq(path, 1, Len(path) - 1) => OnPath' \subseteq OnPath
         /\ \A n : path' = Append(path, n) => OnPath' = OnPath \cup {n}
<1>0. path \in Seq(Dir) /\ Len(path) \in Nat \ {0}
  BY CurrentDir DEF Inv, TypeOK
<1>1. ASSUME path' = SubSeq(path, 1, Len(path) - 1) PROVE OnPath' \subseteq OnPath
  <2> DEFINE n == Len(path) - 1
  <2>1. n \in Nat /\ n < Len(path) /\ \A i \in 1..n : path[i] \in Dir
    BY <1>0
  <2>2. /\ Len(SubSeq(path, 1, n)) = IF 1 <= n THEN n - 1 + 1 ELSE 0
        /\ \A i \in 1..(n - 1 + 1) : SubSeq(path, 1, n)[i] = path[1 + i - 1]
    BY <2>1, SubSeqProperties
  <2>3. path' = SubSeq(path, 1, n)
    BY <1>1
  <2> HIDE DEF n
  <2>4. Len(path') = n /\ \A i \in 1..n : path'[i] = path[i]
    BY <2>1, <2>2, <2>3
  <2> QED
    BY <1>0, <2>1, <2>4 DEF OnPath
<1>2. ASSUME NEW n, path' = Append(path, n) PROVE OnPath' = OnPath \cup {n}
  <2>1. /\ Len(path') = Len(path) + 1 /\ path'[Len(path) + 1] = n
        /\ \A i \in 1..Len(path) : path'[i] = path[i]
    BY <1>0, <1>2
  <2>2. 1..Len(path') = 1..Len(path) \cup {Len(path) + 1}
    BY <1>0, <2>1
  <2> QED
    BY <2>1, <2>2 DEF OnPath
<1> QED
  BY <1>1, <1>2

-----------------------------------------------------------------------------
(* What is listed.  B is the set of the names that have been taken from a  *)
(* batch and dealt with.  A directory that is being walked has its other   *)
(* steady names still ahead of it or in its batch; one that is done, and   *)
(* was there with all above it, has none left.                             *)

\* The path leads down from Root.
PathDown ==
    /\ path # <<>> => path[1] = Root
    /\ \A i, j \in 1..Len(path) : i < j => path[i] < path[j]
    /\ \A i, j \in 1..Len(path) : j = i + 1 => path[j] \in Names(path[i])

Entered(B) ==
    /\ B \subseteq Node \ {Root}
    /\ \A n \in B : Parent[n] \in B \cup {Root}
    /\ OnPath \subseteq B \cup {Root}
\* The name n of a directory d that is being walked.
Remains(B, d, n) ==
    /\ n \in B => n <= last[d] /\ n \notin batch[d]
    /\ n \in steady \ B => n > last[d] \/ n \in batch[d]
    /\ n \in batch[d] => n <= last[d]
Remaining(B) == \A d \in OnPath : \A n \in Names(d) : Remains(B, d, n)
Untouched == \A d \in Dir \ OnPath : last[d] = -1 /\ batch[d] = {}
Finished(B) ==
    \A d \in (Certain \cap (B \cup {Root})) \ OnPath : Names(d) \cap steady \subseteq B
Visited(B) == Entered(B) /\ Remaining(B) /\ Untouched /\ Finished(B)

\* The list has each regular file in B that may be read, once, and no other.
Lists(B) ==
    /\ \A i \in 1..Len(list) : list[i][1] \in B
    /\ \A i, j \in 1..Len(list) : list[i][1] = list[j][1] => i = j
    /\ \A n \in B \ Denied : Kind[n] = "file" => \E i \in 1..Len(list) : list[i][1] = n

ListInv ==
    result \in {"pending", "ok"} =>
        PathDown /\ \E B \in SUBSET Node : Visited(B) /\ Lists(B)

LEMMA LeastOf ==
  ASSUME NEW T, T \subseteq Nat, T # {}
  PROVE  \E x \in T : \A y \in T : x <= y
<1>1. \E x \in T : \A y \in T : ~ (<<y, x>> \in OpToRel(<, Nat))
  BY NatLessThanWellFounded, WFMin, Zenon
<1>2. ASSUME NEW x \in Nat, NEW y \in Nat, <<y, x>> \notin OpToRel(<, Nat) PROVE x <= y
  <2>1. ~(y < x)
    BY <1>2, Zenon DEF OpToRel
  <2> QED
    BY <2>1
<1> QED
  BY <1>1, <1>2

\* Below what is certain everything above is certain too.
LEMMA CertainClosed ==
  ASSUME NEW n \in Certain, n # Root
  PROVE  n \in steady /\ n \notin Denied /\ Parent[n] \in Certain
<1>1. PICK g \in SUBSET (steady \ (Denied \ {Root})) :
        n \in g /\ \A m \in g \ {Root} : Parent[m] \in g
  BY DEF Certain
<1> QED
  BY <1>1 DEF Certain

LEMMA CertainShrinks ==
  ASSUME steady' \subseteq steady
  PROVE  Certain' \subseteq Certain
<1> SUFFICES ASSUME NEW n \in Certain' PROVE n \in Certain
  OBVIOUS
<1>1. PICK g \in SUBSET (steady' \ (Denied \ {Root})) :
        n \in g /\ \A m \in g \ {Root} : Parent[m] \in g
  BY DEF Certain
<1>2. g \in SUBSET (steady \ (Denied \ {Root}))
  BY <1>1
<1> QED
  BY <1>1, <1>2 DEF Certain

\* A certain directory is reached through certain ones.
LEMMA CertainPath ==
  ASSUME Inv, PathDown, Walking, Current \in Certain
  PROVE  OnPath \subseteq Certain /\ OnPath \subseteq exists
<1>0. path \in Seq(Dir) /\ Len(path) \in Nat \ {0} /\ steady \subseteq exists /\ Root \in Node
  BY CurrentDir, VariablesAssumption DEF Inv, TypeOK, Dir
<1> DEFINE N == Len(path)
           T == {k \in Nat : k < N /\ path[N - k] \notin Certain}
<1>1. T = {}
  <2> SUFFICES ASSUME T # {} PROVE FALSE
    OBVIOUS
  <2>1. PICK k \in T : \A l \in T : k <= l
    BY LeastOf
  <2>2. k # 0
    BY <2>1 DEF Current
  <2>3. k - 1 \in Nat /\ k - 1 < N /\ k - 1 \notin T
    BY <1>0, <2>1, <2>2
  <2> DEFINE i == N - k
             j == N - (k - 1)
  <2>4. i \in 1..N /\ j \in 1..N /\ j = i + 1
    BY <1>0, <2>1, <2>3
  <2>5. path[j] \in Certain /\ path[i] \notin Certain
    BY <2>1, <2>3
  <2> HIDE DEF i, j, T
  <2>6. path[j] \in Names(path[i])
    BY <2>4 DEF PathDown
  <2>7. Parent[path[j]] = path[i] /\ path[j] # Root
    BY <2>6 DEF Names
  <2> QED
    BY <2>5, <2>7, CertainClosed
<1>2. ASSUME NEW i \in 1..N PROVE path[i] \in Certain
  <2>1. N - i \in Nat /\ N - i < N /\ N - (N - i) = i
    BY <1>0
  <2> QED
    BY <1>1, <2>1
<1>3. OnPath \subseteq Certain
  BY <1>2 DEF OnPath
<1>4. Certain \subseteq steady
  BY DEF Certain
<1> QED
  BY <1>0, <1>3, <1>4

LEMMA ListInit == Init => ListInv
<1> SUFFICES ASSUME Init PROVE ListInv
  OBVIOUS
<1>1. path = <<Root>> /\ OnPath = {Root} /\ Len(path) = 1 /\ list = <<>>
      /\ last = [d \in Dir |-> -1] /\ batch = [d \in Dir |-> {}]
  BY DEF Init, OnPath
<1>2. PathDown
  BY <1>1 DEF PathDown
<1>3. Root \in Dir /\ Node \subseteq Nat
  BY VariablesAssumption
<1>4. Visited({})
  <2>1. Entered({}) /\ Untouched
    BY <1>1 DEF Entered, Untouched
  <2>2. Remaining({})
    <3> SUFFICES ASSUME NEW n \in Names(Root) PROVE Remains({}, Root, n)
      BY <1>1 DEF Remaining
    <3>1. n \in Nat /\ last[Root] = -1 /\ batch[Root] = {}
      BY <1>1, <1>3 DEF Names
    <3> QED
      BY <3>1 DEF Remains
  <2>3. Finished({})
    BY <1>1 DEF Finished
  <2> QED
    BY <2>1, <2>2, <2>3 DEF Visited
<1>5. Lists({})
  BY <1>1 DEF Lists
<1> QED
  BY <1>2, <1>4, <1>5 DEF ListInv

\* What the steps of the walk have in common.
LEMMA WalkFacts ==
  ASSUME Inv, Walking
  PROVE  /\ Node \subseteq Nat /\ Root \in Dir /\ Dir \subseteq Node
         /\ path \in Seq(Dir) /\ Len(path) \in Nat \ {0} /\ path # <<>>
         /\ Current \in Dir /\ Current \in OnPath /\ OnPath \subseteq Dir
         /\ last \in [Dir -> Int] /\ batch \in [Dir -> SUBSET Node]
         /\ steady \subseteq exists /\ exists \subseteq Node
         /\ \A d \in Dir : batch[d] \subseteq Names(d)
         /\ \A n \in Node \ {Root} : Parent[n] \in Dir /\ Parent[n] < n
  BY CurrentDir, VariablesAssumption DEF Inv, TypeOK, FilesInv, Dir

LEMMA ListReaddirnames ==
  ASSUME Inv, PathDown, NEW B, Visited(B), Lists(B), Readdirnames
  PROVE  PathDown' /\ Visited(B)' /\ Lists(B)'
<1>1. /\ UNCHANGED <<exists, steady, path, list, result>> /\ Walking
      /\ batch[Current] = {} /\ Ahead # {}
  BY DEF Readdirnames, kernel
<1>2. PICK b \in SUBSET Ahead, m \in Node :
        /\ \A n \in b, k \in Ahead \ b : n < k
        /\ batch' = [batch EXCEPT ![Current] = b]
        /\ m \in b /\ (\A k \in b : k <= m) /\ last' = [last EXCEPT ![Current] = m]
  <2>1. Ahead \subseteq Node
    BY DEF Ahead, Inv, TypeOK
  <2> QED
    BY <2>1 DEF Readdirnames
<1>3. Ahead = {n \in exists \ {Root} : Parent[n] = Current /\ n > last[Current]}
  BY <1>1 DEF Ahead
<1>4. OnPath' = OnPath /\ Certain' = Certain
  BY <1>1 DEF OnPath, Certain
<1>5. PathDown' /\ Lists(B)' /\ Entered(B)' /\ Finished(B)'
  BY <1>1, <1>4 DEF PathDown, Lists, Visited, Entered, Finished
<1>6. \A d \in Dir : d # Current => batch'[d] = batch[d] /\ last'[d] = last[d]
  BY <1>1, <1>2, WalkFacts
<1>7. batch'[Current] = b /\ last'[Current] = m
  BY <1>1, <1>2, WalkFacts
<1>8. Untouched'
  BY <1>1, <1>4, <1>6, WalkFacts DEF Visited, Untouched
<1>9. Remaining(B)'
  <2> SUFFICES ASSUME NEW d \in OnPath, NEW n \in Names(d) PROVE Remains(B, d, n)'
    BY <1>4 DEF Remaining, Names
  <2>0. Remains(B, d, n) /\ d \in Dir /\ n \in Nat /\ n \in Node \ {Root} /\ Parent[n] = d
    BY <1>1, WalkFacts DEF Visited, Remaining, Names
  <2>1. CASE d # Current
    BY <1>1, <1>6, <2>0, <2>1 DEF Remains
  <2>2. CASE d = Current
    <3>1. last[d] \in Int /\ m \in Nat /\ m > last[d]
      BY <1>1, <1>2, <1>3, <2>0, <2>2, WalkFacts
    <3>2. n \in B => n <= last[d]
      BY <2>0 DEF Remains
    <3>3. n \in B => n <= m /\ n \notin b
      BY <1>2, <1>3, <2>0, <2>2, <3>1, <3>2
    <3>4. n \in steady \ B => n \in Ahead
      BY <1>1, <1>3, <2>0, <2>2, WalkFacts DEF Remains
    <3>5. n \in steady \ B => n > m \/ n \in b
      BY <1>2, <3>4
    <3>6. n \in b => n <= m
      BY <1>2
    <3> QED
      BY <1>1, <1>7, <2>2, <3>3, <3>5, <3>6 DEF Remains
  <2> QED
    BY <2>1, <2>2
<1> QED
  BY <1>5, <1>8, <1>9 DEF Visited

\* A directory at its end, if it is certain, has no steady name left.
LEMMA ListReturn ==
  ASSUME Inv, PathDown, NEW B, Visited(B), Lists(B), Return
  PROVE  PathDown' /\ Visited(B)' /\ Lists(B)'
<1> DEFINE n == Len(path) - 1
<1>1. /\ UNCHANGED <<exists, steady, list, batch>> /\ Walking
      /\ batch[Current] = {} /\ Ahead = {}
      /\ path' = SubSeq(path, 1, n) /\ last' = [last EXCEPT ![Current] = -1]
  BY DEF Return, kernel
<1>2. n \in Nat /\ \A i \in 1..n : path[i] \in Dir
  BY <1>1, WalkFacts
<1>3. Len(path') = n /\ \A i \in 1..n : path'[i] = path[i]
  <2>1. /\ Len(SubSeq(path, 1, n)) = IF 1 <= n THEN n - 1 + 1 ELSE 0
        /\ \A i \in 1..(n - 1 + 1) : SubSeq(path, 1, n)[i] = path[1 + i - 1]
    BY <1>2, SubSeqProperties
  <2> HIDE DEF n
  <2> QED
    BY <1>1, <1>2, <2>1
<1>4. PathDown'
  <2>1. path' # <<>> => n # 0
    <3>1. path' \in Seq(Dir)
      BY <1>1, <1>2, SubSeqProperties
    <3> QED
      BY <1>3, <3>1, EmptySeq
  <2>2. path # <<>> /\ 1..n \subseteq 1..Len(path) /\ (n # 0 => 1 \in 1..n)
    <3>1. path # <<>> /\ n < Len(path) /\ Len(path) \in Nat
      BY <1>1, WalkFacts
    <3> HIDE DEF n
    <3> QED
      BY <1>2, <3>1
  <2> HIDE DEF n
  <2> QED
    BY <1>3, <2>1, <2>2 DEF PathDown, Names
<1>5. OnPath' = OnPath \ {Current}
  <2>1. 1..Len(path) = (1..n) \cup {Len(path)} /\ Len(path) \notin 1..n
    BY <1>1, WalkFacts
  <2>2. \A i \in 1..n : path[i] # path[Len(path)]
    <3> SUFFICES ASSUME NEW i \in 1..n PROVE path[i] # path[Len(path)]
      OBVIOUS
    <3>1. i \in 1..Len(path) /\ Len(path) \in 1..Len(path) /\ i < Len(path)
      BY <1>1, <1>2, WalkFacts
    <3>2. path[i] < path[Len(path)]
      BY <3>1 DEF PathDown
    <3>3. path[i] \in Dir /\ path[Len(path)] \in Dir /\ Dir \subseteq Nat
      BY <1>1, <1>2, WalkFacts
    <3>4. path[i] \in Nat /\ path[Len(path)] \in Nat
      BY <3>3
    <3> QED
      BY <3>2, <3>4
  <2> HIDE DEF n
  <2> QED
    BY <1>3, <2>1, <2>2 DEF OnPath, Current
<1>6. Certain' = Certain
  BY <1>1 DEF Certain
<1>7. \A d \in Dir : last'[d] = IF d = Current THEN -1 ELSE last[d]
  BY <1>1, WalkFacts
<1>8. Entered(B)' /\ Lists(B)'
  BY <1>1, <1>5 DEF Visited, Entered, Lists
<1>9. Untouched'
  BY <1>1, <1>5, <1>7 DEF Visited, Untouched
<1>10. Remaining(B)'
  BY <1>1, <1>5, <1>7, WalkFacts DEF Visited, Remaining, Remains, Names
<1>11. Finished(B)'
  <2> SUFFICES ASSUME NEW d \in (Certain \cap (B \cup {Root})) \ OnPath', NEW k \in Names(d),
                      k \in steady
               PROVE  k \in B
    BY <1>1, <1>6 DEF Finished, Names
  <2>1. CASE d # Current
    BY <1>5, <2>1 DEF Visited, Finished
  <2>2. CASE d = Current
    <3> SUFFICES ASSUME k \notin B PROVE FALSE
      OBVIOUS
    <3>1. OnPath \subseteq exists
      BY <1>1, <2>2, CertainPath
    <3>2. k > last[Current]
      BY <1>1, <2>2, WalkFacts DEF Visited, Remaining, Remains
    <3>3. k \in Ahead
      BY <1>1, <2>2, <3>1, <3>2, WalkFacts DEF Ahead, Names
    <3> QED
      BY <1>1, <3>3
  <2> QED
    BY <2>1, <2>2
<1> QED
  BY <1>4, <1>8, <1>9, <1>10, <1>11 DEF Visited

\* The next name of the batch is dealt with; a directory that may be opened is
\* entered.
LEMMA TakenVisited ==
  ASSUME Inv, PathDown, NEW B, Visited(B), NEW n \in Node, First(n), Taken(n),
         UNCHANGED <<exists, steady, last>>,
         \/ path' = path /\ (n \notin Dir \/ n \in Denied)
         \/ path' = Append(path, n) /\ n \in Dir
  PROVE  PathDown' /\ Visited(B \cup {n})' /\ n \notin B
<1> DEFINE C == Current
<1>1. Walking /\ n \in batch[C] /\ batch' = [batch EXCEPT ![C] = @ \ {n}] /\ C \in Dir
      /\ C \in OnPath
  BY WalkFacts DEF First, Taken
<1>2. n \in Names(C) /\ n # Root /\ Parent[n] = C /\ C < n
  BY <1>1, WalkFacts DEF Names
<1>3. n \notin B /\ n <= last[C]
  BY <1>1, <1>2 DEF Visited, Remaining, Remains
<1>4. n \notin OnPath /\ C \in B \cup {Root}
  BY <1>1, <1>2, <1>3 DEF Visited, Entered
<1>5. Certain' = Certain /\ C = path[Len(path)]
  BY DEF Certain, Current
<1>6. \A d \in Dir : batch'[d] = IF d = C THEN batch[d] \ {n} ELSE batch[d]
  BY <1>1, WalkFacts
<1> HIDE DEF C
<1>7. \/ path' = path /\ OnPath' = OnPath /\ (n \notin Dir \/ n \in Denied)
      \/ path' = Append(path, n) /\ OnPath' = OnPath \cup {n} /\ n \in Dir
  BY <1>1, OnPathStep DEF OnPath
<1>8. PathDown'
  <2>1. CASE path' = path
    BY <2>1 DEF PathDown, Names
  <2>2. CASE path' = Append(path, n)
    <3> DEFINE N == Len(path)
    <3>1. N \in Nat \ {0} /\ path[N] = C /\ \A i \in 1..N : path[i] \in Nat
      <4>1. path \in Seq(Dir) /\ N \in Nat \ {0} /\ Dir \subseteq Nat
        BY <1>1, WalkFacts
      <4>2. \A i \in 1..N : path[i] \in Dir
        BY <4>1, ElementOfSeq
      <4>3. \A i \in 1..N : path[i] \in Nat
        BY <4>1, <4>2
      <4> QED
        BY <1>5, <4>1, <4>3
    <3>2. Len(path') = N + 1 /\ path'[N + 1] = n /\ \A i \in 1..N : path'[i] = path[i]
      BY <1>1, <2>2, WalkFacts
    <3>3. path[1] = Root /\ 1 \in 1..N
      BY <1>1, <3>1, WalkFacts DEF PathDown
    <3>4. \A i \in 1..N : path[i] <= C
      <4> SUFFICES ASSUME NEW i \in 1..N, i # N PROVE path[i] <= C
        BY <3>1
      <4>1. i < N /\ N \in 1..N
        BY <3>1
      <4>2. path[i] < path[N]
        BY <4>1 DEF PathDown
      <4> QED
        BY <3>1, <4>1, <4>2
    <3>5. n \in Nat /\ C \in Nat
      BY <1>1, WalkFacts
    <3>6. \A i, j \in 1..N : /\ i < j => path[i] < path[j]
                             /\ j = i + 1 => path[j] \in Names(path[i])
      BY DEF PathDown
    <3> HIDE DEF N
    <3>7. \A i, j \in 1..(N + 1) : i < j => path'[i] < path'[j]
      <4> SUFFICES ASSUME NEW i \in 1..(N + 1), NEW j \in 1..(N + 1), i < j
                   PROVE  path'[i] < path'[j]
        OBVIOUS
      <4>1. i \in 1..N
        BY <3>1
      <4>2. CASE j = N + 1
        BY <1>2, <3>1, <3>2, <3>4, <3>5, <4>1, <4>2
      <4>3. CASE j # N + 1
        <5>1. j \in 1..N
          BY <3>1, <4>3
        <5> QED
          BY <3>2, <3>6, <4>1, <5>1
      <4> QED
        BY <4>2, <4>3
    <3>8. \A i, j \in 1..(N + 1) : j = i + 1 => path'[j] \in Names(path'[i])
      <4> SUFFICES ASSUME NEW i \in 1..(N + 1), NEW j \in 1..(N + 1), j = i + 1
                   PROVE  path'[j] \in Names(path'[i])
        OBVIOUS
      <4>1. i \in 1..N
        BY <3>1
      <4>2. CASE j = N + 1
        <5>1. i = N
          BY <3>1, <4>2
        <5> QED
          BY <1>2, <3>1, <3>2, <4>1, <4>2, <5>1
      <4>3. CASE j # N + 1
        <5>1. j \in 1..N
          BY <3>1, <4>3
        <5> QED
          BY <3>2, <3>6, <4>1, <5>1
      <4> QED
        BY <4>2, <4>3
    <3> QED
      BY <3>2, <3>3, <3>7, <3>8 DEF PathDown, Names
  <2> QED
    BY <1>7, <2>1, <2>2
<1>9. Entered(B \cup {n})'
  BY <1>2, <1>4, <1>7 DEF Visited, Entered
<1>10. ASSUME n \in Dir, n \notin OnPath
       PROVE  last[n] = -1 /\ batch[n] = {} /\ n # C /\ Names(n) \cap B = {} /\ n \notin Names(n)
  <2>1. last[n] = -1 /\ batch[n] = {} /\ n # C
    BY <1>1, <1>10 DEF Visited, Untouched
  <2>2. Names(n) \cap B = {}
    BY <1>2, <1>3 DEF Visited, Entered, Names
  <2>3. n \notin Names(n)
    BY <1>1, WalkFacts DEF Names
  <2> QED
    BY <2>1, <2>2, <2>3
<1>11. Untouched'
  BY <1>1, <1>6, <1>7 DEF Visited, Untouched
<1>12. Remaining(B \cup {n})'
  <2> SUFFICES ASSUME NEW d \in OnPath', NEW k \in Names(d) PROVE Remains(B \cup {n}, d, k)'
    BY DEF Remaining, Names
  <2>0. d \in Dir /\ k \in Nat /\ last'[d] = last[d]
    BY <1>1, <1>7, WalkFacts DEF Names
  <2>1. CASE d \in OnPath
    <3>1. Remains(B, d, k) /\ (k = n => d = C)
      BY <1>2, <2>1 DEF Visited, Remaining, Names
    <3> QED
      BY <1>3, <1>6, <2>0, <3>1 DEF Remains
  <2>2. CASE d \notin OnPath
    <3>1. d = n
      BY <1>7, <2>2
    <3>2. last[d] = -1 /\ batch'[d] = {} /\ k \notin B /\ k # n
      BY <1>6, <1>10, <2>0, <2>2, <3>1
    <3> QED
      BY <2>0, <3>1, <3>2 DEF Remains
  <2> QED
    BY <2>1, <2>2
<1>13. Finished(B \cup {n})'
  <2> SUFFICES ASSUME NEW d \in (Certain \cap (B \cup {n, Root})) \ OnPath'
               PROVE  Names(d) \cap steady \subseteq B \cup {n}
    BY <1>5 DEF Finished, Names
  <2>1. CASE d # n
    BY <1>7, <2>1 DEF Visited, Finished
  <2>2. CASE d = n
    <3>1. n \notin Denied
      BY <1>2, <2>2, CertainClosed
    <3>2. n \notin Dir
      BY <1>7, <2>2, <3>1
    <3>3. Names(n) = {}
      <4>1. \A k \in Node \ {Root} : Parent[k] \in Dir
        BY <1>1, WalkFacts
      <4> QED
        BY <3>2, <4>1 DEF Names
    <3> QED
      BY <2>2, <3>3
  <2> QED
    BY <2>1, <2>2
<1> QED
  BY <1>3, <1>8, <1>9, <1>11, <1>12, <1>13 DEF Visited

\* A name that is no file, or may not be read, adds nothing to the list ...
LEMMA TakenUnlisted ==
  ASSUME NEW B, NEW n, Lists(B), n \in Denied \/ Kind[n] # "file", UNCHANGED list
  PROVE  Lists(B \cup {n})'
<1>1. \A i \in 1..Len(list) : list[i][1] \in B \cup {n}
  BY DEF Lists
<1>2. \A i, j \in 1..Len(list) : list[i][1] = list[j][1] => i = j
  BY DEF Lists
<1>3. ASSUME NEW m \in (B \cup {n}) \ Denied, Kind[m] = "file"
      PROVE  \E i \in 1..Len(list) : list[i][1] = m
  BY <1>3 DEF Lists
<1> QED
  BY <1>1, <1>2, <1>3 DEF Lists

\* ... a file one entry, as it has none yet.
LEMMA TakenListed ==
  ASSUME NEW B, NEW n, Lists(B), n \notin B, NEW v, list' = Append(list, <<n, v>>),
         NEW S, list \in Seq(S)
  PROVE  Lists(B \cup {n})'
<1> DEFINE N == Len(list)
<1>1. /\ N \in Nat /\ Len(list') = N + 1 /\ list'[N + 1] = <<n, v>>
      /\ \A i \in 1..N : list'[i] = list[i]
  OBVIOUS
<1>2. /\ \A i \in 1..N : list[i][1] \in B
      /\ \A i, j \in 1..N : list[i][1] = list[j][1] => i = j
      /\ \A m \in B \ Denied : Kind[m] = "file" => \E i \in 1..N : list[i][1] = m
  BY DEF Lists
<1>3. <<n, v>>[1] = n
  OBVIOUS
<1> HIDE DEF N
<1>4. \A i \in 1..(N + 1) : IF i = N + 1 THEN list'[i][1] = n
                            ELSE i \in 1..N /\ list'[i][1] = list[i][1] /\ list'[i][1] # n
  <2> SUFFICES ASSUME NEW i \in 1..(N + 1)
               PROVE  IF i = N + 1 THEN list'[i][1] = n
                      ELSE i \in 1..N /\ list'[i][1] = list[i][1] /\ list'[i][1] # n
    OBVIOUS
  <2>1. CASE i = N + 1
    BY <1>1, <1>3, <2>1
  <2>2. CASE i # N + 1
    <3>1. i \in 1..N
      BY <1>1, <2>2
    <3> QED
      BY <1>1, <1>2, <2>2, <3>1
  <2> QED
    BY <2>1, <2>2
<1>5. \A i \in 1..(N + 1) : list'[i][1] \in B \cup {n}
  BY <1>2, <1>4
<1>6. \A i, j \in 1..(N + 1) : list'[i][1] = list'[j][1] => i = j
  BY <1>2, <1>4
<1>7. ASSUME NEW m \in (B \cup {n}) \ Denied, Kind[m] = "file"
      PROVE  \E i \in 1..(N + 1) : list'[i][1] = m
  <2>1. CASE m = n
    <3>1. N + 1 \in 1..(N + 1)
      BY <1>1
    <3> QED
      BY <1>1, <1>3, <2>1, <3>1
  <2>2. CASE m \in B
    <3>1. PICK i \in 1..N : list[i][1] = m
      BY <1>2, <1>7, <2>2
    <3>2. i \in 1..(N + 1)
      BY <1>1
    <3> QED
      BY <1>1, <3>1, <3>2
  <2> QED
    BY <2>1, <2>2
<1> QED
  BY <1>1, <1>5, <1>6, <1>7 DEF Lists

LEMMA ListStep == Inv /\ ListInv /\ [Next]_vars => ListInv'
<1> SUFFICES ASSUME Inv, ListInv, [Next]_vars, result' \in {"pending", "ok"}
             PROVE  PathDown' /\ \E B \in SUBSET Node : Visited(B)' /\ Lists(B)'
  BY DEF ListInv
<1>1. result \in {"pending", "ok"}
  <2>1. CASE Walking
    BY <2>1 DEF Walking
  <2>2. CASE ~Walking
    BY <2>2 DEF Next, Walk, Readdirnames, Return, ReaddirnamesFails, OpenDenied, OpenFails, OpenDir,
                OpenFile, StatPanics, First, Churn, vars
  <2> QED
    BY <2>1, <2>2
<1>2. PICK B \in SUBSET Node : PathDown /\ Visited(B) /\ Lists(B)
  BY <1>1 DEF ListInv
<1>3. CASE Readdirnames
  BY <1>2, <1>3, ListReaddirnames
<1>4. CASE Return
  BY <1>2, <1>4, ListReturn
<1>5. ASSUME NEW r \in {"failed", "panic"}, Unwind(r) PROVE FALSE
  BY <1>5 DEF Unwind
<1>6. ~ReaddirnamesFails /\ \A n \in Node : ~OpenFails(n) /\ ~StatPanics(n)
  BY <1>5 DEF ReaddirnamesFails, OpenFails, StatPanics
<1>7. ASSUME NEW n \in Node, PathDown' /\ Visited(B \cup {n})' /\ Lists(B \cup {n})'
      PROVE  PathDown' /\ \E A \in SUBSET Node : Visited(A)' /\ Lists(A)'
  <2>1. B \cup {n} \in SUBSET Node
    OBVIOUS
  <2> QED
    BY <1>7, <2>1
<1>8. ASSUME NEW n \in Node, OpenDenied(n)
      PROVE  PathDown' /\ Visited(B \cup {n})' /\ Lists(B \cup {n})'
  <2>1. UNCHANGED <<exists, steady, last, path, list>> /\ First(n) /\ Taken(n) /\ n \in Denied
    BY <1>8 DEF OpenDenied, kernel
  <2> QED
    BY <1>2, <2>1, TakenVisited, TakenUnlisted
<1>9. ASSUME NEW n \in Node, OpenDir(n)
      PROVE  PathDown' /\ Visited(B \cup {n})' /\ Lists(B \cup {n})'
  <2>1. /\ UNCHANGED <<exists, steady, last, list>> /\ First(n) /\ Taken(n)
        /\ path' = Append(path, n) /\ n \in Dir /\ Kind[n] # "file"
    BY <1>9 DEF OpenDir, kernel, Dir
  <2> QED
    BY <1>2, <2>1, TakenVisited, TakenUnlisted
<1>10. ASSUME NEW n \in Node, OpenFile(n)
       PROVE  PathDown' /\ Visited(B \cup {n})' /\ Lists(B \cup {n})'
  <2>1. /\ UNCHANGED <<exists, steady, last, path>> /\ First(n) /\ Taken(n) /\ n \notin Dir
    BY <1>10 DEF OpenFile, kernel
  <2>2. PathDown' /\ Visited(B \cup {n})' /\ n \notin B
    BY <1>2, <2>1, TakenVisited
  <2>3. CASE Kind[n] # "file"
    <3>1. UNCHANGED list
      BY <1>10, <2>3 DEF OpenFile
    <3> QED
      BY <1>2, <2>2, <2>3, <3>1, TakenUnlisted
  <2>4. CASE \E v \in {"whole", "part"} : list' = Append(list, <<n, v>>)
    <3>1. list \in Seq((Node \ Dir) \X {"whole", "part"})
      BY DEF Inv, TypeOK
    <3> QED
      BY <1>2, <2>2, <2>4, <3>1, TakenListed
  <2> QED
    BY <1>10, <2>2, <2>3, <2>4 DEF OpenFile
<1>11. CASE Churn
  <2>1. UNCHANGED <<path, last, batch, list>> /\ steady' \subseteq steady
    BY <1>11 DEF Churn
  <2>2. OnPath' = OnPath /\ Certain' \subseteq Certain
    BY <2>1, CertainShrinks DEF OnPath
  <2>3. PathDown' /\ Entered(B)' /\ Untouched' /\ Lists(B)'
    BY <1>2, <2>1, <2>2 DEF PathDown, Visited, Entered, Untouched, Lists, Names
  <2>4. Remaining(B)'
    BY <1>2, <2>1, <2>2 DEF Visited, Remaining, Remains, Names
  <2>5. Finished(B)'
    BY <1>2, <2>1, <2>2 DEF Visited, Finished, Names
  <2> QED
    BY <2>3, <2>4, <2>5 DEF Visited
<1>12. CASE UNCHANGED vars
  <2>1. UNCHANGED <<path, last, batch, list, steady>>
    BY <1>12 DEF vars, kernel
  <2>2. OnPath' = OnPath /\ Certain' = Certain
    BY <2>1 DEF OnPath, Certain
  <2>3. PathDown' /\ Entered(B)' /\ Untouched' /\ Lists(B)' /\ Remaining(B)' /\ Finished(B)'
    BY <1>2, <2>1, <2>2
    DEF PathDown, Visited, Entered, Untouched, Lists, Names, Remaining, Remains, Finished
  <2> QED
    BY <2>3 DEF Visited
<1> QED
  BY <1>3, <1>4, <1>6, <1>7, <1>8, <1>9, <1>10, <1>11, <1>12 DEF Next, Walk

\* When the walk is over every certain name has been dealt with: the least that
\* had not would be in a certain directory, which has none left.
LEMMA AllTaken ==
  ASSUME Inv, result = "ok", NEW B, Visited(B)
  PROVE  Certain \ {Root} \subseteq B
<1> DEFINE T == (Certain \ {Root}) \ B
<1> SUFFICES ASSUME T # {} PROVE FALSE
  OBVIOUS
<1>1. path = <<>> /\ OnPath = {}
  BY DEF Inv, FilesInv, Walking, OnPath
<1>2. Certain \subseteq Node /\ Node \subseteq Nat
  BY VariablesAssumption DEF Certain, Inv, TypeOK
<1>3. PICK n \in T : \A m \in T : n <= m
  BY <1>2, LeastOf
<1>4. n \in steady /\ Parent[n] \in Certain /\ Parent[n] < n /\ n \in Names(Parent[n])
      /\ Parent[n] \in Nat /\ n \in Nat
  BY <1>2, <1>3, CertainClosed, VariablesAssumption DEF Names
<1>5. Parent[n] \in B \cup {Root}
  BY <1>3, <1>4
<1>6. n \in B
  BY <1>1, <1>4, <1>5 DEF Visited, Finished
<1> QED
  BY <1>3, <1>6

\* A successful walk lists what was there throughout, with all above it, exactly
\* once: no batch loses a name or repeats it.
THEOREM SteadyListed == Spec => []SteadyVariablesListed
<1>1. Spec => []ListInv
  BY ListInit, ListStep, Invariance, PTL DEF Spec
<1>2. Inv /\ ListInv => SteadyVariablesListed
  <2> SUFFICES ASSUME Inv, ListInv, result = "ok", NEW n \in Certain, Kind[n] = "file"
               PROVE  Cardinality(Listed(n)) = 1
    BY DEF SteadyVariablesListed
  <2>1. PICK B \in SUBSET Node : Visited(B) /\ Lists(B)
    BY DEF ListInv
  <2>2. n # Root
    BY VariablesAssumption DEF Dir
  <2>3. n \in B \ Denied
    BY <2>1, <2>2, AllTaken, CertainClosed
  <2>4. PICK i \in 1..Len(list) : list[i][1] = n
    BY <2>1, <2>3 DEF Lists
  <2>5. Listed(n) = {i}
    BY <2>1, <2>4 DEF Lists, Listed
  <2> QED
    BY <2>5, FS_Singleton
<1> QED
  BY <1>1, <1>2, Invariance, PTL
=============================================================================
