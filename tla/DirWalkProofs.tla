---------------------------- MODULE DirWalkProofs ----------------------------
(***************************************************************************)
(* Proofs about DirWalk, for every tree, every depth limit and however the *)
(* tree changes during the walk: its type invariant, that the walk never   *)
(* holds more than maxRecursionDepth directories open, that a file that    *)
(* stays where it is is listed exactly once, and the order of the list.    *)
(***************************************************************************)
EXTENDS DirWalk, SequenceTheorems, FiniteSetTheorems, WellFoundedInduction, TLAPS

\* A call's recursionLevel is its place on the stack.
Levels == \A i \in 1..Len(stack) : stack[i].level = i - 1

\* A call that is about to be made still fits.
RoomToOpen == pc = "open" => Len(stack) < MaxRecursionDepth

\* Only a call in progress describes a file.
InfoOfACall == pc = "info" => stack # <<>>

Inv == TypeOK /\ Levels /\ DescriptorsBounded /\ RoomToOpen /\ InfoOfACall

\* The innermost frame.
LEMMA CurrentFacts ==
    ASSUME Inv, stack # <<>>
    PROVE  /\ Len(stack) \in Nat \ {0} /\ Len(stack) <= MaxRecursionDepth
           /\ Current \in Frame
           /\ Current.level = Len(stack) - 1
  <1>1. stack \in Seq(Frame)
    BY DEF Inv, TypeOK
  <1>2. Len(stack) \in Nat \ {0} /\ Len(stack) \in 1..Len(stack)
    BY <1>1
  <1>3. Current \in Frame
    BY <1>1, <1>2 DEF Current
  <1>4. Current.level = Len(stack) - 1
    BY <1>2 DEF Inv, Levels, Current
  <1> QED BY <1>2, <1>3, <1>4 DEF Inv, DescriptorsBounded

\* The stack without its innermost frame.
LEMMA FrontFacts ==
    ASSUME Inv, stack # <<>>
    PROVE  /\ Front(stack) \in Seq(Frame)
           /\ Len(Front(stack)) = Len(stack) - 1
           /\ \A i \in 1..Len(Front(stack)) : Front(stack)[i] = stack[i]
  <1>1. stack \in Seq(Frame) /\ Len(stack) \in Nat \ {0}
    BY CurrentFacts DEF Inv, TypeOK
  <1> DEFINE n == Len(stack) - 1
  <1>2. n \in Nat /\ \A i \in 1..n : stack[i] \in Frame
    BY <1>1
  <1>3. Front(stack) = SubSeq(stack, 1, n)
    BY DEF Front
  <1>4. /\ SubSeq(stack, 1, n) \in Seq(Frame)
        /\ Len(SubSeq(stack, 1, n)) = IF 1 <= n THEN n - 1 + 1 ELSE 0
        /\ \A i \in 1..(n - 1 + 1) : SubSeq(stack, 1, n)[i] = stack[1 + i - 1]
    BY <1>2, SubSeqProperties
  <1> HIDE DEF n
  <1>5. /\ Front(stack) \in Seq(Frame) /\ Len(Front(stack)) = n
        /\ \A i \in 1..Len(Front(stack)) : Front(stack)[i] = stack[i]
    BY <1>2, <1>3, <1>4
  <1> QED BY <1>5 DEF n

\* The walk starts with an empty stack, which has room for the first call.
LEMMA InitInv == Init => Inv
  <1> SUFFICES ASSUME Init PROVE Inv
    OBVIOUS
  <1> USE WalkAssumption
  <1>1. TypeOK
    <2>1. /\ stack = <<>> /\ pc = "open" /\ target = <<>> /\ out = <<>> /\ err = FALSE
          /\ edits = 0 /\ touched = {} /\ failed = {} /\ entry \in [Dir -> [Name -> Target]]
      BY DEF Init
    <2>2. stack \in Seq(Frame) /\ target \in Seq(Name) /\ out \in Seq(Seq(Name))
      BY <2>1, EmptySeq
    <2>3. edits \in 0..MaxEdits
      BY <2>1
    <2> QED BY <2>1, <2>2, <2>3 DEF TypeOK
  <1>2. Levels /\ DescriptorsBounded /\ RoomToOpen /\ InfoOfACall
    BY DEF Init, Levels, DescriptorsBounded, RoomToOpen, InfoOfACall
  <1> QED BY <1>1, <1>2 DEF Inv

\* Returning from a call leaves frames that were there.
LEMMA ReturnInv ==
    ASSUME Inv, NEW frames \in Seq(Frame), NEW e \in BOOLEAN, Return(frames, e),
           Len(frames) <= Len(stack),
           \A i \in 1..Len(frames) : frames[i] = stack[i],
           UNCHANGED <<host, out>>, failed' \subseteq Seq(Name)
    PROVE  Inv'
  <1>1. stack' = frames /\ pc' \in {"done", "loop"} /\ (pc' = "loop" => frames # <<>>)
    BY DEF Return
  <1>2. err' \in BOOLEAN /\ target' = target
    BY DEF Inv, TypeOK, Return
  <1>3. TypeOK'
    BY <1>1, <1>2 DEF Inv, TypeOK, host
  <1>4. stack \in Seq(Frame) /\ Len(stack) \in Nat /\ Len(frames) \in Nat
    BY DEF Inv, TypeOK
  <1>5. Levels'
    BY <1>1, <1>4 DEF Inv, Levels
  <1>6. DescriptorsBounded'
    BY <1>1, <1>4, WalkAssumption DEF Inv, DescriptorsBounded
  <1>7. (RoomToOpen /\ InfoOfACall)'
    BY <1>1 DEF RoomToOpen, InfoOfACall
  <1> QED BY <1>3, <1>5, <1>6, <1>7 DEF Inv

\* Changing the names that the innermost call has read, or has left, does not
\* change the shape of the stack.
LEMMA UpdateFacts ==
    ASSUME Inv, stack # <<>>, NEW frame \in Frame, frame.level = Current.level,
           Update(frame)
    PROVE  stack' \in Seq(Frame) /\ Len(stack') = Len(stack) /\ stack' # <<>> /\ Levels'
  <1>1. stack \in Seq(Frame) /\ Len(stack) \in Nat \ {0}
    BY CurrentFacts DEF Inv, TypeOK
  <1>2. stack' = [stack EXCEPT ![Len(stack)] = frame]
    BY DEF Update
  <1>3. stack' \in Seq(Frame) /\ Len(stack') = Len(stack) /\ stack' # <<>>
    BY <1>1, <1>2
  <1>4. Levels'
    <2> SUFFICES ASSUME NEW i \in 1..Len(stack) PROVE stack'[i].level = i - 1
      BY <1>3 DEF Levels
    <2>1. CASE i = Len(stack)
      BY <1>1, <1>2, <2>1, CurrentFacts
    <2>2. CASE i # Len(stack)
      BY <1>1, <1>2, <2>2 DEF Inv, Levels
    <2> QED BY <2>1, <2>2
  <1> QED BY <1>3, <1>4

\* Each step of the walk, and each change of the tree, preserves Inv.
LEMMA StepInv == Inv /\ [Next]_vars => Inv'
  <1> SUFFICES ASSUME Inv, [Next]_vars PROVE Inv'
    OBVIOUS
  <1> USE WalkAssumption
  <1>0. stack \in Seq(Frame) /\ Len(stack) \in Nat /\ failed \subseteq Seq(Name)
    BY DEF Inv, TypeOK
  <1>1. CASE Open
    <2>1. CASE Resolve(target) \notin Dir /\ Return(stack, TRUE)
      <3>1. UNCHANGED <<host, out>> /\ failed' \subseteq Seq(Name)
        BY <1>0, <1>1 DEF Open
      <3>2. Len(stack) <= Len(stack)
        BY <1>0
      <3> QED BY <1>0, <2>1, <3>1, <3>2, ReturnInv
    <2>2. CASE /\ Resolve(target) \in Dir
               /\ stack' = Append(stack, [path |-> target, dir |-> Resolve(target),
                                     level |-> IF stack = <<>> THEN 0 ELSE Current.level + 1,
                                     read |-> {}, batch |-> {}])
               /\ Goto("loop")
               /\ UNCHANGED err
      <3> DEFINE level == IF stack = <<>> THEN 0 ELSE Current.level + 1
                 frame == [path |-> target, dir |-> Resolve(target), level |-> level,
                           read |-> {}, batch |-> {}]
      <3>1. level = Len(stack)
        BY <1>0, CurrentFacts
      <3>2. frame \in Frame /\ frame.level = Len(stack)
        BY <1>0, <2>2, <3>1 DEF Inv, TypeOK, Frame
      <3>3. stack' = Append(stack, frame)
        BY <2>2
      <3> HIDE DEF frame, level
      <3>4. /\ stack' \in Seq(Frame) /\ Len(stack') = Len(stack) + 1 /\ stack' # <<>>
            /\ \A i \in 1..Len(stack) : stack'[i] = stack[i]
            /\ stack'[Len(stack) + 1] = frame
        BY <1>0, <3>2, <3>3
      <3>5. Levels'
        BY <1>0, <3>2, <3>4 DEF Inv, Levels
      <3>6. Len(stack) < MaxRecursionDepth
        BY <1>1 DEF Inv, RoomToOpen, Open
      <3>7. DescriptorsBounded'
        BY <1>0, <3>4, <3>6 DEF DescriptorsBounded
      <3>8. /\ pc' = "loop" /\ target' = target /\ err' = err
            /\ UNCHANGED <<host, out, failed>>
        BY <1>1, <2>2 DEF Goto, Open
      <3>9. (TypeOK /\ RoomToOpen /\ InfoOfACall)'
        BY <3>4, <3>8 DEF Inv, TypeOK, host, RoomToOpen, InfoOfACall
      <3> QED BY <3>5, <3>7, <3>9 DEF Inv
    <2> QED BY <1>1, <2>1, <2>2 DEF Open
  <1>2. CASE Fault
    <2>1. CASE /\ pc = "open" /\ failed' = failed \cup {target} /\ Return(stack, TRUE)
      <3>1. failed' \subseteq Seq(Name)
        BY <1>0, <2>1 DEF Inv, TypeOK
      <3>2. UNCHANGED <<host, out>> /\ Len(stack) <= Len(stack)
        BY <1>0, <1>2 DEF Fault
      <3> QED BY <1>0, <2>1, <3>1, <3>2, ReturnInv
    <2>2. CASE /\ pc = "loop" /\ failed' = failed \cup {Current.path}
               /\ Return(Front(stack), TRUE)
      <3>1. stack # <<>>
        BY <2>2 DEF Inv, TypeOK
      <3>2. failed' \subseteq Seq(Name)
        BY <1>0, <2>2, <3>1, CurrentFacts DEF Frame
      <3>3. /\ Front(stack) \in Seq(Frame) /\ Len(Front(stack)) <= Len(stack)
            /\ \A i \in 1..Len(Front(stack)) : Front(stack)[i] = stack[i]
        BY <1>0, <3>1, FrontFacts
      <3> QED BY <1>2, <2>2, <3>2, <3>3, ReturnInv DEF Fault
    <2> QED BY <1>2, <2>1, <2>2 DEF Fault
  <1>3. CASE Readdirnames
    <2>1. stack # <<>>
      BY <1>3 DEF Inv, TypeOK, Readdirnames
    <2>2. PICK b \in SUBSET Unread : Update([Current EXCEPT !.batch = b, !.read = @ \cup b])
      BY <1>3 DEF Readdirnames
    <2> DEFINE frame == [Current EXCEPT !.batch = b, !.read = @ \cup b]
    <2>3. frame \in Frame /\ frame.level = Current.level
      BY <2>1, <2>2, CurrentFacts DEF Frame, Unread
    <2>4. stack' \in Seq(Frame) /\ Len(stack') = Len(stack) /\ stack' # <<>> /\ Levels'
      BY <2>1, <2>2, <2>3, UpdateFacts
    <2>5. UNCHANGED <<host, pc, target, out, err, failed>> /\ pc = "loop"
      BY <1>3 DEF Readdirnames
    <2>6. TypeOK'
      BY <2>4, <2>5 DEF Inv, TypeOK, host
    <2>7. (DescriptorsBounded /\ RoomToOpen /\ InfoOfACall)'
      BY <2>4, <2>5 DEF Inv, DescriptorsBounded, RoomToOpen, InfoOfACall
    <2> QED BY <2>4, <2>6, <2>7 DEF Inv
  <1>4. CASE EndOfDir
    <2>1. stack # <<>>
      BY <1>4 DEF Inv, TypeOK, EndOfDir
    <2>2. /\ Front(stack) \in Seq(Frame) /\ Len(Front(stack)) <= Len(stack)
          /\ \A i \in 1..Len(Front(stack)) : Front(stack)[i] = stack[i]
      BY <1>0, <2>1, FrontFacts
    <2> QED BY <1>0, <1>4, <2>2, ReturnInv DEF EndOfDir
  <1>5. CASE Visit
    <2>1. stack # <<>>
      BY <1>5 DEF Inv, TypeOK, Visit
    <2>2. PICK a \in Current.batch :
             /\ Update([Current EXCEPT !.batch = @ \ {a}])
             /\ target' = Append(Current.path, a)
             /\ pc' = StepFor(Resolve(target'), Current.level)
      BY <1>5 DEF Visit
    <2>3. /\ [Current EXCEPT !.batch = @ \ {a}] \in Frame
          /\ [Current EXCEPT !.batch = @ \ {a}].level = Current.level
      BY <2>1, CurrentFacts DEF Frame
    <2>4. stack' \in Seq(Frame) /\ Len(stack') = Len(stack) /\ stack' # <<>> /\ Levels'
      BY <2>1, <2>2, <2>3, UpdateFacts
    <2>5. target' \in Seq(Name)
      BY <2>1, <2>2, CurrentFacts DEF Frame
    <2>6. /\ pc' \in {"loop", "open", "info"}
          /\ pc' = "open" => Current.level + 1 # MaxRecursionDepth
      BY <2>2 DEF StepFor
    <2>7. UNCHANGED <<host, out, err, failed>>
      BY <1>5 DEF Visit
    <2>8. TypeOK'
      BY <2>4, <2>5, <2>6, <2>7 DEF Inv, TypeOK, host
    <2>9. pc' = "open" => Len(stack) < MaxRecursionDepth
      BY <2>1, <2>6, CurrentFacts
    <2>10. (DescriptorsBounded /\ RoomToOpen /\ InfoOfACall)'
      BY <2>4, <2>9 DEF Inv, DescriptorsBounded, RoomToOpen, InfoOfACall
    <2> QED BY <2>4, <2>8, <2>10 DEF Inv
  <1>6. CASE Info
    <2>1. /\ pc = "info" /\ pc' = "loop" /\ target' = target
          /\ UNCHANGED <<host, stack, err, failed>>
      BY <1>6 DEF Info, Goto
    <2>2. out' \in Seq(Seq(Name))
      BY <1>6 DEF Inv, TypeOK, Info
    <2>3. TypeOK'
      BY <2>1, <2>2 DEF Inv, TypeOK, InfoOfACall, host
    <2>4. (Levels /\ DescriptorsBounded /\ RoomToOpen /\ InfoOfACall)'
      BY <2>1 DEF Inv, Levels, DescriptorsBounded, RoomToOpen, InfoOfACall
    <2> QED BY <2>3, <2>4 DEF Inv
  <1>7. ASSUME NEW d \in Dir, NEW a \in Name, Edit(d, a) PROVE Inv'
    <2>1. entry' \in [Dir -> [Name -> Target]]
      BY <1>7 DEF Inv, TypeOK, Edit
    <2>2. touched' \subseteq Dir \X Name
      BY <1>7 DEF Inv, TypeOK, Edit
    <2>3. edits' \in 0..MaxEdits
      BY <1>7 DEF Inv, TypeOK, Edit
    <2>4. UNCHANGED <<stack, pc, target, out, err, failed>>
      BY <1>7 DEF Edit
    <2>5. TypeOK'
      BY <2>1, <2>2, <2>3, <2>4 DEF Inv, TypeOK
    <2>6. (Levels /\ DescriptorsBounded /\ RoomToOpen /\ InfoOfACall)'
      BY <2>4 DEF Inv, Levels, DescriptorsBounded, RoomToOpen, InfoOfACall
    <2> QED BY <2>5, <2>6 DEF Inv
  <1>8. CASE UNCHANGED vars
    <2>1. TypeOK'
      BY <1>8 DEF Inv, TypeOK, vars, host
    <2>2. (Levels /\ DescriptorsBounded /\ RoomToOpen /\ InfoOfACall)'
      BY <1>8 DEF Inv, Levels, DescriptorsBounded, RoomToOpen, InfoOfACall, vars
    <2> QED BY <2>1, <2>2 DEF Inv
  <1> QED BY <1>1, <1>2, <1>3, <1>4, <1>5, <1>6, <1>7, <1>8 DEF Next, Walk

\* Inv holds throughout the walk.
THEOREM Invariance == Spec => []Inv
  BY InitInv, StepInv, PTL DEF Spec

\* The type invariant, for every tree and every change of it.
THEOREM TypeCorrect == Spec => []TypeOK
  <1>1. Inv => TypeOK
    BY DEF Inv
  <1> QED BY <1>1, Invariance, PTL

\* makeHostDirFilesInfoVerbose never has more than maxRecursionDepth directories
\* open, although it only tests for equality with the limit and follows links.
THEOREM BoundedDescriptors == Spec => []DescriptorsBounded
  <1>1. Inv => DescriptorsBounded
    BY DEF Inv
  <1> QED BY <1>1, Invariance, PTL
-----------------------------------------------------------------------------
(* Paths.  Walking down a tree along a path is a recursive function; that  *)
(* it exists for every path is shown by taking the least length for which  *)
(* it does not.                                                            *)

LEMMA LeastOf ==
  ASSUME NEW T, T \subseteq Nat, T # {}
  PROVE  \E x \in T : \A y \in T : x <= y
<1>1. \E x \in T : \A y \in T : ~ (<<y, x>> \in OpToRel(<, Nat))
  BY NatLessThanWellFounded, WFMin, Zenon
<1>2. ASSUME NEW x \in Nat, NEW y \in Nat, <<y, x>> \notin OpToRel(<, Nat) PROVE x <= y
  <2>1. ~(y < x)
    BY <1>2, Zenon DEF OpToRel
  <2> QED
    BY <2>1
<1> QED
  BY <1>1, <1>2

\* One step down, and the way to a path.
Down(tree, d, a) == IF d \in Dir THEN tree[d][a] ELSE Gone
IsWay(f, k, tree, path) ==
    f = [i \in 0..k |-> IF i = 0 THEN Top ELSE Down(tree, f[i - 1], path[i])]

LEMMA WayExists ==
  ASSUME NEW tree, NEW path, NEW n \in Nat
  PROVE  \E f : IsWay(f, n, tree, path)
<1> DEFINE T == {k \in Nat : ~ \E f : IsWay(f, k, tree, path)}
<1> SUFFICES T = {}
  OBVIOUS
<1> SUFFICES ASSUME T # {} PROVE FALSE
  OBVIOUS
<1>1. PICK k \in T : \A l \in T : k <= l
  BY LeastOf
<1>2. CASE k = 0
  <2> DEFINE g == [i \in 0..k |-> Top]
  <2>1. IsWay(g, k, tree, path)
    BY <1>2 DEF IsWay
  <2> QED
    BY <1>1, <2>1
<1>3. CASE k # 0
  <2>1. k - 1 \in Nat /\ k - 1 \notin T
    BY <1>1, <1>3
  <2>2. PICK f : IsWay(f, k - 1, tree, path)
    BY <2>1
  <2> DEFINE g == [i \in 0..k |-> IF i = k THEN Down(tree, f[k - 1], path[k]) ELSE f[i]]
  <2>3. ASSUME NEW i \in 0..k
        PROVE  g[i] = IF i = 0 THEN Top ELSE Down(tree, g[i - 1], path[i])
    <3>1. CASE i = k
      <4>1. g[k] = Down(tree, f[k - 1], path[k]) /\ g[k - 1] = f[k - 1]
        BY <1>1, <1>3, <2>1
      <4> QED
        BY <1>3, <3>1, <4>1
    <3>2. CASE i # k
      <4>1. i \in 0..(k - 1)
        BY <1>1, <3>2
      <4>2. f[i] = IF i = 0 THEN Top ELSE Down(tree, f[i - 1], path[i])
        <5> HIDE DEF g, T
        <5> QED
          BY <2>2, <4>1 DEF IsWay
      <4>3. g[i] = f[i] /\ (i # 0 => g[i - 1] = f[i - 1])
        BY <1>1, <3>2, <4>1
      <4> QED
        BY <4>2, <4>3
    <3> QED
      BY <3>1, <3>2
  <2>4. IsWay(g, k, tree, path)
    <3>1. g = [i \in 0..k |-> g[i]]
      OBVIOUS
    <3> HIDE DEF g
    <3> QED
      BY <2>3, <3>1 DEF IsWay
  <2> QED
    BY <1>1, <2>4
<1> QED
  BY <1>2, <1>3

\* Two ways go the same way as far as their paths do.
LEMMA WayUnique ==
  \A tree, p, q, f, g : \A m, n \in Nat :
     /\ IsWay(f, m, tree, p) /\ IsWay(g, n, tree, q)
     /\ m <= n /\ \A i \in 1..m : p[i] = q[i]
     => \A i \in 0..m : f[i] = g[i]
<1> SUFFICES ASSUME NEW tree, NEW p, NEW q, NEW f, NEW g, NEW m \in Nat, NEW n \in Nat,
                    IsWay(f, m, tree, p), IsWay(g, n, tree, q), m <= n,
                    \A i \in 1..m : p[i] = q[i]
             PROVE  \A i \in 0..m : f[i] = g[i]
  OBVIOUS
<1> DEFINE T == {k \in Nat : k <= m /\ f[k] # g[k]}
<1> SUFFICES ASSUME T # {} PROVE FALSE
  OBVIOUS
<1>1. PICK k \in T : \A l \in T : k <= l
  BY LeastOf
<1>2. k \in 0..m /\ k \in 0..n
  BY <1>1
<1>3. /\ f[k] = IF k = 0 THEN Top ELSE Down(tree, f[k - 1], p[k])
      /\ g[k] = IF k = 0 THEN Top ELSE Down(tree, g[k - 1], q[k])
  <2> HIDE DEF T
  <2> QED
    BY <1>2 DEF IsWay
<1>4. k # 0
  BY <1>1, <1>3
<1>5. k - 1 \in Nat /\ k - 1 \notin T /\ k \in 1..m
  BY <1>1, <1>4
<1>6. f[k - 1] = g[k - 1]
  BY <1>1, <1>5
<1> QED
  BY <1>1, <1>3, <1>5, <1>6

\* At is where the way to a path ends.
LEMMA AtIsEnd ==
  ASSUME NEW tree, NEW path \in Seq(Name), NEW f, IsWay(f, Len(path), tree, path)
  PROVE  At(tree, path) = f[Len(path)]
<1> DEFINE g == CHOOSE h : IsWay(h, Len(path), tree, path)
<1>1. Len(path) \in Nat
  OBVIOUS
<1>2. IsWay(g, Len(path), tree, path)
  <2> HIDE DEF IsWay
  <2> QED
    OBVIOUS
<1>3. At(tree, path) = g[Len(path)]
  BY DEF At, IsWay, Down
<1> HIDE DEF g
<1>4. \A i \in 0..Len(path) : g[i] = f[i]
  BY <1>1, <1>2, WayUnique
<1> QED
  BY <1>1, <1>3, <1>4

LEMMA AtEmpty ==
  ASSUME NEW tree
  PROVE  At(tree, <<>>) = Top
<1>1. PICK f : IsWay(f, 0, tree, <<>>)
  BY WayExists
<1>2. f[0] = Top
  BY <1>1 DEF IsWay
<1>3. <<>> \in Seq(Name) /\ Len(<<>>) = 0
  OBVIOUS
<1> QED
  BY <1>1, <1>2, <1>3, AtIsEnd

LEMMA AtAppend ==
  ASSUME NEW tree, NEW p \in Seq(Name), NEW a \in Name
  PROVE  At(tree, Append(p, a)) = Down(tree, At(tree, p), a)
<1> DEFINE n == Len(p)
           m == n + 1
           q == Append(p, a)
<1>1. /\ n \in Nat /\ m \in Nat /\ n <= m /\ m # 0 /\ m - 1 = n /\ m \in 0..m
      /\ q \in Seq(Name) /\ Len(q) = m /\ q[m] = a /\ \A i \in 1..n : p[i] = q[i]
  OBVIOUS
<1> HIDE DEF q, n, m
<1>2. PICK f : IsWay(f, n, tree, p)
  BY <1>1, WayExists
<1>3. PICK g : IsWay(g, m, tree, q)
  BY <1>1, WayExists
<1>4. At(tree, p) = f[n]
  BY <1>2, AtIsEnd DEF n
<1>5. At(tree, q) = g[m]
  BY <1>1, <1>3, AtIsEnd
<1>6. f[n] = g[n]
  <2>1. n \in Nat /\ m \in Nat /\ n <= m /\ \A i \in 1..n : p[i] = q[i]
    BY <1>1
  <2>2. IsWay(f, n, tree, p) /\ IsWay(g, m, tree, q)
    BY <1>2, <1>3
  <2>3. \A i \in 0..n : f[i] = g[i]
    <3> HIDE DEF IsWay
    <3> QED
      BY <2>1, <2>2, WayUnique
  <2> QED
    BY <1>1, <2>3
<1>7. g[m] = Down(tree, g[m - 1], q[m])
  BY <1>1, <1>3 DEF IsWay
<1> QED
  BY <1>1, <1>4, <1>5, <1>6, <1>7 DEF q

LEMMA PrefixFacts ==
  ASSUME NEW p \in Seq(Name), NEW k \in 0..Len(p)
  PROVE  /\ SubSeq(p, 1, k) \in Seq(Name) /\ Len(SubSeq(p, 1, k)) = k
         /\ \A i \in 1..k : SubSeq(p, 1, k)[i] = p[i]
<1>1. k \in Nat /\ k \in Int /\ \A i \in 1..k : p[i] \in Name
  OBVIOUS
<1>2. /\ SubSeq(p, 1, k) \in Seq(Name)
      /\ Len(SubSeq(p, 1, k)) = IF 1 <= k THEN k - 1 + 1 ELSE 0
      /\ \A i \in 1..(k - 1 + 1) : SubSeq(p, 1, k)[i] = p[1 + i - 1]
  BY <1>1, SubSeqProperties
<1>3. k - 1 + 1 = k /\ \A i \in 1..k : 1 + i - 1 = i
  BY <1>1
<1> QED
  BY <1>1, <1>2, <1>3

LEMMA AppendFacts ==
  ASSUME NEW p \in Seq(Name), NEW a \in Name
  PROVE  /\ Append(p, a) \in Seq(Name) /\ Append(p, a) # <<>>
         /\ Len(p) \in Nat /\ Len(Append(p, a)) = Len(p) + 1
         /\ \A i \in 1..Len(p) : Append(p, a)[i] = p[i]
         /\ Append(p, a)[Len(p) + 1] = a
  BY AppendProperties

\* A path that is not empty goes one name further than another.
LEMMA Split ==
  ASSUME NEW p \in Seq(Name), p # <<>>
  PROVE  /\ Len(p) \in Nat \ {0}
         /\ \E q \in Seq(Name), a \in Name : p = Append(q, a) /\ Len(p) = Len(q) + 1
<1> DEFINE n == Len(p) - 1
           q == SubSeq(p, 1, n)
           a == p[Len(p)]
<1>1. Len(p) \in Nat \ {0} /\ n \in 0..Len(p) /\ Len(p) = n + 1
  BY EmptySeq
<1>2. q \in Seq(Name) /\ Len(q) = n /\ \A i \in 1..n : q[i] = p[i]
  BY <1>1, PrefixFacts
<1>3. a \in Name
  BY <1>1, ElementOfSeq
<1> HIDE DEF n, q
<1>4. /\ Append(q, a) \in Seq(Name) /\ Len(Append(q, a)) = n + 1
      /\ \A i \in 1..n : Append(q, a)[i] = q[i]
      /\ Append(q, a)[n + 1] = a
  BY <1>2, <1>3, AppendFacts
<1>5. \A i \in 1..(n + 1) : i \in 1..n \/ i = n + 1
  BY <1>1
<1>6. \A i \in 1..Len(p) : p[i] = Append(q, a)[i]
  BY <1>1, <1>2, <1>4, <1>5
<1>7. p = Append(q, a)
  BY <1>1, <1>4, <1>6, SeqEqual
<1> QED
  BY <1>1, <1>2, <1>3, <1>7

LEMMA AppendSame ==
  ASSUME NEW p \in Seq(Name), NEW q \in Seq(Name), NEW a \in Name, NEW b \in Name,
         Append(p, a) = Append(q, b)
  PROVE  p = q /\ a = b
<1>1. Len(p) + 1 = Len(q) + 1 /\ Len(p) \in Nat /\ Len(q) \in Nat
  BY AppendFacts
<1>2. Len(p) = Len(q)
  BY <1>1
<1>3. \A i \in 1..Len(p) : p[i] = q[i]
  BY <1>2, AppendFacts
<1>4. p = q
  BY <1>2, <1>3, SeqEqual
<1>5. a = b
  BY <1>2, AppendFacts
<1> QED
  BY <1>4, <1>5

LEMMA BeforeAppend ==
  ASSUME NEW p \in Seq(Name), NEW a \in Name
  PROVE  /\ \A i \in 1..Len(p) : Before(Append(p, a), i) = Before(p, i)
         /\ Before(Append(p, a), Len(p) + 1) = p
<1> DEFINE q == Append(p, a)
           n == Len(p)
<1>1. q \in Seq(Name) /\ n \in Nat /\ Len(q) = n + 1 /\ \A i \in 1..n : q[i] = p[i]
  BY AppendFacts
<1> HIDE DEF q
<1>2. ASSUME NEW k \in 0..n PROVE SubSeq(q, 1, k) = SubSeq(p, 1, k)
  <2>1. k \in 0..Len(q) /\ \A i \in 1..k : i \in 1..n
    BY <1>1
  <2>2. /\ SubSeq(q, 1, k) \in Seq(Name) /\ Len(SubSeq(q, 1, k)) = k
        /\ \A i \in 1..k : SubSeq(q, 1, k)[i] = q[i]
    BY <1>1, <2>1, PrefixFacts
  <2>3. /\ SubSeq(p, 1, k) \in Seq(Name) /\ Len(SubSeq(p, 1, k)) = k
        /\ \A i \in 1..k : SubSeq(p, 1, k)[i] = p[i]
    BY PrefixFacts
  <2>4. \A i \in 1..k : SubSeq(q, 1, k)[i] = SubSeq(p, 1, k)[i]
    BY <1>1, <2>1, <2>2, <2>3
  <2> QED
    BY <2>2, <2>3, <2>4, SeqEqual
<1>3. \A i \in 1..n : i - 1 \in 0..n
  BY <1>1
<1>4. n \in 0..n /\ n + 1 - 1 = n /\ SubSeq(p, 1, n) = p
  BY <1>1, SubSeqFull
<1> QED
  BY <1>2, <1>3, <1>4 DEF Before, q

\* Stable, of a tree and a history that need not be the present ones.
StableIn(tree, changed, bad, path) ==
    \A i \in DOMAIN path : /\ <<At(tree, Before(path, i)), path[i]>> \notin changed
                           /\ Before(path, i) \notin bad

LEMMA StableInAppend ==
  ASSUME NEW tree, NEW changed, NEW bad, NEW p \in Seq(Name), NEW a \in Name
  PROVE  StableIn(tree, changed, bad, Append(p, a))
           <=> /\ StableIn(tree, changed, bad, p)
               /\ <<At(tree, p), a>> \notin changed /\ p \notin bad
<1> DEFINE q == Append(p, a)
           n == Len(p)
           Ok(s, i) == /\ <<At(tree, Before(s, i)), s[i]>> \notin changed
                       /\ Before(s, i) \notin bad
<1>1. q \in Seq(Name) /\ n \in Nat /\ Len(q) = n + 1 /\ q[n + 1] = a /\ \A i \in 1..n : q[i] = p[i]
  BY AppendFacts
<1>2. (\A i \in 1..n : Before(q, i) = Before(p, i)) /\ Before(q, n + 1) = p
  BY BeforeAppend
<1>3. DOMAIN q = 1..(n + 1) /\ DOMAIN p = 1..n
  BY <1>1
<1> HIDE DEF q, n
<1>4. \A i : i \in 1..(n + 1) <=> i \in 1..n \/ i = n + 1
  BY <1>1
<1>5. \A i \in 1..n : Ok(q, i) <=> Ok(p, i)
  BY <1>1, <1>2
<1>6. Ok(q, n + 1) <=> <<At(tree, p), a>> \notin changed /\ p \notin bad
  BY <1>1, <1>2
<1> HIDE DEF Ok
<1>7. StableIn(tree, changed, bad, q) <=> \A i \in 1..(n + 1) : Ok(q, i)
  BY <1>3 DEF StableIn, Ok
<1>8. StableIn(tree, changed, bad, p) <=> \A i \in 1..n : Ok(p, i)
  BY <1>3 DEF StableIn, Ok
<1> QED
  BY <1>4, <1>5, <1>6, <1>7, <1>8 DEF q

LEMMA StableAppend ==
  ASSUME NEW p \in Seq(Name), NEW a \in Name
  PROVE  Stable(Append(p, a)) <=> Stable(p) /\ <<Resolve(p), a>> \notin touched /\ p \notin failed
<1>1. \A q : Stable(q) <=> StableIn(entry, touched, failed, q)
  BY Zenon DEF Stable, StableIn, Resolve
<1> QED
  BY <1>1, StableInAppend DEF Resolve

LEMMA ResolveAppend ==
  ASSUME NEW p \in Seq(Name), NEW a \in Name
  PROVE  Resolve(Append(p, a)) = Down(entry, Resolve(p), a)
  BY AtAppend DEF Resolve

\* A path along which nothing is touched leads where it led before.
LEMMA StableStays ==
  ASSUME NEW tree, NEW tree2, NEW changed, NEW changed2, NEW bad, NEW bad2,
         changed \subseteq changed2, bad \subseteq bad2,
         \A d \in Dir, a \in Name : <<d, a>> \in changed2 \/ tree2[d][a] = tree[d][a]
  PROVE  \A p \in Seq(Name) : StableIn(tree2, changed2, bad2, p) =>
           StableIn(tree, changed, bad, p) /\ At(tree2, p) = At(tree, p)
<1> DEFINE Good(p) == StableIn(tree2, changed2, bad2, p) =>
                         StableIn(tree, changed, bad, p) /\ At(tree2, p) = At(tree, p)
           T == {k \in Nat : \E p \in Seq(Name) : Len(p) = k /\ ~Good(p)}
<1>1. T = {}
  <2> SUFFICES ASSUME T # {} PROVE FALSE
    OBVIOUS
  <2>1. PICK k \in T : \A l \in T : k <= l
    BY LeastOf
  <2>2. PICK p \in Seq(Name) : Len(p) = k /\ ~Good(p)
    BY <2>1
  <2>3. CASE p = <<>>
    <3>1. StableIn(tree, changed, bad, <<>>)
      BY DEF StableIn
    <3>2. At(tree, <<>>) = At(tree2, <<>>)
      BY AtEmpty
    <3> QED
      BY <2>2, <2>3, <3>1, <3>2
  <2>4. CASE p # <<>>
    <3>1. PICK q \in Seq(Name), a \in Name : p = Append(q, a) /\ Len(p) = Len(q) + 1
      BY <2>4, Split
    <3>2. Len(q) \in Nat /\ ~(k <= Len(q))
      BY <2>2, <3>1
    <3>3. Good(q)
      BY <2>1, <3>2
    <3>4. StableIn(tree2, changed2, bad2, p)
      BY <2>2
    <3>5. StableIn(tree2, changed2, bad2, q) /\ <<At(tree2, q), a>> \notin changed2 /\ q \notin bad2
      BY <3>1, <3>4, StableInAppend
    <3>6. StableIn(tree, changed, bad, q) /\ At(tree2, q) = At(tree, q)
      BY <3>3, <3>5
    <3>7. StableIn(tree, changed, bad, p)
      BY <3>1, <3>5, <3>6, StableInAppend
    <3>8. At(tree2, p) = At(tree, p)
      BY <3>1, <3>5, <3>6, AtAppend DEF Down
    <3> QED
      BY <2>2, <3>7, <3>8
  <2> QED
    BY <2>3, <2>4
<1>2. ASSUME NEW p \in Seq(Name) PROVE Good(p)
  <2>1. Len(p) \in Nat
    OBVIOUS
  <2> QED
    BY <1>1, <2>1
<1> QED
  BY <1>2

-----------------------------------------------------------------------------
(* Where the walk is.  Path p is in what frame f has been through: it      *)
(* leads through the directory of f by a name that f has taken up.         *)

Under(p, f) ==
    /\ Len(f.path) < Len(p)
    /\ \A m \in 1..Len(f.path) : p[m] = f.path[m]
    /\ p[Len(f.path) + 1] \in f.read \ f.batch

\* Each call is for an entry that its caller has taken up, and so is what is
\* about to be opened or described.
Chained ==
    /\ \A i \in 1..Len(stack) : Len(stack[i].path) = i - 1 /\ stack[i].batch \subseteq stack[i].read
    /\ \A i, j \in 1..Len(stack) : i < j => Under(stack[j].path, stack[i])
Aimed ==
    /\ pc \in {"open", "info"} => /\ Len(target) = Len(stack)
                                  /\ \A i \in 1..Len(stack) : Under(target, stack[i])
    /\ pc = "done" => stack = <<>>
Trail == Chained /\ Aimed

LEMMA TrailInit == Init => Trail
<1> SUFFICES ASSUME Init PROVE Trail
  OBVIOUS
<1>1. stack = <<>> /\ pc = "open" /\ target = <<>> /\ Len(stack) = 0
  BY DEF Init
<1> QED
  BY <1>1 DEF Trail, Chained, Aimed

\* A call returns.
LEMMA TrailReturn ==
  ASSUME Inv, Trail, NEW frames \in Seq(Frame), NEW e, Return(frames, e),
         Len(frames) <= Len(stack), \A i \in 1..Len(frames) : frames[i] = stack[i]
  PROVE  Trail'
<1>1. stack' = frames /\ pc' = IF frames = <<>> THEN "done" ELSE "loop"
  BY DEF Return
<1>2. Len(frames) \in Nat /\ Len(stack) \in Nat
  BY DEF Inv, TypeOK
<1>3. \A i \in 1..Len(frames) : i \in 1..Len(stack)
  BY <1>2
<1>4. Chained'
  <2>1. \A i \in 1..Len(stack') : stack'[i] = stack[i] /\ i \in 1..Len(stack)
    BY <1>1, <1>3
  <2>2. \A i \in 1..Len(stack') :
          Len(stack'[i].path) = i - 1 /\ stack'[i].batch \subseteq stack'[i].read
    BY <2>1 DEF Trail, Chained
  <2>3. \A i, j \in 1..Len(stack') : i < j => Under(stack'[j].path, stack'[i])
    BY <2>1 DEF Trail, Chained
  <2> QED
    BY <2>2, <2>3 DEF Chained, Under
<1>5. Aimed'
  BY <1>1 DEF Aimed
<1> QED
  BY <1>4, <1>5 DEF Trail

\* The innermost call reads names, or takes one up.
LEMMA TrailUpdate ==
  ASSUME Inv, Trail, stack # <<>>, NEW f \in Frame, Update(f),
         f.path = Current.path, f.batch \subseteq f.read,
         Current.read \ Current.batch \subseteq f.read \ f.batch
  PROVE  /\ Chained'
         /\ Len(stack') = Len(stack) /\ Len(stack) \in Nat \ {0}
         /\ stack'[Len(stack)] = f
         /\ \A i \in 1..(Len(stack) - 1) : stack'[i] = stack[i]
<1> DEFINE n == Len(stack)
<1>1. stack \in Seq(Frame) /\ n \in Nat \ {0} /\ n \in 1..n /\ Current = stack[n]
  BY CurrentFacts DEF Inv, TypeOK, Current
<1>2. stack' = [stack EXCEPT ![n] = f]
  BY DEF Update
<1>3. /\ Len(stack') = n /\ stack'[n] = f
      /\ \A i \in 1..n : i # n => stack'[i] = stack[i]
  BY <1>1, <1>2
<1>4. \A i \in 1..n : /\ stack'[i].path = stack[i].path
                      /\ stack[i].read \ stack[i].batch \subseteq stack'[i].read \ stack'[i].batch
                      /\ stack'[i].batch \subseteq stack'[i].read
  BY <1>1, <1>3 DEF Trail, Chained
<1> HIDE DEF n
<1>5. \A i \in 1..n : Len(stack'[i].path) = i - 1
  BY <1>4 DEF Trail, Chained, n
<1>6. ASSUME NEW i \in 1..n, NEW j \in 1..n, i < j PROVE Under(stack'[j].path, stack'[i])
  <2>1. Under(stack[j].path, stack[i])
    BY <1>6 DEF Trail, Chained, n
  <2> QED
    BY <1>4, <2>1 DEF Under
<1>7. Chained'
  BY <1>3, <1>4, <1>5, <1>6 DEF Chained, Under
<1>8. \A i \in 1..(n - 1) : i \in 1..n /\ i # n
  BY <1>1
<1> QED
  BY <1>1, <1>3, <1>7, <1>8 DEF n

LEMMA UnderExtend ==
  ASSUME NEW p \in Seq(Name), NEW a \in Name, NEW f \in Frame, Under(p, f)
  PROVE  Under(Append(p, a), f)
<1>1. Len(f.path) \in Nat /\ Len(p) \in Nat
  BY DEF Frame
<1>2. Len(f.path) < Len(p) /\ Len(f.path) + 1 \in 1..Len(p)
  BY <1>1 DEF Under
<1>3. \A m \in 1..Len(f.path) : m \in 1..Len(p)
  BY <1>1, <1>2
<1>4. Len(Append(p, a)) = Len(p) + 1 /\ \A i \in 1..Len(p) : Append(p, a)[i] = p[i]
  BY AppendFacts
<1>5. Len(f.path) < Len(Append(p, a))
  BY <1>1, <1>2, <1>4
<1>6. \A m \in 1..Len(f.path) : Append(p, a)[m] = f.path[m]
  BY <1>3, <1>4 DEF Under
<1>7. Append(p, a)[Len(f.path) + 1] \in f.read \ f.batch
  BY <1>2, <1>4 DEF Under
<1> QED
  BY <1>5, <1>6, <1>7 DEF Under

\* What the innermost call does to a name.
Takes(a) ==
    /\ a \in Current.batch /\ a \in Name /\ \A b \in Current.batch : a <= b
    /\ target' = Append(Current.path, a)
    /\ target' \in Seq(Name) /\ Len(target') = Len(stack) /\ target' # <<>>
    /\ stack'[Len(stack)] = [Current EXCEPT !.batch = @ \ {a}]
    /\ \A i \in 1..(Len(stack) - 1) : stack'[i] = stack[i]
    /\ pc' = StepFor(Resolve(target'), Current.level)

LEMMA VisitFacts ==
  ASSUME Inv, Trail, Visit
  PROVE  /\ stack # <<>> /\ Len(stack) \in Nat \ {0} /\ Len(stack') = Len(stack)
         /\ Trail'
         /\ \E a \in Name : Takes(a)
<1> DEFINE n == Len(stack)
<1>0. stack # <<>>
  BY DEF Inv, TypeOK, Visit
<1>1. /\ stack \in Seq(Frame) /\ n \in Nat \ {0} /\ n \in 1..n /\ Current = stack[n]
      /\ Current \in Frame
  BY <1>0, CurrentFacts DEF Inv, TypeOK, Current
<1>2. PICK a \in Current.batch :
         /\ IsNext(a, Current.batch)
         /\ Update([Current EXCEPT !.batch = @ \ {a}])
         /\ target' = Append(Current.path, a)
         /\ pc' = StepFor(Resolve(target'), Current.level)
  BY DEF Visit
<1> DEFINE f == [Current EXCEPT !.batch = @ \ {a}]
<1>3. /\ f \in Frame /\ f.path = Current.path /\ f.read = Current.read
      /\ f.batch = Current.batch \ {a} /\ Current.path \in Seq(Name)
      /\ Current.batch \subseteq Name /\ Current.batch \subseteq Current.read
  BY <1>1 DEF Frame, Trail, Chained
<1>4. /\ Chained' /\ Len(stack') = n /\ stack'[n] = f
      /\ \A i \in 1..(n - 1) : stack'[i] = stack[i]
  <2>1. Update(f)
    BY <1>2
  <2> HIDE DEF f
  <2> QED
    BY <1>0, <1>3, <2>1, TrailUpdate
<1>5. /\ target' \in Seq(Name) /\ Len(target') = n /\ target' # <<>> /\ target'[n] = a
      /\ \A i \in 1..(n - 1) : target'[i] = Current.path[i]
      /\ Len(Current.path) = n - 1
  <2>1. Len(Current.path) = n - 1
    BY <1>1 DEF Trail, Chained
  <2> QED
    BY <1>1, <1>2, <1>3, <2>1, AppendFacts
<1> HIDE DEF f
<1>6. ASSUME NEW i \in 1..n PROVE Under(target', stack'[i])
  <2>1. CASE i = n
    BY <1>1, <1>3, <1>4, <1>5, <2>1 DEF Under
  <2>2. CASE i # n
    <3>1. i \in 1..(n - 1) /\ i < n
      BY <1>1, <2>2
    <3>2. Under(Current.path, stack[i]) /\ stack[i] \in Frame
      BY <1>1, <3>1 DEF Trail, Chained
    <3> QED
      BY <1>2, <1>3, <1>4, <3>1, <3>2, UnderExtend
  <2> QED
    BY <2>1, <2>2
<1>7. Aimed'
  <2>1. pc' # "done"
    BY <1>2 DEF StepFor
  <2> QED
    BY <1>4, <1>5, <1>6, <2>1 DEF Aimed, Under
<1>8. Takes(a)
  BY <1>2, <1>3, <1>4, <1>5 DEF Takes, IsNext, f
<1> QED
  BY <1>0, <1>1, <1>3, <1>4, <1>7, <1>8 DEF Trail

\* A directory is opened: one more call.
Opens ==
    /\ Len(stack) \in Nat /\ Len(stack') = Len(stack) + 1
    /\ \A i \in 1..Len(stack) : stack'[i] = stack[i]
    /\ stack'[Len(stack) + 1].path = target
    /\ stack'[Len(stack) + 1].dir = Resolve(target)
    /\ stack'[Len(stack) + 1].read = {} /\ stack'[Len(stack) + 1].batch = {}
    /\ pc' = "loop" /\ pc = "open" /\ target' = target /\ target \in Seq(Name)
    /\ UNCHANGED <<entry, edits, touched, out, failed>>

LEMMA OpenFacts ==
  ASSUME Inv, Trail, Open, Resolve(target) \in Dir
  PROVE  Opens /\ Trail'
<1> DEFINE n == Len(stack)
           f == [path |-> target, dir |-> Resolve(target),
                 level |-> IF stack = <<>> THEN 0 ELSE Current.level + 1,
                 read |-> {}, batch |-> {}]
<1>1. stack \in Seq(Frame) /\ n \in Nat /\ target \in Seq(Name)
  BY DEF Inv, TypeOK
<1>2. stack' = Append(stack, f) /\ pc = "open" /\ pc' = "loop" /\ target' = target
      /\ UNCHANGED <<entry, edits, touched, out, failed>>
  BY DEF Open, Goto, host
<1>3. f.path = target /\ f.dir = Resolve(target) /\ f.read = {} /\ f.batch = {}
  OBVIOUS
<1> HIDE DEF f
<1>4. /\ Len(stack') = n + 1 /\ stack'[n + 1] = f
      /\ \A i \in 1..n : stack'[i] = stack[i]
  BY <1>1, <1>2
<1>5. Len(target) = n /\ \A i \in 1..n : Under(target, stack[i])
  BY <1>2 DEF Trail, Aimed
<1> HIDE DEF n
<1>6. \A i \in 1..(n + 1) : i \in 1..n \/ i = n + 1
  BY <1>1 DEF n
<1>7. \A i \in 1..(n + 1) : Len(stack'[i].path) = i - 1 /\ stack'[i].batch \subseteq stack'[i].read
  <2> SUFFICES ASSUME NEW i \in 1..(n + 1)
               PROVE  Len(stack'[i].path) = i - 1 /\ stack'[i].batch \subseteq stack'[i].read
    OBVIOUS
  <2>1. CASE i \in 1..n
    BY <1>4, <2>1 DEF Trail, Chained, n
  <2>2. CASE i = n + 1
    BY <1>1, <1>3, <1>4, <1>5, <2>2 DEF n
  <2> QED
    BY <1>6, <2>1, <2>2
<1>8. ASSUME NEW i \in 1..(n + 1), NEW j \in 1..(n + 1), i < j
      PROVE  Under(stack'[j].path, stack'[i])
  <2>1. i \in 1..n
    BY <1>1, <1>8 DEF n
  <2>2. CASE j \in 1..n
    BY <1>4, <1>8, <2>1, <2>2 DEF Trail, Chained, n
  <2>3. CASE j = n + 1
    BY <1>3, <1>4, <1>5, <2>1, <2>3
  <2> QED
    BY <1>6, <2>2, <2>3
<1>9. Chained'
  BY <1>4, <1>7, <1>8 DEF Chained, Under
<1>10. Aimed'
  BY <1>2 DEF Aimed
<1> QED
  BY <1>1, <1>2, <1>3, <1>4, <1>9, <1>10 DEF Opens, Trail, n

\* Names are read: as many as there are, or a batch of them.
Reads(b) ==
    /\ Current.batch = {} /\ b \subseteq Unread /\ Unread # {}
    /\ Cardinality(b) = IF Cardinality(Unread) < BatchSize THEN Cardinality(Unread) ELSE BatchSize
    /\ stack'[Len(stack)] = [Current EXCEPT !.batch = b, !.read = @ \cup b]
    /\ \A i \in 1..(Len(stack) - 1) : stack'[i] = stack[i]
    /\ pc = "loop" /\ UNCHANGED <<entry, edits, touched, pc, target, out, failed>>

LEMMA ReadFacts ==
  ASSUME Inv, Trail, Readdirnames
  PROVE  /\ stack # <<>> /\ Len(stack) \in Nat \ {0} /\ Len(stack') = Len(stack)
         /\ Trail'
         /\ \E b \in SUBSET Name : Reads(b)
<1> DEFINE n == Len(stack)
<1>0. stack # <<>>
  BY DEF Inv, TypeOK, Readdirnames
<1>1. Current \in Frame /\ n \in Nat \ {0}
  BY <1>0, CurrentFacts
<1>2. PICK b \in SUBSET Unread :
         /\ Cardinality(b) = IF Cardinality(Unread) < BatchSize
                             THEN Cardinality(Unread) ELSE BatchSize
         /\ Update([Current EXCEPT !.batch = b, !.read = @ \cup b])
  BY DEF Readdirnames
<1> DEFINE f == [Current EXCEPT !.batch = b, !.read = @ \cup b]
<1>3. /\ f \in Frame /\ f.path = Current.path /\ f.read = Current.read \cup b
      /\ f.batch = b /\ b \cap Current.read = {} /\ b \subseteq Name
  BY <1>1 DEF Frame, Unread
<1>4. /\ Chained' /\ Len(stack') = n /\ stack'[n] = f
      /\ \A i \in 1..(n - 1) : stack'[i] = stack[i]
  <2>1. Update(f) /\ Current.batch = {}
    BY <1>2 DEF Readdirnames
  <2> HIDE DEF f
  <2> QED
    BY <1>0, <1>3, <2>1, TrailUpdate
<1>5. pc = "loop" /\ pc' = "loop"
      /\ UNCHANGED <<entry, edits, touched, pc, target, out, failed>>
  BY DEF Readdirnames, host
<1>6. Aimed'
  BY <1>5 DEF Aimed
<1>7. Reads(b)
  BY <1>2, <1>4, <1>5 DEF Reads, Readdirnames, f
<1> QED
  BY <1>0, <1>1, <1>3, <1>4, <1>6, <1>7 DEF Trail

\* What leaves the calls alone leaves the trail alone.
LEMMA TrailSame ==
  ASSUME Trail, UNCHANGED stack
  PROVE  Chained' /\ (UNCHANGED <<pc, target>> => Trail')
<1>1. Chained'
  <2>1. \A i \in 1..Len(stack') :
          Len(stack'[i].path) = i - 1 /\ stack'[i].batch \subseteq stack'[i].read
    BY DEF Trail, Chained
  <2>2. \A i, j \in 1..Len(stack') : i < j => Under(stack'[j].path, stack'[i])
    BY DEF Trail, Chained
  <2> QED
    BY <2>1, <2>2 DEF Chained
<1>2. ASSUME UNCHANGED <<pc, target>> PROVE Aimed'
  <2>1. pc' = pc /\ target' = target /\ stack' = stack
    BY <1>2
  <2>2. pc' \in {"open", "info"} =>
          Len(target') = Len(stack') /\ \A i \in 1..Len(stack') : Under(target', stack'[i])
    BY <2>1 DEF Trail, Aimed
  <2>3. pc' = "done" => stack' = <<>>
    BY <2>1 DEF Trail, Aimed
  <2> QED
    BY <2>2, <2>3 DEF Aimed
<1> QED
  BY <1>1, <1>2 DEF Trail

LEMMA TrailStep == Inv /\ Trail /\ [Next]_vars => Trail'
<1> SUFFICES ASSUME Inv, Trail, [Next]_vars PROVE Trail'
  OBVIOUS
<1>0. stack \in Seq(Frame) /\ Len(stack) \in Nat /\ Len(stack) <= Len(stack)
  BY DEF Inv, TypeOK
<1>1. CASE Open
  <2>1. CASE Resolve(target) \in Dir
    BY <1>1, <2>1, OpenFacts
  <2>2. CASE Resolve(target) \notin Dir
    <3>1. Return(stack, TRUE)
      BY <1>1, <2>2 DEF Open
    <3> QED
      BY <1>0, <3>1, TrailReturn
  <2> QED
    BY <2>1, <2>2
<1>2. CASE Fault
  <2>1. CASE Return(stack, TRUE)
    BY <1>0, <2>1, TrailReturn
  <2>2. CASE pc = "loop" /\ Return(Front(stack), TRUE)
    <3>1. stack # <<>>
      BY <2>2 DEF Inv, TypeOK
    <3>2. /\ Front(stack) \in Seq(Frame) /\ Len(Front(stack)) <= Len(stack)
          /\ \A i \in 1..Len(Front(stack)) : Front(stack)[i] = stack[i]
      BY <1>0, <3>1, FrontFacts
    <3> QED
      BY <2>2, <3>2, TrailReturn
  <2> QED
    BY <1>2, <2>1, <2>2 DEF Fault
<1>3. CASE Readdirnames
  BY <1>3, ReadFacts
<1>4. CASE EndOfDir
  <2>1. stack # <<>>
    BY <1>4 DEF Inv, TypeOK, EndOfDir
  <2>2. /\ Front(stack) \in Seq(Frame) /\ Len(Front(stack)) <= Len(stack)
        /\ \A i \in 1..Len(Front(stack)) : Front(stack)[i] = stack[i]
    BY <1>0, <2>1, FrontFacts
  <2>3. Return(Front(stack), FALSE)
    BY <1>4 DEF EndOfDir
  <2> QED
    BY <2>2, <2>3, TrailReturn
<1>5. CASE Visit
  BY <1>5, VisitFacts
<1>6. CASE Info
  <2>1. stack' = stack /\ pc' = "loop"
    BY <1>6 DEF Info, Goto
  <2>2. Chained'
    BY <2>1, TrailSame
  <2>3. Aimed'
    BY <2>1 DEF Aimed
  <2> QED
    BY <2>2, <2>3 DEF Trail
<1>7. ASSUME NEW d \in Dir, NEW a \in Name, Edit(d, a) PROVE Trail'
  <2>1. UNCHANGED <<stack, pc, target>>
    BY <1>7 DEF Edit
  <2> QED
    BY <2>1, TrailSame
<1>8. CASE UNCHANGED vars
  <2>1. UNCHANGED <<stack, pc, target>>
    BY <1>8 DEF vars
  <2> QED
    BY <2>1, TrailSame
<1> QED
  BY <1>1, <1>2, <1>3, <1>4, <1>5, <1>6, <1>7, <1>8 DEF Next, Walk

-----------------------------------------------------------------------------
(* What the walk has done.  B stands for the set of paths that Visit has   *)
(* taken up, which no variable records.                                    *)

\* A call returns, and what it was for is done with.
Closes ==
    /\ pc # "info" /\ pc' \notin {"info", "open"}
    /\ UNCHANGED <<entry, edits, touched, out>> /\ failed \subseteq failed'
    /\ Len(stack) \in Nat /\ Len(stack') \in Nat /\ Len(stack') <= Len(stack)
    /\ \A i \in 1..Len(stack') : stack'[i] = stack[i]
    /\ pc = "open" => Resolve(target) \notin Dir \/ target \in failed'
    /\ \A i \in 1..Len(stack) : i \notin 1..Len(stack') =>
          \/ stack[i].path \in failed'
          \/ /\ stack[i].batch = {}
             /\ \A a \in Name \ stack[i].read : entry[stack[i].dir][a] = Gone

LEMMA CloseOpen ==
  ASSUME Inv, pc = "open", Return(stack, TRUE), UNCHANGED <<entry, edits, touched, out>>,
         failed \subseteq failed', Resolve(target) \notin Dir \/ target \in failed'
  PROVE  Closes
<1>1. Len(stack) \in Nat
  BY DEF Inv, TypeOK
<1>2. stack' = stack /\ pc' \in {"done", "loop"}
  BY DEF Return
<1> QED
  BY <1>1, <1>2 DEF Closes

LEMMA CloseTop ==
  ASSUME Inv, pc = "loop", NEW e, Return(Front(stack), e), UNCHANGED <<entry, edits, touched, out>>,
         failed \subseteq failed', Current.batch = {}, Current.path \in failed' \/ Unread = {}
  PROVE  Closes
<1> DEFINE n == Len(stack)
<1>0. stack # <<>>
  BY DEF Inv, TypeOK
<1>1. n \in Nat \ {0} /\ Current = stack[n]
  BY <1>0, CurrentFacts DEF Current
<1>2. /\ Len(Front(stack)) = n - 1
      /\ \A i \in 1..Len(Front(stack)) : Front(stack)[i] = stack[i]
  BY <1>0, FrontFacts
<1>3. stack' = Front(stack) /\ pc' \in {"done", "loop"}
  BY DEF Return
<1>4. \A i \in 1..n : i \notin 1..(n - 1) => i = n
  BY <1>1
<1>5. \/ Current.path \in failed'
      \/ \A a \in Name \ Current.read : entry[Current.dir][a] = Gone
  BY DEF Unread
<1> HIDE DEF n
<1>6. ASSUME NEW i \in 1..n, i \notin 1..Len(stack')
      PROVE  \/ stack[i].path \in failed'
             \/ /\ stack[i].batch = {}
                /\ \A a \in Name \ stack[i].read : entry[stack[i].dir][a] = Gone
  <2>1. stack[i] = Current
    BY <1>1, <1>2, <1>3, <1>4, <1>6
  <2> QED
    BY <1>5, <2>1
<1>7. Len(stack') \in Nat /\ Len(stack') <= n /\ n \in Nat
  BY <1>1, <1>2, <1>3
<1>8. \A i \in 1..Len(stack') : stack'[i] = stack[i]
  BY <1>2, <1>3
<1> QED
  BY <1>3, <1>6, <1>7, <1>8 DEF Closes, n

\* What a step can be.
LEMMA Moves ==
  ASSUME Inv, Trail, [Next]_vars
  PROVE  \/ Opens
         \/ Closes
         \/ stack # <<>> /\ Readdirnames
         \/ stack # <<>> /\ Visit
         \/ Info
         \/ \E d \in Dir, a \in Name : Edit(d, a)
         \/ UNCHANGED vars
<1>1. CASE Open
  <2>1. CASE Resolve(target) \in Dir
    BY <1>1, <2>1, OpenFacts
  <2>2. CASE Resolve(target) \notin Dir
    <3>1. /\ pc = "open" /\ Return(stack, TRUE) /\ UNCHANGED <<entry, edits, touched, out>>
          /\ failed \subseteq failed'
      BY <1>1, <2>2 DEF Open, host
    <3> QED
      BY <2>2, <3>1, CloseOpen
  <2> QED
    BY <2>1, <2>2
<1>2. CASE Fault
  <2>0. UNCHANGED <<entry, edits, touched, out>>
    BY <1>2 DEF Fault, host
  <2>1. CASE pc = "open" /\ failed' = failed \cup {target} /\ Return(stack, TRUE)
    BY <2>0, <2>1, CloseOpen
  <2>2. CASE /\ pc = "loop" /\ Current.batch = {} /\ failed' = failed \cup {Current.path}
             /\ Return(Front(stack), TRUE)
    BY <2>0, <2>2, CloseTop
  <2> QED
    BY <1>2, <2>1, <2>2 DEF Fault
<1>3. CASE EndOfDir
  <2>1. /\ pc = "loop" /\ Current.batch = {} /\ Unread = {} /\ failed \subseteq failed'
        /\ Return(Front(stack), FALSE) /\ UNCHANGED <<entry, edits, touched, out>>
    BY <1>3 DEF EndOfDir, host
  <2> QED
    BY <2>1, CloseTop
<1>4. Readdirnames \/ Visit => stack # <<>>
  BY DEF Inv, TypeOK, Readdirnames, Visit
<1> QED
  BY <1>1, <1>2, <1>3, <1>4 DEF Next, Walk

\* What has changed, or failed, stays on record.
Grows ==
    /\ touched \subseteq touched' /\ failed \subseteq failed'
    /\ \A d \in Dir, a \in Name : <<d, a>> \in touched' \/ entry'[d][a] = entry[d][a]

LEMMA GrowStep == Inv /\ Trail /\ [Next]_vars => Grows
<1> SUFFICES ASSUME Inv, Trail, [Next]_vars PROVE Grows
  OBVIOUS
<1>1. CASE UNCHANGED <<entry, touched>> /\ failed \subseteq failed'
  BY <1>1 DEF Grows
<1>2. ASSUME NEW d \in Dir, NEW a \in Name, Edit(d, a) PROVE Grows
  <2>1. PICK t \in Target : entry' = [entry EXCEPT ![d][a] = t]
    BY <1>2 DEF Edit
  <2>2. touched' = touched \cup {<<d, a>>} /\ failed' = failed
    BY <1>2 DEF Edit
  <2>3. entry \in [Dir -> [Name -> Target]]
    BY DEF Inv, TypeOK
  <2>4. ASSUME NEW x \in Dir, NEW y \in Name, ~(x = d /\ y = a)
        PROVE  entry'[x][y] = entry[x][y]
    BY <2>1, <2>3, <2>4
  <2>5. \A x \in Dir, y \in Name : <<x, y>> \in touched' \/ entry'[x][y] = entry[x][y]
    BY <2>2, <2>4
  <2> QED
    BY <2>2, <2>5 DEF Grows
<1>3. Readdirnames \/ Visit \/ Info \/ UNCHANGED vars => UNCHANGED <<entry, touched, failed>>
  BY DEF Readdirnames, Visit, Info, vars, host
<1>4. Opens \/ Closes => UNCHANGED <<entry, touched>> /\ failed \subseteq failed'
  BY DEF Opens, Closes
<1> QED
  BY <1>1, <1>2, <1>3, <1>4, Moves

\* A path that is stable after a step was so before, and leads where it led.
LEMMA GrowFacts ==
  ASSUME Grows
  PROVE  /\ \A p \in Seq(Name) : Stable(p)' => Stable(p) /\ Resolve(p)' = Resolve(p)
         /\ \A d \in Dir, a \in Name :
              <<d, a>> \notin touched' => <<d, a>> \notin touched /\ entry'[d][a] = entry[d][a]
<1>1. \A q : Stable(q) <=> StableIn(entry, touched, failed, q)
  BY Zenon DEF Stable, StableIn, Resolve
<1>2. \A q : Stable(q)' <=> StableIn(entry', touched', failed', q)
  BY Zenon DEF Stable, StableIn, Resolve
<1>3. \A q : Resolve(q) = At(entry, q) /\ Resolve(q)' = At(entry', q)
  BY DEF Resolve
<1>4. \A p \in Seq(Name) : StableIn(entry', touched', failed', p) =>
        StableIn(entry, touched, failed, p) /\ At(entry', p) = At(entry, p)
  <2>1. /\ touched \subseteq touched' /\ failed \subseteq failed'
        /\ \A d \in Dir, a \in Name : <<d, a>> \in touched' \/ entry'[d][a] = entry[d][a]
    BY DEF Grows
  <2> QED
    BY <2>1, StableStays
<1> QED
  BY <1>1, <1>2, <1>3, <1>4 DEF Grows

\* Every frame was there before, for the same directory, or has just been opened.
LEMMA FrameOrigin ==
  ASSUME Inv, Trail, [Next]_vars, NEW i \in 1..Len(stack')
  PROVE  \/ /\ i \in 1..Len(stack)
            /\ stack'[i].path = stack[i].path /\ stack'[i].dir = stack[i].dir
         \/ /\ stack'[i].path = target /\ stack'[i].dir = Resolve(target)
            /\ entry' = entry /\ target \in Seq(Name)
<1>0. stack \in Seq(Frame) /\ Len(stack) \in Nat
  BY DEF Inv, TypeOK
<1>1. CASE Opens
  <2>1. i \in 1..Len(stack) \/ i = Len(stack) + 1
    BY <1>0, <1>1 DEF Opens
  <2> QED
    BY <1>1, <2>1 DEF Opens
<1>2. CASE Closes
  <2>1. i \in 1..Len(stack)
    BY <1>0, <1>2 DEF Closes
  <2> QED
    BY <1>2, <2>1 DEF Closes
<1>3. CASE /\ stack # <<>> /\ Len(stack') = Len(stack)
           /\ \A j \in 1..(Len(stack) - 1) : stack'[j] = stack[j]
           /\ stack'[Len(stack)].path = Current.path /\ stack'[Len(stack)].dir = Current.dir
  <2>1. i = Len(stack) \/ i \in 1..(Len(stack) - 1)
    BY <1>0, <1>3
  <2>2. i \in 1..Len(stack)
    BY <1>3
  <2> QED
    BY <1>3, <2>1, <2>2 DEF Current
<1>4. CASE stack # <<>> /\ Readdirnames
  <2>1. PICK b \in SUBSET Name : Reads(b)
    BY <1>4, ReadFacts
  <2>2. Len(stack') = Len(stack) /\ Current \in Frame
    BY <1>4, ReadFacts, CurrentFacts
  <2> QED
    BY <1>3, <1>4, <2>1, <2>2 DEF Reads, Frame
<1>5. CASE stack # <<>> /\ Visit
  <2>1. PICK a \in Name : Takes(a)
    BY <1>5, VisitFacts
  <2>2. Len(stack') = Len(stack) /\ Current \in Frame
    BY <1>5, VisitFacts, CurrentFacts
  <2> QED
    BY <1>3, <1>5, <2>1, <2>2 DEF Takes, Frame
<1>6. CASE stack' = stack
  BY <1>6
<1>7. Info \/ (\E d \in Dir, a \in Name : Edit(d, a)) \/ UNCHANGED vars => stack' = stack
  BY DEF Info, Edit, vars
<1> QED
  BY <1>1, <1>2, <1>4, <1>5, <1>6, <1>7, Moves

\* An open directory whose path is stable is the one the path leads to.
FrameDir ==
    \A i \in 1..Len(stack), p \in Seq(Name) :
      stack[i].path = p /\ Stable(p) => Resolve(p) = stack[i].dir

LEMMA FrameDirStep ==
  ASSUME Inv, Trail, FrameDir, [Next]_vars
  PROVE  FrameDir'
<1>1. \A p \in Seq(Name) : Stable(p)' => Stable(p) /\ Resolve(p)' = Resolve(p)
  BY GrowStep, GrowFacts
<1> SUFFICES ASSUME NEW i \in 1..Len(stack'), NEW p \in Seq(Name),
                    stack'[i].path = p, Stable(p)'
             PROVE  Resolve(p)' = stack'[i].dir
  BY DEF FrameDir
<1>2. Stable(p) /\ Resolve(p)' = Resolve(p)
  BY <1>1
<1>3. CASE i \in 1..Len(stack) /\ stack[i].path = p /\ stack'[i].dir = stack[i].dir
  BY <1>2, <1>3 DEF FrameDir
<1>4. CASE target = p /\ stack'[i].dir = Resolve(target)
  BY <1>2, <1>4
<1> QED
  BY <1>3, <1>4, FrameOrigin

\* B holds the names that the calls in progress have taken up, below them, and
\* with a path the directories on its way.
Entered(B) ==
    /\ B \subseteq Seq(Name) \ {<<>>}
    /\ \A q \in Seq(Name), a \in Name : Append(q, a) \in B => q \in B \cup {<<>>}
    /\ \A i \in 1..Len(stack) :
         /\ stack[i].path \in B \cup {<<>>}
         /\ \A a \in Name : Append(stack[i].path, a) \in B <=> a \in stack[i].read \ stack[i].batch
    /\ pc = "open" => target \in B \cup {<<>>} /\ \A a \in Name : Append(target, a) \notin B

LEMMA EnteredPrefix ==
  ASSUME NEW B, Entered(B), pc' = "open" => pc = "open" /\ target' = target,
         \A i \in 1..Len(stack') : i \in 1..Len(stack) /\ stack'[i] = stack[i]
  PROVE  Entered(B)'
<1>1. \A i \in 1..Len(stack') :
         /\ stack'[i].path \in B \cup {<<>>}
         /\ \A a \in Name : Append(stack'[i].path, a) \in B
                  <=> a \in stack'[i].read \ stack'[i].batch
  BY DEF Entered
<1>2. pc' = "open" => target' \in B \cup {<<>>} /\ \A a \in Name : Append(target', a) \notin B
  BY DEF Entered
<1>3. /\ B \subseteq Seq(Name) \ {<<>>}
      /\ \A q \in Seq(Name), a \in Name : Append(q, a) \in B => q \in B \cup {<<>>}
  BY DEF Entered
<1> QED
  BY <1>1, <1>2, <1>3 DEF Entered

LEMMA EnteredOpens ==
  ASSUME NEW B, Entered(B), Opens
  PROVE  Entered(B)'
<1>1. ASSUME NEW i \in 1..Len(stack')
      PROVE  /\ stack'[i].path \in B \cup {<<>>}
             /\ \A a \in Name : Append(stack'[i].path, a) \in B
                      <=> a \in stack'[i].read \ stack'[i].batch
  <2>1. i \in 1..Len(stack) \/ i = Len(stack) + 1
    BY <1>1 DEF Opens
  <2>2. CASE i \in 1..Len(stack)
    <3>1. stack'[i] = stack[i]
      BY <2>2 DEF Opens
    <3> QED
      BY <2>2, <3>1 DEF Entered
  <2>3. CASE i = Len(stack) + 1
    <3>1. /\ stack'[i].path = target /\ stack'[i].read = {} /\ stack'[i].batch = {} /\ pc = "open"
      BY <2>3 DEF Opens
    <3>2. target \in B \cup {<<>>} /\ \A a \in Name : Append(target, a) \notin B
      BY <3>1 DEF Entered
    <3> QED
      BY <3>1, <3>2
  <2> QED
    BY <2>1, <2>2, <2>3
<1>2. pc' # "open"
  BY DEF Opens
<1>3. /\ B \subseteq Seq(Name) \ {<<>>}
      /\ \A q \in Seq(Name), a \in Name : Append(q, a) \in B => q \in B \cup {<<>>}
  BY DEF Entered
<1> QED
  BY <1>1, <1>2, <1>3 DEF Entered

LEMMA EnteredReads ==
  ASSUME NEW B, Entered(B), Inv, Trail, stack # <<>>, Readdirnames
  PROVE  Entered(B)'
<1> DEFINE n == Len(stack)
<1>1. PICK b \in SUBSET Name : Reads(b)
  BY ReadFacts
<1>2. n \in Nat \ {0} /\ Len(stack') = n /\ Current \in Frame /\ Current = stack[n] /\ n \in 1..n
  BY ReadFacts, CurrentFacts DEF Current
<1>3. /\ stack'[n].path = stack[n].path
      /\ stack'[n].read \ stack'[n].batch = stack[n].read \ stack[n].batch
  <2>1. /\ stack'[n].path = Current.path /\ stack'[n].read = Current.read \cup b
        /\ stack'[n].batch = b /\ Current.batch = {}
    BY <1>1, <1>2 DEF Reads, Frame
  <2>2. b \cap Current.read = {}
    BY <1>1 DEF Reads, Unread
  <2> QED
    BY <1>2, <2>1, <2>2
<1>4. \A i \in 1..(n - 1) : stack'[i] = stack[i]
  BY <1>1 DEF Reads
<1>5. pc' # "open"
  BY <1>1 DEF Reads
<1> HIDE DEF n
<1>6. ASSUME NEW i \in 1..Len(stack')
      PROVE  /\ stack'[i].path \in B \cup {<<>>}
             /\ \A a \in Name : Append(stack'[i].path, a) \in B
                      <=> a \in stack'[i].read \ stack'[i].batch
  <2>1. /\ stack'[i].path = stack[i].path
        /\ stack'[i].read \ stack'[i].batch = stack[i].read \ stack[i].batch
    <3>1. i = n \/ i \in 1..(n - 1)
      BY <1>2
    <3> QED
      BY <1>3, <1>4, <3>1
  <2>2. i \in 1..Len(stack)
    BY <1>2 DEF n
  <2> QED
    BY <2>1, <2>2 DEF Entered
<1>7. /\ B \subseteq Seq(Name) \ {<<>>}
      /\ \A q \in Seq(Name), a \in Name : Append(q, a) \in B => q \in B \cup {<<>>}
  BY DEF Entered
<1> QED
  BY <1>5, <1>6, <1>7 DEF Entered

LEMMA EnteredTakes ==
  ASSUME NEW B, Entered(B), Inv, Trail, stack # <<>>, Len(stack') = Len(stack),
         NEW a \in Name, Takes(a), NEW p, p = target'
  PROVE  p \notin B /\ p \in Seq(Name) /\ Entered(B \cup {p})'
<1> DEFINE n == Len(stack)
           c == Current.path
           C == B \cup {p}
<1>1. /\ n \in Nat \ {0} /\ n \in 1..n /\ Current = stack[n] /\ Current \in Frame
      /\ stack \in Seq(Frame)
  BY CurrentFacts DEF Current, Inv, TypeOK
<1>2. /\ c \in Seq(Name) /\ Len(c) = n - 1 /\ c \in B \cup {<<>>}
      /\ Current.batch \subseteq Current.read
      /\ \A b \in Name : Append(c, b) \in B <=> b \in Current.read \ Current.batch
  BY <1>1 DEF Frame, Trail, Chained, Entered
<1>3. /\ a \in Current.batch /\ p = Append(c, a) /\ p \in Seq(Name) /\ Len(p) = n /\ p # <<>>
      /\ \A i \in 1..(n - 1) : stack'[i] = stack[i]
  BY DEF Takes
<1>4. /\ stack'[n].path = c /\ stack'[n].read = Current.read
      /\ stack'[n].batch = Current.batch \ {a}
  BY <1>1 DEF Takes, Frame
<1>5. /\ B \subseteq Seq(Name) \ {<<>>}
      /\ \A q \in Seq(Name), b \in Name : Append(q, b) \in B => q \in B \cup {<<>>}
  BY DEF Entered
<1>6. p \notin B
  BY <1>2, <1>3
<1>7. C \subseteq Seq(Name) \ {<<>>}
  BY <1>3, <1>5
<1> HIDE DEF c, n
<1>8. ASSUME NEW q \in Seq(Name), NEW b \in Name, Append(q, b) = p PROVE q = c /\ b = a
  <2>1. Append(q, b) = Append(c, a) /\ c \in Seq(Name)
    BY <1>2, <1>3, <1>8
  <2> QED
    BY <2>1, AppendSame
<1>9. \A q \in Seq(Name), b \in Name : Append(q, b) \in C => q \in C \cup {<<>>}
  BY <1>2, <1>5, <1>8
<1>10. ASSUME NEW i \in 1..n
       PROVE  /\ stack'[i].path \in C \cup {<<>>}
              /\ \A b \in Name : Append(stack'[i].path, b) \in C
                       <=> b \in stack'[i].read \ stack'[i].batch
  <2>1. CASE i = n
    <3>1. \A b \in Name : Append(c, b) \in C <=> b \in Current.read \ (Current.batch \ {a})
      BY <1>2, <1>3, <1>8
    <3> QED
      BY <1>2, <1>4, <2>1, <3>1
  <2>2. CASE i # n
    <3>1. i \in 1..(n - 1) /\ i \in 1..n /\ i < n
      BY <1>1, <2>2
    <3>2. stack'[i] = stack[i] /\ stack[i].path \in Seq(Name) /\ Len(stack[i].path) = i - 1
      <4>1. stack[i] \in Frame
        BY <1>1, <3>1 DEF n
      <4>2. Len(stack[i].path) = i - 1
        BY <3>1 DEF Trail, Chained, n
      <4> QED
        BY <1>3, <3>1, <4>1, <4>2 DEF Frame
    <3>3. stack[i].path # c
      BY <1>1, <1>2, <3>1, <3>2
    <3>4. \A b \in Name : Append(stack[i].path, b) # p
      BY <1>8, <3>2, <3>3
    <3>5. /\ stack[i].path \in B \cup {<<>>}
          /\ \A b \in Name : Append(stack[i].path, b) \in B <=> b \in stack[i].read \ stack[i].batch
      BY DEF Entered, n
    <3> QED
      BY <3>2, <3>4, <3>5
  <2> QED
    BY <2>1, <2>2
<1>11. \A b \in Name : Append(p, b) \notin C
  <2> SUFFICES ASSUME NEW b \in Name PROVE Append(p, b) \notin C
    OBVIOUS
  <2>1. Append(p, b) \notin B
    BY <1>3, <1>5, <1>6
  <2>2. Append(p, b) # p
    BY <1>1, <1>3, AppendFacts
  <2> QED
    BY <2>1, <2>2
<1>12. Len(stack') = n
  BY DEF n
<1> HIDE DEF C
<1>13. Entered(C)'
  <2>1. \A i \in 1..Len(stack') :
          /\ stack'[i].path \in C \cup {<<>>}
          /\ \A b \in Name : Append(stack'[i].path, b) \in C
                   <=> b \in stack'[i].read \ stack'[i].batch
    BY <1>10, <1>12
  <2>2. target' \in C \cup {<<>>} /\ \A b \in Name : Append(target', b) \notin C
    BY <1>11 DEF C
  <2> QED
    BY <1>7, <1>9, <2>1, <2>2 DEF Entered
<1> QED
  BY <1>3, <1>6, <1>13 DEF C

\* A directory that can be read, and whether a call for it is still to do.
Ready(p) == Resolve(p) \in Dir /\ Stable(p) /\ p \notin failed /\ Len(p) < MaxRecursionDepth
Busy(p) == (pc = "open" /\ p = target) \/ \E i \in 1..Len(stack) : stack[i].path = p

\* All that stays in directory p has been taken up.
Taken(p, B) ==
    \A a \in Name : <<Resolve(p), a>> \notin touched /\ entry[Resolve(p)][a] # Gone
                      => Append(p, a) \in B

\* What the walk has gone through it has taken up completely.
Finished(B) == \A p \in B \cup {<<>>} : Ready(p) /\ ~Busy(p) => Taken(p, B)

\* What has been taken up stays so.
LEMMA TakenStays ==
  ASSUME NEW B, NEW C, B \subseteq C, Grows, NEW p \in Seq(Name), Ready(p)'
  PROVE  Ready(p) /\ (Taken(p, B) => Taken(p, C)')
<1>1. /\ Stable(p) /\ Resolve(p)' = Resolve(p) /\ Resolve(p) \in Dir
  BY GrowFacts DEF Ready
<1>2. p \notin failed /\ Len(p) < MaxRecursionDepth
  BY DEF Ready, Grows
<1>3. \A a \in Name : <<Resolve(p), a>> \notin touched' =>
        <<Resolve(p), a>> \notin touched /\ entry'[Resolve(p)][a] = entry[Resolve(p)][a]
  BY <1>1, GrowFacts
<1>4. ASSUME Taken(p, B) PROVE Taken(p, C)'
  <2> SUFFICES ASSUME NEW a \in Name, <<Resolve(p)', a>> \notin touched',
                      entry'[Resolve(p)'][a] # Gone
               PROVE  Append(p, a) \in C
    BY DEF Taken
  <2>1. <<Resolve(p), a>> \notin touched /\ entry[Resolve(p)][a] # Gone
    BY <1>1, <1>3
  <2> QED
    BY <1>4, <2>1 DEF Taken
<1> QED
  BY <1>1, <1>2, <1>4 DEF Ready

\* Where no call is done with, nothing can be missed.
LEMMA FinishedKept ==
  ASSUME NEW B, NEW C, B \subseteq C, C \subseteq Seq(Name), Grows, Finished(B),
         \A p \in Seq(Name) : Busy(p) => Busy(p)',
         \A p \in C \ B : Ready(p)' => Busy(p)'
  PROVE  Finished(C)'
<1> SUFFICES ASSUME NEW p \in C \cup {<<>>}, Ready(p)', ~Busy(p)' PROVE Taken(p, C)'
  BY DEF Finished
<1>1. p \in B \cup {<<>>} /\ p \in Seq(Name)
  <2>1. <<>> \in Seq(Name)
    OBVIOUS
  <2>2. p \notin C \ B
    BY Zenon
  <2>3. p \in C => p \in Seq(Name)
    OBVIOUS
  <2> QED
    BY <2>1, <2>2, <2>3
<1>2. Ready(p) /\ (Taken(p, B) => Taken(p, C)')
  BY <1>1, TakenStays
<1>3. ~Busy(p)
  BY <1>1
<1> QED
  BY <1>1, <1>2, <1>3 DEF Finished

LEMMA FinishedCloses ==
  ASSUME NEW B, Entered(B), FrameDir, Grows, Finished(B), Closes
  PROVE  Finished(B)'
<1> SUFFICES ASSUME NEW p \in B \cup {<<>>}, Ready(p)', ~Busy(p)' PROVE Taken(p, B)'
  BY DEF Finished
<1>1. p \in Seq(Name)
  <2>1. <<>> \in Seq(Name)
    OBVIOUS
  <2> QED
    BY <2>1 DEF Entered
<1>2. Ready(p) /\ (Taken(p, B) => Taken(p, B)')
  BY <1>1, TakenStays
<1>3. CASE ~Busy(p)
  BY <1>2, <1>3 DEF Finished
<1>4. CASE pc = "open" /\ p = target
  <2>1. Resolve(p) \notin Dir \/ p \in failed'
    BY <1>4 DEF Closes
  <2>2. Resolve(p) \in Dir /\ p \notin failed'
    BY <1>2 DEF Ready
  <2> QED
    BY <2>1, <2>2
<1>5. ASSUME NEW i \in 1..Len(stack), stack[i].path = p PROVE Taken(p, B)
  <2>1. i \notin 1..Len(stack')
    <3> SUFFICES ASSUME i \in 1..Len(stack') PROVE FALSE
      OBVIOUS
    <3>1. stack'[i].path = p
      BY <1>5 DEF Closes
    <3> QED
      BY <3>1 DEF Busy
  <2>2. p \notin failed'
    BY DEF Ready
  <2>3. stack[i].batch = {} /\ \A a \in Name \ stack[i].read : entry[stack[i].dir][a] = Gone
    BY <1>5, <2>1, <2>2 DEF Closes
  <2>4. Resolve(p) = stack[i].dir
    BY <1>1, <1>2, <1>5 DEF FrameDir, Ready
  <2>5. \A a \in Name : Append(p, a) \in B <=> a \in stack[i].read \ stack[i].batch
    BY <1>5 DEF Entered
  <2> QED
    BY <2>3, <2>4, <2>5 DEF Taken
<1> QED
  BY <1>2, <1>3, <1>4, <1>5 DEF Busy

LEMMA FinishedOpens ==
  ASSUME NEW B, Entered(B), Grows, Finished(B), Opens
  PROVE  Finished(B)'
<1>1. ASSUME NEW p \in Seq(Name), Busy(p) PROVE Busy(p)'
  <2>1. CASE p = target
    <3>1. stack'[Len(stack) + 1].path = p /\ Len(stack) + 1 \in 1..Len(stack')
      BY <2>1 DEF Opens
    <3> QED
      BY <3>1 DEF Busy
  <2>2. ASSUME NEW i \in 1..Len(stack), stack[i].path = p PROVE Busy(p)'
    <3>1. stack'[i].path = p /\ i \in 1..Len(stack')
      BY <2>2 DEF Opens
    <3> QED
      BY <3>1 DEF Busy
  <2> QED
    BY <1>1, <2>1, <2>2 DEF Busy
<1>2. B \subseteq Seq(Name) /\ B \subseteq B /\ B \ B = {}
  BY DEF Entered
<1> QED
  BY <1>1, <1>2, FinishedKept

\* Frames that stay for the same paths keep their directories busy.
LEMMA BusySame ==
  ASSUME Inv, Len(stack') = Len(stack), pc = "open" => pc' = "open" /\ target' = target,
         \A i \in 1..Len(stack) : stack'[i].path = stack[i].path
  PROVE  \A p : Busy(p) => Busy(p)'
<1> SUFFICES ASSUME NEW p, Busy(p) PROVE Busy(p)'
  OBVIOUS
<1>1. CASE pc = "open" /\ p = target
  BY <1>1 DEF Busy
<1>2. ASSUME NEW i \in 1..Len(stack), stack[i].path = p PROVE Busy(p)'
  <2>1. stack'[i].path = p /\ i \in 1..Len(stack')
    BY <1>2
  <2> QED
    BY <2>1 DEF Busy
<1> QED
  BY <1>1, <1>2 DEF Busy

LEMMA FinishedSame ==
  ASSUME NEW B, Entered(B), Inv, Grows, Finished(B),
         Len(stack') = Len(stack), pc = "open" => pc' = "open" /\ target' = target,
         \A i \in 1..Len(stack) : stack'[i].path = stack[i].path
  PROVE  Finished(B)'
<1>1. \A p : Busy(p) => Busy(p)'
  BY BusySame
<1>2. B \subseteq Seq(Name) /\ B \subseteq B /\ B \ B = {}
  BY DEF Entered
<1> QED
  BY <1>1, <1>2, FinishedKept

\* What Visit does with what it finds.
LEMMA StepForFacts ==
  ASSUME NEW at, NEW level
  PROVE  /\ at \in Dir /\ level + 1 # MaxRecursionDepth => StepFor(at, level) = "open"
         /\ at = File => StepFor(at, level) = "info"
         /\ StepFor(at, level) \in {"loop", "open", "info"}
<1>1. at \in Dir => at \notin {Gone, Dangling}
  BY WalkAssumption
<1>2. File \notin Dir /\ File \notin {Gone, Dangling}
  BY WalkAssumption DEF File, Gone, Dangling
<1> QED
  BY <1>1, <1>2 DEF StepFor

\* A frame's path is left alone by Takes and by Reads.
LEMMA TakesPaths ==
  ASSUME Inv, stack # <<>>, NEW a \in Name, Takes(a)
  PROVE  \A i \in 1..Len(stack) : stack'[i].path = stack[i].path
<1>1. Len(stack) \in Nat \ {0} /\ Current \in Frame
  BY CurrentFacts
<1>2. stack'[Len(stack)].path = stack[Len(stack)].path
  BY <1>1 DEF Takes, Frame, Current
<1>3. \A i \in 1..Len(stack) : i \in 1..(Len(stack) - 1) \/ i = Len(stack)
  BY <1>1
<1>4. \A i \in 1..(Len(stack) - 1) : stack'[i] = stack[i]
  BY DEF Takes
<1> QED
  BY <1>2, <1>3, <1>4

LEMMA ReadsPaths ==
  ASSUME Inv, stack # <<>>, NEW b \in SUBSET Name, Reads(b)
  PROVE  \A i \in 1..Len(stack) : stack'[i].path = stack[i].path
<1>1. Len(stack) \in Nat \ {0} /\ Current \in Frame
  BY CurrentFacts
<1>2. stack'[Len(stack)].path = stack[Len(stack)].path
  BY <1>1 DEF Reads, Frame, Current
<1>3. \A i \in 1..Len(stack) : i \in 1..(Len(stack) - 1) \/ i = Len(stack)
  BY <1>1
<1>4. \A i \in 1..(Len(stack) - 1) : stack'[i] = stack[i]
  BY DEF Reads
<1> QED
  BY <1>2, <1>3, <1>4

LEMMA FinishedTakes ==
  ASSUME NEW B, Entered(B), Inv, Grows, Finished(B), stack # <<>>, Len(stack') = Len(stack),
         pc = "loop", entry' = entry, NEW a \in Name, Takes(a), NEW p, p = target'
  PROVE  Finished(B \cup {p})'
<1> DEFINE C == B \cup {p}
<1>1. \A q \in Seq(Name) : Busy(q) => Busy(q)'
  BY TakesPaths, BusySame
<1>2. p \in Seq(Name) /\ Len(p) = Len(stack) /\ B \subseteq C
  BY DEF Takes
<1>3. C \subseteq Seq(Name)
  BY <1>2 DEF Entered
<1>4. ASSUME NEW q \in C \ B, Ready(q)' PROVE Busy(q)'
  <2>1. q = p
    OBVIOUS
  <2>2. Resolve(p)' = Resolve(p) /\ pc' = StepFor(Resolve(p), Current.level)
    BY DEF Takes, Resolve
  <2>3. Resolve(p) \in Dir /\ Len(p) < MaxRecursionDepth
    BY <1>4, <2>1, <2>2 DEF Ready
  <2>4. Current.level + 1 = Len(p)
    BY <1>2, CurrentFacts
  <2>5. Current.level + 1 # MaxRecursionDepth
    BY <2>3, <2>4, WalkAssumption
  <2>6. pc' = "open"
    BY <2>2, <2>3, <2>5, StepForFacts
  <2> QED
    BY <2>1, <2>6 DEF Busy
<1> HIDE DEF C
<1>5. Finished(C)'
  BY <1>1, <1>2, <1>3, <1>4, FinishedKept
<1> QED
  BY <1>5 DEF C

\* What has been taken up and is a file is listed, once, or about to be.
Lists(B) ==
    /\ \A i \in 1..Len(out) : out[i] \in B /\ ~(pc = "info" /\ out[i] = target)
    /\ \A i, j \in 1..Len(out) : out[i] = out[j] => i = j
    /\ pc = "info" => target \in B
    /\ \A p \in B : Resolve(p) = File /\ Stable(p) /\ ~(pc = "info" /\ p = target) =>
                      \E i \in 1..Len(out) : out[i] = p

LEMMA ListsSame ==
  ASSUME NEW B, B \subseteq Seq(Name), Grows, Lists(B), out' = out,
         \/ pc' = pc /\ target' = target
         \/ pc # "info" /\ pc' # "info"
  PROVE  Lists(B)'
<1>1. ASSUME NEW p \in B, Resolve(p)' = File, Stable(p)', ~(pc' = "info" /\ p = target')
      PROVE  \E i \in 1..Len(out) : out[i] = p
  <2>1. Resolve(p) = File /\ Stable(p)
    BY <1>1, GrowFacts
  <2>2. ~(pc = "info" /\ p = target)
    BY <1>1
  <2> QED
    BY <2>1, <2>2 DEF Lists
<1>2. \A i \in 1..Len(out) : out[i] \in B /\ ~(pc' = "info" /\ out[i] = target')
  BY DEF Lists
<1>3. \A i, j \in 1..Len(out) : out[i] = out[j] => i = j
  BY DEF Lists
<1>4. pc' = "info" => target' \in B
  BY DEF Lists
<1> QED
  BY <1>1, <1>2, <1>3, <1>4 DEF Lists

LEMMA ListsTakes ==
  ASSUME NEW B, B \subseteq Seq(Name), Grows, Lists(B), out' = out, pc = "loop",
         NEW a \in Name, Takes(a), NEW p, p = target', p \notin B, entry' = entry
  PROVE  Lists(B \cup {p})'
<1> DEFINE C == B \cup {p}
<1>1. ASSUME NEW q \in C, Resolve(q)' = File, Stable(q)', ~(pc' = "info" /\ q = target')
      PROVE  \E i \in 1..Len(out) : out[i] = q
  <2>1. CASE q \in B
    <3>1. Resolve(q) = File /\ Stable(q)
      BY <1>1, <2>1, GrowFacts
    <3> QED
      BY <2>1, <3>1 DEF Lists
  <2>2. CASE q = p
    <3>1. Resolve(p)' = Resolve(p) /\ pc' = StepFor(Resolve(p), Current.level)
      BY DEF Takes, Resolve
    <3>2. Resolve(p) = File
      BY <1>1, <2>2, <3>1
    <3>3. pc' = "info"
      BY <3>1, <3>2, StepForFacts
    <3> QED
      BY <1>1, <2>2, <3>3
  <2> QED
    BY <2>1, <2>2
<1>2. \A i \in 1..Len(out) : out[i] \in C /\ out[i] # p
  BY DEF Lists
<1>3. \A i, j \in 1..Len(out) : out[i] = out[j] => i = j
  BY DEF Lists
<1>4. target' \in C
  OBVIOUS
<1> HIDE DEF C
<1>5. Lists(C)'
  BY <1>1, <1>2, <1>3, <1>4 DEF Lists
<1> QED
  BY <1>5 DEF C

LEMMA ListsInfo ==
  ASSUME NEW B, B \subseteq Seq(Name), Inv, Grows, Lists(B), Info
  PROVE  Lists(B)'
<1>1. /\ pc = "info" /\ pc' = "loop" /\ target' = target /\ out \in Seq(Seq(Name))
      /\ Len(out) \in Nat /\ target \in B /\ target \in Seq(Name)
  BY DEF Inv, TypeOK, Info, Goto, Lists
<1>2. CASE Resolve(target) \in {Gone, Dangling}
  <2>1. out' = out
    BY <1>2 DEF Info
  <2>2. Resolve(target) # File
    BY <1>2 DEF File, Gone, Dangling
  <2>3. ASSUME NEW p \in B, Resolve(p)' = File, Stable(p)'
        PROVE  \E i \in 1..Len(out) : out[i] = p
    <3>1. Resolve(p) = File /\ Stable(p)
      BY <2>3, GrowFacts
    <3> QED
      BY <2>2, <3>1 DEF Lists
  <2> QED
    BY <1>1, <2>1, <2>3 DEF Lists
<1>3. CASE Resolve(target) \notin {Gone, Dangling}
  <2>1. out' = Append(out, target)
    BY <1>3 DEF Info
  <2>2. /\ Len(out') = Len(out) + 1 /\ out'[Len(out) + 1] = target
        /\ \A i \in 1..Len(out) : out'[i] = out[i]
    BY <1>1, <2>1
  <2>3. \A i \in 1..Len(out') : i \in 1..Len(out) \/ i = Len(out) + 1
    BY <1>1, <2>2
  <2>4. \A i \in 1..Len(out) : out[i] # target /\ out[i] \in B
    BY <1>1 DEF Lists
  <2>5. \A i \in 1..Len(out') : out'[i] \in B
    BY <1>1, <2>2, <2>3, <2>4
  <2>6. \A i, j \in 1..Len(out') : out'[i] = out'[j] => i = j
    <3>1. \A i, j \in 1..Len(out) : out[i] = out[j] => i = j
      BY DEF Lists
    <3> QED
      BY <2>2, <2>3, <2>4, <3>1
  <2>7. ASSUME NEW p \in B, Resolve(p)' = File, Stable(p)'
        PROVE  \E i \in 1..Len(out') : out'[i] = p
    <3>1. Resolve(p) = File /\ Stable(p)
      BY <2>7, GrowFacts
    <3>2. CASE p = target
      BY <1>1, <2>2, <3>2
    <3>3. CASE p # target
      <4>1. PICK i \in 1..Len(out) : out[i] = p
        BY <3>1, <3>3 DEF Lists
      <4> QED
        BY <1>1, <2>2, <4>1
    <3> QED
      BY <3>2, <3>3
  <2> QED
    BY <1>1, <2>5, <2>6, <2>7 DEF Lists
<1> QED
  BY <1>2, <1>3

Listing == \E B \in SUBSET Seq(Name) : Entered(B) /\ Finished(B) /\ Lists(B)

LEMMA ListingInit == Init => FrameDir /\ Listing
<1> SUFFICES ASSUME Init PROVE FrameDir /\ Listing
  OBVIOUS
<1>1. stack = <<>> /\ pc = "open" /\ target = <<>> /\ out = <<>>
  BY DEF Init
<1>2. FrameDir
  BY <1>1 DEF FrameDir
<1>3. Entered({})
  BY <1>1 DEF Entered
<1>4. Finished({})
  BY <1>1 DEF Finished, Busy
<1>5. Lists({})
  BY <1>1 DEF Lists
<1> QED
  BY <1>2, <1>3, <1>4, <1>5 DEF Listing

LEMMA ListingStep ==
  ASSUME Inv, Trail, FrameDir, Listing, [Next]_vars
  PROVE  Listing'
<1>0. Grows
  BY GrowStep
<1>1. PICK B \in SUBSET Seq(Name) : Entered(B) /\ Finished(B) /\ Lists(B)
  BY DEF Listing
<1> SUFFICES \/ Entered(B)' /\ Finished(B)' /\ Lists(B)'
             \/ \E p \in Seq(Name) :
                  Entered(B \cup {p})' /\ Finished(B \cup {p})' /\ Lists(B \cup {p})'
  <2>1. \A p \in Seq(Name) : B \cup {p} \in SUBSET Seq(Name)
    OBVIOUS
  <2> QED
    BY <2>1, Zenon DEF Listing
<1>2. CASE Opens
  <2>1. out' = out /\ pc # "info" /\ pc' # "info"
    BY <1>2 DEF Opens
  <2> QED
    BY <1>0, <1>1, <1>2, <2>1, EnteredOpens, FinishedOpens, ListsSame
<1>3. CASE Closes
  <2>1. out' = out /\ pc # "info" /\ pc' # "info" /\ pc' # "open"
    BY <1>3 DEF Closes
  <2>2. \A i \in 1..Len(stack') : i \in 1..Len(stack) /\ stack'[i] = stack[i]
    BY <1>3 DEF Closes
  <2>3. Entered(B)'
    BY <1>1, <2>1, <2>2, EnteredPrefix
  <2>4. Finished(B)'
    BY <1>0, <1>1, <1>3, FinishedCloses
  <2>5. Lists(B)'
    BY <1>0, <1>1, <2>1, ListsSame
  <2> QED
    BY <2>3, <2>4, <2>5
<1>4. CASE stack # <<>> /\ Readdirnames
  <2>1. PICK b \in SUBSET Name : Reads(b)
    BY <1>4, ReadFacts
  <2>2. Len(stack') = Len(stack) /\ out' = out /\ pc = "loop" /\ pc' = pc /\ target' = target
    BY <1>4, <2>1, ReadFacts DEF Reads
  <2>3. Entered(B)'
    BY <1>1, <1>4, EnteredReads
  <2>4. \A i \in 1..Len(stack) : stack'[i].path = stack[i].path
    BY <1>4, <2>1, ReadsPaths
  <2>5. Finished(B)'
    BY <1>0, <1>1, <2>2, <2>4, FinishedSame
  <2>6. Lists(B)'
    BY <1>0, <1>1, <2>2, ListsSame
  <2> QED
    BY <2>3, <2>5, <2>6
<1>5. CASE stack # <<>> /\ Visit
  <2>1. PICK a \in Name : Takes(a)
    BY <1>5, VisitFacts
  <2>2. Len(stack') = Len(stack) /\ out' = out /\ pc = "loop" /\ entry' = entry
    BY <1>5, VisitFacts DEF Visit, host
  <2> SUFFICES ASSUME NEW p, p = target'
               PROVE  /\ p \in Seq(Name)
                      /\ Entered(B \cup {p})' /\ Finished(B \cup {p})' /\ Lists(B \cup {p})'
    BY Zenon
  <2>3. p \notin B /\ p \in Seq(Name) /\ Entered(B \cup {p})'
    BY <1>1, <1>5, <2>1, <2>2, EnteredTakes
  <2>4. Finished(B \cup {p})'
    BY <1>0, <1>1, <1>5, <2>1, <2>2, FinishedTakes
  <2>5. Lists(B \cup {p})'
    BY <1>0, <1>1, <2>1, <2>2, <2>3, ListsTakes
  <2> QED
    BY <2>3, <2>4, <2>5
<1>6. CASE Info
  <2>1. stack' = stack /\ pc = "info" /\ pc' = "loop" /\ target' = target
    BY <1>6 DEF Info, Goto
  <2>2. Entered(B)'
    BY <1>1, <2>1, EnteredPrefix
  <2>3. Finished(B)'
    BY <1>0, <1>1, <2>1, FinishedSame
  <2>4. Lists(B)'
    BY <1>0, <1>1, <1>6, ListsInfo
  <2> QED
    BY <2>2, <2>3, <2>4
<1>7. CASE UNCHANGED <<stack, pc, target, out>>
  <2>1. stack' = stack /\ pc' = pc /\ target' = target /\ out' = out
    BY <1>7
  <2>2. Entered(B)'
    BY <1>1, <2>1, EnteredPrefix
  <2>3. Finished(B)'
    BY <1>0, <1>1, <2>1, FinishedSame
  <2>4. Lists(B)'
    BY <1>0, <1>1, <2>1, ListsSame
  <2> QED
    BY <2>2, <2>3, <2>4
<1>8. (\E d \in Dir, a \in Name : Edit(d, a)) \/ UNCHANGED vars
        => UNCHANGED <<stack, pc, target, out>>
  BY DEF Edit, vars
<1> QED
  BY <1>2, <1>3, <1>4, <1>5, <1>6, <1>7, <1>8, Moves

\* When the walk is over, all that stays where it is has been taken up.
LEMMA AllTaken ==
  ASSUME Inv, Trail, NEW B, Finished(B), pc = "done"
  PROVE  \A p \in Seq(Name) \ {<<>>} :
           Len(p) <= MaxRecursionDepth /\ Stable(p) /\ Resolve(p) # Gone => p \in B
<1> DEFINE Missed(p) == /\ p # <<>> /\ Len(p) <= MaxRecursionDepth
                        /\ Stable(p) /\ Resolve(p) # Gone /\ p \notin B
           T == {k \in Nat : \E p \in Seq(Name) : Len(p) = k /\ Missed(p)}
<1>1. T = {}
  <2> SUFFICES ASSUME T # {} PROVE FALSE
    OBVIOUS
  <2>1. PICK k \in T : \A l \in T : k <= l
    BY LeastOf
  <2>2. PICK p \in Seq(Name) : Len(p) = k /\ Missed(p)
    BY <2>1
  <2>3. PICK q \in Seq(Name), a \in Name : p = Append(q, a) /\ Len(p) = Len(q) + 1
    BY <2>2, Split
  <2>4. Stable(q) /\ <<Resolve(q), a>> \notin touched /\ q \notin failed
    BY <2>2, <2>3, StableAppend
  <2>5. Resolve(q) \in Dir /\ entry[Resolve(q)][a] # Gone
    BY <2>2, <2>3, ResolveAppend DEF Down
  <2>6. Len(q) \in Nat /\ Len(q) < MaxRecursionDepth /\ ~(k <= Len(q))
    BY <2>2, <2>3, WalkAssumption
  <2>7. q \in B \cup {<<>>}
    <3>1. Len(q) \notin T
      BY <2>1, <2>6
    <3>2. ~Missed(q)
      BY <2>6, <3>1
    <3>3. Resolve(q) # Gone
      BY <2>5, WalkAssumption
    <3>4. Len(q) <= MaxRecursionDepth
      BY <2>6, WalkAssumption
    <3> QED
      BY <2>4, <3>2, <3>3, <3>4
  <2>8. stack = <<>> /\ Len(stack) = 0
    BY DEF Trail, Aimed
  <2>9. ~Busy(q)
    BY <2>8 DEF Busy
  <2>10. Ready(q)
    BY <2>4, <2>5, <2>6 DEF Ready
  <2>11. Append(q, a) \in B
    BY <2>4, <2>5, <2>7, <2>9, <2>10 DEF Finished, Taken
  <2> QED
    BY <2>2, <2>3, <2>11
<1>2. ASSUME NEW p \in Seq(Name) PROVE ~Missed(p)
  <2>1. Len(p) \in Nat
    OBVIOUS
  <2> QED
    BY <1>1, <2>1
<1> QED
  BY <1>2

LEMMA PathsFacts ==
  ASSUME NEW p \in Paths
  PROVE  p \in Seq(Name) \ {<<>>} /\ Len(p) <= MaxRecursionDepth
<1>1. PICK k \in 1..MaxRecursionDepth : p \in [1..k -> Name]
  BY DEF Paths
<1>2. k \in Nat \ {0} /\ k <= MaxRecursionDepth
  BY <1>1, WalkAssumption
<1>3. p \in Seq(Name) /\ Len(p) = k
  BY <1>1, <1>2, SeqDef, LenProperties
<1> QED
  BY <1>2, <1>3

LEMMA ListedOnce == Inv /\ Trail /\ Listing => StableFilesListedOnce
<1> SUFFICES ASSUME Inv, Trail, Listing, pc = "done",
                    NEW p \in Paths, Resolve(p) = File, Stable(p)
             PROVE  Cardinality({i \in DOMAIN out : out[i] = p}) = 1
  BY DEF StableFilesListedOnce
<1>1. PICK B \in SUBSET Seq(Name) : Entered(B) /\ Finished(B) /\ Lists(B)
  BY DEF Listing
<1>2. p \in Seq(Name) \ {<<>>} /\ Len(p) <= MaxRecursionDepth
  BY PathsFacts
<1>3. Resolve(p) # Gone
  BY DEF File, Gone
<1>4. p \in B
  BY <1>1, <1>2, <1>3, AllTaken
<1>5. PICK i \in 1..Len(out) : out[i] = p
  BY <1>1, <1>4 DEF Lists
<1>6. \A j \in 1..Len(out) : out[j] = p => j = i
  BY <1>1, <1>5 DEF Lists
<1>7. DOMAIN out = 1..Len(out)
  BY DEF Inv, TypeOK
<1>8. {j \in DOMAIN out : out[j] = p} = {i}
  BY <1>5, <1>6, <1>7
<1> QED
  BY <1>8, FS_Singleton

\* makeHostDirFilesInfoVerbose lists a file that stays where it is exactly once,
\* whatever happens to the rest of the tree, whichever other directory cannot be
\* read, however links lead in circles, and for every depth limit.
THEOREM StableListed == Spec => []StableFilesListedOnce
  <1>1. Init => Inv /\ Trail /\ FrameDir /\ Listing
    BY InitInv, TrailInit, ListingInit
  <1>2. Inv /\ Trail /\ FrameDir /\ Listing /\ [Next]_vars
          => (Inv /\ Trail /\ FrameDir /\ Listing)'
    BY StepInv, TrailStep, FrameDirStep, ListingStep
  <1>3. Inv /\ Trail /\ FrameDir /\ Listing => StableFilesListedOnce
    BY ListedOnce
  <1> QED BY <1>1, <1>2, <1>3, PTL DEF Spec

-----------------------------------------------------------------------------
(* The order of the list.                                                  *)

\* The names of a frame: none is read, or all that its directory has, and those
\* that were taken up come first.
InTurn(tree, f) ==
    /\ f.read = {} \/ f.read = {a \in Name : tree[f.dir][a] # Gone}
    /\ \A c \in f.read \ f.batch, a \in f.batch : c < a

\* What is listed comes before all that is still to come.
Order ==
    /\ \A i, j \in 1..Len(out) : i < j => Precedes(out[i], out[j])
    /\ \A i \in 1..Len(stack) : InTurn(entry, stack[i])
    /\ \A i \in 1..Len(stack), j \in 1..Len(out) :
         Precedes(out[j], stack[i].path) \/ Under(out[j], stack[i])
    /\ pc \in {"open", "info"} => \A j \in 1..Len(out) : Precedes(out[j], target)

InOrder == Cardinality(Name) <= BatchSize /\ edits = 0 => Order

LEMMA OrderInit == Init => InOrder
<1> SUFFICES ASSUME Init PROVE Order
  BY DEF InOrder
<1>1. stack = <<>> /\ out = <<>>
  BY DEF Init
<1> QED
  BY <1>1 DEF Order

\* A path that comes before another comes before all below that.
LEMMA PrecedesBelow ==
  ASSUME NEW p \in Seq(Name), NEW q \in Seq(Name), NEW a \in Name, Precedes(p, q)
  PROVE  Precedes(p, Append(q, a))
<1>1. PICK k \in DOMAIN p \cap DOMAIN q : p[k] < q[k] /\ \A j \in 1..(k - 1) : p[j] = q[j]
  BY DEF Precedes
<1>2. /\ Append(q, a) \in Seq(Name) /\ Len(q) \in Nat /\ Len(Append(q, a)) = Len(q) + 1
      /\ \A i \in 1..Len(q) : Append(q, a)[i] = q[i]
  BY AppendFacts
<1>3. k \in 1..Len(q) /\ k \in 1..(Len(q) + 1) /\ \A j \in 1..(k - 1) : j \in 1..Len(q)
  BY <1>1, <1>2
<1>4. k \in DOMAIN p \cap DOMAIN Append(q, a)
  BY <1>1, <1>2, <1>3
<1>5. p[k] < Append(q, a)[k] /\ \A j \in 1..(k - 1) : p[j] = Append(q, a)[j]
  BY <1>1, <1>2, <1>3
<1> QED
  BY <1>4, <1>5 DEF Precedes

\* What a frame has been through comes before the name that it takes up next.
LEMMA PrecedesNext ==
  ASSUME NEW p \in Seq(Name), NEW f \in Frame, NEW a \in Name, Under(p, f),
         \A c \in f.read \ f.batch : c < a
  PROVE  Precedes(p, Append(f.path, a))
<1> DEFINE n == Len(f.path) + 1
           q == Append(f.path, a)
<1>1. f.path \in Seq(Name) /\ Len(f.path) \in Nat /\ Len(p) \in Nat
  BY DEF Frame
<1>2. /\ q \in Seq(Name) /\ Len(q) = n /\ q[n] = a
      /\ \A i \in 1..Len(f.path) : q[i] = f.path[i]
  BY <1>1, AppendFacts
<1>3. n \in 1..Len(p) /\ n \in 1..n /\ n - 1 = Len(f.path)
  BY <1>1 DEF Under
<1>4. p[n] < a /\ \A j \in 1..(n - 1) : p[j] = f.path[j]
  BY <1>1, <1>3 DEF Under
<1>5. n \in DOMAIN p \cap DOMAIN q
  BY <1>1, <1>2, <1>3
<1>6. p[n] < q[n] /\ \A j \in 1..(n - 1) : p[j] = q[j]
  BY <1>2, <1>3, <1>4
<1> HIDE DEF n, q
<1>7. Precedes(p, q)
  BY <1>5, <1>6 DEF Precedes
<1> QED
  BY <1>7 DEF q

\* One batch holds what a directory has.
LEMMA WholeBatch ==
  ASSUME Cardinality(Name) <= BatchSize, NEW S \in SUBSET Name, NEW b \in SUBSET S,
         Cardinality(b) = IF Cardinality(S) < BatchSize THEN Cardinality(S) ELSE BatchSize
  PROVE  b = S
<1>1. IsFiniteSet(Name) /\ BatchSize \in Nat
  BY WalkAssumption
<1>2. IsFiniteSet(S) /\ Cardinality(S) <= Cardinality(Name)
  BY <1>1, FS_Subset
<1>3. Cardinality(S) \in Nat /\ Cardinality(Name) \in Nat
  BY <1>1, <1>2, FS_CardinalityType
<1>4. Cardinality(b) = Cardinality(S)
  BY <1>1, <1>2, <1>3
<1> QED
  BY <1>2, <1>4, FS_Subset

\* Frames, and the list, as they were.
LEMMA OrderPrefix ==
  ASSUME Order, entry' = entry, out' = out, pc' \notin {"open", "info"} \/ UNCHANGED <<pc, target>>,
         \A i \in 1..Len(stack') : i \in 1..Len(stack) /\ stack'[i] = stack[i]
  PROVE  Order'
<1>1. \A i, j \in 1..Len(out') : i < j => Precedes(out'[i], out'[j])
  BY DEF Order
<1>2. \A i \in 1..Len(stack') : InTurn(entry', stack'[i])
  BY DEF Order
<1>3. \A i \in 1..Len(stack'), j \in 1..Len(out') :
        Precedes(out'[j], stack'[i].path) \/ Under(out'[j], stack'[i])
  BY DEF Order
<1>4. pc' \in {"open", "info"} => \A j \in 1..Len(out') : Precedes(out'[j], target')
  BY DEF Order
<1> QED
  BY <1>1, <1>2, <1>3, <1>4 DEF Order

LEMMA OrderOpens ==
  ASSUME Order, Opens
  PROVE  Order'
<1> DEFINE n == Len(stack)
<1>1. /\ n \in Nat /\ Len(stack') = n + 1 /\ \A i \in 1..n : stack'[i] = stack[i]
      /\ stack'[n + 1].path = target
      /\ stack'[n + 1].read = {} /\ stack'[n + 1].batch = {}
      /\ pc = "open" /\ pc' = "loop" /\ entry' = entry /\ out' = out
  BY DEF Opens
<1>2. \A i \in 1..Len(stack') : i \in 1..n \/ i = n + 1
  BY <1>1
<1>3. InTurn(entry, stack'[n + 1])
  BY <1>1 DEF InTurn
<1>4. \A i \in 1..n : InTurn(entry, stack[i])
  BY DEF Order
<1>5. \A j \in 1..Len(out) : Precedes(out[j], target)
  BY <1>1 DEF Order
<1>6. \A i \in 1..n, j \in 1..Len(out) : Precedes(out[j], stack[i].path) \/ Under(out[j], stack[i])
  BY DEF Order
<1> HIDE DEF n
<1>7. \A i \in 1..Len(stack') : InTurn(entry', stack'[i])
  BY <1>1, <1>2, <1>3, <1>4
<1>8. \A i \in 1..Len(stack'), j \in 1..Len(out') :
        Precedes(out'[j], stack'[i].path) \/ Under(out'[j], stack'[i])
  BY <1>1, <1>2, <1>5, <1>6
<1>9. \A i, j \in 1..Len(out') : i < j => Precedes(out'[i], out'[j])
  BY <1>1 DEF Order
<1> QED
  BY <1>1, <1>7, <1>8, <1>9 DEF Order

LEMMA OrderReads ==
  ASSUME Inv, Trail, Order, Cardinality(Name) <= BatchSize,
         stack # <<>>, Len(stack') = Len(stack), NEW b \in SUBSET Name, Reads(b), out' = out
  PROVE  Order'
<1> DEFINE n == Len(stack)
           f == stack'[n]
<1>1. n \in Nat \ {0} /\ Current = stack[n] /\ Current \in Frame /\ n \in 1..n
  BY CurrentFacts DEF Current
<1>2. /\ f.path = Current.path /\ f.dir = Current.dir /\ f.batch = b
      /\ f.read = Current.read \cup b /\ Current.batch = {} /\ Current.read \subseteq Name
  BY <1>1 DEF Reads, Frame
<1>3. /\ \A i \in 1..(n - 1) : stack'[i] = stack[i]
      /\ pc' = "loop" /\ entry' = entry
  BY DEF Reads
<1>4. Current.read = {} /\ Unread = {a \in Name : entry[Current.dir][a] # Gone}
  <2>1. InTurn(entry, Current)
    BY <1>1 DEF Order
  <2>2. Unread # {}
    BY DEF Reads
  <2>3. Current.read = {}
    BY <2>1, <2>2 DEF InTurn, Unread
  <2> QED
    BY <2>3 DEF Unread
<1>5. b = Unread
  <2>1. Unread \in SUBSET Name
    BY DEF Unread
  <2>2. b \in SUBSET Unread
    BY DEF Reads
  <2>3. Cardinality(b) = IF Cardinality(Unread) < BatchSize THEN Cardinality(Unread) ELSE BatchSize
    BY DEF Reads
  <2> QED
    BY <2>1, <2>2, <2>3, WholeBatch
<1>6. InTurn(entry, f)
  BY <1>2, <1>4, <1>5 DEF InTurn
<1>7. f.read \ f.batch = Current.read \ Current.batch
  BY <1>2, <1>4
<1>8. \A j \in 1..Len(out) : Precedes(out[j], f.path) \/ Under(out[j], f)
  <2>1. \A j \in 1..Len(out) : Precedes(out[j], Current.path) \/ Under(out[j], Current)
    BY <1>1 DEF Order
  <2> QED
    BY <1>2, <1>7, <2>1 DEF Under
<1> HIDE DEF f
<1>9. \A i \in 1..Len(stack') : stack'[i] = f \/ (i \in 1..n /\ stack'[i] = stack[i])
  <2>1. \A i \in 1..n : i = n \/ i \in 1..(n - 1)
    BY <1>1
  <2>2. Len(stack') = n /\ stack'[n] = f /\ \A i \in 1..(n - 1) : stack'[i] = stack[i]
    BY <1>3 DEF f
  <2> HIDE DEF n
  <2> QED
    BY <2>1, <2>2
<1> HIDE DEF n
<1>10. \A i \in 1..Len(stack') : InTurn(entry', stack'[i])
  BY <1>3, <1>6, <1>9 DEF Order, n
<1>11. \A i \in 1..Len(stack'), j \in 1..Len(out') :
         Precedes(out'[j], stack'[i].path) \/ Under(out'[j], stack'[i])
  BY <1>8, <1>9 DEF Order, n
<1>12. \A i, j \in 1..Len(out') : i < j => Precedes(out'[i], out'[j])
  BY DEF Order
<1> QED
  BY <1>3, <1>10, <1>11, <1>12 DEF Order

LEMMA OrderTakes ==
  ASSUME Inv, Trail, Order, stack # <<>>, Len(stack') = Len(stack),
         NEW a \in Name, Takes(a), out' = out, entry' = entry
  PROVE  Order'
<1> DEFINE n == Len(stack)
           f == stack'[n]
<1>1. /\ n \in Nat \ {0} /\ Current = stack[n] /\ Current \in Frame /\ n \in 1..n
      /\ out \in Seq(Seq(Name))
  BY CurrentFacts DEF Current, Inv, TypeOK
<1>2. /\ f.path = Current.path /\ f.dir = Current.dir /\ f.batch = Current.batch \ {a}
      /\ f.read = Current.read /\ Current.batch \subseteq Current.read
      /\ Current.read \subseteq Name /\ Current.path \in Seq(Name)
  BY <1>1 DEF Takes, Frame, Trail, Chained
<1>3. /\ \A i \in 1..(n - 1) : stack'[i] = stack[i]
      /\ target' = Append(Current.path, a) /\ a \in Current.batch
      /\ \A b \in Current.batch : a <= b
  BY DEF Takes
<1>4. InTurn(entry, Current) /\ \A c \in Current.read \ Current.batch : c < a
  BY <1>1, <1>3 DEF Order, InTurn
<1>5. InTurn(entry, f)
  <2>1. f.read = {} \/ f.read = {c \in Name : entry[f.dir][c] # Gone}
    BY <1>2, <1>4 DEF InTurn
  <2>2. ASSUME NEW c \in f.read \ f.batch, NEW b \in f.batch PROVE c < b
    <3>1. c \in Nat /\ b \in Nat /\ a \in Nat /\ b # a /\ a <= b
      BY <1>2, <1>3, <2>2, WalkAssumption
    <3>2. c = a \/ c < a
      BY <1>2, <1>4, <2>2
    <3> HIDE DEF f, n
    <3> QED
      BY <3>1, <3>2
  <2> QED
    BY <2>1, <2>2 DEF InTurn
<1>6. Current.read \ Current.batch \subseteq f.read \ f.batch
  BY <1>2
<1>7. \A j \in 1..Len(out) : Precedes(out[j], Current.path) \/ Under(out[j], Current)
  BY <1>1 DEF Order
<1>8. \A j \in 1..Len(out) : Precedes(out[j], f.path) \/ Under(out[j], f)
  BY <1>2, <1>6, <1>7 DEF Under
<1>9. ASSUME NEW j \in 1..Len(out) PROVE Precedes(out[j], target')
  <2>1. out[j] \in Seq(Name)
    BY <1>1
  <2>2. CASE Precedes(out[j], Current.path)
    BY <1>2, <1>3, <2>1, <2>2, PrecedesBelow
  <2>3. CASE Under(out[j], Current)
    BY <1>1, <1>3, <1>4, <2>1, <2>3, PrecedesNext
  <2> QED
    BY <1>7, <2>2, <2>3
<1> HIDE DEF f
<1>10. \A i \in 1..Len(stack') : stack'[i] = f \/ (i \in 1..n /\ stack'[i] = stack[i])
  <2>1. \A i \in 1..n : i = n \/ i \in 1..(n - 1)
    BY <1>1
  <2>2. Len(stack') = n /\ stack'[n] = f /\ \A i \in 1..(n - 1) : stack'[i] = stack[i]
    BY <1>3 DEF f
  <2> HIDE DEF n
  <2> QED
    BY <2>1, <2>2
<1> HIDE DEF n
<1>11. \A i \in 1..Len(stack') : InTurn(entry', stack'[i])
  BY <1>5, <1>10 DEF Order, n
<1>12. \A i \in 1..Len(stack'), j \in 1..Len(out') :
         Precedes(out'[j], stack'[i].path) \/ Under(out'[j], stack'[i])
  BY <1>8, <1>10 DEF Order, n
<1>13. \A i, j \in 1..Len(out') : i < j => Precedes(out'[i], out'[j])
  BY DEF Order
<1> QED
  BY <1>9, <1>11, <1>12, <1>13 DEF Order

LEMMA OrderInfo ==
  ASSUME Inv, Trail, Order, Info
  PROVE  Order'
<1>1. /\ pc = "info" /\ pc' = "loop" /\ stack' = stack /\ entry' = entry
      /\ out \in Seq(Seq(Name)) /\ Len(out) \in Nat /\ target \in Seq(Name)
  BY DEF Info, Goto, Inv, TypeOK, host
<1>2. CASE out' = out
  BY <1>1, <1>2, OrderPrefix
<1>3. CASE out' = Append(out, target)
  <2>1. /\ Len(out') = Len(out) + 1 /\ out'[Len(out) + 1] = target
        /\ \A i \in 1..Len(out) : out'[i] = out[i]
    BY <1>1, <1>3
  <2>2. \A i \in 1..Len(out') : i \in 1..Len(out) \/ i = Len(out) + 1
    BY <1>1, <2>1
  <2>3. \A j \in 1..Len(out) : Precedes(out[j], target)
    BY <1>1 DEF Order
  <2>4. \A i \in 1..Len(stack) : Under(target, stack[i])
    BY <1>1 DEF Trail, Aimed
  <2>5. ASSUME NEW i \in 1..Len(out'), NEW j \in 1..Len(out'), i < j
        PROVE  Precedes(out'[i], out'[j])
    <3>1. i \in 1..Len(out)
      BY <1>1, <2>1, <2>5
    <3>2. CASE j \in 1..Len(out)
      BY <2>1, <2>5, <3>1, <3>2 DEF Order
    <3>3. CASE j = Len(out) + 1
      BY <2>1, <2>3, <3>1, <3>3
    <3> QED
      BY <2>2, <3>2, <3>3
  <2>6. \A i \in 1..Len(stack), j \in 1..Len(out') :
          Precedes(out'[j], stack[i].path) \/ Under(out'[j], stack[i])
    BY <2>1, <2>2, <2>4 DEF Order
  <2>7. \A i \in 1..Len(stack) : InTurn(entry, stack[i])
    BY DEF Order
  <2> QED
    BY <1>1, <2>5, <2>6, <2>7 DEF Order
<1> QED
  BY <1>2, <1>3 DEF Info

LEMMA OrderStep ==
  ASSUME Inv, Trail, InOrder, [Next]_vars
  PROVE  InOrder'
<1> SUFFICES ASSUME Cardinality(Name) <= BatchSize, edits' = 0 PROVE Order'
  BY DEF InOrder
<1>1. ASSUME NEW d \in Dir, NEW a \in Name, Edit(d, a) PROVE FALSE
  BY <1>1 DEF Edit, Inv, TypeOK
<1>2. edits = 0
  <2>1. Opens \/ Closes \/ Readdirnames \/ Visit \/ Info \/ UNCHANGED vars => edits' = edits
    BY DEF Opens, Closes, Readdirnames, Visit, Info, vars, host
  <2> QED
    BY <1>1, <2>1, Moves
<1>3. Order
  BY <1>2 DEF InOrder
<1>4. CASE Opens
  BY <1>3, <1>4, OrderOpens
<1>5. CASE Closes
  <2>1. entry' = entry /\ out' = out /\ pc' \notin {"info", "open"}
    BY <1>5 DEF Closes
  <2>2. \A i \in 1..Len(stack') : i \in 1..Len(stack) /\ stack'[i] = stack[i]
    BY <1>5 DEF Closes
  <2> QED
    BY <1>3, <2>1, <2>2, OrderPrefix
<1>6. CASE stack # <<>> /\ Readdirnames
  <2>1. PICK b \in SUBSET Name : Reads(b)
    BY <1>6, ReadFacts
  <2>2. Len(stack') = Len(stack) /\ out' = out
    BY <1>6, <2>1, ReadFacts DEF Reads
  <2> QED
    BY <1>3, <1>6, <2>1, <2>2, OrderReads
<1>7. CASE stack # <<>> /\ Visit
  <2>1. PICK a \in Name : Takes(a)
    BY <1>7, VisitFacts
  <2>2. Len(stack') = Len(stack) /\ out' = out /\ entry' = entry
    BY <1>7, VisitFacts DEF Visit, host
  <2> QED
    BY <1>3, <1>7, <2>1, <2>2, OrderTakes
<1>8. CASE Info
  BY <1>3, <1>8, OrderInfo
<1>9. CASE UNCHANGED vars
  <2>1. UNCHANGED <<stack, pc, target, out, entry>>
    BY <1>9 DEF vars, host
  <2> QED
    BY <1>3, <2>1, OrderPrefix
<1> QED
  BY <1>1, <1>4, <1>5, <1>6, <1>7, <1>8, <1>9, Moves

\* As long as one batch holds a whole directory and none changes, the list is in
\* the order of a depth-first walk by name, whatever order Readdirnames gives.
THEOREM OrderedList == Spec => []ListedInOrder
  <1>1. Init => Inv /\ Trail /\ InOrder
    BY InitInv, TrailInit, OrderInit
  <1>2. Inv /\ Trail /\ InOrder /\ [Next]_vars => (Inv /\ Trail /\ InOrder)'
    BY StepInv, TrailStep, OrderStep
  <1>3. Inv /\ Trail /\ InOrder => ListedInOrder
    <2>1. Inv => DOMAIN out = 1..Len(out)
      BY DEF Inv, TypeOK
    <2> QED
      BY <2>1 DEF InOrder, Order, ListedInOrder
  <1> QED BY <1>1, <1>2, <1>3, PTL DEF Spec
=============================================================================
