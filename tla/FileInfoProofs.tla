--------------------------- MODULE FileInfoProofs ---------------------------
(***************************************************************************)
(* Proofs about the description of a file (FileInfo): its type invariant,  *)
(* FieldsWereTrue and CandidatesInOrder, for every list of candidates and  *)
(* however often the files change; and about the search for the name of    *)
(* its owner (ColonFile): NameIsFirstRow and UnknownMeansAbsent, for every *)
(* passwd or group file.                                                   *)
(***************************************************************************)
EXTENDS FileInfo, ColonFile, WellFoundedInduction, TLAPS

\* The history holds the present.
WasNow == \A p \in Path : file[p] \in was[p]

\* The fields filled so far were true of the candidate being described.
PermsTrue == info.perms \in was[path]
OwnerTrue ==
    \/ info.owner \in was[path] \ Ownerless
    \/ info.owner = NoOwner /\ was[path] \cap Ownerless # {}
ContentTrue == readContent => info.content \in was[path] \ (Unreadable \cup {Gone})

Filled ==
    /\ pc \in {"owner", "content", "names"} => PermsTrue
    /\ pc \in {"content", "names"} => OwnerTrue
    /\ pc = "content" => readContent
    /\ pc = "names" => ContentTrue

\* Every candidate before the present one has failed at some moment.
PassedOver ==
    \A i \in DOMAIN Candidates : i < next => was[Candidates[i]] \cap CanFail # {}

\* How the call ends: with the present candidate, or with none left.
Ended ==
    /\ pc # "done" => result = Gone
    /\ pc = "done" /\ result = Gone => \A i \in DOMAIN Candidates : i < next
    /\ Found => next <= Len(Candidates) /\ result = path

Inv == TypeOK /\ WasNow /\ Filled /\ PassedOver /\ Ended /\ FieldsWereTrue

\* Indices of the list, and the path of the present candidate.
LEMMA CandidateFacts ==
    /\ Len(Candidates) \in Nat
    /\ DOMAIN Candidates = 1..Len(Candidates)
    /\ \A i \in 1..Len(Candidates) : Candidates[i] \in Path
  BY FileInfoAssumption DEF Path

\* The bounds of the index, and of what depends on it.
LEMMA IndexFacts ==
    ASSUME Inv
    PROVE  /\ next \in Nat /\ 1 <= next /\ next <= Len(Candidates) + 1
           /\ pc \in {"owner", "content", "names"} => next <= Len(Candidates)
           /\ next <= Len(Candidates) => next \in 1..Len(Candidates) /\ path \in Path
  <1>1. next \in 1..(Len(Candidates) + 1)
    BY DEF Inv, TypeOK
  <1>2. next \in Nat /\ 1 <= next /\ next <= Len(Candidates) + 1
    BY <1>1, CandidateFacts
  <1>3. pc \in {"owner", "content", "names"} => next <= Len(Candidates)
    BY DEF Inv, TypeOK
  <1>4. next <= Len(Candidates) => next \in 1..Len(Candidates)
    BY <1>2, CandidateFacts
  <1>5. next \in 1..Len(Candidates) => path \in Path
    BY CandidateFacts DEF path
  <1> QED BY <1>2, <1>3, <1>4, <1>5

\* The initial states have a one-element history and an empty report.
LEMMA InitInv == Init => Inv
  <1> SUFFICES ASSUME Init PROVE Inv
    OBVIOUS
  <1>1. TypeOK
    BY CandidateFacts, FileInfoAssumption DEF Init, TypeOK, Blank
  <1>2. WasNow /\ Filled /\ Ended /\ FieldsWereTrue
    BY DEF Init, WasNow, Filled, Ended, FieldsWereTrue, Found
  <1>3. PassedOver
    BY CandidateFacts DEF Init, PassedOver
  <1> QED BY <1>1, <1>2, <1>3 DEF Inv

\* A history only grows, and a failure once seen stays seen.
LEMMA HistoryGrows ==
    ASSUME Inv, NEW p \in Path,
           was[p] \subseteq was'[p], UNCHANGED readContent
    PROVE  was[p] \cap CanFail # {} => (was[p] \cap CanFail)' # {}
  BY DEF CanFail

\* A candidate that cannot be described is passed over.
LEMMA FailInv ==
    ASSUME Inv, Fail, next <= Len(Candidates), pc # "done",
           file[path] \in CanFail
    PROVE  Inv'
  <1>0. next \in 1..Len(Candidates) /\ path \in Path /\ next' = next + 1
    BY IndexFacts DEF Fail
  <1>1. TypeOK'
    <2>1. next' \in 1..(Len(Candidates) + 1)
      BY <1>0, CandidateFacts
    <2>2. /\ info' = Blank /\ pc' = "perms"
          /\ UNCHANGED <<readContent, file, changes, result, was>>
      BY DEF Fail
    <2> QED BY <2>1, <2>2 DEF Inv, TypeOK, Blank
  <1>2. WasNow'
    BY DEF Inv, WasNow, Fail
  <1>3. (Filled /\ Ended /\ FieldsWereTrue)'
    BY DEF Inv, Filled, Ended, FieldsWereTrue, Found, Fail
  <1>4. was[path] \cap CanFail # {}
    BY <1>0 DEF Inv, WasNow
  <1>5. PassedOver'
    <2> SUFFICES ASSUME NEW i \in DOMAIN Candidates, i < next + 1
                 PROVE  was[Candidates[i]] \cap CanFail # {}
      BY <1>0 DEF PassedOver, Fail, CanFail
    <2>1. CASE i < next
      BY <2>1 DEF Inv, PassedOver
    <2>2. CASE i = next
      BY <2>2, <1>4 DEF path
    <2> QED BY <2>1, <2>2, <1>0, CandidateFacts
  <1> QED BY <1>1, <1>2, <1>3, <1>5 DEF Inv

\* A field is filled with what is at the path now, and the next one is due.
LEMMA SetFrame ==
    ASSUME Inv, NEW f, NEW v, NEW to, Set(f, v, to), to # "done", pc # "done",
           next <= Len(Candidates)
    PROVE  (WasNow /\ PassedOver /\ Ended /\ FieldsWereTrue)'
  <1>1. WasNow'
    BY DEF Inv, WasNow, Set
  <1>2. PassedOver'
    BY DEF Inv, PassedOver, CanFail, Set
  <1>3. (Ended /\ FieldsWereTrue)'
    BY DEF Inv, Ended, FieldsWereTrue, Found, Set
  <1> QED BY <1>1, <1>2, <1>3

\* Each step of the call, and each change of the files, preserves Inv.
LEMMA StepInv == Inv /\ [Next]_vars => Inv'
  <1> SUFFICES ASSUME Inv, [Next]_vars PROVE Inv'
    OBVIOUS
  <1> USE FileInfoAssumption
  <1>1. CASE Permissions
    <2>0. next \in 1..Len(Candidates) /\ path \in Path /\ pc # "done"
      BY <1>1, IndexFacts DEF Permissions
    <2>1. CASE file[path] = Gone /\ Fail
      BY <2>0, <2>1, FailInv DEF CanFail
    <2>2. CASE file[path] # Gone /\ Set("perms", file[path], "owner")
      <3>1. file[path] \in Version /\ file[path] \in was[path]
        BY <2>0, <2>2 DEF Inv, TypeOK, WasNow
      <3>2. info' = [info EXCEPT !["perms"] = file[path]] /\ pc' = "owner"
        BY <2>2 DEF Set
      <3>3. TypeOK'
        <4>1. info' \in [perms : Version \cup {Unset},
                          owner : Version \cup {NoOwner, Unset},
                          content : Version \cup {Unset}, username : {Unset, "", "name"}]
          BY <3>1, <3>2 DEF Inv, TypeOK
        <4>2. UNCHANGED <<readContent, file, changes, next, result, was>>
          BY <2>2 DEF Set
        <4>3. next <= Len(Candidates)
          BY <1>1 DEF Permissions
        <4> QED BY <3>2, <4>1, <4>2, <4>3 DEF Inv, TypeOK
      <3>4. Filled'
        BY <2>0, <2>2, <3>1 DEF Inv, TypeOK, Filled, PermsTrue, path, Set
      <3> QED BY <2>0, <2>2, <3>3, <3>4, SetFrame DEF Inv
    <2> QED BY <1>1, <2>1, <2>2 DEF Permissions
  <1>2. CASE Ownership
    <2> DEFINE v == IF file[path] \in Ownerless THEN NoOwner ELSE file[path]
    <2>0. next \in 1..Len(Candidates) /\ path \in Path /\ pc = "owner"
      BY <1>2, IndexFacts DEF Ownership
    <2>1. Set("owner", v, AfterOwner) /\ AfterOwner \in {"content", "names"}
      BY <1>2 DEF Ownership, AfterOwner
    <2>2. /\ v \in Version \cup {NoOwner}
          /\ v \in was[path] \ Ownerless \/ (v = NoOwner /\ was[path] \cap Ownerless # {})
      BY <2>0 DEF Inv, TypeOK, WasNow, Ownerless
    <2> HIDE DEF v
    <2>3. TypeOK'
      BY <2>0, <2>1, <2>2, CandidateFacts DEF Inv, TypeOK, Set
    <2>4. info'.perms = info.perms /\ info'.owner = v /\ path' = path /\ was' = was
      BY <2>1 DEF Inv, TypeOK, Set, path
    <2>5. Filled'
      BY <2>0, <2>1, <2>2, <2>4
         DEF Inv, Filled, PermsTrue, OwnerTrue, ContentTrue, AfterOwner, Set
    <2> QED BY <2>0, <2>1, <2>3, <2>5, SetFrame DEF Inv
  <1>3. CASE Content
    <2>0. next \in 1..Len(Candidates) /\ path \in Path /\ pc = "content" /\ readContent
      BY <1>3, IndexFacts DEF Inv, Content, Filled
    <2>1. CASE file[path] \in Unreadable \cup {Gone} /\ Fail
      BY <2>0, <2>1, FailInv DEF CanFail
    <2>2. CASE file[path] \notin Unreadable \cup {Gone} /\ Set("content", file[path], "names")
      <3>1. file[path] \in Version /\ file[path] \in was[path]
        BY <2>0, <2>2 DEF Inv, TypeOK, WasNow
      <3>2. TypeOK'
        BY <2>0, <2>2, <3>1, CandidateFacts DEF Inv, TypeOK, Set
      <3>3. /\ info'.perms = info.perms /\ info'.owner = info.owner
            /\ info'.content = file[path] /\ path' = path /\ was' = was
        BY <2>2 DEF Inv, TypeOK, Set, path
      <3>4. Filled'
        BY <2>0, <2>2, <3>1, <3>3
           DEF Inv, Filled, PermsTrue, OwnerTrue, ContentTrue, Set
      <3> QED BY <2>0, <2>2, <3>2, <3>4, SetFrame DEF Inv
    <2> QED BY <1>3, <2>1, <2>2 DEF Content
  <1>4. CASE Names
    <2>0. next \in 1..Len(Candidates) /\ path \in Path /\ pc = "names"
      BY <1>4, IndexFacts DEF Names
    <2>1. /\ pc' = "done" /\ result' = path /\ path' = path /\ next' = next
          /\ file' = file /\ was' = was /\ changes' = changes /\ readContent' = readContent
          /\ path # Gone => Found'
      BY <1>4 DEF Names, path, Found
    <2>2. PICK n \in {"", "name"} : info' = [info EXCEPT !.username = n]
      BY <1>4 DEF Names
    <2>3. /\ info'.perms = info.perms /\ info'.owner = info.owner
          /\ info'.content = info.content
      BY <2>2 DEF Inv, TypeOK
    <2>4. TypeOK'
      BY <2>0, <2>1, <2>2 DEF Inv, TypeOK
    <2>5. (WasNow /\ Filled /\ PassedOver)'
      BY <2>1 DEF Inv, WasNow, Filled, PassedOver, CanFail
    <2>6. FieldsWereTrue'
      BY <2>0, <2>1, <2>3
         DEF Inv, Filled, PermsTrue, OwnerTrue, ContentTrue, FieldsWereTrue
    <2>7. Ended'
      <3>1. path # Gone
        BY <2>0, CandidateFacts DEF path
      <3>2. pc' = "done" /\ result' # Gone /\ result' = path'
        BY <2>1, <3>1
      <3>3. next' <= Len(Candidates)
        BY <2>0, <2>1, IndexFacts
      <3> QED BY <3>2, <3>3 DEF Ended
    <2> QED BY <2>4, <2>5, <2>6, <2>7 DEF Inv
  <1>5. CASE NotFound
    <2>1. TypeOK'
      BY <1>5 DEF Inv, TypeOK, NotFound
    <2>2. (WasNow /\ Filled /\ PassedOver)'
      BY <1>5 DEF Inv, WasNow, Filled, PassedOver, CanFail, NotFound
    <2>3. (Ended /\ FieldsWereTrue)'
      BY <1>5, IndexFacts, CandidateFacts DEF Inv, Ended, FieldsWereTrue, Found, NotFound
    <2> QED BY <2>1, <2>2, <2>3 DEF Inv
  <1>6. CASE /\ pc # "done" /\ UNCHANGED <<readContent, pc, next, info, result>>
             /\ file' \in [Path -> Version \cup {Gone}]
             /\ was' \in [Path -> SUBSET (Version \cup {Gone})]
             /\ changes' \in 0..MaxChanges
             /\ \A p \in Path : was[p] \subseteq was'[p] /\ file'[p] \in was'[p]
    <2>1. TypeOK' /\ WasNow'
      BY <1>6 DEF Inv, TypeOK, WasNow
    <2>2. Filled'
      <3>1. path' = path
        BY <1>6 DEF path
      <3>2. pc \in {"owner", "content", "names"} => path \in Path
        BY IndexFacts
      <3>3. pc \in {"owner", "content", "names"} => was[path] \subseteq was'[path]
        BY <3>2, <1>6
      <3> QED BY <1>6, <3>1, <3>3 DEF Inv, Filled, PermsTrue, OwnerTrue, ContentTrue
    <2>3. PassedOver'
      BY <1>6, CandidateFacts, HistoryGrows DEF Inv, PassedOver, CanFail
    <2>4. (Ended /\ FieldsWereTrue)'
      BY <1>6 DEF Inv, Ended, FieldsWereTrue, Found
    <2> QED BY <2>1, <2>2, <2>3, <2>4 DEF Inv
  <1>7. ASSUME NEW p \in Path, Change(p) PROVE Inv'
    <2>1. PICK v \in Version \cup {Gone} : Becomes(p, v)
      BY <1>7 DEF Change
    <2>2. /\ file \in [Path -> Version \cup {Gone}]
          /\ was \in [Path -> SUBSET (Version \cup {Gone})]
          /\ \A r \in Path : file[r] \in was[r]
      BY DEF Inv, TypeOK, WasNow
    <2>3. /\ file' \in [Path -> Version \cup {Gone}]
          /\ was' \in [Path -> SUBSET (Version \cup {Gone})]
          /\ \A r \in Path : was[r] \subseteq was'[r] /\ file'[r] \in was'[r]
      BY <2>1, <2>2 DEF Becomes
    <2>4. changes' \in 0..MaxChanges
      <3>1. changes \in 0..MaxChanges
        BY DEF Inv, TypeOK
      <3>2. changes < MaxChanges /\ changes' = changes + 1
        BY <1>7 DEF Change
      <3> QED BY <3>1, <3>2
    <2> QED BY <1>6, <1>7, <2>3, <2>4 DEF Change
  <1>8. ASSUME NEW p \in Path, NEW q \in Path, Rename(p, q) PROVE Inv'
    <2>1. /\ p # q /\ file[p] \in Version
          /\ file' = [file EXCEPT ![p] = Gone, ![q] = file[p]]
          /\ was' = [was EXCEPT ![p] = was[p] \cup {Gone}, ![q] = was[q] \cup {file[p]}]
      BY <1>8 DEF Inv, TypeOK, Rename
    <2>2. /\ file' \in [Path -> Version \cup {Gone}]
          /\ was' \in [Path -> SUBSET (Version \cup {Gone})]
          /\ \A r \in Path : was[r] \subseteq was'[r] /\ file'[r] \in was'[r]
      BY <2>1 DEF Inv, TypeOK, WasNow
    <2>3. changes' \in 0..MaxChanges
      <3>1. changes \in 0..MaxChanges
        BY DEF Inv, TypeOK
      <3>2. changes < MaxChanges /\ changes' = changes + 1
        BY <1>8 DEF Rename
      <3> QED BY <3>1, <3>2
    <2> QED BY <1>6, <1>8, <2>2, <2>3 DEF Rename
  <1>9. CASE UNCHANGED vars
    <2> USE <1>9 DEF vars
    <2>1. TypeOK' /\ WasNow'
      BY DEF Inv, TypeOK, WasNow
    <2>2. Filled'
      BY DEF Inv, Filled, PermsTrue, OwnerTrue, ContentTrue, path
    <2>3. PassedOver'
      BY DEF Inv, PassedOver, CanFail
    <2>4. (Ended /\ FieldsWereTrue)'
      BY DEF Inv, Ended, FieldsWereTrue, Found, path
    <2> QED BY <2>1, <2>2, <2>3, <2>4 DEF Inv
  <1> QED BY <1>1, <1>2, <1>3, <1>4, <1>5, <1>7, <1>8, <1>9 DEF Next

\* Inv holds throughout the call.
THEOREM Invariance == Spec => []Inv
  BY InitInv, StepInv, PTL DEF Spec

\* The type invariant, for every list of candidates.
THEOREM TypeCorrect == Spec => []TypeOK
  <1>1. Inv => TypeOK
    BY DEF Inv
  <1> QED BY <1>1, Invariance, PTL

\* Each field of a report was true of the reported path at some moment of the
\* call, however the files change between the system calls of MakeFileInfo.
THEOREM ReportsWereTrue == Spec => []FieldsWereTrue
  <1>1. Inv => FieldsWereTrue
    BY DEF Inv
  <1> QED BY <1>1, Invariance, PTL

\* makeContaineredFileInfoFromListVerbose never passes over a candidate that
\* could be described throughout the call.
THEOREM OrderOfCandidates == Spec => []CandidatesInOrder
  <1>1. Inv => CandidatesInOrder
    <2> SUFFICES ASSUME Inv, pc = "done", NEW i \in DOMAIN Candidates,
                        was[Candidates[i]] \cap CanFail = {}
                 PROVE  \E j \in 1..i : result = Candidates[j]
      BY DEF CandidatesInOrder
    <2>1. ~(i < next)
      BY DEF Inv, PassedOver
    <2>2. result # Gone /\ next <= i
      BY <2>1, IndexFacts, CandidateFacts DEF Inv, Ended
    <2>3. result = Candidates[next] /\ next \in 1..i
      BY <2>2, IndexFacts, CandidateFacts DEF Inv, Ended, Found, path
    <2> QED BY <2>3
  <1> QED BY <1>1, Invariance, PTL
-----------------------------------------------------------------------------
(* readColonFile: the lines of a file and what they say.                   *)

\* A set of indices has a least one.
LEMMA LeastIndex ==
  ASSUME NEW T, T \subseteq Nat, T # {}
  PROVE  \E x \in T : \A y \in T : x <= y
<1>1. \E x \in T : \A y \in T : ~ (<<y, x>> \in OpToRel(<, Nat))
  BY NatLessThanWellFounded, WFMin, Zenon
<1>2. ASSUME NEW x \in Nat, NEW y \in Nat, <<y, x>> \notin OpToRel(<, Nat) PROVE x <= y
  <2>1. ~(y < x)
    BY <1>2, Zenon DEF OpToRel
  <2> QED
    BY <2>1
<1> QED
  BY <1>1, <1>2

\* A file as ReadLine hands it out.
IsFile(f) ==
    /\ Len(f) \in Nat
    /\ \A i \in 1..Len(f) : f[i].c \in Chunk /\ f[i].more \in BOOLEAN

LEMMA FilesAreFiles ==
  ASSUME NEW f \in Files
  PROVE  IsFile(f)
<1>1. PICK n \in 0..MaxChunks : f \in [1..n -> [c : Chunk, more : BOOLEAN]]
  BY DEF Files
<1>2. n \in Nat
  BY ColonFileAssumption
<1>3. Len(f) = n
  <2> DEFINE S == [c : Chunk, more : BOOLEAN]
  <2>1. f \in [1..n -> S]
    BY <1>1
  <2> HIDE DEF S
  <2>2. f \in Seq(S)
    BY <1>2, <2>1
  <2> QED
    BY <1>2, <2>1, <2>2
<1>4. \A i \in 1..n : f[i].c \in Chunk /\ f[i].more \in BOOLEAN
  BY <1>1
<1> QED
  BY <1>2, <1>3, <1>4 DEF IsFile

\* The colons of a line are those of its chunks.
IsSum(n, m, f, i) == n = [k \in 0..m |-> IF k < i THEN 0 ELSE n[k - 1] + f[k].c.colons]

LEMMA SumExists ==
  ASSUME NEW f, NEW i \in Nat \ {0}, NEW m \in Nat
  PROVE  \E n : IsSum(n, m, f, i)
<1> DEFINE T == {k \in Nat : ~ \E n : IsSum(n, k, f, i)}
<1> SUFFICES ASSUME T # {} PROVE FALSE
  OBVIOUS
<1>1. PICK k \in T : \A l \in T : k <= l
  BY LeastIndex
<1>2. CASE k = 0
  <2> DEFINE g == [l \in 0..k |-> 0]
  <2>1. IsSum(g, k, f, i)
    BY <1>2 DEF IsSum
  <2> QED
    BY <1>1, <2>1
<1>3. CASE k # 0
  <2>1. k - 1 \in Nat /\ k - 1 \notin T
    BY <1>1, <1>3
  <2>2. PICK n : IsSum(n, k - 1, f, i)
    BY <2>1
  <2> DEFINE last == IF k < i THEN 0 ELSE n[k - 1] + f[k].c.colons
             g == [l \in 0..k |-> IF l = k THEN last ELSE n[l]]
  <2>3. ASSUME NEW l \in 0..k
        PROVE  g[l] = IF l < i THEN 0 ELSE g[l - 1] + f[l].c.colons
    <3>1. CASE l = k
      <4>1. g[k] = last /\ g[k - 1] = n[k - 1]
        BY <1>1, <1>3, <2>1
      <4> QED
        BY <3>1, <4>1
    <3>2. CASE l # k
      <4>1. l \in 0..(k - 1)
        BY <1>1, <3>2
      <4>2. n[l] = IF l < i THEN 0 ELSE n[l - 1] + f[l].c.colons
        <5> HIDE DEF g, T, last
        <5> QED
          BY <2>2, <4>1 DEF IsSum
      <4>3. g[l] = n[l] /\ (l # 0 => g[l - 1] = n[l - 1])
        <5>1. k \in Nat
          BY <1>1
        <5> HIDE DEF T, last
        <5> QED
          BY <3>2, <4>1, <5>1
      <4>4. l = 0 => l < i
        OBVIOUS
      <4> HIDE DEF g, T, last
      <4> QED
        BY <4>2, <4>3, <4>4
    <3> QED
      BY <3>1, <3>2
  <2>4. IsSum(g, k, f, i)
    <3>1. g = [l \in 0..k |-> g[l]]
      OBVIOUS
    <3> HIDE DEF g
    <3> QED
      BY <2>3, <3>1 DEF IsSum
  <2> QED
    BY <1>1, <2>4
<1> QED
  BY <1>2, <1>3

LEMMA ColonsStep ==
  ASSUME NEW f, IsFile(f), NEW i \in Nat \ {0}, NEW k \in 0..Len(f)
  PROVE  ColonsOf(f, i, k) = IF k < i THEN 0 ELSE ColonsOf(f, i, k - 1) + f[k].c.colons
<1> DEFINE n == CHOOSE h : IsSum(h, Len(f), f, i)
<1>1. IsSum(n, Len(f), f, i)
  <2>1. Len(f) \in Nat
    BY DEF IsFile
  <2>2. \E h : IsSum(h, Len(f), f, i)
    BY <2>1, SumExists
  <2> HIDE DEF IsSum
  <2> QED
    BY <2>2
<1>2. ColonsFrom(f, i) = n
  BY DEF ColonsFrom, IsSum
<1> HIDE DEF n
<1>3. n[k] = IF k < i THEN 0 ELSE n[k - 1] + f[k].c.colons
  BY <1>1 DEF IsSum
<1> QED
  BY <1>2, <1>3 DEF ColonsOf

\* They are a number, and do not become fewer as the line goes on.
LEMMA ColonsNat ==
  ASSUME NEW f, IsFile(f), NEW i \in Nat \ {0}, NEW j \in 0..Len(f)
  PROVE  ColonsOf(f, i, j) \in Nat
<1> DEFINE T == {k \in 0..Len(f) : ColonsOf(f, i, k) \notin Nat}
<1> SUFFICES ASSUME T # {} PROVE FALSE
  OBVIOUS
<1>0. Len(f) \in Nat
  BY DEF IsFile
<1>1. PICK k \in T : \A l \in T : k <= l
  <2>1. T \subseteq Nat
    BY <1>0
  <2> HIDE DEF T
  <2> QED
    BY <2>1, LeastIndex
<1>2. ColonsOf(f, i, k) = IF k < i THEN 0 ELSE ColonsOf(f, i, k - 1) + f[k].c.colons
  BY <1>1, ColonsStep
<1>3. ~(k < i) /\ k \in 1..Len(f)
  BY <1>0, <1>1, <1>2
<1>4. k - 1 \in 0..Len(f) /\ k - 1 \notin T
  BY <1>0, <1>1, <1>3
<1>5. ColonsOf(f, i, k - 1) \in Nat
  BY <1>4
<1>6. f[k].c.colons \in Nat
  <2>1. f[k].c \in Chunk
    BY <1>3 DEF IsFile
  <2> QED
    BY <2>1, ColonFileAssumption
<1> QED
  BY <1>1, <1>2, <1>3, <1>5, <1>6

LEMMA ColonsGrow ==
  ASSUME NEW f, IsFile(f), NEW i \in Nat \ {0}, NEW p \in 0..Len(f), i <= p,
         NEW j \in p..Len(f)
  PROVE  ColonsOf(f, i, p) <= ColonsOf(f, i, j)
<1> DEFINE T == {k \in p..Len(f) : ~(ColonsOf(f, i, p) <= ColonsOf(f, i, k))}
<1> SUFFICES ASSUME T # {} PROVE FALSE
  OBVIOUS
<1>0. Len(f) \in Nat /\ p \in Nat /\ ColonsOf(f, i, p) \in Nat
  BY ColonsNat DEF IsFile
<1>1. PICK k \in T : \A l \in T : k <= l
  <2>1. T \subseteq Nat
    BY <1>0
  <2> HIDE DEF T
  <2> QED
    BY <2>1, LeastIndex
<1>2. k # p
  BY <1>0, <1>1
<1>3. k \in 1..Len(f) /\ ~(k < i) /\ k \in 0..Len(f)
  BY <1>0, <1>1, <1>2
<1>4. k - 1 \in p..Len(f) /\ k - 1 \in 0..Len(f) /\ k - 1 \notin T
  BY <1>0, <1>1, <1>2
<1>5. ColonsOf(f, i, p) <= ColonsOf(f, i, k - 1)
  BY <1>4
<1>6. ColonsOf(f, i, k - 1) \in Nat
  BY <1>4, ColonsNat
<1>7. ColonsOf(f, i, k) = ColonsOf(f, i, k - 1) + f[k].c.colons
  BY <1>3, ColonsStep
<1>8. f[k].c.colons \in Nat
  <2>1. f[k].c \in Chunk
    BY <1>3 DEF IsFile
  <2> QED
    BY <2>1, ColonFileAssumption
<1> QED
  BY <1>0, <1>1, <1>5, <1>6, <1>7, <1>8

\* What a line says: the first of its chunks that is not blank.
LEMMA RowIs ==
  ASSUME NEW f, NEW i \in Nat, NEW j \in Nat
  PROVE  \/ /\ RowOf(f, i, j) = BlankLine
            /\ \A k \in i..j : f[k].c.row = BlankLine
         \/ \E k \in i..j : /\ RowOf(f, i, j) = f[k].c.row
                            /\ f[k].c.row # BlankLine
                            /\ \A l \in i..j : f[l].c.row # BlankLine => k <= l
<1> DEFINE said == {k \in i..j : f[k].c.row # BlankLine}
<1>1. RowOf(f, i, j) = IF said = {} THEN BlankLine
                       ELSE f[CHOOSE k \in said : \A l \in said : k <= l].c.row
  BY DEF RowOf
<1>2. CASE said = {}
  BY <1>1, <1>2
<1>3. CASE said # {}
  <2> DEFINE m == CHOOSE k \in said : \A l \in said : k <= l
  <2>1. \E x \in said : \A y \in said : x <= y
    <3>1. said \subseteq Nat
      OBVIOUS
    <3> HIDE DEF said
    <3> QED
      BY <1>3, <3>1, LeastIndex
  <2>2. m \in said /\ \A l \in said : m <= l
    BY <2>1
  <2>3. RowOf(f, i, j) = f[m].c.row
    BY <1>1, <1>3
  <2> HIDE DEF m
  <2> QED
    BY <2>2, <2>3
<1> QED
  BY <1>2, <1>3

LEMMA RowStep ==
  ASSUME NEW f, NEW i \in Nat, NEW p \in Nat, i <= p + 1
  PROVE  RowOf(f, i, p + 1) = IF RowOf(f, i, p) = BlankLine THEN f[p + 1].c.row
                                                           ELSE RowOf(f, i, p)
<1> DEFINE said(k) == f[k].c.row
           r == RowOf(f, i, p)
           q == RowOf(f, i, p + 1)
<1>1. \/ r = BlankLine /\ \A k \in i..p : said(k) = BlankLine
      \/ \E k \in i..p : /\ r = said(k) /\ said(k) # BlankLine
                         /\ \A l \in i..p : said(l) # BlankLine => k <= l
  BY RowIs
<1>2. \/ q = BlankLine /\ \A k \in i..(p + 1) : said(k) = BlankLine
      \/ \E k \in i..(p + 1) : /\ q = said(k) /\ said(k) # BlankLine
                               /\ \A l \in i..(p + 1) : said(l) # BlankLine => k <= l
  BY RowIs
<1> SUFFICES q = IF r = BlankLine THEN said(p + 1) ELSE r
  OBVIOUS
<1> HIDE DEF said, r, q
<1> QED
  BY <1>1, <1>2

LEMMA RowKept ==
  ASSUME NEW f, NEW i \in Nat, NEW p \in Nat, NEW j \in Nat, p <= j,
         RowOf(f, i, p) # BlankLine
  PROVE  RowOf(f, i, j) = RowOf(f, i, p)
<1> DEFINE said(k) == f[k].c.row
           r == RowOf(f, i, p)
           q == RowOf(f, i, j)
<1>1. \/ r = BlankLine /\ \A k \in i..p : said(k) = BlankLine
      \/ \E k \in i..p : /\ r = said(k) /\ said(k) # BlankLine
                         /\ \A l \in i..p : said(l) # BlankLine => k <= l
  BY RowIs
<1>2. \/ q = BlankLine /\ \A k \in i..j : said(k) = BlankLine
      \/ \E k \in i..j : /\ q = said(k) /\ said(k) # BlankLine
                         /\ \A l \in i..j : said(l) # BlankLine => k <= l
  BY RowIs
<1> SUFFICES ASSUME r # BlankLine PROVE q = r
  OBVIOUS
<1> HIDE DEF said, r, q
<1> QED
  BY <1>1, <1>2

\* Every line ends, the last one with the file if not before.
LEMMA EndOfLine ==
  ASSUME NEW f, IsFile(f), NEW p \in 1..Len(f)
  PROVE  \E j \in p..Len(f) : LineEnd(f, j) /\ \A k \in p..(j - 1) : f[k].more
<1> DEFINE T == {k \in p..Len(f) : LineEnd(f, k)}
<1>0. Len(f) \in Nat /\ Len(f) \in p..Len(f)
  BY DEF IsFile
<1>1. T \subseteq Nat /\ T # {}
  BY <1>0 DEF LineEnd
<1>2. PICK j \in T : \A l \in T : j <= l
  <2> HIDE DEF T
  <2> QED
    BY <1>1, LeastIndex
<1>3. \A k \in p..(j - 1) : k \in p..Len(f) /\ k \notin T
  BY <1>0, <1>2
<1>4. \A k \in p..(j - 1) : f[k].more
  BY <1>3 DEF LineEnd
<1> QED
  BY <1>2, <1>4
-----------------------------------------------------------------------------
(* A line that has been read up to chunk p, and the lines for the id.      *)

\* Chunks b to p belong to one line.
Unbroken(f, b, p) == \A k \in b..(p - 1) : f[k].more

\* A match in the part of a line that has been read is a match of the line.
LEMMA EntryMatches ==
  ASSUME NEW f, IsFile(f), NEW p \in 1..Len(f), NEW b \in 1..p,
         LineStart(f, b), Unbroken(f, b, p),
         Matches(RowOf(f, b, p), ColonsOf(f, b, p))
  PROVE  b \in Entries(f) /\ NameAt(f, b) = RowOf(f, b, p)[2]
<1> DEFINE row0 == RowOf(f, b, p)
<1>0. /\ Len(f) \in Nat /\ p \in Nat /\ b \in Nat /\ b # 0 /\ b <= p /\ p <= Len(f)
      /\ b \in 1..Len(f)
  BY DEF IsFile
<1>1. row0[1] = "row" /\ ColonsOf(f, b, p) >= ReadCols
  BY DEF Matches
<1>2. row0 # BlankLine
  BY <1>1 DEF BlankLine
<1>3. \A j \in p..Len(f) : RowOf(f, b, j) = row0
  BY <1>0, <1>2, RowKept
<1>4. \A j \in p..Len(f) : Matches(RowOf(f, b, j), ColonsOf(f, b, j))
  <2> SUFFICES ASSUME NEW j \in p..Len(f)
               PROVE  Matches(RowOf(f, b, j), ColonsOf(f, b, j))
    OBVIOUS
  <2>1. ColonsOf(f, b, p) <= ColonsOf(f, b, j)
    BY <1>0, ColonsGrow
  <2>2. ColonsOf(f, b, p) \in Nat /\ ColonsOf(f, b, j) \in Nat
    <3>1. p \in 0..Len(f) /\ j \in 0..Len(f) /\ b \in Nat \ {0}
      BY <1>0
    <3> QED
      BY <3>1, ColonsNat
  <2>3. ColonsOf(f, b, j) >= ReadCols
    BY <1>1, <2>1, <2>2, ColonFileAssumption
  <2>4. RowOf(f, b, j) = row0
    BY <1>3
  <2> HIDE DEF row0
  <2>5. /\ row0[1] = "row" /\ row0[3] = Wanted /\ row0[2] \notin {NoName, "+"} /\ row0[4]
    BY DEF Matches, row0
  <2> QED
    BY <2>3, <2>4, <2>5 DEF Matches
<1> DEFINE Ends(j) == j \in b..Len(f) /\ Line(f, b, j) /\ LineEnd(f, j)
<1>5. \E j \in p..Len(f) : Ends(j)
  <2>1. PICK j \in p..Len(f) : LineEnd(f, j) /\ \A k \in p..(j - 1) : f[k].more
    BY EndOfLine
  <2>2. \A k \in b..(j - 1) : f[k].more
    BY <1>0, <2>1 DEF Unbroken
  <2>3. Line(f, b, j) /\ j \in b..Len(f)
    BY <1>0, <2>2 DEF Line
  <2> QED
    BY <2>1, <2>3
<1>6. \A j : Ends(j) => j \in p..Len(f)
  <2> SUFFICES ASSUME NEW j \in b..Len(f), LineEnd(f, j) PROVE j \in p..Len(f)
    OBVIOUS
  <2>1. ~(j \in b..(p - 1)) \/ j = Len(f)
    BY DEF Unbroken, LineEnd
  <2> QED
    BY <1>0, <2>1
<1>7. b \in Entries(f)
  <2>1. PICK j \in p..Len(f) : Ends(j)
    BY <1>5
  <2>2. IsEntry(f, b, j)
    BY <1>4, <2>1, Zenon DEF IsEntry
  <2> QED
    BY <1>0, <2>1, <2>2 DEF Entries
<1>8. NameAt(f, b) = row0[2]
  <2> DEFINE j == CHOOSE j \in b..Len(f) : Line(f, b, j) /\ LineEnd(f, j)
  <2>1. Ends(j)
    BY <1>5
  <2>2. NameAt(f, b) = RowOf(f, b, j)[2]
    BY DEF NameAt
  <2> HIDE DEF j
  <2>3. j \in p..Len(f)
    BY <1>6, <2>1
  <2> QED
    BY <1>3, <2>2, <2>3
<1> QED
  BY <1>7, <1>8

\* What is rejected after as much of a line as the matcher needs is no match.
LEMMA EntryRejected ==
  ASSUME NEW f, IsFile(f), NEW p \in 1..Len(f), NEW b \in 1..p, Unbroken(f, b, p),
         LineEnd(f, p) \/ (RowOf(f, b, p) # BlankLine /\ ColonsOf(f, b, p) >= ReadCols),
         ~Matches(RowOf(f, b, p), ColonsOf(f, b, p))
  PROVE  b \notin Entries(f)
<1> SUFFICES ASSUME NEW j \in b..Len(f), IsEntry(f, b, j) PROVE FALSE
  BY DEF Entries
<1>0. Len(f) \in Nat /\ p \in Nat /\ b \in Nat /\ j \in Nat /\ j <= Len(f)
  BY DEF IsFile
<1>1. LineEnd(f, j) /\ Unbroken(f, b, j) /\ Matches(RowOf(f, b, j), ColonsOf(f, b, j))
  BY Zenon DEF IsEntry, Line, Unbroken
<1>2. ~(j < p)
  <2>1. ~(j \in b..(p - 1)) \/ j = Len(f)
    BY <1>1 DEF Unbroken, LineEnd
  <2> QED
    BY <1>0, <2>1
<1>3. CASE LineEnd(f, p)
  <2>1. ~(p \in b..(j - 1)) \/ p = Len(f)
    BY <1>1, <1>3 DEF Unbroken, LineEnd
  <2>2. j = p
    BY <1>0, <1>2, <2>1
  <2> QED
    BY <1>1, <2>2
<1>4. CASE RowOf(f, b, p) # BlankLine /\ ColonsOf(f, b, p) >= ReadCols
  <2>1. RowOf(f, b, j) = RowOf(f, b, p)
    BY <1>0, <1>2, <1>4, RowKept
  <2> DEFINE r == RowOf(f, b, p)
             n == ColonsOf(f, b, p)
             m == ColonsOf(f, b, j)
  <2>2. ~Matches(r, n) /\ Matches(r, m) /\ n >= ReadCols
    BY <1>1, <1>4, <2>1
  <2> HIDE DEF r, n, m
  <2> QED
    BY <2>2, Zenon DEF Matches
<1> QED
  BY <1>3, <1>4

\* No line begins within a line.
LEMMA EntriesBeyond ==
  ASSUME NEW f, IsFile(f), NEW p \in 0..Len(f), NEW b \in 1..(p + 1), Unbroken(f, b, p),
         \A i \in Entries(f) : i >= b,
         b <= p => b \notin Entries(f)
  PROVE  \A i \in Entries(f) : i >= p + 1
<1> SUFFICES ASSUME NEW i \in Entries(f), i <= p PROVE FALSE
  <2>1. \A i \in Entries(f) : i \in Nat
    BY DEF Entries
  <2> QED
    BY <2>1 DEF IsFile
<1>0. Len(f) \in Nat /\ p \in Nat /\ b \in Nat /\ b # 0
  BY DEF IsFile
<1>1. i \in 1..Len(f) /\ LineStart(f, i)
  BY Zenon DEF Entries, IsEntry, Line
<1>2. i >= b /\ i # b
  BY <1>0, <1>1
<1>3. i # 1 /\ i - 1 \in b..(p - 1)
  BY <1>0, <1>1, <1>2
<1>4. f[i - 1].more
  BY <1>3 DEF Unbroken
<1> QED
  BY <1>1, <1>3, <1>4 DEF LineStart

\* The first of the lines for the id is the reference.
LEMMA ReferenceIsFirst ==
  ASSUME NEW f, NEW b \in Entries(f), \A i \in Entries(f) : i >= b
  PROVE  Reference(f) = NameAt(f, b)
<1> DEFINE first == CHOOSE i \in Entries(f) : \A k \in Entries(f) : i <= k
<1>0. Entries(f) \subseteq Nat
  BY DEF Entries
<1> HIDE DEF Entries
<1>1. \E i \in Entries(f) : \A k \in Entries(f) : i <= k
  BY <1>0
<1>2. first \in Entries(f) /\ \A k \in Entries(f) : first <= k
  BY <1>1
<1>3. Reference(f) = NameAt(f, first)
  BY DEF Reference
<1> HIDE DEF first
<1>4. first = b
  BY <1>0, <1>2
<1> QED
  BY <1>3, <1>4

-----------------------------------------------------------------------------
(* The search step by step, for every file, with or without read errors.   *)

\* The reader is in what it takes for the line that begins with chunk b; this is a
\* line of the file, unless the rest of a long comment or of a line that could not
\* be skipped is.
InLine(b) ==
    /\ LineStart(chunks, b) =>
           row = RowOf(chunks, b, pos) /\ colons = ColonsOf(chunks, b, pos)
    /\ b = pos + 1 => row = BlankLine /\ colons = 0
    /\ Unbroken(chunks, b, pos)
    /\ row = BlankLine => colons = 0
    /\ phase = "chunk" /\ b <= pos => chunks[pos].more
    /\ phase = "row" => b <= pos /\ (~chunks[pos].more \/ colons >= ReadCols)
    /\ phase = "skip" => b = pos + 1 /\ pos # 0 /\ chunks[pos].more
    /\ phase # "skip" => \/ b > Len(chunks) \/ LineStart(chunks, b)
                         \/ LongComment(chunks) \/ slip # "none"
    /\ rest # <<>> => b = pos + 1 /\ ~LineStart(chunks, b) /\ phase = "chunk"

\* No line for the id has been passed.
NonePassed == \E b \in 1..(pos + 1) : InLine(b) /\ \A i \in Entries(chunks) : i >= b

\* Until there is an answer this is so, or a line was cut while it was read.
Searching == phase # "done" => answer = NoName /\ (slip = "reading" \/ NonePassed)

\* A line is read no further than it has the columns; while its rest is skipped,
\* nothing is collected.
EnoughColumns ==
    /\ phase = "chunk" => colons < ReadCols
    /\ phase = "skip" => row = BlankLine /\ colons = 0

LookupInv ==
    LookupTypeOK /\ Searching /\ EnoughColumns /\ NameIsFirstRow /\ UnknownMeansAbsent

\* What the type invariant says of the file.
LEMMA LookupFacts ==
  ASSUME LookupTypeOK
  PROVE  /\ IsFile(chunks) /\ Len(chunks) \in Nat
         /\ pos \in Nat /\ pos <= Len(chunks)
         /\ ReadCols \in Nat /\ ReadCols # 0
         /\ colons \in Nat
<1>1. IsFile(chunks)
  BY FilesAreFiles DEF LookupTypeOK
<1> QED
  BY <1>1, ColonFileAssumption DEF LookupTypeOK, IsFile

\* A line of which nothing has been read.
LEMMA NothingRead ==
  ASSUME NEW f, IsFile(f), NEW p \in 0..Len(f)
  PROVE  /\ RowOf(f, p + 1, p) = BlankLine
         /\ ColonsOf(f, p + 1, p) = 0
         /\ Unbroken(f, p + 1, p)
<1>0. Len(f) \in Nat /\ p \in Nat /\ p + 1 \in Nat \ {0} /\ p < p + 1
  BY DEF IsFile
<1>1. (p + 1)..p = {} /\ (p + 1)..(p - 1) = {}
  BY <1>0
<1>2. RowOf(f, p + 1, p) = BlankLine
  BY <1>0, <1>1, RowIs
<1>3. ColonsOf(f, p + 1, p) = 0
  BY <1>0, ColonsStep
<1> QED
  BY <1>1, <1>2, <1>3 DEF Unbroken

LEMMA LookupInitInv == LookupInit => LookupInv
<1> SUFFICES ASSUME LookupInit PROVE LookupInv
  OBVIOUS
<1>1. IsFile(chunks) /\ Len(chunks) \in Nat
  BY FilesAreFiles DEF LookupInit, IsFile
<1>2. LookupTypeOK
  <2>1. 0 \in 0..Len(chunks) /\ 0 \in 0..MaxFaults /\ 0 \in 0..(ReadCols - 1 + MaxColons)
    BY <1>1, ColonFileAssumption
  <2>2. /\ chunks \in Files /\ pos = 0 /\ phase = "chunk" /\ row = BlankLine
        /\ colons = 0 /\ answer = NoName /\ faults = 0 /\ rest = <<>> /\ slip = "none"
    BY DEF LookupInit
  <2> QED
    BY <2>1, <2>2 DEF LookupTypeOK
<1>3. Searching
  <2>1. /\ RowOf(chunks, 1, 0) = BlankLine /\ ColonsOf(chunks, 1, 0) = 0
        /\ Unbroken(chunks, 1, 0)
    <3>1. 0 \in 0..Len(chunks) /\ 0 + 1 = 1
      BY <1>1
    <3> QED
      BY <1>1, <3>1, NothingRead
  <2>2. LineStart(chunks, 1)
    BY DEF LineStart
  <2>3. InLine(1)
    BY <2>1, <2>2 DEF LookupInit, InLine
  <2>4. \A i \in Entries(chunks) : i >= 1
    BY DEF Entries
  <2>5. 1 \in 1..(pos + 1) /\ answer = NoName
    BY DEF LookupInit
  <2> QED
    BY <2>3, <2>4, <2>5 DEF Searching, NonePassed
<1>4. NameIsFirstRow
  BY DEF LookupInit, NameIsFirstRow
<1>5. UnknownMeansAbsent
  <2>1. NoName # Unknown
    BY Zenon DEF NoName, Unknown
  <2> QED
    BY <2>1 DEF LookupInit, UnknownMeansAbsent
<1>6. EnoughColumns
  BY ColonFileAssumption DEF LookupInit, EnoughColumns
<1> QED
  BY <1>2, <1>3, <1>4, <1>5, <1>6 DEF LookupInv

\* As long as there is no answer, the properties ask for nothing.
LEMMA NoAnswerYet ==
  ASSUME NEW p, p = phase', p # "done", answer' = NoName
  PROVE  (NameIsFirstRow /\ UnknownMeansAbsent)'
<1>1. NoName # Unknown
  BY Zenon DEF NoName, Unknown
<1> QED
  BY <1>1 DEF NameIsFirstRow, UnknownMeansAbsent

\* The reader is at the beginning of a line, or of what is left of one.
LEMMA AtNewLine ==
  ASSUME LookupTypeOK, phase' \in {"chunk", "skip"}, row' = BlankLine, colons' = 0,
         chunks' = chunks, answer' = NoName, pos' \in 0..Len(chunks),
         \/ slip' = "reading"
         \/ /\ \A i \in Entries(chunks) : i >= pos' + 1
            /\ phase' = "skip" => pos' # 0 /\ chunks[pos'].more
            /\ phase' = "chunk" => \/ pos' = Len(chunks) \/ LineStart(chunks, pos' + 1)
                                   \/ LongComment(chunks) \/ slip' # "none"
            /\ rest' # <<>> => ~LineStart(chunks, pos' + 1) /\ phase' = "chunk"
  PROVE  (Searching /\ EnoughColumns /\ NameIsFirstRow /\ UnknownMeansAbsent)'
<1>1. PICK f, p : f = chunks /\ p = pos'
  OBVIOUS
<1>2. IsFile(f) /\ Len(f) \in Nat /\ p \in Nat /\ p \in 0..Len(f)
  BY <1>1, LookupFacts
<1>3. PICK b \in Nat : b = p + 1
  BY <1>2
<1>4. RowOf(f, b, p) = BlankLine /\ ColonsOf(f, b, p) = 0 /\ Unbroken(f, b, p)
  <2>1. /\ RowOf(f, p + 1, p) = BlankLine /\ ColonsOf(f, p + 1, p) = 0
        /\ Unbroken(f, p + 1, p)
    BY <1>2, NothingRead
  <2> QED
    BY <1>2, <1>3, <2>1
<1>5. b \in 1..(p + 1) /\ ~(b <= p)
  BY <1>2, <1>3
<1>6. ASSUME slip' # "reading" PROVE InLine(b)'
  <2>1. (/\ LineStart(chunks, b) =>
                row = RowOf(chunks, b, pos) /\ colons = ColonsOf(chunks, b, pos)
         /\ b = pos + 1 => row = BlankLine /\ colons = 0
         /\ row = BlankLine => colons = 0)'
    BY <1>1, <1>4
  <2>2. Unbroken(chunks, b, pos)'
    BY <1>1, <1>4
  <2>3. (phase = "chunk" /\ b <= pos => chunks[pos].more)'
    BY <1>1, <1>5
  <2>4. (phase = "row" => b <= pos /\ (~chunks[pos].more \/ colons >= ReadCols))'
    OBVIOUS
  <2>5. (phase = "skip" => b = pos + 1 /\ pos # 0 /\ chunks[pos].more)'
    BY <1>1, <1>2, <1>3, <1>6
  <2>6. (phase # "skip" => \/ b > Len(chunks) \/ LineStart(chunks, b)
                           \/ LongComment(chunks) \/ slip # "none")'
    BY <1>1, <1>2, <1>3, <1>6
  <2>7. (rest # <<>> => b = pos + 1 /\ ~LineStart(chunks, b) /\ phase = "chunk")'
    BY <1>1, <1>2, <1>3, <1>6
  <2> QED
    BY <2>1, <2>2, <2>3, <2>4, <2>5, <2>6, <2>7 DEF InLine
<1>7. slip' # "reading" => (\A i \in Entries(chunks) : i >= b)'
  BY <1>1, <1>2, <1>3
<1>8. Searching'
  BY <1>1, <1>5, <1>6, <1>7 DEF Searching, NonePassed
<1>9. phase' # "done"
  OBVIOUS
<1>10. EnoughColumns'
  BY ColonFileAssumption DEF EnoughColumns
<1> QED
  BY <1>8, <1>9, <1>10, NoAnswerYet

\* Where the search stands before a step.
LEMMA Standing ==
  ASSUME LookupInv, phase # "done"
  PROVE  /\ answer = NoName
         /\ slip = "reading" \/ NonePassed
  BY DEF LookupInv, Searching

\* More of a line: it has not more colons than the type invariant allows.
LEMMA AppendType ==
  ASSUME LookupInv, phase = "chunk", NEW c \in Chunk, AppendLine(c)
  PROVE  /\ row' \in {d.row : d \in Chunk} \cup {BlankLine}
         /\ colons' \in 0..(ReadCols - 1 + MaxColons)
<1>1. row' = IF row = BlankLine THEN c.row ELSE row
  BY DEF AppendLine
<1>2. row \in {d.row : d \in Chunk} \cup {BlankLine}
  BY DEF LookupInv, LookupTypeOK
<1>3. colons \in Nat /\ colons < ReadCols /\ colons' = colons + c.colons
  BY LookupFacts DEF LookupInv, EnoughColumns, AppendLine
<1>4. c.colons \in 0..MaxColons
  BY ColonFileAssumption
<1> QED
  BY <1>1, <1>2, <1>3, <1>4, ColonFileAssumption

\* What is read next is a chunk, too.
LEMMA NextTextIsChunk ==
  ASSUME LookupTypeOK, pos < Len(chunks)
  PROVE  NextText \in Chunk
<1>1. pos + 1 \in 1..Len(chunks) /\ IsFile(chunks)
  BY LookupFacts
<1>2. chunks[pos + 1].c \in Chunk
  BY <1>1 DEF IsFile
<1>3. rest \in {<<>>} \cup {<<c>> : c \in Chunk}
  BY DEF LookupTypeOK
<1> QED
  BY <1>2, <1>3 DEF NextText

\* What is left of a chunk that is cut is one.
LEMMA CutParts ==
  ASSUME NEW x \in Cut
  PROVE  x[2] \in Chunk /\ x[3] \in Chunk /\ <<x[3]>> \in {<<c>> : c \in Chunk}
<1>1. x \in Chunk \X Chunk \X Chunk
  BY ColonFileAssumption
<1> QED
  BY <1>1

LEMMA ReadLineInv ==
  ASSUME LookupInv, ReadLine
  PROVE  LookupInv'
<1>0. /\ phase = "chunk" /\ pos < Len(chunks) /\ pos' = pos + 1 /\ rest' = <<>>
      /\ AppendLine(NextText)
      /\ phase' = IF ~chunks[pos + 1].more \/ colons' >= ReadCols THEN "row" ELSE "chunk"
      /\ chunks' = chunks /\ answer' = answer /\ faults' = faults /\ slip' = slip
  BY DEF ReadLine
<1>1. NextText \in Chunk
  BY <1>0, NextTextIsChunk DEF LookupInv
<1>2. PICK f, p, q : f = chunks /\ p = pos /\ q = pos + 1
  OBVIOUS
<1>3. /\ IsFile(f) /\ Len(f) \in Nat /\ p \in Nat /\ q = p + 1 /\ q \in 1..Len(f)
      /\ ReadCols \in Nat /\ ReadCols # 0 /\ colons \in Nat
  BY <1>0, <1>2, LookupFacts DEF LookupInv
<1>4. /\ row' = IF row = BlankLine THEN NextText.row ELSE row
      /\ colons' = colons + NextText.colons
  BY <1>0 DEF AppendLine
<1>5. /\ NextText.colons \in 0..MaxColons
      /\ NextText.row = BlankLine => NextText.colons = 0
  BY <1>1, ColonFileAssumption
<1>6. LookupTypeOK'
  <2>1. /\ chunks' \in Files /\ faults' \in 0..MaxFaults
        /\ slip' \in {"none", "skipping", "reading"}
    BY <1>0 DEF LookupInv, LookupTypeOK
  <2>2. pos' \in 0..Len(chunks') /\ phase' \in {"chunk", "row", "skip", "done"}
    BY <1>0, <1>2, <1>3
  <2>3. /\ row' \in {c.row : c \in Chunk} \cup {BlankLine}
        /\ colons' \in 0..(ReadCols - 1 + MaxColons)
    BY <1>0, <1>1, AppendType
  <2>4. answer' = NoName /\ rest' \in {<<>>} \cup {<<c>> : c \in Chunk}
    BY <1>0, Standing
  <2> QED
    BY <2>1, <2>2, <2>3, <2>4 DEF LookupTypeOK
<1>7. f[q].more \in BOOLEAN
  BY <1>3 DEF IsFile
<1>8. EnoughColumns'
  BY <1>0, <1>3, <1>4, <1>5, ColonFileAssumption DEF EnoughColumns
<1>9. ASSUME NonePassed PROVE NonePassed'
  <2>1. PICK b \in 1..(pos + 1) : InLine(b) /\ \A i \in Entries(chunks) : i >= b
    BY <1>9 DEF NonePassed
  <2>2. b \in Nat /\ b # 0 /\ b <= q /\ b \in 1..(q + 1)
    BY <1>2, <1>3, <2>1
  <2>3. (b <= p => f[p].more) /\ (row = BlankLine => colons = 0)
    BY <1>0, <1>2, <2>1 DEF InLine
  <2>4. ASSUME LineStart(f, b) PROVE row' = RowOf(f, b, q) /\ colons' = ColonsOf(f, b, q)
    <3>1. row = RowOf(f, b, p) /\ colons = ColonsOf(f, b, p) /\ rest = <<>>
      BY <1>2, <2>1, <2>4 DEF InLine
    <3>2. NextText = f[q].c
      BY <1>2, <3>1 DEF NextText
    <3>3. RowOf(f, b, p + 1) = IF RowOf(f, b, p) = BlankLine THEN f[p + 1].c.row
                                                            ELSE RowOf(f, b, p)
      BY <1>3, <2>2, RowStep
    <3>4. row' = RowOf(f, b, q)
      BY <1>3, <1>4, <3>1, <3>2, <3>3
    <3>5. ColonsOf(f, b, q) = IF q < b THEN 0 ELSE ColonsOf(f, b, q - 1) + f[q].c.colons
      BY <1>3, <2>2, ColonsStep
    <3>6. ~(q < b) /\ q - 1 = p
      BY <1>3, <2>2
    <3> QED
      BY <1>4, <3>1, <3>2, <3>4, <3>5, <3>6
  <2>5. Unbroken(f, b, q)
    <3>1. Unbroken(f, b, p)
      BY <1>2, <2>1 DEF InLine
    <3>2. \A k \in b..(q - 1) : k \in b..(p - 1) \/ (k = p /\ b <= p)
      BY <1>3, <2>2
    <3> QED
      BY <2>3, <3>1, <3>2 DEF Unbroken
  <2>6. InLine(b)'
    <3>1. (LineStart(chunks, b) =>
             row = RowOf(chunks, b, pos) /\ colons = ColonsOf(chunks, b, pos))'
      BY <1>0, <1>2, <2>4
    <3>2. (b = pos + 1 => row = BlankLine /\ colons = 0)'
      BY <1>0, <1>2, <1>3, <2>2
    <3>3. Unbroken(chunks, b, pos)'
      BY <1>0, <1>2, <2>5
    <3>4. (row = BlankLine => colons = 0)'
      BY <1>4, <1>5, <2>3
    <3>5. (phase = "chunk" /\ b <= pos => chunks[pos].more)'
      BY <1>0, <1>2, <1>3, <1>7
    <3>6. (phase = "row" => b <= pos /\ (~chunks[pos].more \/ colons >= ReadCols))'
      BY <1>0, <1>2, <1>3, <2>2
    <3>7. phase' # "skip" /\ rest' = <<>>
      BY <1>0
    <3>8. (\/ b > Len(chunks) \/ LineStart(chunks, b)
           \/ LongComment(chunks) \/ slip # "none")'
      BY <1>0, <2>1 DEF InLine
    <3> QED
      BY <3>1, <3>2, <3>3, <3>4, <3>5, <3>6, <3>7, <3>8 DEF InLine
  <2>7. (\A i \in Entries(chunks) : i >= b)'
    BY <1>0, <2>1
  <2>8. (b \in 1..(pos + 1))'
    BY <1>0, <1>2, <1>3, <2>2
  <2> QED
    BY <2>6, <2>7, <2>8 DEF NonePassed
<1>10. Searching'
  BY <1>0, <1>9, Standing DEF Searching
<1>11. phase' # "done" /\ answer' = NoName
  BY <1>0, Standing
<1> QED
  BY <1>6, <1>8, <1>10, <1>11, NoAnswerYet DEF LookupInv

\* Once a line has been cut, nothing more is claimed.
LEMMA ReadCutInv ==
  ASSUME LookupInv, ReadCut
  PROVE  LookupInv'
<1>0. /\ phase = "chunk" /\ phase' = "row" /\ faults < MaxFaults /\ faults' = faults + 1
      /\ slip' = "reading" /\ chunks' = chunks /\ pos' = pos /\ answer' = answer
  BY DEF ReadCut
<1>1. PICK x \in Cut : AppendLine(x[2]) /\ rest' = <<x[3]>>
  BY DEF ReadCut
<1>2. x[2] \in Chunk /\ rest' \in {<<c>> : c \in Chunk}
  BY <1>1, CutParts
<1>3. LookupTypeOK'
  <2>1. /\ row' \in {c.row : c \in Chunk} \cup {BlankLine}
        /\ colons' \in 0..(ReadCols - 1 + MaxColons)
    BY <1>0, <1>1, <1>2, AppendType
  <2>2. faults' \in 0..MaxFaults
    BY <1>0, ColonFileAssumption DEF LookupInv, LookupTypeOK
  <2>3. /\ chunks' \in Files /\ pos' \in 0..Len(chunks') /\ answer' = NoName
        /\ phase' \in {"chunk", "row", "skip", "done"}
        /\ slip' \in {"none", "skipping", "reading"}
    BY <1>0, Standing DEF LookupInv, LookupTypeOK
  <2> QED
    BY <1>2, <2>1, <2>2, <2>3 DEF LookupTypeOK
<1>4. Searching' /\ EnoughColumns'
  BY <1>0, Standing DEF Searching, EnoughColumns
<1>5. phase' # "done" /\ answer' = NoName
  BY <1>0, Standing
<1> QED
  BY <1>3, <1>4, <1>5, NoAnswerYet DEF LookupInv

\* At the end of the file every line has been passed, the last one, too, if its end
\* was not seen: it has not enough columns.
LEMMA EndOfFileInv ==
  ASSUME LookupInv, EndOfFile
  PROVE  LookupInv'
<1>0. /\ phase = "chunk" /\ pos = Len(chunks) /\ phase' = "done" /\ answer' = Unknown
      /\ chunks' = chunks /\ pos' = pos /\ row' = row /\ colons' = colons
      /\ faults' = faults /\ rest' = rest /\ slip' = slip
  BY DEF EndOfFile
<1>1. ASSUME NonePassed PROVE Entries(chunks) = {}
  <2>1. PICK b \in 1..(pos + 1) : InLine(b) /\ \A i \in Entries(chunks) : i >= b
    BY <1>1 DEF NonePassed
  <2>2. /\ IsFile(chunks) /\ Len(chunks) \in Nat /\ b \in Nat /\ pos \in Nat
        /\ pos \in 0..Len(chunks)
    BY <1>0, <2>1, LookupFacts DEF LookupInv
  <2>3. /\ LineStart(chunks, b) => colons = ColonsOf(chunks, b, pos)
        /\ Unbroken(chunks, b, pos)
    BY <2>1 DEF InLine
  <2>4. ASSUME b <= pos PROVE b \notin Entries(chunks)
    <3>1. CASE ~LineStart(chunks, b)
      BY <3>1, Zenon DEF Entries, IsEntry, Line
    <3>2. CASE LineStart(chunks, b)
      <4>1. ~(ColonsOf(chunks, b, pos) >= ReadCols)
        BY <1>0, <2>3, <3>2, LookupFacts DEF LookupInv, EnoughColumns
      <4>2. ~Matches(RowOf(chunks, b, pos), ColonsOf(chunks, b, pos))
        BY <4>1 DEF Matches
      <4>3. pos \in 1..Len(chunks) /\ b \in 1..pos
        BY <2>1, <2>2, <2>4
      <4>4. LineEnd(chunks, pos)
        BY <1>0 DEF LineEnd
      <4> QED
        BY <2>2, <2>3, <4>2, <4>3, <4>4, EntryRejected
    <3> QED
      BY <3>1, <3>2
  <2>5. \A i \in Entries(chunks) : i >= pos + 1
    BY <2>1, <2>2, <2>3, <2>4, EntriesBeyond
  <2>6. \A i \in Entries(chunks) : i \in 1..Len(chunks)
    BY DEF Entries
  <2> HIDE DEF Entries
  <2> QED
    BY <1>0, <2>2, <2>5, <2>6
<1>2. LookupTypeOK'
  BY <1>0 DEF LookupInv, LookupTypeOK
<1>3. Reference(chunks) = Unknown \/ slip = "reading"
  <2>1. slip = "reading" \/ Entries(chunks) = {}
    BY <1>0, <1>1, Standing
  <2> QED
    BY <2>1 DEF Reference
<1>4. (Searching /\ EnoughColumns /\ NameIsFirstRow /\ UnknownMeansAbsent)'
  BY <1>0, <1>3 DEF Searching, EnoughColumns, NameIsFirstRow, UnknownMeansAbsent
<1> QED
  BY <1>2, <1>4 DEF LookupInv

LEMMA ReadFailsInv ==
  ASSUME LookupInv, ReadFails
  PROVE  LookupInv'
<1>0. /\ faults < MaxFaults /\ faults' = faults + 1 /\ phase' = "done" /\ answer' = Error
      /\ chunks' = chunks /\ pos' = pos /\ row' = row /\ colons' = colons
      /\ rest' = rest /\ slip' = slip
  BY DEF ReadFails
<1>1. LookupTypeOK'
  <2>1. faults' \in 0..MaxFaults
    BY <1>0, ColonFileAssumption DEF LookupInv, LookupTypeOK
  <2> QED
    BY <1>0, <2>1 DEF LookupInv, LookupTypeOK
<1>2. Error # Unknown
  BY DEF Error, Unknown
<1>3. (Searching /\ EnoughColumns /\ NameIsFirstRow /\ UnknownMeansAbsent)'
  BY <1>0, <1>2 DEF Searching, EnoughColumns, NameIsFirstRow, UnknownMeansAbsent
<1> QED
  BY <1>1, <1>3 DEF LookupInv

\* A line that does not match is passed: no line for the id is left behind.
LEMMA LinePassedOver ==
  ASSUME LookupInv, phase = "row", ~Matches(row, colons), NonePassed
  PROVE  \A i \in Entries(chunks) : i >= pos + 1
<1>1. PICK b \in 1..(pos + 1) : InLine(b) /\ \A i \in Entries(chunks) : i >= b
  BY DEF NonePassed
<1>2. /\ IsFile(chunks) /\ Len(chunks) \in Nat /\ pos \in Nat /\ pos <= Len(chunks)
      /\ ReadCols \in Nat /\ ReadCols # 0
  BY LookupFacts DEF LookupInv
<1>3. /\ Unbroken(chunks, b, pos) /\ b <= pos
      /\ ~chunks[pos].more \/ colons >= ReadCols
      /\ row = BlankLine => colons = 0
  BY <1>1 DEF InLine
<1>4. pos \in 1..Len(chunks) /\ b \in 1..pos /\ pos \in 0..Len(chunks)
  BY <1>1, <1>2, <1>3
<1>5. ~chunks[pos].more \/ (row # BlankLine /\ colons >= ReadCols)
  BY <1>2, <1>3
<1>6. b \notin Entries(chunks)
  <2>1. CASE ~LineStart(chunks, b)
    BY <2>1, Zenon DEF Entries, IsEntry, Line
  <2>2. CASE LineStart(chunks, b)
    <3>1. row = RowOf(chunks, b, pos) /\ colons = ColonsOf(chunks, b, pos)
      BY <1>1, <2>2 DEF InLine
    <3>2. \/ LineEnd(chunks, pos)
          \/ /\ RowOf(chunks, b, pos) # BlankLine
             /\ ColonsOf(chunks, b, pos) >= ReadCols
      BY <1>5, <3>1 DEF LineEnd
    <3> QED
      BY <1>2, <1>3, <1>4, <3>1, <3>2, EntryRejected
  <2> QED
    BY <2>1, <2>2
<1> QED
  BY <1>1, <1>2, <1>3, <1>4, <1>6, EntriesBeyond

LEMMA LookAtInv ==
  ASSUME LookupInv, LookAt
  PROVE  LookupInv'
<1>0. phase = "row" /\ chunks' = chunks /\ pos' = pos /\ faults' = faults
      /\ rest' = rest /\ slip' = slip
  BY DEF LookAt
<1>1. /\ IsFile(chunks) /\ Len(chunks) \in Nat /\ pos \in Nat /\ pos \in 0..Len(chunks)
      /\ pos <= Len(chunks) /\ ReadCols \in Nat /\ ReadCols # 0 /\ colons \in Nat
  BY LookupFacts DEF LookupInv
<1>2. answer = NoName /\ (slip = "reading" \/ NonePassed)
  BY <1>0, Standing
<1>3. ASSUME Matches(row, colons), phase' = "done", answer' = row[2],
             UNCHANGED <<row, colons>>
      PROVE  LookupInv'
  <2>1. \E c \in Chunk : row = c.row
    <3>1. row[1] = "row"
      BY <1>3 DEF Matches
    <3>2. row # BlankLine
      BY <3>1 DEF BlankLine
    <3>3. row \in {c.row : c \in Chunk} \cup {BlankLine}
      BY DEF LookupInv, LookupTypeOK
    <3> QED
      BY <3>2, <3>3
  <2>2. PICK c \in Chunk : row = c.row
    BY <2>1
  <2>3. row[1] = "row"
    BY <1>3 DEF Matches
  <2>4. answer' \notin {Unknown, Error}
    <3>1. row \in {BlankLine, Comment, Text} \cup Row
      BY <2>2, ColonFileAssumption
    <3>2. row \notin {BlankLine, Comment, Text}
      BY <2>3 DEF BlankLine, Comment, Text
    <3> QED
      BY <1>3, <2>2, <3>1, <3>2, ColonFileAssumption
  <2>5. LookupTypeOK'
    <3>1. answer' \in {d.row[2] : d \in {e \in Chunk : e.row[1] = "row"}}
      BY <1>3, <2>2, <2>3
    <3>2. row' = row /\ colons' = colons
      BY <1>3
    <3> QED
      BY <1>0, <1>3, <3>1, <3>2 DEF LookupInv, LookupTypeOK
  <2>6. answer' = Reference(chunks) \/ LongComment(chunks) \/ slip # "none"
    <3> SUFFICES ASSUME slip = "none", ~LongComment(chunks) PROVE answer' = Reference(chunks)
      OBVIOUS
    <3>1. PICK b \in 1..(pos + 1) : InLine(b) /\ \A i \in Entries(chunks) : i >= b
      BY <1>2 DEF NonePassed
    <3>2. Unbroken(chunks, b, pos) /\ b <= pos
      BY <1>0, <3>1 DEF InLine
    <3>3. pos \in 1..Len(chunks) /\ b \in 1..pos /\ ~(b > Len(chunks))
      BY <1>1, <3>1, <3>2
    <3>4. LineStart(chunks, b)
      BY <1>0, <3>1, <3>3 DEF InLine
    <3>5. row = RowOf(chunks, b, pos) /\ colons = ColonsOf(chunks, b, pos)
      BY <3>1, <3>4 DEF InLine
    <3>6. b \in Entries(chunks) /\ NameAt(chunks, b) = row[2]
      BY <1>1, <1>3, <3>2, <3>3, <3>4, <3>5, EntryMatches
    <3>7. Reference(chunks) = NameAt(chunks, b)
      BY <3>1, <3>6, ReferenceIsFirst
    <3> QED
      BY <1>3, <3>6, <3>7
  <2>7. Searching' /\ EnoughColumns' /\ UnknownMeansAbsent'
    BY <1>3, <2>4 DEF Searching, EnoughColumns, UnknownMeansAbsent
  <2>8. NameIsFirstRow'
    BY <1>0, <2>6 DEF NameIsFirstRow
  <2> QED
    BY <2>5, <2>7, <2>8 DEF LookupInv
<1>4. NonePassed => rest = <<>> /\ pos # 0
  <2> SUFFICES ASSUME NonePassed PROVE rest = <<>> /\ pos # 0
    OBVIOUS
  <2>1. PICK b \in 1..(pos + 1) : InLine(b)
    BY DEF NonePassed
  <2> QED
    BY <1>0, <1>1, <2>1 DEF InLine
<1>5. ASSUME ~Matches(row, colons), phase' \in {"chunk", "skip"}, FreshLine,
             UNCHANGED answer,
             NonePassed /\ slip # "reading" =>
                 /\ phase' = "skip" => chunks[pos].more
                 /\ phase' = "chunk" => \/ LineStart(chunks, pos + 1)
                                        \/ LongComment(chunks) \/ slip # "none"
      PROVE  LookupInv'
  <2>1. row' = BlankLine /\ colons' = 0 /\ answer' = NoName
    BY <1>2, <1>5 DEF FreshLine
  <2>2. NonePassed => \A i \in Entries(chunks) : i >= pos + 1
    BY <1>0, <1>5, LinePassedOver
  <2>3. (Searching /\ EnoughColumns /\ NameIsFirstRow /\ UnknownMeansAbsent)'
    <3>1. pos' \in 0..Len(chunks)
      BY <1>0, <1>1
    <3>2. \/ slip' = "reading"
          \/ /\ \A i \in Entries(chunks) : i >= pos' + 1
             /\ phase' = "skip" => pos' # 0 /\ chunks[pos'].more
             /\ phase' = "chunk" => \/ pos' = Len(chunks) \/ LineStart(chunks, pos' + 1)
                                    \/ LongComment(chunks) \/ slip' # "none"
             /\ rest' # <<>> => ~LineStart(chunks, pos' + 1) /\ phase' = "chunk"
      <4> HIDE DEF NonePassed, LineStart, LongComment, Entries
      <4> QED
        BY <1>0, <1>2, <1>4, <1>5, <2>2
    <3> QED
      BY <1>0, <1>5, <2>1, <3>1, <3>2, AtNewLine DEF LookupInv
  <2>4. LookupTypeOK'
    <3>1. 0 \in 0..(ReadCols - 1 + MaxColons)
      BY <1>1, ColonFileAssumption
    <3> QED
      BY <1>0, <1>5, <2>1, <3>1 DEF LookupInv, LookupTypeOK
  <2> QED
    BY <2>3, <2>4 DEF LookupInv
<1>6. ASSUME row \in {BlankLine, Comment}, phase' = "chunk", FreshLine, UNCHANGED answer
      PROVE  LookupInv'
  <2>1. ~Matches(row, colons)
    <3>1. row[1] # "row"
      BY <1>6 DEF BlankLine, Comment
    <3> QED
      BY <3>1 DEF Matches
  <2>2. NonePassed =>
            LineStart(chunks, pos + 1) \/ LongComment(chunks) \/ slip # "none"
    <3> SUFFICES ASSUME NonePassed, slip = "none"
                 PROVE  LineStart(chunks, pos + 1) \/ LongComment(chunks)
      OBVIOUS
    <3>1. PICK b \in 1..(pos + 1) : InLine(b)
      BY DEF NonePassed
    <3>2. /\ Unbroken(chunks, b, pos) /\ b <= pos
          /\ ~chunks[pos].more \/ colons >= ReadCols
          /\ row = BlankLine => colons = 0
      BY <1>0, <3>1 DEF InLine
    <3>3. /\ pos \in 1..Len(chunks) /\ b \in 1..Len(chunks) /\ ~(b > Len(chunks))
          /\ pos + 1 # 1 /\ pos + 1 - 1 = pos
      BY <1>1, <3>1, <3>2
    <3>4. CASE ~chunks[pos].more
      BY <3>3, <3>4 DEF LineStart
    <3>5. CASE chunks[pos].more /\ LineStart(chunks, b)
      <4>1. colons >= ReadCols /\ row # BlankLine
        BY <1>1, <3>2, <3>5
      <4>2. Line(chunks, b, pos)
        BY <3>2, <3>5 DEF Line, Unbroken
      <4>3. row = RowOf(chunks, b, pos) /\ colons = ColonsOf(chunks, b, pos)
        BY <3>1, <3>5 DEF InLine
      <4> QED
        BY <1>6, <3>3, <3>5, <4>1, <4>2, <4>3 DEF LongComment
    <3>6. LineStart(chunks, b) \/ LongComment(chunks)
      BY <1>0, <3>1, <3>3 DEF InLine
    <3> QED
      BY <3>4, <3>5, <3>6
  <2>3. phase' # "skip"
    BY <1>6
  <2> QED
    BY <1>5, <1>6, <2>1, <2>2, <2>3
<1>7. ASSUME row \notin {BlankLine, Comment}, ~Matches(row, colons),
             phase' = (IF isPrefix THEN "skip" ELSE "chunk"), FreshLine, UNCHANGED answer
      PROVE  LookupInv'
  <2>1. phase' \in {"chunk", "skip"}
    BY <1>7
  <2>2. NonePassed => phase' = IF chunks[pos].more THEN "skip" ELSE "chunk"
    BY <1>4, <1>7 DEF isPrefix
  <2>3. NonePassed /\ phase' = "chunk" => LineStart(chunks, pos + 1)
    BY <1>1, <1>4, <2>2 DEF LineStart
  <2> QED
    BY <1>5, <1>7, <2>1, <2>2, <2>3
<1> QED
  BY <1>3, <1>6, <1>7 DEF LookAt

LEMMA SkipInv ==
  ASSUME LookupInv, Skip
  PROVE  LookupInv'
<1>0. /\ phase = "skip" /\ pos < Len(chunks) /\ pos' = pos + 1
      /\ phase' = IF chunks[pos + 1].more THEN "skip" ELSE "chunk"
      /\ chunks' = chunks /\ row' = row /\ colons' = colons /\ answer' = answer
      /\ faults' = faults /\ rest' = rest /\ slip' = slip
  BY DEF Skip
<1>1. /\ IsFile(chunks) /\ Len(chunks) \in Nat /\ pos \in Nat
      /\ pos + 1 \in 0..Len(chunks) /\ pos + 1 # 0
  BY <1>0, LookupFacts DEF LookupInv
<1>2. ASSUME NonePassed
      PROVE  rest = <<>> /\ \A i \in Entries(chunks) : i >= pos + 1 + 1
  <2>1. PICK b \in 1..(pos + 1) : InLine(b) /\ \A i \in Entries(chunks) : i >= b
    BY <1>2 DEF NonePassed
  <2>2. b = pos + 1 /\ pos # 0 /\ chunks[pos].more /\ rest = <<>>
    BY <1>0, <2>1 DEF InLine
  <2>3. ~LineStart(chunks, b)
    BY <1>1, <2>2 DEF LineStart
  <2>4. b \notin Entries(chunks)
    BY <2>3, Zenon DEF Entries, IsEntry, Line
  <2>5. \A i \in Entries(chunks) : i \in Nat
    BY DEF Entries
  <2> HIDE DEF Entries
  <2> QED
    BY <1>1, <2>1, <2>2, <2>4, <2>5
<1>3. row' = BlankLine /\ colons' = 0 /\ answer' = NoName
  BY <1>0, Standing DEF LookupInv, EnoughColumns
<1>4. LookupTypeOK'
  BY <1>0, <1>1, <1>3 DEF LookupInv, LookupTypeOK
<1>5. (Searching /\ EnoughColumns /\ NameIsFirstRow /\ UnknownMeansAbsent)'
  <2>1. phase' \in {"chunk", "skip"} /\ (phase' = "skip" => chunks[pos'].more)
    BY <1>0
  <2>2. phase' = "chunk" => LineStart(chunks, pos' + 1)
    BY <1>0, <1>1 DEF LineStart
  <2>3. slip' = "reading" \/ (rest' = <<>> /\ \A i \in Entries(chunks) : i >= pos' + 1)
    BY <1>0, <1>2, Standing
  <2>4. pos' \in 0..Len(chunks) /\ pos' # 0
    BY <1>0, <1>1
  <2> HIDE DEF LineStart, Entries, LongComment
  <2> QED
    BY <1>0, <1>3, <2>1, <2>2, <2>3, <2>4, AtNewLine DEF LookupInv
<1> QED
  BY <1>4, <1>5 DEF LookupInv

LEMMA SkipEndsInv ==
  ASSUME LookupInv, SkipEnds
  PROVE  LookupInv'
<1>0. /\ phase = "skip" /\ pos = Len(chunks) /\ phase' = "chunk"
      /\ chunks' = chunks /\ pos' = pos /\ row' = row /\ colons' = colons
      /\ answer' = answer /\ faults' = faults /\ rest' = rest /\ slip' = slip
  BY DEF SkipEnds
<1>1. Len(chunks) \in Nat /\ pos \in 0..Len(chunks)
  BY <1>0, LookupFacts DEF LookupInv
<1>2. NonePassed => rest = <<>> /\ \A i \in Entries(chunks) : i >= pos + 1
  <2> SUFFICES ASSUME NonePassed
               PROVE  rest = <<>> /\ \A i \in Entries(chunks) : i >= pos + 1
    OBVIOUS
  <2>1. PICK b \in 1..(pos + 1) : InLine(b) /\ \A i \in Entries(chunks) : i >= b
    BY DEF NonePassed
  <2> QED
    BY <1>0, <2>1 DEF InLine
<1>3. row' = BlankLine /\ colons' = 0 /\ answer' = NoName
  BY <1>0, Standing DEF LookupInv, EnoughColumns
<1>4. LookupTypeOK'
  BY <1>0, <1>1, <1>3 DEF LookupInv, LookupTypeOK
<1>5. (Searching /\ EnoughColumns /\ NameIsFirstRow /\ UnknownMeansAbsent)'
  <2>1. slip' = "reading" \/ (rest' = <<>> /\ \A i \in Entries(chunks) : i >= pos' + 1)
    BY <1>0, <1>2, Standing
  <2> QED
    BY <1>0, <1>1, <1>3, <2>1, AtNewLine DEF LookupInv
<1> QED
  BY <1>4, <1>5 DEF LookupInv

\* The rest of the line is then taken for a line, but none is passed over.
LEMMA SkipFailsInv ==
  ASSUME LookupInv, SkipFails
  PROVE  LookupInv'
<1>0. /\ phase = "skip" /\ faults < MaxFaults /\ faults' = faults + 1 /\ phase' = "chunk"
      /\ slip' = IF slip = "reading" THEN slip ELSE "skipping"
      /\ chunks' = chunks /\ pos' = pos /\ row' = row /\ colons' = colons
      /\ answer' = answer
  BY DEF SkipFails
<1>1. Len(chunks) \in Nat /\ pos \in Nat /\ pos \in 0..Len(chunks)
  BY LookupFacts DEF LookupInv
<1>2. rest' \in {<<>>} \cup {<<c>> : c \in Chunk}
  <2>1. CASE rest' = rest
    BY <2>1 DEF LookupInv, LookupTypeOK
  <2>2. CASE \E x \in Cut : rest' = <<x[3]>>
    BY <2>2, CutParts
  <2> QED
    BY <2>1, <2>2 DEF SkipFails
<1>3. row' = BlankLine /\ colons' = 0 /\ answer' = NoName
  BY <1>0, Standing DEF LookupInv, EnoughColumns
<1>4. LookupTypeOK'
  <2>1. faults' \in 0..MaxFaults
    BY <1>0, ColonFileAssumption DEF LookupInv, LookupTypeOK
  <2> QED
    BY <1>0, <1>2, <1>3, <2>1 DEF LookupInv, LookupTypeOK
<1>5. NonePassed => /\ ~LineStart(chunks, pos + 1)
                    /\ \A i \in Entries(chunks) : i >= pos + 1
  <2> SUFFICES ASSUME NonePassed
               PROVE  /\ ~LineStart(chunks, pos + 1)
                      /\ \A i \in Entries(chunks) : i >= pos + 1
    OBVIOUS
  <2>1. PICK b \in 1..(pos + 1) : InLine(b) /\ \A i \in Entries(chunks) : i >= b
    BY DEF NonePassed
  <2>2. b = pos + 1 /\ pos # 0 /\ chunks[pos].more
    BY <1>0, <2>1 DEF InLine
  <2>3. ~LineStart(chunks, pos + 1)
    BY <1>1, <2>2 DEF LineStart
  <2> QED
    BY <2>1, <2>2, <2>3
<1>6. (Searching /\ EnoughColumns /\ NameIsFirstRow /\ UnknownMeansAbsent)'
  <2>1. \/ slip' = "reading"
        \/ /\ slip' # "none" /\ ~LineStart(chunks, pos' + 1)
           /\ \A i \in Entries(chunks) : i >= pos' + 1
    BY <1>0, <1>5, Standing
  <2> HIDE DEF LineStart, Entries, LongComment
  <2> QED
    BY <1>0, <1>1, <1>3, <2>1, AtNewLine DEF LookupInv
<1> QED
  BY <1>4, <1>6 DEF LookupInv

LEMMA LookupStepInv == LookupInv /\ [LookupNext]_lookupVars => LookupInv'
<1> SUFFICES ASSUME LookupInv, [LookupNext]_lookupVars PROVE LookupInv'
  OBVIOUS
<1>1. CASE UNCHANGED lookupVars
  <2>1. /\ chunks' = chunks /\ pos' = pos /\ phase' = phase /\ row' = row
        /\ colons' = colons /\ answer' = answer /\ faults' = faults
        /\ rest' = rest /\ slip' = slip
    BY <1>1 DEF lookupVars
  <2>2. LookupTypeOK'
    BY <2>1 DEF LookupInv, LookupTypeOK
  <2>3. Searching' /\ EnoughColumns'
    <3>1. \A b : InLine(b) => InLine(b)'
      BY <2>1 DEF InLine
    <3>2. NonePassed => NonePassed'
      BY <2>1, <3>1 DEF NonePassed
    <3> QED
      BY <2>1, <3>2 DEF LookupInv, Searching, EnoughColumns
  <2>4. (NameIsFirstRow /\ UnknownMeansAbsent)'
    BY <2>1 DEF LookupInv, NameIsFirstRow, UnknownMeansAbsent
  <2> QED
    BY <2>2, <2>3, <2>4 DEF LookupInv
<1> QED
  BY <1>1, ReadLineInv, ReadCutInv, EndOfFileInv, ReadFailsInv, LookAtInv, SkipInv,
     SkipEndsInv, SkipFailsInv DEF LookupNext

\* LookupInv holds throughout a search.
THEOREM LookupInvariance == LookupSpec => []LookupInv
  BY LookupInitInv, LookupStepInv, PTL DEF LookupSpec

\* The type invariant of readColonFile, for every file.
THEOREM LookupTypeCorrect == LookupSpec => []LookupTypeOK
<1>1. LookupInv => LookupTypeOK
  BY DEF LookupInv
<1> QED
  BY <1>1, LookupInvariance, PTL

\* findUserId and findGroupId return the name of the first line for the id, however
\* many lines the file has, into however many chunks they fall and wherever it ends,
\* unless there is an over-long comment or a read error has gone unnoticed.
THEOREM FirstRowNamed == LookupSpec => []NameIsFirstRow
<1>1. LookupInv => NameIsFirstRow
  BY DEF LookupInv
<1> QED
  BY <1>1, LookupInvariance, PTL

\* They report an unknown id only if no line of the file has it or one was cut by a
\* read error while it was read; read errors where lines are skipped hide none.
THEOREM UnknownIsAbsent == LookupSpec => []UnknownMeansAbsent
<1>1. LookupInv => UnknownMeansAbsent
  BY DEF LookupInv
<1> QED
  BY <1>1, LookupInvariance, PTL
=============================================================================
