------------------------ MODULE UserGroupCacheProofs ------------------------
(***************************************************************************)
(* Proofs about UserGroupCache, for any number of requests, roots, ids,    *)
(* names and edits.                                                        *)
(***************************************************************************)
EXTENDS UserGroupCache, TLAPS

USE DEF Absent, Nil, Torn, NoEntry, Err, Panic, None

LEMMA AnyCallType == AnyCall \in [kind : Kind, root : Root, id : Id]
  BY ConstantsAssumption DEF AnyCall, Kind

LEMMA EmptyItemType == EmptyItem \in [Kind -> [Id -> Name \cup {Absent, Torn}]]
  BY DEF EmptyItem

LEMMA CallType ==
  ASSUME TypeOK, NEW t \in Req
  PROVE  call[t].kind \in Kind /\ call[t].root \in Root /\ call[t].id \in Id
  BY DEF TypeOK

LEMMA SaysType ==
  ASSUME TypeOK, NEW t \in Req
  PROVE  /\ Says(file, t) \in Name \cup {NoEntry}
         /\ Says(said, t) \subseteq Name
<1>1. file[call[t].root] \in [Kind -> [Id -> Name \cup {NoEntry}]]
  BY CallType DEF TypeOK, Content
<1>2. said[call[t].root] \in [Kind -> [Id -> SUBSET Name]]
  BY CallType DEF TypeOK
<1> QED
  BY <1>1, <1>2, CallType DEF Says

LEMMA ReadOuterType ==
  ASSUME TypeOK, NEW t \in Req
  PROVE  ReadOuter(t) \subseteq Item \cup {Absent, Nil}
<1>1. outer[call[t].root] \in Item \cup {Absent, Nil}
  BY CallType DEF TypeOK
<1>2. \A i \in ReadOuter(t) : i = outer[call[t].root] \/ i = Absent
  BY Zenon DEF ReadOuter
<1> QED
  BY <1>1, <1>2

LEMMA ReadInnerType ==
  ASSUME TypeOK, NEW t \in Req, ref[t] \in Item
  PROVE  ReadInner(t) \subseteq Name \cup {Absent, Torn}
<1>0. heap[ref[t]] \in [Kind -> [Id -> Name \cup {Absent, Torn}]]
  BY DEF TypeOK
<1>1. heap[ref[t]][call[t].kind][call[t].id] \in Name \cup {Absent, Torn}
  BY <1>0, CallType
<1>2. \A n \in ReadInner(t) :
        n \in {heap[ref[t]][call[t].kind][call[t].id], Absent, Torn}
  BY Zenon DEF ReadInner
<1> QED
  BY <1>1, <1>2

LEMMA MovedByType ==
  ASSUME NEW t \in Req, NEW S \in SUBSET Req, NEW m \in MovedBy(t, S)
  PROVE  m \subseteq Req
  BY DEF MovedBy

LEMMA HeapUpdate ==
  ASSUME TypeOK, NEW t \in Req, ref[t] \in Item, NEW v \in Name \cup {Absent, Torn}
  PROVE  /\ Put(t, v) \in [Item -> [Kind -> [Id -> Name \cup {Absent, Torn}]]]
         /\ \A j \in Item, l \in Kind, e \in Id :
              Put(t, v)[j][l][e] =
                IF j = ref[t] /\ l = call[t].kind /\ e = call[t].id
                THEN v ELSE heap[j][l][e]
<1> DEFINE i == ref[t]
           k == call[t].kind
           d == call[t].id
           h == Put(t, v)
<1>c. i \in Item /\ k \in Kind /\ d \in Id
  BY CallType
<1>h. h = [heap EXCEPT ![i][k][d] = v]
  BY DEF Put
<1> HIDE DEF i, k, d, h
<1>0. heap[i] \in [Kind -> [Id -> Name \cup {Absent, Torn}]]
  BY <1>c DEF TypeOK
<1>1. heap[i][k] \in [Id -> Name \cup {Absent, Torn}]
  BY <1>0, <1>c
<1> DEFINE Ids == [Id -> Name \cup {Absent, Torn}]
           y == [heap[i][k] EXCEPT ![d] = v]
           x == [heap[i] EXCEPT ![k] = y]
<1>2. y \in Ids /\ \A e \in Id : y[e] = IF e = d THEN v ELSE heap[i][k][e]
  BY <1>1, <1>c
<1>3. x \in [Kind -> Ids] /\ \A l \in Kind : x[l] = IF l = k THEN y ELSE heap[i][l]
  BY <1>0, <1>2, <1>c
<1>4. h = [heap EXCEPT ![i] = x]
  BY <1>0, <1>1, <1>c, <1>h DEF TypeOK
<1> HIDE DEF x, y
<1>5. heap \in [Item -> [Kind -> Ids]]
  BY DEF TypeOK
<1>6. h \in [Item -> [Kind -> Ids]] /\ \A j \in Item : h[j] = IF j = i THEN x ELSE heap[j]
  BY <1>3, <1>4, <1>5, <1>c
<1>7. ASSUME NEW j \in Item, NEW l \in Kind, NEW e \in Id
      PROVE  h[j][l][e] = IF j = i /\ l = k /\ e = d THEN v ELSE heap[j][l][e]
  <2>1. CASE j # i
    BY <1>6, <2>1
  <2>2. CASE j = i /\ l # k
    BY <1>3, <1>6, <2>2
  <2>3. CASE j = i /\ l = k
    BY <1>2, <1>3, <1>6, <2>3
  <2> QED
    BY <2>1, <2>2, <2>3
<1> QED
  BY <1>6, <1>7 DEF h, i, k, d

\* Where a request holds an item and where it holds a name.
PcRef ==
    \A t \in Req :
        /\ IF pc[t] \in {"inner", "publish", "assign", "store"}
           THEN ref[t] \in Item ELSE ref[t] = None
        /\ IF pc[t] \in {"check", "create", "publish", "ref", "assign", "store"}
           THEN name[t] \in Name ELSE name[t] = None

TypeInv == TypeOK /\ PcRef

LEMMA TypeInvStep ==
  ASSUME TypeInv, NEW t \in Req, Step(t)
  PROVE  TypeInv'
<1> USE DEF Goto, Return, Hold, files, local, history
<1>0. TypeOK /\ PcRef /\ alive' \in BOOLEAN /\ raced' \in BOOLEAN
  BY DEF Step, TypeInv, Throw, TypeOK
<1>c. call[t].kind \in Kind /\ call[t].root \in Root /\ call[t].id \in Id
  BY <1>0, CallType
<1>s. Says(file, t) \in Name \cup {NoEntry}
  BY <1>0, SaysType
<1>o. ReadOuter(t) \subseteq Item \cup {Absent, Nil}
  BY <1>0, ReadOuterType
<1>i. pc[t] = "inner" => ReadInner(t) \subseteq Name \cup {Absent, Torn}
  BY <1>0, ReadInnerType DEF PcRef
<1>1. CASE Begin(t)
  <2>0. PICK k \in Kind, r \in Root, d \in Id :
          /\ call' = [call EXCEPT ![t] = [kind |-> k, root |-> r, id |-> d]]
          /\ seen' = [seen EXCEPT ![t] = {file[r][k][d]}]
    BY <1>1 DEF Begin
  <2>a. file[r] \in [Kind -> [Id -> Name \cup {NoEntry}]]
    BY <1>0 DEF TypeOK, Content
  <2>b. file[r][k][d] \in Name \cup {NoEntry}
    BY <2>a
  <2>c. seen' \in [Req -> SUBSET (Name \cup {NoEntry})]
    BY <1>0, <2>0, <2>b DEF TypeOK
  <2>d. call' \in [Req -> [kind : Kind, root : Root, id : Id]]
    BY <1>0, <2>0 DEF TypeOK
  <2>1. TypeOK'
    BY <1>0, <1>1, <2>c, <2>d DEF Begin, TypeOK, Location
  <2>2. PcRef'
    BY <1>0, <1>1 DEF Begin, TypeOK, PcRef, Active
  <2> QED
    BY <2>1, <2>2 DEF TypeInv
<1>2. CASE ProbeOuter(t)
  <2>0. PICK i \in ReadOuter(t) :
          \/ i \in Item /\ Hold(t, i) /\ Goto(t, "inner")
          \/ i \notin Item /\ Goto(t, "lookup") /\ UNCHANGED ref
    BY <1>2 DEF ProbeOuter
  <2>a. CASE i \in Item
    <3>1. TypeOK'
      BY <1>0, <1>2, <2>0, <2>a DEF ProbeOuter, TypeOK, Location
    <3>2. PcRef'
      <4>1. /\ pc' = [pc EXCEPT ![t] = "inner"] /\ ref' = [ref EXCEPT ![t] = i]
            /\ name' = name /\ pc[t] = "probe"
        BY <1>2, <2>0, <2>a DEF ProbeOuter
      <4> QED
        BY <1>0, <2>a, <4>1 DEF TypeOK, PcRef
    <3> QED
      BY <3>1, <3>2 DEF TypeInv
  <2>b. CASE i \notin Item
    <3>1. TypeOK'
      BY <1>0, <1>2, <2>0, <2>b DEF ProbeOuter, TypeOK, Location
    <3>2. PcRef'
      BY <1>0, <1>2, <2>0, <2>b DEF ProbeOuter, TypeOK, PcRef
    <3> QED
      BY <3>1, <3>2 DEF TypeInv
  <2> QED
    BY <2>a, <2>b
<1>3. CASE ProbeInner(t)
  <2>0. PICK n \in ReadInner(t) :
          \/ n = Absent /\ Goto(t, "lookup") /\ UNCHANGED answer
          \/ n # Absent /\ Return(t, n)
    BY <1>3 DEF ProbeInner
  <2>a. n \in Name \cup {Absent, Torn}
    BY <1>3, <1>i DEF ProbeInner
  <2>b. answer' \in [Req -> Name \cup {None, Err, Torn, Panic}]
    BY <1>0, <2>0, <2>a DEF TypeOK
  <2>1. TypeOK'
    BY <1>0, <1>3, <2>b DEF ProbeInner, TypeOK, Location
  <2>2. PcRef'
    BY <1>0, <1>3 DEF ProbeInner, TypeOK, PcRef
  <2> QED
    BY <2>1, <2>2 DEF TypeInv
<1>4. CASE Lookup(t)
  <2>a. answer' \in [Req -> Name \cup {None, Err, Torn, Panic}]
    BY <1>0, <1>4 DEF Lookup, TypeOK
  <2>b. name' \in [Req -> Name \cup {None}]
    BY <1>0, <1>4, <1>s DEF Lookup, TypeOK
  <2>c. pc' \in [Req -> Location]
    <3>1. \/ pc' = [pc EXCEPT ![t] = "done"]
          \/ pc' = [pc EXCEPT ![t] = "check"]
      BY <1>4 DEF Lookup
    <3> QED
      BY <1>0, <3>1 DEF TypeOK, Location
  <2>1. TypeOK'
    BY <1>0, <1>4, <2>a, <2>b, <2>c DEF Lookup, TypeOK
  <2>2. PcRef'
    <3>1. CASE Says(file, t) = NoEntry
      BY <1>0, <1>4, <3>1 DEF Lookup, TypeOK, PcRef
    <3>2. CASE Says(file, t) # NoEntry
      <4>1. Says(file, t) \in Name
        BY <1>s, <3>2
      <4> QED
        BY <1>0, <1>4, <3>2, <4>1 DEF Lookup, TypeOK, PcRef
    <3> QED
      BY <3>1, <3>2
  <2> QED
    BY <2>1, <2>2 DEF TypeInv
<1>5. CASE Check(t)
  <2>1. TypeOK'
    BY <1>0, <1>5 DEF Check, TypeOK, Location, PcRef
  <2>2. PcRef'
    BY <1>0, <1>5 DEF Check, TypeOK, PcRef
  <2> QED
    BY <2>1, <2>2 DEF TypeInv
<1>6. CASE Create(t)
  <2>0. PICK i \in Item \ Held :
          ref' = [ref EXCEPT ![t] = i] /\ heap' = [heap EXCEPT ![i] = EmptyItem]
    BY <1>6 DEF Create
  <2>m. PICK moved \in MovedBy(t, {u \in Req : pc[u] = "publish"}) :
          /\ stale' = stale \cup moved
          /\ outer' = IF t \in moved \/ outer[call[t].root] # Absent
                      THEN outer ELSE [outer EXCEPT ![call[t].root] = Nil]
    BY <1>6 DEF Create
  <2>a. moved \subseteq Req
    BY <2>m, MovedByType
  <2>b. heap' \in [Item -> [Kind -> [Id -> Name \cup {Absent, Torn}]]]
    BY <1>0, <2>0, EmptyItemType DEF TypeOK
  <2>c. outer' \in [Root -> Item \cup {Absent, Nil}] /\ stale' \in SUBSET Req
    BY <1>0, <1>c, <2>m, <2>a DEF TypeOK
  <2>1. TypeOK'
    BY <1>0, <1>6, <2>0, <2>b, <2>c DEF Create, TypeOK, Location
  <2>2. PcRef'
    BY <1>0, <1>6, <2>0 DEF Create, TypeOK, PcRef
  <2> QED
    BY <2>1, <2>2 DEF TypeInv
<1>7. CASE Publish(t)
  <2>1. TypeOK'
    BY <1>0, <1>7, <1>c DEF Publish, TypeOK, Location, PcRef
  <2>2. PcRef'
    BY <1>0, <1>7, <1>c DEF Publish, TypeOK, PcRef
  <2> QED
    BY <2>1, <2>2 DEF TypeInv
<1>8. CASE GetRef(t)
  <2>0. PICK i \in ReadOuter(t) :
          \/ i \in Item /\ Hold(t, i) /\ Goto(t, "assign") /\ UNCHANGED answer
          \/ i \notin Item /\ Return(t, Panic) /\ UNCHANGED ref
    BY <1>8 DEF GetRef
  <2>a. CASE i \in Item
    <3>1. TypeOK'
      BY <1>0, <1>8, <2>0, <2>a DEF GetRef, TypeOK, Location
    <3>2. PcRef'
      <4>1. /\ pc' = [pc EXCEPT ![t] = "assign"] /\ ref' = [ref EXCEPT ![t] = i]
            /\ pc[t] = "ref"
        BY <1>8, <2>0, <2>a DEF GetRef
      <4>2. name' = name
        BY <1>0, <1>8, <4>1 DEF GetRef, TypeOK
      <4> QED
        BY <1>0, <2>a, <4>1, <4>2 DEF TypeOK, PcRef
    <3> QED
      BY <3>1, <3>2 DEF TypeInv
  <2>b. CASE i \notin Item
    <3>1. TypeOK'
      BY <1>0, <1>8, <2>0, <2>b DEF GetRef, TypeOK, Location
    <3>2. PcRef'
      BY <1>0, <1>8, <2>0, <2>b DEF GetRef, TypeOK, PcRef
    <3> QED
      BY <3>1, <3>2 DEF TypeInv
  <2> QED
    BY <2>a, <2>b
<1>9. CASE Assign(t)
  <2>m. PICK moved \in MovedBy(t, {u \in Req : pc[u] = "store" /\ SameInner(t, u)}) :
          /\ stale' = stale \cup moved
          /\ heap' = IF t \in moved \/ heap[ref[t]][call[t].kind][call[t].id] # Absent
                     THEN heap
                     ELSE Put(t, Torn)
    BY <1>9 DEF Assign
  <2>a. moved \subseteq Req
    BY <2>m, MovedByType
  <2>b. ref[t] \in Item
    BY <1>0, <1>9 DEF PcRef, Assign
  <2>c. Put(t, Torn)
          \in [Item -> [Kind -> [Id -> Name \cup {Absent, Torn}]]]
    BY <1>0, <1>c, <2>b, HeapUpdate
  <2>d. heap' \in [Item -> [Kind -> [Id -> Name \cup {Absent, Torn}]]]
    BY <1>0, <2>m, <2>c DEF TypeOK
  <2>1. TypeOK'
    BY <1>0, <1>9, <2>m, <2>a, <2>d DEF Assign, TypeOK, Location
  <2>2. PcRef'
    BY <1>0, <1>9 DEF Assign, TypeOK, PcRef
  <2> QED
    BY <2>1, <2>2 DEF TypeInv
<1>10. CASE Store(t)
  <2>a. ref[t] \in Item /\ name[t] \in Name
    BY <1>0, <1>10 DEF PcRef, Store
  <2>c. Put(t, name[t])
          \in [Item -> [Kind -> [Id -> Name \cup {Absent, Torn}]]]
    BY <1>0, <1>c, <2>a, HeapUpdate
  <2>d. heap' \in [Item -> [Kind -> [Id -> Name \cup {Absent, Torn}]]]
    BY <1>0, <1>10, <2>c DEF TypeOK, Store
  <2>1. TypeOK'
    BY <1>0, <1>10, <2>a, <2>d DEF Store, TypeOK, Location
  <2>2. PcRef'
    BY <1>0, <1>10 DEF Store, TypeOK, PcRef
  <2> QED
    BY <2>1, <2>2 DEF TypeInv
<1>11. CASE Throw(t)
  <2>1. TypeOK'
    BY <1>0, <1>11, EmptyItemType, AnyCallType DEF Throw, TypeOK, Location
  <2>2. PcRef'
    BY <1>11 DEF Throw, PcRef
  <2> QED
    BY <2>1, <2>2 DEF TypeInv
<1> QED
  BY <1>1, <1>2, <1>3, <1>4, <1>5, <1>6, <1>7, <1>8, <1>9, <1>10, <1>11
  DEF Step, Access

LEMMA RewriteType ==
  ASSUME TypeInv, NEW r \in Root, NEW c \in Content, Rewrite(r, c)
  PROVE  TypeInv'
<1>1. file' \in [Root -> Content]
  BY DEF TypeInv, TypeOK, Rewrite
<1>2. edits' \in 0..MaxEdits
  <2>1. edits \in 0..MaxEdits /\ edits < MaxEdits /\ edits' = edits + 1
    BY DEF TypeInv, TypeOK, Rewrite
  <2> QED
    BY <2>1, ConstantsAssumption
<1>3. said' \in [Root -> [Kind -> [Id -> SUBSET Name]]]
  <2> DEFINE new == [k \in Kind |-> [d \in Id |-> said[r][k][d] \cup ({c[k][d]} \cap Name)]]
  <2>1. said \in [Root -> [Kind -> [Id -> SUBSET Name]]]
    BY DEF TypeInv, TypeOK
  <2>2. said[r] \in [Kind -> [Id -> SUBSET Name]]
    BY <2>1
  <2>3. new \in [Kind -> [Id -> SUBSET Name]]
    BY <2>2
  <2>4. said' = [said EXCEPT ![r] = new]
    BY <2>1 DEF Rewrite
  <2> QED
    BY <2>1, <2>3, <2>4
<1>4. ASSUME NEW t \in Req PROVE Says(file', t) \in Name \cup {NoEntry}
  <2>1. call[t].kind \in Kind /\ call[t].root \in Root /\ call[t].id \in Id
    BY CallType DEF TypeInv
  <2>2. file'[call[t].root] \in [Kind -> [Id -> Name \cup {NoEntry}]]
    BY <1>1, <2>1 DEF Content
  <2> QED
    BY <2>1, <2>2 DEF Says
<1>5. seen' \in [Req -> SUBSET (Name \cup {NoEntry})]
  BY <1>4 DEF TypeInv, TypeOK, Rewrite
<1> QED
  BY <1>1, <1>2, <1>3, <1>5 DEF TypeInv, TypeOK, Rewrite, PcRef, local

LEMMA EditContent ==
  ASSUME TypeOK, NEW r \in Root, NEW k \in Kind, NEW d \in Id,
         NEW n \in Name \cup {NoEntry}
  PROVE  [file[r] EXCEPT ![k][d] = n] \in Content
<1>1. file[r] \in [Kind -> [Id -> Name \cup {NoEntry}]]
  BY DEF TypeOK, Content
<1>2. file[r][k] \in [Id -> Name \cup {NoEntry}]
  BY <1>1
<1> QED
  BY <1>1, <1>2 DEF Content

\* The environment's steps rewrite a root's files.
LEMMA EnvironmentRewrites ==
  ASSUME TypeOK,
         \/ \E r \in EditableRoot : EditFile(r)
         \/ \E r \in ProcRoot : PidReuse(r)
  PROVE  \E r \in Root, c \in Content : Rewrite(r, c)
<1>1. CASE \E r \in EditableRoot : EditFile(r)
  <2>1. PICK r \in EditableRoot : EditFile(r)
    BY <1>1
  <2>2. PICK k \in Kind, d \in Id, n \in Name \cup {NoEntry} :
          Rewrite(r, [file[r] EXCEPT ![k][d] = n])
    BY <2>1 DEF EditFile
  <2>3. r \in Root
    BY ConstantsAssumption
  <2>4. [file[r] EXCEPT ![k][d] = n] \in Content
    BY <2>3, EditContent
  <2> QED
    BY <2>2, <2>3, <2>4
<1>2. CASE \E r \in ProcRoot : PidReuse(r)
  BY <1>2, ConstantsAssumption DEF PidReuse
<1> QED
  BY <1>1, <1>2

LEMMA TypeInvNext == TypeInv /\ [Next]_vars => TypeInv'
<1> SUFFICES ASSUME TypeInv, [Next]_vars PROVE TypeInv'
  OBVIOUS
<1>1. CASE \E t \in Req : Step(t)
  BY <1>1, TypeInvStep
<1>2. CASE Restart
  <2>1. TypeOK'
    BY <1>2 DEF Restart, TypeInv, TypeOK, files, local, history
  <2>2. PcRef'
    BY <1>2 DEF Restart, TypeInv, PcRef, local
  <2> QED
    BY <2>1, <2>2 DEF TypeInv
<1>3. CASE \/ \E r \in EditableRoot : EditFile(r)
           \/ \E r \in ProcRoot : PidReuse(r)
  BY <1>3, EnvironmentRewrites, RewriteType DEF TypeInv
<1>4. CASE UNCHANGED vars
  BY <1>4 DEF vars, files, local, history, TypeInv, TypeOK, PcRef
<1> QED
  BY <1>1, <1>2, <1>3, <1>4 DEF Next

LEMMA TypeInvInit == Init => TypeInv
<1> SUFFICES ASSUME Init PROVE TypeInv
  OBVIOUS
<1>1. edits \in 0..MaxEdits
  BY ConstantsAssumption DEF Init
<1>2. PcRef
  BY DEF Init, PcRef
<1>3. TypeOK
  BY <1>1, AnyCallType, EmptyItemType DEF Init, TypeOK, Location
<1> QED
  BY <1>2, <1>3 DEF TypeInv

\* Every variable keeps its type in every behaviour of the cache, and a request
\* holds an item or a name exactly at the lines of getUserName and getGroupName
\* where the code has one in a local.
THEOREM TypeCorrect == Spec => []TypeOK
<1>1. TypeInv => TypeOK
  BY DEF TypeInv
<1> QED
  BY <1>1, TypeInvInit, TypeInvNext, PTL DEF Spec

-----------------------------------------------------------------------------
(* Provenance.  The property is not inductive: what a request returns may  *)
(* come from an item that other requests filled, possibly one that has     *)
(* since been replaced in userGroupCache.  The invariant follows an item   *)
(* through everything that can reach it.                                   *)

\* Item i is reachable for root r: through the cache, or through a request.
Holds(r, i) == outer[r] = i \/ \E t \in Req : call[t].root = r /\ ref[t] = i

FileSaid ==
    \A r \in Root, k \in Kind, d \in Id :
        file[r][k][d] \in Name => file[r][k][d] \in said[r][k][d]
NameSaid == \A t \in Req : name[t] \in Name => name[t] \in Says(said, t)
ItemSaid ==
    \A i \in Item, r \in Root : Holds(r, i) =>
        \A k \in Kind, d \in Id :
            heap[i][k][d] \in Name => heap[i][k][d] \in said[r][k][d]
ItemOwner == \A i \in Item, r, s \in Root : Holds(r, i) /\ Holds(s, i) => r = s

SaidInv == TypeInv /\ FileSaid /\ NameSaid /\ ItemSaid /\ ItemOwner
                   /\ NamesComeFromTheirFile

LEMMA MarkersAreNot ==
  /\ \A m \in Marker : m \notin Name /\ m \notin Item
  /\ None \notin Item /\ Absent \notin Item /\ Nil \notin Item
  /\ None \notin Name /\ Absent \notin Name /\ Torn \notin Name
  /\ NoEntry \notin Name /\ Err \notin Name /\ Panic \notin Name
  BY ConstantsAssumption DEF Marker

LEMMA ReadOuterItem ==
  ASSUME NEW t \in Req, NEW i \in ReadOuter(t), i \in Item
  PROVE  i = outer[call[t].root]
<1>1. i = outer[call[t].root] \/ i = Absent
  BY Zenon DEF ReadOuter
<1> QED
  BY <1>1, MarkersAreNot

\* A step makes an item reachable for a root only if it already was, or if it
\* has just been allocated for that root and is empty.
Reaches(t) ==
    \A r \in Root, i \in Item : Holds(r, i)' =>
        \/ Holds(r, i)
        \/ /\ heap'[i] = EmptyItem
           /\ \A s \in Root : ~Holds(s, i)
           /\ r = call[t].root

\* A step puts no name in an item but the one its request has read.
Fills(t) ==
    \A i \in Item, k \in Kind, d \in Id : heap'[i][k][d] \in Name =>
        \/ heap'[i][k][d] = heap[i][k][d]
        \/ /\ i = ref[t] /\ k = call[t].kind /\ d = call[t].id
           /\ heap'[i][k][d] = name[t]

LEMMA StepReaches ==
  ASSUME TypeInv, NEW t \in Req, Step(t)
  PROVE  Reaches(t)
<1> USE MarkersAreNot DEF Goto, Return, Hold, files, local, history
<1>0. TypeOK /\ PcRef /\ call[t].root \in Root
  BY CallType DEF TypeInv
<1>1. CASE UNCHANGED <<outer, call, ref>>
  BY <1>1 DEF Reaches, Holds
<1>2. CASE Begin(t)
  <2>1. ref[t] = None /\ ref' = ref /\ outer' = outer
    BY <1>0, <1>2 DEF Begin, PcRef, Active
  <2>2. \A u \in Req : u # t => call'[u] = call[u]
    BY <1>0, <1>2 DEF Begin, TypeOK
  <2> QED
    BY <2>1, <2>2 DEF Reaches, Holds
<1>3. CASE outer' = outer /\ call' = call /\ ref' = [ref EXCEPT ![t] = None]
  BY <1>0, <1>3 DEF Reaches, Holds, TypeOK
<1>4. ASSUME outer' = outer, call' = call, NEW i \in ReadOuter(t), i \in Item,
             ref' = [ref EXCEPT ![t] = i]
      PROVE  Reaches(t)
  <2>1. i = outer[call[t].root]
    BY <1>4, ReadOuterItem
  <2> QED
    BY <1>0, <1>4, <2>1 DEF Reaches, Holds, TypeOK
<1>5. CASE Create(t)
  <2>1. PICK i \in Item \ Held :
          ref' = [ref EXCEPT ![t] = i] /\ heap' = [heap EXCEPT ![i] = EmptyItem]
    BY <1>5 DEF Create
  <2>2. \A s \in Root : ~Holds(s, i)
    BY <2>1 DEF Held, Holds
  <2>3. heap'[i] = EmptyItem
    BY <1>0, <2>1 DEF TypeOK
  <2>4. call' = call /\ \A r \in Root : outer'[r] = outer[r] \/ outer'[r] = Nil
    BY <1>0, <1>5 DEF Create, TypeOK
  <2>5. ASSUME NEW r \in Root, NEW j \in Item, Holds(r, j)'
        PROVE  \/ Holds(r, j)
               \/ j = i /\ r = call[t].root
    <3>1. CASE outer'[r] = j
      BY <2>4, <3>1 DEF Holds
    <3>2. CASE \E u \in Req : call'[u].root = r /\ ref'[u] = j
      BY <1>0, <2>1, <2>4, <3>2 DEF Holds, TypeOK
    <3> QED
      BY <2>5, <3>1, <3>2 DEF Holds
  <2> QED
    BY <2>2, <2>3, <2>5 DEF Reaches
<1>6. CASE Publish(t)
  <2>1. call' = call /\ ref' = [ref EXCEPT ![t] = None]
    BY <1>6 DEF Publish
  <2>2. \A r \in Root : outer'[r] = outer[r] \/ (r = call[t].root /\ outer'[r] = ref[t])
    BY <1>0, <1>6 DEF Publish, TypeOK
  <2> QED
    BY <1>0, <2>1, <2>2 DEF Reaches, Holds, TypeOK
<1>7. CASE ProbeOuter(t)
  BY <1>1, <1>4, <1>7 DEF ProbeOuter
<1>8. CASE GetRef(t)
  BY <1>1, <1>4, <1>8 DEF GetRef
<1>9. CASE ProbeInner(t) \/ Store(t)
  BY <1>3, <1>9 DEF ProbeInner, Store
<1>10. CASE Lookup(t) \/ Check(t) \/ Assign(t)
  BY <1>1, <1>10 DEF Lookup, Check, Assign
<1>11. CASE Throw(t)
  BY <1>11 DEF Throw, Reaches, Holds
<1> QED
  BY <1>2, <1>5, <1>6, <1>7, <1>8, <1>9, <1>10, <1>11 DEF Step, Access

LEMMA StepFills ==
  ASSUME TypeInv, NEW t \in Req, Step(t)
  PROVE  Fills(t)
<1> USE MarkersAreNot DEF Goto, Return, Hold, files, local, history
<1>0. TypeOK /\ PcRef
  BY DEF TypeInv
<1>c. call[t].kind \in Kind /\ call[t].root \in Root /\ call[t].id \in Id
  BY <1>0, CallType
<1>1. CASE heap' = heap
  BY <1>1 DEF Fills
<1>2. CASE Create(t)
  <2>1. PICK i \in Item : heap' = [heap EXCEPT ![i] = EmptyItem]
    BY <1>2 DEF Create
  <2> QED
    BY <1>0, <2>1 DEF Fills, EmptyItem, TypeOK
<1>3. ASSUME ref[t] \in Item, NEW v \in Name \cup {Absent, Torn}, v \in {Torn, name[t]},
             heap' = Put(t, v)
      PROVE  Fills(t)
  <2>1. \A j \in Item, l \in Kind, e \in Id :
          heap'[j][l][e] = IF j = ref[t] /\ l = call[t].kind /\ e = call[t].id
                           THEN v ELSE heap[j][l][e]
    <3>1. \A j \in Item, l \in Kind, e \in Id :
            Put(t, v)[j][l][e] = IF j = ref[t] /\ l = call[t].kind /\ e = call[t].id
                                 THEN v ELSE heap[j][l][e]
      BY <1>0, <1>3, HeapUpdate
    <3>2. heap' = Put(t, v)
      BY <1>3
    <3> QED
      BY ONLY <3>1, <3>2, ZenonT(60)
  <2> SUFFICES ASSUME NEW j \in Item, NEW l \in Kind, NEW e \in Id,
                      heap'[j][l][e] \in Name
               PROVE  \/ heap'[j][l][e] = heap[j][l][e]
                      \/ /\ j = ref[t] /\ l = call[t].kind /\ e = call[t].id
                         /\ heap'[j][l][e] = name[t]
    BY DEF Fills
  <2>2. CASE j = ref[t] /\ l = call[t].kind /\ e = call[t].id
    <3>1. heap'[j][l][e] = v
      BY <2>1, <2>2
    <3>2. v # Torn
      BY <3>1
    <3> QED
      BY <1>3, <2>2, <3>1, <3>2
  <2>3. CASE ~(j = ref[t] /\ l = call[t].kind /\ e = call[t].id)
    BY <2>1, <2>3
  <2> QED
    BY <2>2, <2>3
<1>4. CASE Assign(t)
  <2>1. ref[t] \in Item
    BY <1>0, <1>4 DEF PcRef, Assign
  <2>2. \/ heap' = heap
        \/ heap' = Put(t, Torn)
    BY <1>4 DEF Assign
  <2> QED
    BY <1>1, <1>3, <2>1, <2>2
<1>5. CASE Store(t)
  <2>1. ref[t] \in Item /\ name[t] \in Name
    BY <1>0, <1>5 DEF PcRef, Store
  <2>2. \/ heap' = heap
        \/ heap' = Put(t, name[t])
    BY <1>5 DEF Store
  <2> QED
    BY <1>1, <1>3, <2>1, <2>2
<1>6. CASE Begin(t) \/ ProbeOuter(t) \/ ProbeInner(t) \/ Lookup(t) \/ Check(t)
           \/ Publish(t) \/ GetRef(t)
  BY <1>1, <1>6 DEF Begin, ProbeOuter, ProbeInner, Lookup, Check, Publish, GetRef
<1>7. CASE Throw(t)
  BY <1>7 DEF Throw, Fills, EmptyItem
<1> QED
  BY <1>2, <1>4, <1>5, <1>6, <1>7 DEF Step, Access

LEMMA SaidInvStep ==
  ASSUME SaidInv, NEW t \in Req, Step(t)
  PROVE  SaidInv'
<1> USE MarkersAreNot DEF Goto, Return, Hold, files, local, history
<1>0. TypeInv /\ TypeOK /\ PcRef /\ Reaches(t) /\ Fills(t)
  BY StepReaches, StepFills DEF SaidInv, TypeInv
<1>c. call[t].kind \in Kind /\ call[t].root \in Root /\ call[t].id \in Id
  BY <1>0, CallType
<1>a. file' = file /\ said' = said
  BY DEF Step, Access, Begin, ProbeOuter, ProbeInner, Lookup, Check, Create, Publish,
         GetRef, Assign, Store, Throw
<1>1. TypeInv'
  BY <1>0, TypeInvStep
<1>2. FileSaid'
  BY <1>a DEF SaidInv, FileSaid
<1>3. ItemOwner'
  BY <1>0 DEF SaidInv, ItemOwner, Reaches
<1>4. ItemSaid'
  <2> SUFFICES ASSUME NEW i \in Item, NEW r \in Root, Holds(r, i)', NEW k \in Kind, NEW d \in Id,
                      heap'[i][k][d] \in Name
               PROVE  heap'[i][k][d] \in said[r][k][d]
    BY <1>a DEF ItemSaid
  <2>1. Holds(r, i)
    <3>1. CASE heap'[i] = EmptyItem
      BY <3>1 DEF EmptyItem
    <3> QED
      BY <1>0, <3>1 DEF Reaches
  <2>2. CASE heap'[i][k][d] = heap[i][k][d]
    BY <2>1, <2>2 DEF SaidInv, ItemSaid
  <2>3. CASE i = ref[t] /\ k = call[t].kind /\ d = call[t].id /\ heap'[i][k][d] = name[t]
    <3>1. Holds(call[t].root, i)
      BY <2>3 DEF Holds
    <3>2. r = call[t].root
      BY <1>c, <2>1, <3>1 DEF SaidInv, ItemOwner
    <3> QED
      BY <2>3, <3>2 DEF SaidInv, NameSaid, Says
  <2> QED
    BY <1>0, <2>2, <2>3 DEF Fills
<1>5. NameSaid'
  <2> SUFFICES ASSUME NEW u \in Req, name'[u] \in Name
               PROVE  name'[u] \in said[call'[u].root][call'[u].kind][call'[u].id]
    BY <1>a DEF NameSaid, Says
  <2>1. CASE Begin(t)
    <3>1. name' = name /\ name[t] = None /\ \A w \in Req : w # t => call'[w] = call[w]
      BY <1>0, <2>1 DEF Begin, Active, PcRef, TypeOK
    <3> QED
      BY <3>1 DEF SaidInv, NameSaid, Says
  <2>2. CASE Lookup(t)
    <3>1. call' = call /\ (name' = name \/ name' = [name EXCEPT ![t] = Says(file, t)])
      BY <2>2 DEF Lookup
    <3>2. u # t => name'[u] = name[u]
      BY <1>0, <3>1 DEF TypeOK
    <3>3. CASE name'[u] = name[u]
      BY <3>1, <3>3 DEF SaidInv, NameSaid, Says
    <3>4. CASE u = t /\ name'[t] = Says(file, t)
      BY <1>c, <3>1, <3>4 DEF SaidInv, FileSaid, Says
    <3> QED
      BY <1>0, <3>1, <3>2, <3>3, <3>4 DEF TypeOK
  <2>3. CASE call' = call /\ (name' = name \/ name' = [name EXCEPT ![t] = None])
    <3>1. name'[u] = name[u]
      BY <1>0, <2>3 DEF TypeOK
    <3> QED
      BY <2>3, <3>1 DEF SaidInv, NameSaid, Says
  <2>4. CASE Throw(t)
    BY <2>4 DEF Throw
  <2> QED
    BY <2>1, <2>2, <2>3, <2>4 DEF Step, Access, ProbeOuter, ProbeInner, Check, Create,
         Publish, GetRef, Assign, Store
<1>6. NamesComeFromTheirFile'
  <2> SUFFICES ASSUME NEW u \in Req, answer'[u] \in Name
               PROVE  answer'[u] \in said[call'[u].root][call'[u].kind][call'[u].id]
    BY <1>a DEF NamesComeFromTheirFile, Says
  <2>1. CASE Begin(t)
    <3>1. answer' = [answer EXCEPT ![t] = None] /\ \A w \in Req : w # t => call'[w] = call[w]
      BY <1>0, <2>1 DEF Begin, TypeOK
    <3>2. u # t /\ answer'[u] = answer[u]
      BY <1>0, <3>1 DEF TypeOK
    <3> QED
      BY <3>1, <3>2 DEF SaidInv, NamesComeFromTheirFile, Says
  <2>2. CASE call' = call /\ answer'[u] = answer[u]
    BY <2>2 DEF SaidInv, NamesComeFromTheirFile, Says
  <2>3. CASE ProbeInner(t) /\ answer'[u] # answer[u]
    <3>1. PICK n \in ReadInner(t) :
            \/ n = Absent /\ Goto(t, "lookup") /\ UNCHANGED answer
            \/ n # Absent /\ Return(t, n)
      BY <2>3 DEF ProbeInner
    <3>2. u = t /\ answer'[t] = n /\ n \in Name /\ call' = call
      BY <1>0, <2>3, <3>1 DEF ProbeInner, TypeOK
    <3>3. n = heap[ref[t]][call[t].kind][call[t].id]
      <4>1. n \in {heap[ref[t]][call[t].kind][call[t].id], Absent, Torn}
        BY Zenon DEF ReadInner
      <4> QED
        BY <3>2, <4>1
    <3>4. ref[t] \in Item /\ Holds(call[t].root, ref[t])
      BY <1>0, <2>3 DEF ProbeInner, PcRef, Holds
    <3> QED
      BY <1>c, <3>2, <3>3, <3>4 DEF SaidInv, ItemSaid
  <2>4. CASE Store(t) /\ answer'[u] # answer[u]
    <3>1. u = t /\ answer'[t] = name[t] /\ call' = call
      BY <1>0, <2>4 DEF Store, TypeOK
    <3> QED
      BY <3>1 DEF SaidInv, NameSaid, Says
  <2>5. CASE Lookup(t)
    <3>1. answer'[u] \in {answer[u], Err} /\ call' = call
      BY <1>0, <2>5 DEF Lookup, TypeOK
    <3> QED
      BY <2>2, <3>1
  <2>6. CASE GetRef(t)
    <3>1. answer'[u] \in {answer[u], Panic} /\ call' = call
      BY <1>0, <2>6 DEF GetRef, TypeOK
    <3> QED
      BY <2>2, <3>1
  <2>7. CASE Throw(t)
    BY <2>7 DEF Throw
  <2> QED
    BY <2>1, <2>2, <2>3, <2>4, <2>5, <2>6, <2>7 DEF Step, Access, ProbeOuter, ProbeInner,
         Check, Create, Publish, Assign, Store
<1> QED
  BY <1>1, <1>2, <1>3, <1>4, <1>5, <1>6 DEF SaidInv

LEMMA SaidInvRewrite ==
  ASSUME SaidInv, NEW r \in Root, NEW c \in Content, Rewrite(r, c)
  PROVE  SaidInv'
<1>0. TypeInv /\ TypeOK
  BY DEF SaidInv, TypeInv
<1>1. TypeInv'
  BY <1>0, RewriteType
<1>2. UNCHANGED <<outer, heap, local, stale, alive, raced>>
  BY DEF Rewrite
<1>3. \A q \in Root, k \in Kind, d \in Id :
        said'[q][k][d] = IF q = r THEN said[r][k][d] \cup ({c[k][d]} \cap Name)
                                  ELSE said[q][k][d]
  <2> DEFINE new == [k \in Kind |-> [d \in Id |-> said[r][k][d] \cup ({c[k][d]} \cap Name)]]
  <2>1. said \in [Root -> [Kind -> [Id -> SUBSET Name]]]
    BY <1>0 DEF TypeOK
  <2>2. said' = [said EXCEPT ![r] = new]
    BY <2>1 DEF Rewrite
  <2>3. \A k \in Kind, d \in Id : new[k][d] = said[r][k][d] \cup ({c[k][d]} \cap Name)
    OBVIOUS
  <2> HIDE DEF new
  <2>4. \A q \in Root : said'[q] = IF q = r THEN new ELSE said[q]
    BY <2>1, <2>2
  <2> QED
    BY <2>3, <2>4
<1>4. \A q \in Root, k \in Kind, d \in Id : said[q][k][d] \subseteq said'[q][k][d]
  <2> TAKE q \in Root, k \in Kind, d \in Id
  <2>1. CASE q = r
    BY <1>3, <2>1
  <2>2. CASE q # r
    <3>1. said'[q][k][d] = said[q][k][d]
      BY <1>3, <2>2
    <3> QED
      BY <3>1
  <2> QED
    BY <2>1, <2>2
<1>5. FileSaid'
  <2>1. \A q \in Root : file'[q] = IF q = r THEN c ELSE file[q]
    BY <1>0 DEF Rewrite, TypeOK
  <2> SUFFICES ASSUME NEW q \in Root, NEW k \in Kind, NEW d \in Id, file'[q][k][d] \in Name
               PROVE  file'[q][k][d] \in said'[q][k][d]
    BY DEF FileSaid
  <2>2. CASE q = r
    <3>1. file'[q][k][d] = c[k][d]
      BY <2>1, <2>2
    <3> QED
      BY <1>3, <2>2, <3>1
  <2>3. CASE q # r
    BY <1>3, <2>1, <2>3 DEF SaidInv, FileSaid
  <2> QED
    BY <2>2, <2>3
<1>6. \A t \in Req : Says(said, t) \subseteq Says(said, t)'
  <2> TAKE t \in Req
  <2>1. call[t].kind \in Kind /\ call[t].root \in Root /\ call[t].id \in Id
    BY <1>0, CallType
  <2> QED
    BY <1>2, <1>4, <2>1 DEF Says, local
<1>7. NameSaid' /\ NamesComeFromTheirFile'
  BY <1>2, <1>6 DEF SaidInv, NameSaid, NamesComeFromTheirFile, local
<1>8. \A i, q : Holds(q, i)' <=> Holds(q, i)
  BY <1>2 DEF Holds, local
<1>9. ItemSaid' /\ ItemOwner'
  BY <1>2, <1>4, <1>8 DEF SaidInv, ItemSaid, ItemOwner
<1> QED
  BY <1>1, <1>5, <1>7, <1>9 DEF SaidInv

LEMMA SaidInvNext == SaidInv /\ [Next]_vars => SaidInv'
<1> SUFFICES ASSUME SaidInv, [Next]_vars PROVE SaidInv'
  OBVIOUS
<1>0. TypeInv'
  BY TypeInvNext DEF SaidInv
<1>1. CASE \E t \in Req : Step(t)
  BY <1>1, SaidInvStep
<1>2. CASE Restart
  <2>1. FileSaid'
    BY <1>2 DEF Restart, files, history, SaidInv, FileSaid
  <2>2. NameSaid' /\ NamesComeFromTheirFile'
    BY <1>2 DEF Restart, local, history, SaidInv, NameSaid, NamesComeFromTheirFile, Says
  <2>3. ItemSaid' /\ ItemOwner'
    BY <1>2 DEF Restart, local, history, SaidInv, ItemSaid, ItemOwner, Holds
  <2> QED
    BY <1>0, <2>1, <2>2, <2>3 DEF SaidInv
<1>3. CASE \/ \E r \in EditableRoot : EditFile(r)
           \/ \E r \in ProcRoot : PidReuse(r)
  BY <1>3, EnvironmentRewrites, SaidInvRewrite DEF SaidInv, TypeInv
<1>4. CASE UNCHANGED vars
  BY <1>0, <1>4 DEF vars, files, local, history, SaidInv, FileSaid, NameSaid, Says, ItemSaid,
                    ItemOwner, Holds, NamesComeFromTheirFile
<1> QED
  BY <1>1, <1>2, <1>3, <1>4 DEF Next

LEMMA SaidInvInit == Init => SaidInv
<1> SUFFICES ASSUME Init PROVE SaidInv
  OBVIOUS
<1>1. TypeInv
  BY TypeInvInit
<1>2. FileSaid
  BY DEF Init, FileSaid
<1>3. NameSaid /\ NamesComeFromTheirFile
  BY MarkersAreNot DEF Init, NameSaid, NamesComeFromTheirFile
<1>4. \A i \in Item, r \in Root : ~Holds(r, i)
  BY MarkersAreNot DEF Init, Holds
<1> QED
  BY <1>1, <1>2, <1>3, <1>4 DEF SaidInv, ItemSaid, ItemOwner

\* Any number of handlers calling getUserName and getGroupName at once, with
\* every race the runtime can lose, any edits and any reuse of pids: a name that
\* is returned was once in that root's own file, for that id and kind.
THEOREM Provenance == Spec => []NamesComeFromTheirFile
<1>1. SaidInv => NamesComeFromTheirFile
  BY DEF SaidInv
<1> QED
  BY <1>1, SaidInvInit, SaidInvNext, PTL DEF Spec
-----------------------------------------------------------------------------
(* Freshness of errors.  An error is not kept anywhere, so it is enough to *)
(* know that `seen' holds what the file says while a call is under way.    *)

FileSeen == \A t \in Req : Active(t) => Says(file, t) \in seen[t]

FreshInv == TypeInv /\ FileSeen /\ ErrorsAreFresh

LEMMA FreshInvStep ==
  ASSUME FreshInv, NEW t \in Req, Step(t)
  PROVE  FreshInv'
<1> USE MarkersAreNot DEF Goto, Return, Hold, files, local, history
<1>0. TypeInv /\ TypeOK /\ PcRef /\ file' = file
  BY DEF FreshInv, TypeInv, Step, Access, Begin, ProbeOuter, ProbeInner, Lookup, Check, Create,
         Publish, GetRef, Assign, Store, Throw
<1>1. TypeInv'
  BY <1>0, TypeInvStep
<1>2. CASE Begin(t)
  <2>0. PICK k \in Kind, r \in Root, d \in Id :
          /\ call' = [call EXCEPT ![t] = [kind |-> k, root |-> r, id |-> d]]
          /\ seen' = [seen EXCEPT ![t] = {file[r][k][d]}]
    BY <1>2 DEF Begin
  <2>1. /\ call'[t].root = r /\ call'[t].kind = k /\ call'[t].id = d
        /\ seen'[t] = {file[r][k][d]}
        /\ answer'[t] = None
        /\ \A u \in Req : u # t => /\ call'[u] = call[u] /\ seen'[u] = seen[u]
                                   /\ answer'[u] = answer[u] /\ pc'[u] = pc[u]
    BY <1>0, <1>2, <2>0 DEF Begin, TypeOK
  <2>2. FileSeen'
    <3> SUFFICES ASSUME NEW u \in Req, Active(u)' PROVE Says(file, u)' \in seen'[u]
      BY DEF FileSeen
    <3>1. CASE u = t
      BY <1>0, <2>1, <3>1 DEF Says
    <3>2. CASE u # t
      BY <1>0, <2>1, <3>2 DEF FreshInv, FileSeen, Says, Active
    <3> QED
      BY <3>1, <3>2
  <2>3. ErrorsAreFresh'
    BY <2>1 DEF FreshInv, ErrorsAreFresh
  <2> QED
    BY <1>1, <2>2, <2>3 DEF FreshInv
<1>3. ASSUME UNCHANGED <<call, seen>>, Active(t),
             \A u \in Req : u # t => pc'[u] = pc[u] /\ answer'[u] = answer[u],
             answer'[t] = Err => answer[t] = Err \/ Says(file, t) = NoEntry
      PROVE  FreshInv'
  <2>1. FileSeen'
    BY <1>0, <1>3 DEF FreshInv, FileSeen, Says, Active
  <2>2. ErrorsAreFresh'
    BY <1>3 DEF FreshInv, FileSeen, ErrorsAreFresh
  <2> QED
    BY <1>1, <2>1, <2>2 DEF FreshInv
<1>4. CASE ProbeInner(t)
  <2>0. PICK n \in ReadInner(t) :
          \/ n = Absent /\ Goto(t, "lookup") /\ UNCHANGED answer
          \/ n # Absent /\ Return(t, n)
    BY <1>4 DEF ProbeInner
  <2>1. n # Err
    BY <1>0, <1>4, ReadInnerType DEF ProbeInner, PcRef
  <2> QED
    BY <1>0, <1>3, <1>4, <2>0, <2>1 DEF ProbeInner, Active, TypeOK
<1>5. CASE Lookup(t)
  BY <1>0, <1>3, <1>5 DEF Lookup, Active, TypeOK
<1>6. CASE Store(t)
  <2>1. name[t] # Err
    BY <1>0, <1>6 DEF Store, PcRef
  <2> QED
    BY <1>0, <1>3, <1>6, <2>1 DEF Store, Active, TypeOK
<1>7. CASE GetRef(t)
  BY <1>0, <1>3, <1>7 DEF GetRef, Active, TypeOK
<1>8. CASE ProbeOuter(t) \/ Check(t) \/ Create(t) \/ Publish(t) \/ Assign(t)
  BY <1>0, <1>3, <1>8 DEF ProbeOuter, Check, Create, Publish, Assign, Active, TypeOK
<1>9. CASE Throw(t)
  BY <1>1, <1>9 DEF Throw, FreshInv, FileSeen, ErrorsAreFresh, Active
<1> QED
  BY <1>2, <1>4, <1>5, <1>6, <1>7, <1>8, <1>9 DEF Step, Access

LEMMA FreshInvNext == FreshInv /\ [Next]_vars => FreshInv'
<1> SUFFICES ASSUME FreshInv, [Next]_vars PROVE FreshInv'
  OBVIOUS
<1>0. TypeInv' /\ TypeOK
  BY TypeInvNext DEF FreshInv, TypeInv
<1>1. CASE \E t \in Req : Step(t)
  BY <1>1, FreshInvStep
<1>2. CASE Restart
  BY <1>0, <1>2 DEF Restart, files, local, history, FreshInv, FileSeen, ErrorsAreFresh, Says, Active
<1>3. CASE \/ \E r \in EditableRoot : EditFile(r)
           \/ \E r \in ProcRoot : PidReuse(r)
  <2>1. PICK r \in Root, c \in Content : Rewrite(r, c)
    BY <1>0, <1>3, EnvironmentRewrites
  <2>2. /\ UNCHANGED <<pc, call, answer>>
        /\ \A t \in Req : seen'[t] = IF Active(t) THEN seen[t] \cup {Says(file', t)} ELSE seen[t]
    BY <2>1 DEF Rewrite, local
  <2>3. \A t \in Req : Says(file, t)' = Says(file', t) /\ Active(t)' = Active(t)
    BY <2>2 DEF Says, Active
  <2> QED
    BY <1>0, <2>2, <2>3 DEF FreshInv, FileSeen, ErrorsAreFresh
<1>4. CASE UNCHANGED vars
  BY <1>0, <1>4 DEF vars, files, local, history, FreshInv, FileSeen, ErrorsAreFresh, Says, Active
<1> QED
  BY <1>1, <1>2, <1>3, <1>4 DEF Next

\* An "unknown id" of getUserName or getGroupName is never a memory of an earlier
\* state: the file had no such entry at some moment of this very call, whatever
\* other calls and edits it overlaps with.
THEOREM FreshErrors == Spec => []ErrorsAreFresh
<1>1. Init => FreshInv
  BY TypeInvInit, MarkersAreNot DEF Init, FreshInv, FileSeen, ErrorsAreFresh, Active
<1>2. FreshInv => ErrorsAreFresh
  BY DEF FreshInv
<1> QED
  BY <1>1, <1>2, FreshInvNext, PTL DEF Spec

-----------------------------------------------------------------------------
(* Without a race.  FaultsOnlyFromRaces is not inductive: a zero item or a *)
(* half-stored name in the cache is as good as a fault, and it is there    *)
(* for a moment in every fill.  As long as nothing has raced, it is seen   *)
(* by nobody but the call that is about to replace it.                     *)

\* A zero item is about to be replaced by its creator ...
ZeroHeld ==
    \A r \in Root : outer[r] = Nil => \E t \in Req : pc[t] = "publish" /\ call[t].root = r
\* ... and an empty string by the name that belongs there.
TornHeld ==
    \A i \in Item, k \in Kind, d \in Id : heap[i][k][d] = Torn =>
        \E t \in Req : pc[t] = "store" /\ ref[t] = i /\ call[t].kind = k /\ call[t].id = d
\* A call that has made sure that there is an item still finds one ...
RefThere == \A t \in Req : pc[t] = "ref" => outer[call[t].root] \in Item
\* ... and one that makes an item replaces none.
OneCreator ==
    \A t \in Req : /\ pc[t] = "create" => outer[call[t].root] = Absent
                   /\ pc[t] = "publish" => outer[call[t].root] = Nil
NoFault == \A t \in Req : answer[t] \notin {Torn, Panic}

Orderly == alive /\ stale = {} /\ ZeroHeld /\ TornHeld /\ RefThere /\ OneCreator /\ NoFault
\* After the runtime has thrown, the memory of the process is gone.
Clean ==
    /\ outer = [r \in Root |-> Absent] /\ heap = [i \in Item |-> EmptyItem]
    /\ pc = [t \in Req |-> "idle"] /\ answer = [t \in Req |-> None] /\ stale = {}

RaceInv == TypeInv /\ (~raced => Orderly) /\ (~alive => Clean)

LEMMA CleanIsOrderly ==
  ASSUME Clean, alive
  PROVE  Orderly
  BY MarkersAreNot DEF Clean, EmptyItem, Orderly, ZeroHeld, TornHeld, RefThere, OneCreator, NoFault

\* What a map gives to a reader that races with nobody.
LEMMA QuietReads ==
  ASSUME TypeInv, NEW t \in Req, ~RaceNow
  PROVE  /\ \A i \in ReadOuter(t) : i = outer[call[t].root]
         /\ \A n \in ReadInner(t) : n = heap[ref[t]][call[t].kind][call[t].id]
<1>1. \A u \in Req : ~Overlap(t, u) /\ ~MidStore(t, u)
  BY DEF RaceNow
<1> QED
  BY <1>1, Zenon DEF ReadOuter, ReadInner

\* An insertion that races with nobody moves no slot.
LEMMA QuietMoves ==
  ASSUME TypeInv, NEW t \in Req, ~RaceNow
  PROVE  /\ pc[t] = "create" =>
              \A m \in MovedBy(t, {u \in Req : pc[u] = "publish"}) : m = {}
         /\ pc[t] = "assign" =>
              \A m \in MovedBy(t, {u \in Req : pc[u] = "store" /\ SameInner(t, u)}) : m = {}
<1>1. \A u \in Req : ~Overlap(t, u) /\ ~MidStore(t, u)
  BY DEF RaceNow
<1>2. {u \in {t} : \E v \in Req : Overlap(t, v) /\ pc[v] = pc[t]} = {}
  BY <1>1
<1>3. pc[t] = "create" => {u \in {v \in Req : pc[v] = "publish"} : u # t} = {}
  BY <1>1 DEF MidStore, OnOuter
<1>4. pc[t] = "assign" => {u \in {v \in Req : pc[v] = "store" /\ SameInner(t, v)} : u # t} = {}
  BY <1>1 DEF MidStore, OnInner
<1> QED
  BY <1>2, <1>3, <1>4 DEF MovedBy

\* A step of a call that leaves the maps alone, or changes them only where the
\* conditions of Orderly do not look.
LEMMA LocalStep ==
  ASSUME TypeInv, Orderly, NEW t \in Req, pc[t] \notin {"publish", "store"},
         UNCHANGED <<outer, heap, stale, alive>>,
         \A u \in Req : u # t => /\ pc'[u] = pc[u] /\ call'[u] = call[u]
                                 /\ ref'[u] = ref[u] /\ answer'[u] = answer[u],
         answer'[t] \notin {Torn, Panic},
         pc'[t] \in {"probe", "inner", "lookup", "check", "done", "assign"} \/
           (call' = call /\ pc'[t] = "create" /\ outer[call[t].root] = Absent) \/
           (call' = call /\ pc'[t] = "ref" /\ outer[call[t].root] \in Item)
  PROVE  Orderly'
<1>1. ZeroHeld'
  BY DEF Orderly, ZeroHeld
<1>2. TornHeld'
  BY DEF Orderly, TornHeld
<1>3. RefThere' /\ OneCreator' /\ NoFault'
  BY DEF Orderly, RefThere, OneCreator, NoFault
<1> QED
  BY <1>1, <1>2, <1>3 DEF Orderly

LEMMA OrderlyStep ==
  ASSUME TypeInv, Orderly, NEW t \in Req, Step(t), ~raced'
  PROVE  Orderly'
<1> USE DEF Goto, Return, Hold, files, local, history
<1>0. TypeOK /\ PcRef /\ ~RaceNow /\ stale = {} /\ alive
  BY DEF TypeInv, Step, Orderly
<1>r. \A u, v \in Req : ~Overlap(u, v) /\ ~MidStore(u, v)
  BY <1>0 DEF RaceNow
<1>c. call[t].kind \in Kind /\ call[t].root \in Root /\ call[t].id \in Id
  BY <1>0, CallType
<1>o. \A i \in ReadOuter(t) : i = outer[call[t].root]
  BY <1>0, QuietReads
<1>1. CASE Begin(t) /\ UNCHANGED alive
  <2>1. \A u \in Req : u # t => /\ pc'[u] = pc[u] /\ call'[u] = call[u]
                                /\ ref'[u] = ref[u] /\ answer'[u] = answer[u]
    BY <1>0, <1>1 DEF Begin, TypeOK
  <2> QED
    BY <1>0, <1>1, <2>1, LocalStep DEF Begin, Active, TypeOK
<1>2. CASE ProbeOuter(t) /\ UNCHANGED alive
  <2>1. answer[t] \notin {Torn, Panic}
    BY DEF Orderly, NoFault
  <2>2. /\ \A u \in Req : u # t => pc'[u] = pc[u] /\ ref'[u] = ref[u]
        /\ pc'[t] \in {"inner", "lookup"}
    BY <1>0, <1>2 DEF ProbeOuter, TypeOK
  <2> QED
    BY <1>2, <2>1, <2>2, LocalStep DEF ProbeOuter
<1>3. CASE ProbeInner(t) /\ UNCHANGED alive
  <2>1. PICK n \in ReadInner(t) :
          \/ n = Absent /\ Goto(t, "lookup") /\ UNCHANGED answer
          \/ n # Absent /\ Return(t, n)
    BY <1>3 DEF ProbeInner
  <2>2. n = heap[ref[t]][call[t].kind][call[t].id] /\ ref[t] \in Item /\ pc[t] = "inner"
    BY <1>0, <1>3, QuietReads DEF ProbeInner, PcRef
  <2>3. n # Torn
    <3> SUFFICES ASSUME n = Torn PROVE FALSE
      OBVIOUS
    <3>1. PICK u \in Req : /\ pc[u] = "store" /\ ref[u] = ref[t]
                           /\ call[u].kind = call[t].kind /\ call[u].id = call[t].id
      BY <1>c, <2>2 DEF Orderly, TornHeld
    <3>2. MidStore(t, u)
      BY <2>2, <3>1 DEF MidStore, OnInner, SameInner
    <3> QED
      BY <1>r, <3>2
  <2>4. n # Panic /\ answer[t] \notin {Torn, Panic}
    BY <1>0, <2>1, <2>2, ReadInnerType, MarkersAreNot DEF Orderly, NoFault
  <2>5. /\ \A u \in Req : u # t => pc'[u] = pc[u] /\ ref'[u] = ref[u] /\ answer'[u] = answer[u]
        /\ pc'[t] \in {"lookup", "done"} /\ answer'[t] \in {n, answer[t]}
    BY <1>0, <1>3, <2>1 DEF ProbeInner, TypeOK
  <2> QED
    BY <1>3, <2>2, <2>3, <2>4, <2>5, LocalStep DEF ProbeInner
<1>4. CASE Lookup(t) /\ UNCHANGED alive
  <2>1. answer[t] \notin {Torn, Panic}
    BY DEF Orderly, NoFault
  <2>2. /\ \A u \in Req : u # t => pc'[u] = pc[u] /\ answer'[u] = answer[u]
        /\ pc'[t] \in {"check", "done"} /\ answer'[t] \in {Err, answer[t]}
    BY <1>0, <1>4 DEF Lookup, TypeOK
  <2> QED
    BY <1>4, <2>1, <2>2, LocalStep DEF Lookup
<1>5. CASE Check(t) /\ UNCHANGED alive
  <2>1. outer[call[t].root] # Nil
    <3> SUFFICES ASSUME outer[call[t].root] = Nil PROVE FALSE
      OBVIOUS
    <3>1. PICK u \in Req : pc[u] = "publish"
      BY <1>c DEF Orderly, ZeroHeld
    <3>2. MidStore(t, u)
      BY <1>5, <3>1 DEF Check, MidStore, OnOuter
    <3> QED
      BY <1>r, <3>2
  <2>2. outer[call[t].root] \in Item \cup {Absent}
    BY <1>0, <1>c, <2>1 DEF TypeOK
  <2>3. /\ \A u \in Req : u # t => pc'[u] = pc[u]
        /\ pc'[t] = IF outer[call[t].root] = Absent THEN "create" ELSE "ref"
    BY <1>0, <1>5, <1>o DEF Check, TypeOK
  <2>4. answer[t] \notin {Torn, Panic}
    BY DEF Orderly, NoFault
  <2> QED
    BY <1>5, <2>2, <2>3, <2>4, LocalStep DEF Check
<1>6. CASE Create(t) /\ UNCHANGED alive
  <2>1. PICK i \in Item \ Held :
          ref' = [ref EXCEPT ![t] = i] /\ heap' = [heap EXCEPT ![i] = EmptyItem]
    BY <1>6 DEF Create
  <2>2. outer[call[t].root] = Absent /\ pc[t] = "create"
    BY <1>6 DEF Create, Orderly, OneCreator
  <2>3. stale' = {} /\ outer' = [outer EXCEPT ![call[t].root] = Nil]
    <3>1. PICK moved \in MovedBy(t, {u \in Req : pc[u] = "publish"}) :
            /\ stale' = stale \cup moved
            /\ outer' = IF t \in moved \/ outer[call[t].root] # Absent
                        THEN outer ELSE [outer EXCEPT ![call[t].root] = Nil]
      BY <1>6 DEF Create
    <3>2. moved = {}
      BY <1>0, <2>2, <3>1, QuietMoves
    <3> QED
      BY <1>0, <2>2, <3>1, <3>2
  <2>4. /\ UNCHANGED <<call, answer>> /\ pc'[t] = "publish"
        /\ \A u \in Req : u # t => pc'[u] = pc[u] /\ ref'[u] = ref[u]
    BY <1>0, <1>6, <2>1 DEF Create, TypeOK
  <2>5. \A r \in Root : outer'[r] = IF r = call[t].root THEN Nil ELSE outer[r]
    BY <1>0, <2>3 DEF TypeOK
  <2>6. ZeroHeld'
    BY <2>2, <2>4, <2>5 DEF Orderly, ZeroHeld
  <2>7. TornHeld'
    <3> SUFFICES ASSUME NEW j \in Item, NEW k \in Kind, NEW d \in Id, heap'[j][k][d] = Torn
                 PROVE  \E u \in Req : /\ pc'[u] = "store" /\ ref'[u] = j
                                       /\ call'[u].kind = k /\ call'[u].id = d
      BY DEF TornHeld
    <3>1. j # i
      BY <1>0, <2>1 DEF TypeOK, EmptyItem
    <3>2. heap[j][k][d] = Torn
      BY <1>0, <2>1, <3>1 DEF TypeOK
    <3> QED
      BY <2>2, <2>4, <3>2 DEF Orderly, TornHeld
  <2>8. RefThere' /\ OneCreator'
    <3>1. \A u \in Req : u # t => pc[u] \notin {"create", "publish", "ref"}
      BY <1>r, <2>2 DEF Overlap, MidStore, OnOuter, Writes
    <3>2. outer'[call[t].root] = Nil
      BY <1>c, <2>5
    <3> QED
      BY <2>4, <3>1, <3>2 DEF RefThere, OneCreator
  <2> QED
    BY <1>0, <1>6, <2>3, <2>4, <2>6, <2>7, <2>8 DEF Orderly, NoFault
<1>7. CASE Publish(t) /\ UNCHANGED alive
  <2>1. /\ pc[t] = "publish" /\ ref[t] \in Item /\ stale' = {} /\ UNCHANGED <<heap, call, answer>>
        /\ outer' = [outer EXCEPT ![call[t].root] = ref[t]]
    BY <1>0, <1>7 DEF Publish, PcRef
  <2>2. /\ pc'[t] = "ref"
        /\ \A u \in Req : u # t => pc'[u] = pc[u] /\ ref'[u] = ref[u]
    BY <1>0, <1>7 DEF Publish, TypeOK
  <2>3. \A r \in Root : outer'[r] = IF r = call[t].root THEN ref[t] ELSE outer[r]
    BY <1>0, <2>1 DEF TypeOK
  <2>4. \A u \in Req : u # t => pc[u] \notin {"create", "publish", "ref"}
    BY <1>r, <2>1 DEF MidStore, OnOuter
  <2>5. ZeroHeld'
    <3>1. ref[t] # Nil
      BY <2>1, MarkersAreNot
    <3> QED
      BY <2>1, <2>2, <2>3, <3>1 DEF Orderly, ZeroHeld
  <2>6. TornHeld'
    BY <2>1, <2>2 DEF Orderly, TornHeld
  <2>7. RefThere' /\ OneCreator'
    <3>1. outer'[call[t].root] \in Item
      BY <1>c, <2>1, <2>3
    <3> QED
      BY <2>1, <2>2, <2>4, <3>1 DEF RefThere, OneCreator
  <2> QED
    BY <1>0, <1>7, <2>1, <2>5, <2>6, <2>7 DEF Orderly, NoFault
<1>8. CASE GetRef(t) /\ UNCHANGED alive
  <2>1. outer[call[t].root] \in Item /\ pc[t] = "ref"
    BY <1>8 DEF GetRef, Orderly, RefThere
  <2>2. /\ \A u \in Req : u # t => pc'[u] = pc[u] /\ ref'[u] = ref[u]
        /\ pc'[t] = "assign" /\ answer' = answer
    BY <1>0, <1>8, <1>o, <2>1 DEF GetRef, TypeOK
  <2>3. answer[t] \notin {Torn, Panic}
    BY DEF Orderly, NoFault
  <2> QED
    BY <1>8, <2>1, <2>2, <2>3, LocalStep DEF GetRef
<1>9. CASE Assign(t) /\ UNCHANGED alive
  <2>1. ref[t] \in Item /\ pc[t] = "assign"
    BY <1>0, <1>9 DEF PcRef, Assign
  <2>2. stale' = {} /\ (heap' = heap \/ heap' = Put(t, Torn))
    <3>1. PICK moved \in MovedBy(t, {u \in Req : pc[u] = "store" /\ SameInner(t, u)}) :
            /\ stale' = stale \cup moved
            /\ heap' = heap \/ heap' = Put(t, Torn)
      BY <1>9 DEF Assign
    <3>2. moved = {}
      BY <1>0, <2>1, <3>1, QuietMoves
    <3> QED
      BY <1>0, <3>1, <3>2
  <2>3. /\ UNCHANGED <<outer, call, ref, answer>> /\ pc'[t] = "store"
        /\ \A u \in Req : u # t => pc'[u] = pc[u]
    BY <1>0, <1>9 DEF Assign, TypeOK
  <2>4. TornHeld'
    <3> SUFFICES ASSUME NEW j \in Item, NEW k \in Kind, NEW d \in Id, heap'[j][k][d] = Torn
                 PROVE  \E u \in Req : /\ pc'[u] = "store" /\ ref[u] = j
                                       /\ call[u].kind = k /\ call[u].id = d
      BY <2>3 DEF TornHeld
    <3>1. CASE heap[j][k][d] = Torn
      BY <2>1, <2>3, <3>1 DEF Orderly, TornHeld
    <3>2. CASE heap[j][k][d] # Torn
      <4>1. heap' = Put(t, Torn)
        BY <2>2, <3>2
      <4>2. j = ref[t] /\ k = call[t].kind /\ d = call[t].id
        BY <1>0, <2>1, <3>2, <4>1, HeapUpdate
      <4> QED
        BY <2>3, <4>2
    <3> QED
      BY <3>1, <3>2
  <2>5. ZeroHeld' /\ RefThere' /\ OneCreator'
    BY <2>1, <2>3 DEF Orderly, ZeroHeld, RefThere, OneCreator
  <2> QED
    BY <1>0, <1>9, <2>2, <2>3, <2>4, <2>5 DEF Orderly, NoFault
<1>10. CASE Store(t) /\ UNCHANGED alive
  <2>1. ref[t] \in Item /\ name[t] \in Name /\ pc[t] = "store"
    BY <1>0, <1>10 DEF PcRef, Store
  <2>2. stale' = {} /\ heap' = Put(t, name[t])
    BY <1>0, <1>10 DEF Store
  <2>3. /\ UNCHANGED <<outer, call>> /\ pc'[t] = "done" /\ answer'[t] = name[t]
        /\ \A u \in Req : u # t => pc'[u] = pc[u] /\ ref'[u] = ref[u] /\ answer'[u] = answer[u]
    BY <1>0, <1>10 DEF Store, TypeOK
  <2>4. TornHeld'
    <3> SUFFICES ASSUME NEW j \in Item, NEW k \in Kind, NEW d \in Id, heap'[j][k][d] = Torn
                 PROVE  \E u \in Req : /\ pc'[u] = "store" /\ ref'[u] = j
                                       /\ call[u].kind = k /\ call[u].id = d
      BY <2>3 DEF TornHeld
    <3>1. /\ ~(j = ref[t] /\ k = call[t].kind /\ d = call[t].id)
          /\ heap[j][k][d] = Torn
      <4>1. heap'[j][k][d] = IF j = ref[t] /\ k = call[t].kind /\ d = call[t].id
                             THEN name[t] ELSE heap[j][k][d]
        BY <1>0, <2>1, <2>2, HeapUpdate
      <4>2. name[t] # Torn
        BY <2>1, MarkersAreNot
      <4> QED
        BY <4>1, <4>2
    <3>2. PICK u \in Req : /\ pc[u] = "store" /\ ref[u] = j
                           /\ call[u].kind = k /\ call[u].id = d
      BY <3>1 DEF Orderly, TornHeld
    <3> QED
      BY <2>3, <3>1, <3>2
  <2>5. ZeroHeld' /\ RefThere' /\ OneCreator'
    BY <2>1, <2>3 DEF Orderly, ZeroHeld, RefThere, OneCreator
  <2>6. NoFault'
    BY <2>1, <2>3, MarkersAreNot DEF Orderly, NoFault
  <2> QED
    BY <1>0, <1>10, <2>2, <2>4, <2>5, <2>6 DEF Orderly
<1>11. CASE Throw(t)
  BY <1>r, <1>11 DEF Throw
<1> QED
  BY <1>1, <1>2, <1>3, <1>4, <1>5, <1>6, <1>7, <1>8, <1>9, <1>10, <1>11 DEF Step, Access

LEMMA RaceInvNext == RaceInv /\ [Next]_vars => RaceInv'
<1> SUFFICES ASSUME RaceInv, [Next]_vars PROVE RaceInv'
  OBVIOUS
<1>0. TypeInv /\ TypeOK /\ TypeInv' /\ (~raced => Orderly) /\ (~alive => Clean)
  BY TypeInvNext DEF RaceInv, TypeInv
<1>1. ASSUME NEW t \in Req, Step(t) PROVE RaceInv'
  <2>1. ~raced' => ~raced /\ ~RaceNow
    BY <1>1 DEF Step
  <2>2. ~raced' => Orderly'
    BY <1>0, <1>1, <2>1, OrderlyStep
  <2>3. ~alive' => Throw(t)
    BY <1>1 DEF Step
  <2>4. ~alive' => Clean'
    BY <2>3 DEF Throw, Clean, EmptyItem
  <2> QED
    BY <1>0, <2>2, <2>4 DEF RaceInv
<1>2. CASE Restart
  <2>1. Clean' /\ alive'
    BY <1>0, <1>2 DEF Restart, Clean, EmptyItem, files, local
  <2>2. Orderly'
    BY <2>1, MarkersAreNot
    DEF Clean, EmptyItem, Orderly, ZeroHeld, TornHeld, RefThere, OneCreator, NoFault
  <2> QED
    BY <1>0, <2>1, <2>2 DEF RaceInv
<1>3. CASE \/ \E r \in EditableRoot : EditFile(r)
           \/ \E r \in ProcRoot : PidReuse(r)
  <2>1. UNCHANGED <<outer, heap, local, stale, alive, raced>>
    BY <1>0, <1>3, EnvironmentRewrites DEF Rewrite
  <2> QED
    BY <1>0, <2>1 DEF RaceInv, local, Clean, EmptyItem, Orderly, ZeroHeld, TornHeld, RefThere,
                      OneCreator, NoFault
<1>4. CASE UNCHANGED vars
  BY <1>0, <1>4 DEF vars, RaceInv, local, Clean, EmptyItem, Orderly, ZeroHeld, TornHeld,
                    RefThere, OneCreator, NoFault
<1> QED
  BY <1>1, <1>2, <1>3, <1>4 DEF Next

LEMMA RaceInvInit == Init => RaceInv
<1> SUFFICES ASSUME Init PROVE RaceInv
  OBVIOUS
<1>1. Clean /\ alive
  BY DEF Init, Clean
<1> QED
  BY <1>1, TypeInvInit, CleanIsOrderly DEF RaceInv

\* As long as nothing has raced, the cache is orderly.
THEOREM RaceInvariance == Spec => []RaceInv
  BY RaceInvInit, RaceInvNext, PTL DEF Spec

\* An empty name, a panic or a crash of the scanner needs two accesses of
\* userGroupCache that overlap: requests that do not overlap may create, fill and
\* reuse items in any order without one.
THEOREM RacesCauseFaults == Spec => []FaultsOnlyFromRaces
<1>1. RaceInv => FaultsOnlyFromRaces
  BY DEF RaceInv, Orderly, NoFault, FaultsOnlyFromRaces
<1> QED
  BY <1>1, RaceInvariance, PTL

\* A step that races with nobody keeps the item of every root that has one, and
\* every name in it.
LEMMA EntriesStep ==
  ASSUME TypeInv, Orderly, NEW t \in Req, Step(t), ~raced',
         NEW r \in Root, NEW k \in Kind, NEW d \in Id,
         outer[r] \in Item, heap[outer[r]][k][d] \in Name
  PROVE  outer'[r] = outer[r] /\ heap'[outer[r]][k][d] \in Name
<1> USE DEF Goto, Return, Hold, files, local, history
<1>0. TypeOK /\ PcRef /\ ~RaceNow /\ stale = {}
  BY DEF TypeInv, Step, Orderly
<1>1. CASE UNCHANGED <<outer, heap>>
  BY <1>1
<1>2. CASE Create(t)
  <2>1. PICK i \in Item \ Held : heap' = [heap EXCEPT ![i] = EmptyItem]
    BY <1>2 DEF Create
  <2>2. i # outer[r]
    BY <2>1 DEF Held
  <2>3. outer[call[t].root] = Absent
    BY <1>2 DEF Create, Orderly, OneCreator
  <2>4. r # call[t].root
    BY <2>3, MarkersAreNot
  <2>5. outer'[r] = outer[r]
    BY <1>0, <1>2, <2>4 DEF Create, TypeOK
  <2> QED
    BY <1>0, <2>1, <2>2, <2>5 DEF TypeOK
<1>3. CASE Publish(t)
  <2>1. outer[call[t].root] = Nil
    BY <1>3 DEF Publish, Orderly, OneCreator
  <2>2. r # call[t].root
    BY <2>1, MarkersAreNot
  <2> QED
    BY <1>0, <1>3, <2>2 DEF Publish, TypeOK
<1>4. CASE Assign(t)
  <2>1. ref[t] \in Item /\ outer' = outer
    BY <1>0, <1>4 DEF PcRef, Assign
  <2>2. \/ heap' = heap
        \/ heap' = Put(t, Torn) /\ heap[ref[t]][call[t].kind][call[t].id] = Absent
    BY <1>4 DEF Assign
  <2>3. CASE heap' = heap
    BY <2>1, <2>3
  <2>4. CASE heap' = Put(t, Torn) /\ heap[ref[t]][call[t].kind][call[t].id] = Absent
    <3>1. ~(outer[r] = ref[t] /\ k = call[t].kind /\ d = call[t].id)
      BY <2>4, MarkersAreNot
    <3>2. heap'[outer[r]][k][d] = heap[outer[r]][k][d]
      BY <1>0, <2>1, <2>4, <3>1, HeapUpdate
    <3> QED
      BY <2>1, <3>2
  <2> QED
    BY <2>2, <2>3, <2>4
<1>5. CASE Store(t)
  <2>1. ref[t] \in Item /\ name[t] \in Name /\ outer' = outer /\ heap' = Put(t, name[t])
    BY <1>0, <1>5 DEF PcRef, Store
  <2>2. heap'[outer[r]][k][d] \in {name[t], heap[outer[r]][k][d]}
    BY <1>0, <2>1, HeapUpdate
  <2> QED
    BY <2>1, <2>2
<1>6. CASE Throw(t)
  BY <1>0, <1>6 DEF Throw, RaceNow
<1> QED
  BY <1>1, <1>2, <1>3, <1>4, <1>5, <1>6 DEF Step, Access, Begin, ProbeOuter, ProbeInner, Lookup,
     Check, GetRef

\* Until something races, a cached name stays cached for the life of the process,
\* in the item it was put in: no call replaces another call's item.
THEOREM KeptEntries == Spec => EntriesAreKept
<1> DEFINE Kept == \A r \in Root, k \in Kind, d \in Id :
          ~raced /\ ~raced' /\ outer[r] \in Item /\ heap[outer[r]][k][d] \in Name =>
             /\ outer'[r] = outer[r]
             /\ heap'[outer[r]][k][d] \in Name
<1>1. RaceInv /\ [Next]_vars => [Kept]_vars
  <2> SUFFICES ASSUME RaceInv, Next,
                      NEW r \in Root, NEW k \in Kind, NEW d \in Id,
                      ~raced, ~raced', outer[r] \in Item, heap[outer[r]][k][d] \in Name
               PROVE  outer'[r] = outer[r] /\ heap'[outer[r]][k][d] \in Name
    OBVIOUS
  <2>0. TypeInv /\ TypeOK /\ Orderly /\ alive
    BY DEF RaceInv, TypeInv, Orderly
  <2>1. CASE \E t \in Req : Step(t)
    BY <2>0, <2>1, EntriesStep
  <2>2. CASE Restart
    BY <2>0, <2>2 DEF Restart
  <2>3. CASE \/ \E q \in EditableRoot : EditFile(q)
             \/ \E q \in ProcRoot : PidReuse(q)
    BY <2>0, <2>3, EnvironmentRewrites DEF Rewrite
  <2> QED
    BY <2>1, <2>2, <2>3 DEF Next
<1> QED
  BY <1>1, RaceInvariance, PTL DEF Spec, EntriesAreKept

-----------------------------------------------------------------------------
(* The cache implements the name service.  A call is asked for at Begin    *)
(* and answered where it returns; all that it does in between is hidden.   *)
(* That the answer is one the service may give needs the invariants above. *)

Promised == TypeInv /\ NamesComeFromTheirFile /\ ErrorsAreFresh /\ FaultsOnlyFromRaces

LEMMA ServiceStart == Init => Service!ServiceInit
<1> SUFFICES ASSUME Init PROVE Service!ServiceInit
  OBVIOUS
<1>1. file \in [Root -> Service!Content]
  BY DEF Init, Content, Service!Content
<1>2. Service!Idle
  <2>1. call \in [Req -> Service!Call]
    BY AnyCallType DEF Init, Service!Call
  <2>2. [t \in Req |-> Active(t)] = [t \in Req |-> FALSE]
    BY DEF Init, Active
  <2> QED
    BY <2>1, <2>2 DEF Init, Service!Idle
<1> QED
  BY <1>1, <1>2 DEF Init, Service!ServiceInit

LEMMA ServiceAsked ==
  ASSUME TypeInv, NEW t \in Req, Begin(t), alive, alive', raced => raced'
  PROVE  Service!Serve(t)
<1>1. PICK k \in Kind, r \in Root, d \in Id :
        /\ call' = [call EXCEPT ![t] = [kind |-> k, root |-> r, id |-> d]]
        /\ seen' = [seen EXCEPT ![t] = {file[r][k][d]}]
  BY DEF Begin
<1> DEFINE c == [kind |-> k, root |-> r, id |-> d]
<1>2. c \in Service!Call /\ call' = [call EXCEPT ![t] = c] /\ call'[t] = c
  BY <1>1 DEF Service!Call, TypeInv, TypeOK
<1>3. Service!Says(file, call'[t]) = file[r][k][d]
  BY <1>2 DEF Service!Says
<1>4. ~Active(t)
  BY DEF Begin
<1>5. [u \in Req |-> Active(u)]' = [[u \in Req |-> Active(u)] EXCEPT ![t] = TRUE]
  BY DEF Begin, Goto, Active, TypeInv, TypeOK
<1>6. Service!Ask(t)
  <2>1. ~[u \in Req |-> Active(u)][t]
    BY <1>4
  <2>2. \E e \in Service!Call : call' = [call EXCEPT ![t] = e]
    BY <1>2
  <2>3. seen' = [seen EXCEPT ![t] = {Service!Says(file, call'[t])}]
    BY <1>1, <1>3
  <2>4. answer' = [answer EXCEPT ![t] = None]
    BY DEF Begin
  <2> QED
    BY <2>1, <2>2, <2>3, <2>4, <1>5 DEF Service!Ask
<1>7. UNCHANGED <<file, said>>
  BY DEF Begin, files
<1> QED
  BY <1>6, <1>7 DEF Service!Serve, Service!files

LEMMA ServiceReplied ==
  ASSUME TypeInv, Promised', NEW t \in Req, Active(t), alive, alive', raced => raced',
         NEW a \in Name \cup {Err, Torn, Panic}, Return(t, a), UNCHANGED <<file, call, history>>
  PROVE  Service!Serve(t)
<1>1. /\ pc' = [pc EXCEPT ![t] = "done"] /\ answer' = [answer EXCEPT ![t] = a]
      /\ answer'[t] = a
  BY DEF Return, Goto, TypeInv, TypeOK
<1>2. [u \in Req |-> Active(u)]' = [[u \in Req |-> Active(u)] EXCEPT ![t] = FALSE]
  BY <1>1 DEF Active, TypeInv, TypeOK
<1>3. UNCHANGED <<file, said, call, seen>>
  BY DEF history
<1>4. a \in Service!MayReply(t)
  <2>1. CASE a \in Name
    <3>1. a \in Says(said, t)'
      BY <1>1, <2>1 DEF Promised, NamesComeFromTheirFile
    <3>2. Says(said, t)' = Service!Says(said, call[t])
      BY <1>3 DEF Says, Service!Says
    <3> QED
      BY <3>1, <3>2 DEF Service!MayReply
  <2>2. CASE a = Err
    <3>1. NoEntry \in seen[t]
      BY <1>1, <1>3, <2>2 DEF Promised, ErrorsAreFresh
    <3> QED
      BY <2>2, <3>1 DEF Service!MayReply
  <2>3. CASE a \in {Torn, Panic}
    <3>1. raced'
      BY <1>1, <2>3 DEF Promised, FaultsOnlyFromRaces
    <3> QED
      BY <2>3, <3>1 DEF Service!MayReply
  <2> QED
    BY <2>1, <2>2, <2>3
<1>5. Service!Reply(t)
  <2>1. [u \in Req |-> Active(u)][t]
    OBVIOUS
  <2>2. \E e \in Service!MayReply(t) : answer' = [answer EXCEPT ![t] = e]
    BY <1>1, <1>4
  <2> QED
    BY <2>1, <2>2, <1>2, <1>3 DEF Service!Reply
<1> QED
  BY <1>3, <1>5 DEF Service!Serve, Service!files

\* A step between the call and its answer.
LEMMA ServiceWorked ==
  ASSUME TypeInv, NEW t \in Req, NEW l, Active(t), l \notin {"idle", "done"}, Goto(t, l),
         alive, alive', raced => raced', UNCHANGED <<file, call, answer, history>>
  PROVE  Service!Serve(t)
<1>1. [u \in Req |-> Active(u)]' = [u \in Req |-> Active(u)]
  BY DEF Goto, Active, TypeInv, TypeOK
<1>2. UNCHANGED <<file, said, call, seen, answer>>
  BY DEF history
<1> QED
  BY <1>1, <1>2 DEF Service!Serve, Service!files, Service!calls

LEMMA ServiceServes ==
  ASSUME TypeInv, Promised', NEW t \in Req, Step(t)
  PROVE  Service!Serve(t) \/ Service!Crash
<1> USE DEF Goto, Hold, files
<1>0. TypeOK /\ PcRef /\ alive /\ (raced => raced')
  BY DEF TypeInv, Step
<1>1. CASE Throw(t)
  <2>1. call' \in [Req -> Service!Call]
    BY <1>1, AnyCallType DEF Throw, Service!Call
  <2>2. [u \in Req |-> Active(u)]' = [u \in Req |-> FALSE]
    BY <1>1 DEF Throw, Active
  <2>3. Service!Idle'
    BY <1>1, <2>1, <2>2 DEF Throw, Service!Idle
  <2>4. ~alive' /\ UNCHANGED <<file, said>>
    BY <1>1 DEF Throw
  <2>5. raced'
    BY <2>4 DEF Promised, FaultsOnlyFromRaces
  <2> QED
    BY <1>0, <2>3, <2>4, <2>5 DEF Service!Crash, Service!files
<1>2. CASE Access(t) /\ UNCHANGED alive
  <2>1. CASE Begin(t)
    BY <1>0, <1>2, <2>1, ServiceAsked
  <2>2. CASE ProbeOuter(t)
    <3>1. \E l \in {"inner", "lookup"} : Goto(t, l)
      BY <2>2 DEF ProbeOuter
    <3>2. Active(t) /\ UNCHANGED <<file, call, answer, history>>
      BY <2>2 DEF ProbeOuter, Active
    <3> QED
      BY <1>0, <1>2, <3>1, <3>2, ServiceWorked
  <2>3. CASE ProbeInner(t)
    <3>1. PICK n \in ReadInner(t) :
            \/ n = Absent /\ Goto(t, "lookup") /\ UNCHANGED answer
            \/ n # Absent /\ Return(t, n)
      BY <2>3 DEF ProbeInner
    <3>2. n \in Name \cup {Absent, Torn}
      BY <1>0, <2>3, ReadInnerType DEF ProbeInner, PcRef
    <3>3. Active(t) /\ UNCHANGED <<file, call, history>>
      BY <2>3 DEF ProbeInner, Active
    <3>4. CASE n = Absent /\ Goto(t, "lookup") /\ UNCHANGED answer
      BY <1>0, <1>2, <3>3, <3>4, ServiceWorked
    <3>5. CASE n # Absent /\ Return(t, n)
      BY <1>0, <1>2, <3>2, <3>3, <3>5, ServiceReplied
    <3> QED
      BY <3>1, <3>4, <3>5
  <2>4. CASE Lookup(t)
    <3>1. Active(t) /\ UNCHANGED <<file, call, history>>
      BY <2>4 DEF Lookup, Active
    <3>2. CASE Return(t, Err)
      BY <1>0, <1>2, <3>1, <3>2, ServiceReplied
    <3>3. CASE Goto(t, "check") /\ UNCHANGED answer
      BY <1>0, <1>2, <3>1, <3>3, ServiceWorked
    <3> QED
      BY <2>4, <3>2, <3>3 DEF Lookup
  <2>5. CASE Check(t) \/ Create(t) \/ Publish(t) \/ Assign(t)
    <3>1. \E l \in {"create", "ref", "publish", "store"} : Goto(t, l)
      BY <2>5 DEF Check, Create, Publish, Assign
    <3>2. Active(t) /\ UNCHANGED <<file, call, answer, history>>
      BY <2>5 DEF Check, Create, Publish, Assign, Active
    <3> QED
      BY <1>0, <1>2, <3>1, <3>2, ServiceWorked
  <2>6. CASE GetRef(t)
    <3>1. Active(t) /\ UNCHANGED <<file, call, history>>
      BY <2>6 DEF GetRef, Active
    <3>2. CASE Goto(t, "assign") /\ UNCHANGED answer
      BY <1>0, <1>2, <3>1, <3>2, ServiceWorked
    <3>3. CASE Return(t, Panic)
      BY <1>0, <1>2, <3>1, <3>3, ServiceReplied
    <3> QED
      BY <2>6, <3>2, <3>3 DEF GetRef
  <2>7. CASE Store(t)
    <3>1. name[t] \in Name /\ Active(t) /\ Return(t, name[t])
      BY <1>0, <2>7 DEF Store, PcRef, Active
    <3>2. UNCHANGED <<file, call, history>>
      BY <2>7 DEF Store
    <3> QED
      BY <1>0, <1>2, <3>1, <3>2, ServiceReplied
  <2> QED
    BY <1>2, <2>1, <2>2, <2>3, <2>4, <2>5, <2>6, <2>7 DEF Access
<1> QED
  BY <1>1, <1>2 DEF Step

LEMMA ServiceRewrites ==
  ASSUME TypeInv, NEW r \in Root, NEW c \in Content, Rewrite(r, c)
  PROVE  Service!Rewrite(r)
<1>1. UNCHANGED <<pc, call, answer, alive, raced>> /\ file' = [file EXCEPT ![r] = c]
  BY DEF Rewrite, local
<1>2. file'[r] = c /\ c \in Service!Content
  BY <1>1 DEF TypeInv, TypeOK, Content, Service!Content
<1>3. [u \in Req |-> Active(u)]' = [u \in Req |-> Active(u)]
  BY <1>1 DEF Active
<1>4. said' = [said EXCEPT ![r] =
                 [k \in Kind |-> [d \in Id |-> @[k][d] \cup ({file'[r][k][d]} \cap Name)]]]
  BY <1>2 DEF Rewrite
<1>5. seen' = [t \in Req |-> IF [u \in Req |-> Active(u)][t]
                              THEN seen[t] \cup {Service!Says(file', call[t])} ELSE seen[t]]
  <2>1. \A t \in Req : Says(file', t) = Service!Says(file', call[t])
    BY DEF Says, Service!Says
  <2> QED
    BY <2>1 DEF Rewrite
<1> QED
  BY <1>1, <1>2, <1>3, <1>4, <1>5 DEF Service!Rewrite

LEMMA ServiceStep ==
  Promised /\ Promised' /\ [Next]_vars => [Service!ServiceNext]_Service!serviceVars
<1> SUFFICES ASSUME Promised, Promised', [Next]_vars
             PROVE  [Service!ServiceNext]_Service!serviceVars
  OBVIOUS
<1>0. TypeInv /\ TypeOK
  BY DEF Promised, TypeInv
<1>1. CASE \E t \in Req : Step(t)
  BY <1>0, <1>1, ServiceServes DEF Service!ServiceNext
<1>2. CASE Restart
  <2>1. UNCHANGED <<file, said, call, seen, answer, pc>> /\ ~alive /\ alive' /\ ~raced'
    BY <1>2 DEF Restart, files, local, history
  <2>2. [u \in Req |-> Active(u)]' = [u \in Req |-> Active(u)]
    BY <2>1 DEF Active
  <2> QED
    BY <2>1, <2>2 DEF Service!ServiceNext, Service!Restart, Service!files, Service!calls
<1>3. CASE \/ \E r \in EditableRoot : EditFile(r)
           \/ \E r \in ProcRoot : PidReuse(r)
  <2>1. PICK r \in Root, c \in Content : Rewrite(r, c)
    BY <1>0, <1>3, EnvironmentRewrites
  <2> QED
    BY <1>0, <2>1, ServiceRewrites DEF Service!ServiceNext
<1>4. CASE UNCHANGED vars
  <2>1. UNCHANGED <<file, said, call, seen, answer, pc, alive, raced>>
    BY <1>4 DEF vars, files, local, history
  <2>2. [u \in Req |-> Active(u)]' = [u \in Req |-> Active(u)]
    BY <2>1 DEF Active
  <2> QED
    BY <2>1, <2>2 DEF Service!serviceVars, Service!files, Service!calls
<1> QED
  BY <1>1, <1>2, <1>3, <1>4 DEF Next

\* getUserName and getGroupName, with all their unsynchronised map accesses, are
\* to the requests that call them a service that answers at once: with a name
\* of the root's own file, with an error of this call, or, if accesses have
\* overlapped, with a fault.
THEOREM ServiceImplemented == Spec => ImplementsNameService
<1>1. Spec => []Promised
  <2>1. Spec => []TypeInv
    BY TypeInvInit, TypeInvNext, PTL DEF Spec
  <2>2. TypeInv /\ NamesComeFromTheirFile /\ ErrorsAreFresh /\ FaultsOnlyFromRaces => Promised
    BY DEF Promised
  <2> QED
    BY <2>1, <2>2, Provenance, FreshErrors, RacesCauseFaults, PTL
<1> QED
  BY <1>1, ServiceStart, ServiceStep, PTL DEF Spec, ImplementsNameService, Service!ServiceSpec
=============================================================================
