------------------------- MODULE NodeInventoryProofs -------------------------
(***************************************************************************)
(* The sensors that look for many parts, for every host on which parts     *)
(* come and go, and for every content of the encryption configuration; and *)
(* the search for one of those parts, the CNI configuration directory, for *)
(* all command lines and configuration files (ContainerRuntime).           *)
(***************************************************************************)
EXTENDS NodeInventory, ContainerRuntime, WellFoundedInduction, TLAPS

-----------------------------------------------------------------------------
(* What removeEncryptionProviderConfigSecrets does at each level: keys,    *)
(* objects, providers, resources.  A value of another type is kept.        *)

LEMMA KeyRedacted ==
  ASSUME NEW n, RedactKey(n)[1] = "map"
  PROVE  RedactKey(n)[2]["secret"] = Redacted
  BY DEF RedactKey

\* The keys of an object.
LEMMA ObjectRedacted ==
  ASSUME NEW n, NEW key \in MapsUnder(RedactObject(n), "keys")
  PROVE  key[2]["secret"] = Redacted
<1> DEFINE r == RedactObject(n)
           keys == n[2]["keys"]
<1>1. r[1] = "map" /\ "keys" \in DOMAIN r[2] /\ r[2]["keys"][1] = "list"
      /\ \E i \in DOMAIN r[2]["keys"][2] : key = r[2]["keys"][2][i] /\ key[1] = "map"
  BY DEF MapsUnder
<1>2. r = <<"map", [n[2] EXCEPT !["keys"] = RedactKeys(keys)]>> /\ "keys" \in DOMAIN n[2]
  BY <1>1 DEF RedactObject, Field
<1>3. r[2]["keys"] = RedactKeys(keys)
  BY <1>2
<1>4. RedactKeys(keys) = <<"list", [i \in DOMAIN keys[2] |-> RedactKey(keys[2][i])]>>
  BY <1>1, <1>3 DEF RedactKeys, Elements
<1>5. PICK i \in DOMAIN keys[2] : key = RedactKey(keys[2][i])
  BY <1>1, <1>3, <1>4
<1> QED
  BY <1>1, <1>5, KeyRedacted

\* The keys of a provider.
LEMMA ProviderRedacted ==
  ASSUME NEW n, RedactProvider(n)[1] = "map", NEW o \in DOMAIN RedactProvider(n)[2],
         NEW key \in MapsUnder(RedactProvider(n)[2][o], "keys")
  PROVE  key[2]["secret"] = Redacted
<1>1. RedactProvider(n) = <<"map", [k \in DOMAIN n[2] |-> RedactObject(n[2][k])]>>
  BY DEF RedactProvider, Values
<1>2. o \in DOMAIN n[2] /\ RedactProvider(n)[2][o] = RedactObject(n[2][o])
  BY <1>1
<1> QED
  BY <1>2, ObjectRedacted

\* The providers of a resource are those of the configuration, redacted.
LEMMA ResourceProviders ==
  ASSUME NEW n, NEW p \in MapsUnder(RedactResource(n), "providers")
  PROVE  p[1] = "map" /\ \E m : p = RedactProvider(m)
<1> DEFINE r == RedactResource(n)
           list == n[2]["providers"]
<1>1. r[1] = "map" /\ "providers" \in DOMAIN r[2] /\ r[2]["providers"][1] = "list"
      /\ \E i \in DOMAIN r[2]["providers"][2] : p = r[2]["providers"][2][i] /\ p[1] = "map"
  BY DEF MapsUnder
<1>2. r = <<"map", [n[2] EXCEPT !["providers"] = RedactProviders(list)]>>
      /\ "providers" \in DOMAIN n[2]
  BY <1>1 DEF RedactResource, Field
<1>3. r[2]["providers"] = RedactProviders(list)
  BY <1>2
<1>4. RedactProviders(list) = <<"list", [i \in DOMAIN list[2] |-> RedactProvider(list[2][i])]>>
  BY <1>1, <1>3 DEF RedactProviders, Elements
<1>5. PICK i \in DOMAIN list[2] : p = RedactProvider(list[2][i])
  BY <1>1, <1>3, <1>4
<1> QED
  BY <1>1, <1>5

\* The resources of the report are those of the configuration, redacted.
LEMMA ConfigResources ==
  ASSUME NEW n, NEW q \in MapsUnder(removeEncryptionProviderConfigSecrets(n), "resources")
  PROVE  q[1] = "map" /\ \E m : q = RedactResource(m)
<1> DEFINE r == removeEncryptionProviderConfigSecrets(n)
           list == n[2]["resources"]
<1>1. r[1] = "map" /\ "resources" \in DOMAIN r[2] /\ r[2]["resources"][1] = "list"
      /\ \E i \in DOMAIN r[2]["resources"][2] : q = r[2]["resources"][2][i] /\ q[1] = "map"
  BY DEF MapsUnder
<1>2. r = <<"map", [n[2] EXCEPT !["resources"] = RedactResources(list)]>>
      /\ "resources" \in DOMAIN n[2]
  BY <1>1 DEF removeEncryptionProviderConfigSecrets, Field
<1>3. r[2]["resources"] = RedactResources(list)
  BY <1>2
<1>4. RedactResources(list) = <<"list", [i \in DOMAIN list[2] |-> RedactResource(list[2][i])]>>
  BY <1>1, <1>3 DEF RedactResources, Elements
<1>5. PICK i \in DOMAIN list[2] : q = RedactResource(list[2][i])
  BY <1>1, <1>3, <1>4
<1> QED
  BY <1>1, <1>5

\* removeEncryptionProviderConfigSecrets leaves no key with its secret where it
\* can get: through maps whose keys are strings, and lists.
THEOREM NoSecretLeft ==
  ASSUME NEW n, NEW key \in KeysOf(removeEncryptionProviderConfigSecrets(n))
  PROVE  key[2]["secret"] = Redacted
<1> DEFINE data == removeEncryptionProviderConfigSecrets(n)
           OfObjects(p) == UNION {MapsUnder(p[2][o], "keys") : o \in DOMAIN p[2]}
           OfProviders(q) == UNION {OfObjects(p) : p \in MapsUnder(q, "providers")}
<1>1. key \in UNION {OfProviders(q) : q \in MapsUnder(data, "resources")}
  BY DEF KeysOf
<1>2. PICK q \in MapsUnder(data, "resources") : key \in OfProviders(q)
  <2> HIDE DEF data, OfProviders
  <2> QED
    BY <1>1
<1>3. PICK p \in MapsUnder(q, "providers") : key \in OfObjects(p)
  <2> HIDE DEF OfObjects
  <2> QED
    BY <1>2
<1>4. PICK o \in DOMAIN p[2] : key \in MapsUnder(p[2][o], "keys")
  BY <1>3
<1>5. PICK r : q = RedactResource(r)
  BY <1>2, ConfigResources
<1>6. p[1] = "map" /\ \E m : p = RedactProvider(m)
  BY <1>5, ResourceProviders
<1>7. PICK m : p = RedactProvider(m)
  BY <1>6
<1> QED
  BY <1>4, <1>6, <1>7, ProviderRedacted

-----------------------------------------------------------------------------
(* What it keeps.  Each comparison holds of a value and itself, and of what *)
(* a level has made of a value and that value.                             *)

LEMMA SameRefl ==
  ASSUME NEW n
  PROVE  /\ SameKey(n, n) /\ SameKeys(n, n) /\ SameObject(n, n) /\ SameProvider(n, n)
         /\ SameProviders(n, n) /\ SameResource(n, n) /\ SameResources(n, n)
<1>1. \A x : SameKey(x, x)
  BY DEF SameKey
<1>2. \A x : SameKeys(x, x)
  BY <1>1 DEF SameKeys, Same
<1>3. \A x : SameObject(x, x)
  BY <1>2 DEF SameObject, Same
<1>4. \A x : SameProvider(x, x)
  BY <1>3 DEF SameProvider, Same
<1>5. \A x : SameProviders(x, x)
  BY <1>4 DEF SameProviders, Same
<1>6. \A x : SameResource(x, x)
  BY <1>5 DEF SameResource, Same
<1>7. \A x : SameResources(x, x)
  BY <1>6 DEF SameResources, Same
<1> QED
  BY <1>1, <1>2, <1>3, <1>4, <1>5, <1>6, <1>7

LEMMA KeyKept == \A n : SameKey(RedactKey(n), n)
<1> SUFFICES ASSUME NEW n PROVE SameKey(RedactKey(n), n)
  OBVIOUS
<1>1. CASE n[1] # "map"
  BY <1>1, SameRefl DEF RedactKey
<1>2. CASE n[1] = "map"
  <2>1. RedactKey(n) = <<"map", [k \in DOMAIN n[2] \cup {"secret"} |->
                                   IF k = "secret" THEN Redacted ELSE n[2][k]]>>
    BY <1>2 DEF RedactKey
  <2> QED
    BY <1>2, <2>1 DEF SameKey
<1> QED
  BY <1>1, <1>2

LEMMA KeysKept == \A n : SameKeys(RedactKeys(n), n)
<1> SUFFICES ASSUME NEW n PROVE SameKeys(RedactKeys(n), n)
  OBVIOUS
<1>1. CASE n[1] # "list"
  BY <1>1, SameRefl DEF RedactKeys, Elements
<1>2. CASE n[1] = "list"
  <2>1. RedactKeys(n) = <<"list", [i \in DOMAIN n[2] |-> RedactKey(n[2][i])]>>
    BY <1>2 DEF RedactKeys, Elements
  <2> QED
    BY <1>2, <2>1, KeyKept DEF SameKeys, Same
<1> QED
  BY <1>1, <1>2

LEMMA ObjectKept == \A n : SameObject(RedactObject(n), n)
<1> SUFFICES ASSUME NEW n PROVE SameObject(RedactObject(n), n)
  OBVIOUS
<1>1. CASE n[1] # "map" \/ "keys" \notin DOMAIN n[2]
  BY <1>1, SameRefl DEF RedactObject, Field
<1>2. CASE n[1] = "map" /\ "keys" \in DOMAIN n[2]
  <2>1. RedactObject(n) = <<"map", [n[2] EXCEPT !["keys"] = RedactKeys(n[2]["keys"])]>>
    BY <1>2 DEF RedactObject, Field
  <2> QED
    BY <1>2, <2>1, KeysKept, SameRefl DEF SameObject, Same
<1> QED
  BY <1>1, <1>2

LEMMA ProviderKept == \A n : SameProvider(RedactProvider(n), n)
<1> SUFFICES ASSUME NEW n PROVE SameProvider(RedactProvider(n), n)
  OBVIOUS
<1>1. CASE n[1] # "map"
  BY <1>1, SameRefl DEF RedactProvider, Values
<1>2. CASE n[1] = "map"
  <2>1. RedactProvider(n) = <<"map", [k \in DOMAIN n[2] |-> RedactObject(n[2][k])]>>
    BY <1>2 DEF RedactProvider, Values
  <2> QED
    BY <1>2, <2>1, ObjectKept DEF SameProvider, Same
<1> QED
  BY <1>1, <1>2

LEMMA ProvidersKept == \A n : SameProviders(RedactProviders(n), n)
<1> SUFFICES ASSUME NEW n PROVE SameProviders(RedactProviders(n), n)
  OBVIOUS
<1>1. CASE n[1] # "list"
  BY <1>1, SameRefl DEF RedactProviders, Elements
<1>2. CASE n[1] = "list"
  <2>1. RedactProviders(n) = <<"list", [i \in DOMAIN n[2] |-> RedactProvider(n[2][i])]>>
    BY <1>2 DEF RedactProviders, Elements
  <2> QED
    BY <1>2, <2>1, ProviderKept DEF SameProviders, Same
<1> QED
  BY <1>1, <1>2

LEMMA ResourceKept == \A n : SameResource(RedactResource(n), n)
<1> SUFFICES ASSUME NEW n PROVE SameResource(RedactResource(n), n)
  OBVIOUS
<1>1. CASE n[1] # "map" \/ "providers" \notin DOMAIN n[2]
  BY <1>1, SameRefl DEF RedactResource, Field
<1>2. CASE n[1] = "map" /\ "providers" \in DOMAIN n[2]
  <2>1. RedactResource(n) =
          <<"map", [n[2] EXCEPT !["providers"] = RedactProviders(n[2]["providers"])]>>
    BY <1>2 DEF RedactResource, Field
  <2> QED
    BY <1>2, <2>1, ProvidersKept, SameRefl DEF SameResource, Same
<1> QED
  BY <1>1, <1>2

LEMMA ResourcesKept == \A n : SameResources(RedactResources(n), n)
<1> SUFFICES ASSUME NEW n PROVE SameResources(RedactResources(n), n)
  OBVIOUS
<1>1. CASE n[1] # "list"
  BY <1>1, SameRefl DEF RedactResources, Elements
<1>2. CASE n[1] = "list"
  <2>1. RedactResources(n) = <<"list", [i \in DOMAIN n[2] |-> RedactResource(n[2][i])]>>
    BY <1>2 DEF RedactResources, Elements
  <2> QED
    BY <1>2, <2>1, ResourceKept DEF SameResources, Same
<1> QED
  BY <1>1, <1>2

\* removeEncryptionProviderConfigSecrets changes nothing but secrets.
THEOREM OnlySecretsChange ==
  ASSUME NEW n
  PROVE  Same(removeEncryptionProviderConfigSecrets(n), n, SameResources)
<1>1. CASE n[1] # "map" \/ "resources" \notin DOMAIN n[2]
  BY <1>1, SameRefl DEF removeEncryptionProviderConfigSecrets, Field, Same
<1>2. CASE n[1] = "map" /\ "resources" \in DOMAIN n[2]
  <2>1. removeEncryptionProviderConfigSecrets(n) =
          <<"map", [n[2] EXCEPT !["resources"] = RedactResources(n[2]["resources"])]>>
    BY <1>2 DEF removeEncryptionProviderConfigSecrets, Field
  <2> QED
    BY <1>2, <2>1, ResourcesKept, SameRefl DEF Same
<1> QED
  BY <1>1, <1>2
-----------------------------------------------------------------------------
(* The tables: where the parts stand in the programs, what they hang on.   *)

LEMMA CNIProgram ==
  CNIParts = << "kubelet", "CNIConfigDir", "CNIConfigFiles",
                "aws", "Calico", "Flannel", "Cilium", "WeaveNet", "Kindnet", "Multus" >>
<1>1. Len(ConfigParts) = 3 /\ Len(supportedCNIs) = 7
  BY DEF ConfigParts, supportedCNIs
<1>2. CNIParts = [i \in 1..10 |-> IF i <= 3 THEN ConfigParts[i] ELSE supportedCNIs[i - 3]]
  BY <1>1 DEF CNIParts, ConfigParts, supportedCNIs
<1> QED
  BY <1>2 DEF ConfigParts, supportedCNIs

LEMMA Runs ==
  /\ Among(ControlPlaneParts, 2, 4)
       = {"kube-apiserver.yaml", "EncryptionProviderConfigFile", "AuditPolicyFile"}
  /\ Among(ControlPlaneParts, 6, 7) = {"kube-controller-manager.yaml", "controller-manager.conf"}
  /\ Among(ControlPlaneParts, 9, 10) = {"kube-scheduler.yaml", "scheduler.conf"}
  /\ Among(PortParts, 1, 2) = {"tcp", "tcp6"}
  /\ Among(PortParts, 3, 6) = {"udp", "udp6", "udplite", "udplite6"}
  /\ Among(PortParts, 7, 8) = {"icmp", "icmp6"}
<1>1. /\ 2..4 = {2, 3, 4} /\ 6..7 = {6, 7} /\ 9..10 = {9, 10}
      /\ 1..2 = {1, 2} /\ 3..6 = {3, 4, 5, 6} /\ 7..8 = {7, 8}
  OBVIOUS
<1>2. \A p : /\ Among(p, 2, 4) = {p[2], p[3], p[4]}
             /\ Among(p, 6, 7) = {p[6], p[7]}
             /\ Among(p, 9, 10) = {p[9], p[10]}
             /\ Among(p, 1, 2) = {p[1], p[2]}
             /\ Among(p, 3, 6) = {p[3], p[4], p[5], p[6]}
             /\ Among(p, 7, 8) = {p[7], p[8]}
  BY <1>1 DEF Among
<1> QED
  BY <1>2 DEF ControlPlaneParts, PortParts

LEMMA Lengths ==
  /\ Len(ControlPlaneParts) = 16 /\ Len(CNIParts) = 10 /\ Len(PortParts) = 8
<1>1. Len(CNIParts) = 10
  BY CNIProgram
<1> QED
  BY <1>1 DEF ControlPlaneParts, PortParts

\* Only these parts hang on others.
LEMMA OwnersTable ==
  ASSUME NEW x, NEW y \in Owners(x)
  PROVE  \/ /\ x \in {"kube-apiserver.yaml", "EncryptionProviderConfigFile", "AuditPolicyFile"}
            /\ y = "APIServerInfo"
         \/ /\ x \in {"kube-controller-manager.yaml", "controller-manager.conf"}
            /\ y = "ControllerManagerInfo"
         \/ x \in {"kube-scheduler.yaml", "scheduler.conf"} /\ y = "SchedulerInfo"
         \/ x = "EtcdDataDir" /\ y = "etcd"
         \/ x = "CNIConfigDir" /\ y = "kubelet"
         \/ x = "CNIConfigFiles" /\ y \in {"kubelet", "CNIConfigDir"}
  BY Runs DEF Owners

\* A part hangs on earlier parts of the same program, which need no more than it.
LEMMA OwnersFirst ==
  ASSUME NEW s \in {"controlplane", "cni", "openedports"},
         NEW i \in 1..Len(Program(s)), NEW y \in Owners(Program(s)[i])
  PROVE  \E j \in 1..(i - 1) : Program(s)[j] = y
<1>1. CASE s = "controlplane"
  <2>1. Program(s) = ControlPlaneParts /\ Len(Program(s)) = 16
    BY <1>1, Lengths DEF Program
  <2>2. \/ Program(s)[i] \in
              {"kube-apiserver.yaml", "EncryptionProviderConfigFile", "AuditPolicyFile"}
           /\ i \in {2, 3, 4} /\ y = "APIServerInfo"
        \/ Program(s)[i] \in {"kube-controller-manager.yaml", "controller-manager.conf"}
           /\ i \in {6, 7} /\ y = "ControllerManagerInfo"
        \/ Program(s)[i] \in {"kube-scheduler.yaml", "scheduler.conf"}
           /\ i \in {9, 10} /\ y = "SchedulerInfo"
        \/ i = 16 /\ y = "etcd"
    BY <2>1, OwnersTable DEF ControlPlaneParts
  <2> QED
    BY <2>1, <2>2 DEF ControlPlaneParts
<1>2. CASE s = "cni"
  <2>1. Program(s) = CNIParts /\ Len(Program(s)) = 10
    BY <1>2, Lengths DEF Program
  <2>2. \/ i = 2 /\ y = "kubelet"
        \/ i = 3 /\ y \in {"kubelet", "CNIConfigDir"}
    BY <2>1, OwnersTable, CNIProgram
  <2> QED
    BY <2>1, <2>2, CNIProgram
<1>3. CASE s = "openedports"
  <2>1. Program(s) = PortParts /\ Len(Program(s)) = 8
    BY <1>3, Lengths DEF Program
  <2> QED
    BY <2>1, OwnersTable DEF PortParts
<1> QED
  BY <1>1, <1>2, <1>3

LEMMA NoOwners ==
  ASSUME NEW x,
         x \in {"APIServerInfo", "ControllerManagerInfo", "SchedulerInfo", "etcd", "kubelet"}
  PROVE  Owners(x) = {}
  BY OwnersTable

LEMMA DirOwners ==
  /\ Owners("CNIConfigDir") = {"kubelet"}
  /\ Owners("CNIConfigFiles") = {"kubelet", "CNIConfigDir"}
  BY Runs, Zenon DEF Owners

\* Only the protocols go together; a group is whole in its program, and its
\* members hang on nothing.
LEMMA GroupTable ==
  ASSUME NEW x
  PROVE  \/ Group(x) = {x}
         \/ Group(x) = {"tcp", "tcp6"} /\ x \in Group(x)
         \/ Group(x) = {"udp", "udp6", "udplite", "udplite6"} /\ x \in Group(x)
         \/ Group(x) = {"icmp", "icmp6"} /\ x \in Group(x)
  BY Runs DEF Group

LEMMA GroupOf ==
  ASSUME NEW x, NEW y \in Group(x)
  PROVE  x \in Group(x) /\ Group(y) = Group(x) /\ Owners(y) = Owners(x)
         /\ (y = Encryption => x = y)
<1>1. CASE Group(x) = {x}
  BY <1>1 DEF Encryption
<1>2. CASE x \in {"tcp", "tcp6"} /\ Group(x) = {"tcp", "tcp6"}
  <2>1. \A z \in {"tcp", "tcp6"} : Group(z) = {"tcp", "tcp6"}
    BY Runs DEF Group
  <2>2. \A z \in {"tcp", "tcp6"} : Owners(z) = {}
    BY OwnersTable
  <2> QED
    BY <1>2, <2>1, <2>2 DEF Encryption
<1>3. CASE x \in {"udp", "udp6", "udplite", "udplite6"}
           /\ Group(x) = {"udp", "udp6", "udplite", "udplite6"}
  <2>1. \A z \in {"udp", "udp6", "udplite", "udplite6"} :
          Group(z) = {"udp", "udp6", "udplite", "udplite6"}
    BY Runs DEF Group
  <2>2. \A z \in {"udp", "udp6", "udplite", "udplite6"} : Owners(z) = {}
    BY OwnersTable
  <2> QED
    BY <1>3, <2>1, <2>2 DEF Encryption
<1>4. CASE x \in {"icmp", "icmp6"} /\ Group(x) = {"icmp", "icmp6"}
  <2>1. \A z \in {"icmp", "icmp6"} : Group(z) = {"icmp", "icmp6"}
    BY Runs DEF Group
  <2>2. \A z \in {"icmp", "icmp6"} : Owners(z) = {}
    BY OwnersTable
  <2> QED
    BY <1>4, <2>1, <2>2 DEF Encryption
<1> QED
  BY <1>1, <1>2, <1>3, <1>4, GroupTable

\* What a part hangs on needs no more than the part.
LEMMA OwnerNeeds ==
  ASSUME NEW x, NEW y \in Owners(x)
  PROVE  Needs(y) \subseteq Needs(x) /\ y # Encryption
<1>1. Group(y) = {y} /\ y # Encryption
  BY OwnersTable, GroupTable DEF Encryption
<1>2. Owners(y) \subseteq Owners(x)
  <2>1. CASE x = "CNIConfigFiles" /\ y = "CNIConfigDir"
    BY <2>1, DirOwners
  <2>2. CASE ~(x = "CNIConfigFiles" /\ y = "CNIConfigDir")
    BY <2>2, OwnersTable, NoOwners
  <2> QED
    BY <2>1, <2>2
<1> QED
  BY <1>1, <1>2 DEF Needs

\* What belongs to the group of a part needs what the part needs.
LEMMA MemberNeeds ==
  ASSUME NEW x, NEW y \in Group(x)
  PROVE  Needs(y) = Needs(x)
  BY GroupOf DEF Needs

-----------------------------------------------------------------------------
(* The invariant: of what the request has passed, all that could be relied *)
(* on was found.                                                           *)

Sure(x) == Needs(x) \subseteq always /\ Readable(x)

Copied == content # Nil => content = removeEncryptionProviderConfigSecrets(config)
Passed == \A i \in 1..(step - 1) : Sure(Program(sensor)[i]) => Program(sensor)[i] \in found
Judged == verdict # "pending" => step > Len(Program(sensor)) /\ verdict = Verdict

Inv == TypeOK /\ Copied /\ Passed /\ Judged

LEMMA ProgramLength ==
  ASSUME NEW s \in {"controlplane", "cni", "openedports"}
  PROVE  Len(Program(s)) \in Nat
<1>1. CASE s = "controlplane"
  BY <1>1, Lengths DEF Program
<1>2. CASE s = "cni"
  BY <1>2, Lengths DEF Program
<1>3. CASE s = "openedports"
  BY <1>3, Lengths DEF Program
<1> QED
  BY <1>1, <1>2, <1>3

LEMMA SensorKnown ==
  ASSUME InventoryAssumption, TypeOK
  PROVE  sensor \in {"controlplane", "cni", "openedports"} 
         /\ Len(Program(sensor)) \in Nat /\ step \in Nat
<1>1. sensor \in {"controlplane", "cni", "openedports"}
  BY DEF TypeOK, InventoryAssumption
<1>2. Len(Program(sensor)) \in Nat
  BY <1>1, ProgramLength
<1>3. step \in 1..(Len(Program(sensor)) + 1)
  BY DEF TypeOK
<1>4. step \in Nat
  BY <1>2, <1>3
<1> QED
  BY <1>1, <1>2, <1>4

LEMMA InitInv ==
  ASSUME InventoryAssumption
  PROVE  Init => Inv
<1> SUFFICES ASSUME Init PROVE Inv
  OBVIOUS
<1>1. sensor \in {"controlplane", "cni", "openedports"}
  BY DEF Init, InventoryAssumption
<1>2. Len(Program(sensor)) \in Nat
  BY <1>1, ProgramLength
<1>3. there \subseteq Part(sensor)
  BY DEF Init
<1>4. TypeOK
  BY <1>2, <1>3 DEF Init, TypeOK, InventoryAssumption
<1>5. Copied /\ Judged
  BY DEF Init, Copied, Judged
<1>6. Passed
  BY DEF Init, Passed
<1> QED
  BY <1>4, <1>5, <1>6 DEF Inv

\* Of a part that can be relied on, looking at it finds it.
LEMMA SureSeen ==
  ASSUME InventoryAssumption, Inv, Looking, Sure(Current)
  PROVE  Seen(Current)
<1> DEFINE P == Program(sensor)
<1>1. sensor \in {"controlplane", "cni", "openedports"} /\ step \in 1..Len(P) /\ Current = P[step]
  <2>1. Len(P) \in Nat
    BY SensorKnown DEF Inv
  <2> QED
    BY <2>1, SensorKnown DEF Inv, TypeOK, Looking, Current
<1>2. \A j \in 1..(step - 1) : Sure(P[j]) => P[j] \in found
  BY DEF Inv, Passed
<1>3. Current \in there /\ Readable(Current)
  BY GroupTable DEF Sure, Needs, Inv, TypeOK
<1>4. ASSUME NEW y \in Owners(Current)
      PROVE  y \in found
  <2>1. PICK j \in 1..(step - 1) : P[j] = y
    <3>1. \A s \in {"controlplane", "cni", "openedports"} : \A i \in 1..Len(Program(s)) :
            \A z \in Owners(Program(s)[i]) : \E j \in 1..(i - 1) : Program(s)[j] = z
      BY OwnersFirst
    <3>2. \A i \in 1..Len(P) : \A z \in Owners(P[i]) : \E j \in 1..(i - 1) : P[j] = z
      BY <1>1, <3>1
    <3>3. y \in Owners(P[step])
      BY <1>1
    <3> HIDE DEF P
    <3> QED
      BY <1>1, <3>2, <3>3
  <2>2. Sure(y)
    BY OwnerNeeds DEF Sure, Readable
  <2> QED
    BY <1>2, <2>1, <2>2
<1>5. ASSUME NEW y \in Before(Current)
      PROVE  y \in found
  <2>1. PICK j \in 1..(step - 1) : y \in Group(Current) /\ P[j] = y
    BY DEF Before
  <2>2. Needs(y) = Needs(Current) /\ (y = Encryption => y = Current)
    BY <2>1, MemberNeeds, GroupOf
  <2>3. Sure(y)
    BY <2>2 DEF Sure, Readable
  <2> QED
    BY <1>2, <2>1, <2>3
<1> QED
  BY <1>3, <1>4, <1>5 DEF Seen

LEMMA NextInv ==
  ASSUME InventoryAssumption, Inv, [Next]_vars
  PROVE  Inv'
<1> DEFINE P == Program(sensor)
<1>1. Len(P) \in Nat
  BY SensorKnown DEF Inv
<1>2. CASE Inspect
  <2>1. step \in 1..Len(P) /\ Current = P[step] /\ Current \in Part(sensor) /\ verdict = "pending"
    BY <1>1, <1>2 DEF Inspect, Looking, Inv, TypeOK, Current, Part, Among
  <2>2. UNCHANGED <<sensor, there, changes, config, always, verdict>> /\ step' = step + 1
        /\ found' = IF Seen(Current) THEN found \cup {Current} ELSE found
    BY <1>2 DEF Inspect, host
  <2>3. TypeOK'
    BY <1>1, <2>1, <2>2 DEF Inv, TypeOK
  <2>4. Copied'
    BY <1>2, <2>2 DEF Inspect, Inv, Copied
  <2>5. Passed'
    <3>1. \A x : Sure(x)' <=> Sure(x)
      BY <2>2 DEF Sure, Readable
    <3>2. SUFFICES ASSUME NEW i \in 1..step, Sure(P[i]) PROVE P[i] \in found'
      BY <2>1, <2>2, <3>1 DEF Passed
    <3>3. CASE i = step
      BY <1>2, <2>1, <2>2, <3>2, <3>3, SureSeen DEF Inspect
    <3>4. CASE i # step
      BY <2>1, <2>2, <3>2, <3>4 DEF Inv, Passed
    <3> QED
      BY <3>3, <3>4
  <2>6. Judged'
    BY <2>1, <2>2 DEF Judged
  <2> QED
    BY <2>3, <2>4, <2>5, <2>6 DEF Inv
<1>3. CASE Respond
  <2>1. UNCHANGED <<sensor, there, changes, config, always, step, found, content>>
        /\ verdict' = Verdict /\ step > Len(P)
    BY <1>3 DEF Respond, host
  <2>2. TypeOK'
    BY <2>1 DEF Inv, TypeOK, Verdict
  <2>3. Copied' /\ Judged'
    BY <2>1 DEF Inv, Copied, Judged, Verdict
  <2>4. Passed'
    BY <2>1 DEF Inv, Passed, Sure, Readable
  <2> QED
    BY <2>2, <2>3, <2>4 DEF Inv
<1>4. CASE Change
  <2>1. PICK x \in Part(sensor) : there' = IF x \in there THEN there \ {x} ELSE there \cup {x}
    BY <1>4 DEF Change
  <2>2. UNCHANGED <<sensor, config, step, found, content, verdict>> /\ verdict = "pending"
        /\ changes' = changes + 1 /\ changes < MaxChanges
        /\ always' = always \cap there'
    BY <1>4 DEF Change
  <2>3. TypeOK'
    BY <2>1, <2>2 DEF Inv, TypeOK, InventoryAssumption
  <2>4. Copied' /\ Judged'
    BY <2>2 DEF Inv, Copied, Judged
  <2>5. Passed'
    <3>1. \A y : Sure(y)' => Sure(y)
      BY <2>2 DEF Sure, Readable
    <3> QED
      BY <2>2, <3>1 DEF Inv, Passed
  <2> QED
    BY <2>3, <2>4, <2>5 DEF Inv
<1>5. CASE UNCHANGED vars
  <2>1. UNCHANGED <<sensor, there, changes, config, always, step, found, content, verdict>>
    BY <1>5 DEF vars, host
  <2>2. TypeOK'
    BY <2>1 DEF Inv, TypeOK
  <2>3. Copied' /\ Judged'
    BY <2>1 DEF Inv, Copied, Judged, Verdict
  <2>4. Passed'
    BY <2>1 DEF Inv, Passed, Sure, Readable
  <2> QED
    BY <2>2, <2>3, <2>4 DEF Inv
<1> QED
  BY <1>2, <1>3, <1>4, <1>5 DEF Next

\* The invariant of every run of a sensor, whatever comes and goes.
THEOREM Invariance == Spec => []Inv
<1>1. Init => Inv
  BY InitInv, InventoryAssumption
<1>2. Inv /\ [Next]_vars => Inv'
  BY NextInv, InventoryAssumption
<1> QED
  BY <1>1, <1>2, PTL DEF Spec

\* The state of a request keeps its types.
THEOREM TypeCorrect == Spec => []TypeOK
<1>1. Inv => TypeOK
  BY DEF Inv
<1> QED
  BY <1>1, Invariance, PTL

\* What was there all through the request is reported, however the parts around
\* it come and go, and decides that the node is a control plane.
THEOREM SteadyReported == Spec => []SteadyPartsReported
<1>1. Inv => SteadyPartsReported
  <2> SUFFICES ASSUME Inv, verdict # "pending",
                      sensor # "controlplane"
                        \/ {x \in Part(sensor) : Sure(x)} \cap Decisive # {},
                      NEW x \in Part(sensor) \ Internal, Sure(x)
               PROVE  x \in Reported
    BY DEF SteadyPartsReported, Sure
  <2> DEFINE P == Program(sensor)
  <2>1. Len(P) \in Nat
    BY InventoryAssumption, SensorKnown DEF Inv
  <2>2. step > Len(P) /\ verdict = Verdict /\ step \in Nat
    <3>1. step > Len(P) /\ verdict = Verdict
      BY DEF Inv, Judged
    <3>2. step \in Nat
      BY InventoryAssumption, SensorKnown DEF Inv
    <3> QED
      BY <3>1, <3>2
  <2>3. \A y \in Part(sensor) : Sure(y) => y \in found
    BY <2>1, <2>2 DEF Inv, Passed, Part, Among
  <2>4. verdict = "report"
    BY <2>2, <2>3 DEF Verdict
  <2>5. ASSUME NEW y \in Group(x)
        PROVE  y \in found
    <3>1. y \in Part(sensor)
      BY DEF Sure, Needs, Inv, TypeOK
    <3>2. Needs(y) = Needs(x) /\ (y = Encryption => y = x)
      BY MemberNeeds, GroupOf
    <3>3. Sure(y)
      BY <3>2 DEF Sure, Readable
    <3> QED
      BY <2>3, <3>1, <3>3
  <2> QED
    BY <2>3, <2>4, <2>5 DEF Reported
<1> QED
  BY <1>1, Invariance, PTL

\* However wrong the rest of the encryption configuration is, no key that can be
\* reached through maps with string keys is reported with its secret.
THEOREM SecretsOut == Spec => []SecretsRedacted
<1>1. Inv => SecretsRedacted
  BY NoSecretLeft DEF Inv, Copied, SecretsRedacted
<1> QED
  BY <1>1, Invariance, PTL

\* And with all the rest.
THEOREM RestIn == Spec => []RestKept
<1>1. Inv => RestKept
  BY OnlySecretsChange DEF Inv, Copied, RestKept
<1> QED
  BY <1>1, Invariance, PTL
-----------------------------------------------------------------------------
(* GetCNIConfigPath: the operators of the search.                          *)

\* A set of indices has a least one.
LEMMA LeastIndex ==
  ASSUME NEW T, T \subseteq Nat, T # {}
  PROVE  \E x \in T : \A y \in T : x <= y
<1>1. \E x \in T : \A y \in T : ~ (<<y, x>> \in OpToRel(<, Nat))
  BY NatLessThanWellFounded, WFMin, Zenon
<1>2. ASSUME NEW x \in Nat, NEW y \in Nat, <<y, x>> \notin OpToRel(<, Nat) PROVE x <= y
  <2>1. ~(y < x)
    BY <1>2, Zenon DEF OpToRel
  <2> QED
    BY <2>1
<1> QED
  BY <1>1, <1>2

\* A file that parses and names a directory.
Names(x) == x \notin {Empty, Malformed}

\* getCNIConfigDirFromConfigPaths returns what the first such file names.
LEMMA FirstDirIsFirst ==
  ASSUME NEW list, DOMAIN list \subseteq Nat
  PROVE  \/ FirstDir(list) = Empty /\ \A i \in DOMAIN list : ~Names(list[i])
         \/ \E i \in DOMAIN list : /\ FirstDir(list) = list[i] /\ Names(list[i])
                                   /\ \A j \in DOMAIN list : Names(list[j]) => i <= j
<1> DEFINE named == {i \in DOMAIN list : Names(list[i])}
<1>1. FirstDir(list) = IF named = {} THEN Empty
                       ELSE list[CHOOSE i \in named : \A j \in named : i <= j]
  BY DEF FirstDir, Names
<1>2. CASE named = {}
  BY <1>1, <1>2
<1>3. CASE named # {}
  <2> DEFINE i == CHOOSE i \in named : \A j \in named : i <= j
  <2>1. \E x \in named : \A y \in named : x <= y
    BY <1>3, LeastIndex
  <2>2. i \in named /\ \A j \in named : i <= j
    BY <2>1
  <2>3. FirstDir(list) = list[i]
    BY <1>1, <1>3
  <2> HIDE DEF i
  <2> QED
    BY <2>2, <2>3
<1> QED
  BY <1>2, <1>3

\* The drop-in directories hold sequences of files.
IsSequence(d) == Len(d) \in Nat /\ DOMAIN d = 1..Len(d)
DropInsTyped == \A l \in DOMAIN dropins : IsSequence(dropins[l])

\* What getCNIConfigDirFromConfig lists, entry by entry.
LEMMA ListedFiles ==
  ASSUME DropInsTyped, NEW r, NEW d, d = DropInsAt(ConfigDirPath(r))
  PROVE  /\ Len(d) \in Nat /\ DOMAIN d = 1..Len(d)
         /\ DOMAIN ConfigList(r) = 1..(Len(d) + 1)
         /\ \A i \in 1..Len(d) : ConfigList(r)[i] = d[Len(d) + 1 - i]
         /\ ConfigList(r)[Len(d) + 1] = FileAt(ConfigPath(r))
<1>1. IsSequence(d)
  <2> DEFINE loc == ConfigDirPath(r)
  <2> HIDE DEF loc
  <2>1. d = IF loc \in DOMAIN dropins THEN dropins[loc] ELSE <<>>
    BY DEF DropInsAt, loc
  <2>2. loc \in DOMAIN dropins => IsSequence(dropins[loc])
    BY DEF DropInsTyped
  <2>3. IsSequence(<<>>)
    BY DEF IsSequence
  <2> QED
    BY <2>1, <2>2, <2>3
<1>2. Len(d) \in Nat /\ DOMAIN d = 1..Len(d)
  BY <1>1 DEF IsSequence
<1> DEFINE n == Len(d)
           rev == [i \in 1..n |-> d[n + 1 - i]]
           file == FileAt(ConfigPath(r))
<1>3. ConfigList(r) = Append(rev, file)
  BY DEF ConfigList
<1>4. rev \in Seq({d[i] : i \in 1..n}) /\ Len(rev) = n
  <2>1. \A i \in 1..n : n + 1 - i \in 1..n
    BY <1>2
  <2> QED
    BY <1>2, <2>1
<1> HIDE DEF n, file
<1>5. \A i \in 1..n : rev[i] = d[n + 1 - i]
  OBVIOUS
<1> HIDE DEF rev
<1>6. n \in Nat
  BY <1>2 DEF n
<1>7. /\ DOMAIN Append(rev, file) = 1..(n + 1)
      /\ \A i \in 1..n : Append(rev, file)[i] = rev[i]
      /\ Append(rev, file)[n + 1] = file
  BY <1>4, <1>6
<1> QED
  BY <1>2, <1>3, <1>5, <1>7 DEF n, file

\* The first file of the list is the one that takes precedence.
LEMMA FirstIsConfigured ==
  ASSUME DropInsTyped, NEW r
  PROVE  \/ Configured(r, FirstDir(ConfigList(r)))
         \/ FirstDir(ConfigList(r)) = Empty /\ \A x : ~Configured(r, x)
<1> DEFINE d == DropInsAt(ConfigDirPath(r))
           n == Len(d)
           list == ConfigList(r)
           file == FileAt(ConfigPath(r))
<1>1. /\ n \in Nat /\ DOMAIN d = 1..n
      /\ DOMAIN list = 1..(n + 1)
      /\ \A i \in 1..n : list[i] = d[n + 1 - i]
      /\ list[n + 1] = file
  BY ListedFiles
<1>2. \A x : Configured(r, x) <=>
        \/ \E i \in DOMAIN d : /\ d[i] = x /\ Names(d[i])
                               /\ \A j \in DOMAIN d : Names(d[j]) => j <= i
        \/ /\ \A j \in DOMAIN d : ~Names(d[j])
           /\ file = x /\ Names(x)
  BY DEF Configured, Names
<1>3. \A j \in 1..n : n + 1 - j \in 1..n /\ list[n + 1 - j] = d[j]
  <2> SUFFICES ASSUME NEW j \in 1..n PROVE n + 1 - j \in 1..n /\ list[n + 1 - j] = d[j]
    OBVIOUS
  <2>1. n + 1 - j \in 1..n /\ n + 1 - (n + 1 - j) = j
    BY <1>1
  <2> QED
    BY <1>1, <2>1
<1>4. DOMAIN list \subseteq Nat
  BY <1>1
<1> HIDE DEF d, n, list, file
<1>5. ASSUME FirstDir(list) = Empty, \A i \in DOMAIN list : ~Names(list[i])
      PROVE  FirstDir(list) = Empty /\ \A x : ~Configured(r, x)
  <2>1. \A j \in 1..n : ~Names(d[j])
    BY <1>1, <1>3, <1>5
  <2>2. ~Names(file)
    BY <1>1, <1>5
  <2>3. \A x : ~Configured(r, x)
    BY <1>1, <1>2, <2>1, <2>2, Zenon
  <2> QED
    BY <1>5, <2>3
<1>6. ASSUME NEW i \in DOMAIN list, FirstDir(list) = list[i], Names(list[i]),
             \A j \in DOMAIN list : Names(list[j]) => i <= j
      PROVE  Configured(r, FirstDir(list))
  <2>1. i \in 1..(n + 1)
    BY <1>1
  <2>2. \A j \in 1..n : Names(d[j]) => i <= n + 1 - j
    BY <1>1, <1>3, <1>6
  <2>3. CASE i = n + 1
    <3>1. \A j \in 1..n : ~Names(d[j])
      BY <1>1, <2>2, <2>3
    <3>2. file = FirstDir(list) /\ Names(FirstDir(list))
      BY <1>1, <1>6, <2>3
    <3> QED
      BY <1>1, <1>2, <3>1, <3>2, Zenon
  <2>4. CASE i # n + 1
    <3>1. i \in 1..n /\ n + 1 - i \in 1..n
      BY <1>1, <2>1, <2>4
    <3>2. d[n + 1 - i] = FirstDir(list) /\ Names(d[n + 1 - i])
      BY <1>1, <1>6, <3>1
    <3>3. \A j \in 1..n : Names(d[j]) => j <= n + 1 - i
      BY <1>1, <2>1, <2>2
    <3> QED
      BY <1>1, <1>2, <3>1, <3>2, <3>3, Zenon
  <2> QED
    BY <2>3, <2>4
<1>7. \/ FirstDir(list) = Empty /\ \A i \in DOMAIN list : ~Names(list[i])
      \/ \E i \in DOMAIN list : /\ FirstDir(list) = list[i] /\ Names(list[i])
                                 /\ \A j \in DOMAIN list : Names(list[j]) => i <= j
  BY <1>4, FirstDirIsFirst
<1>8. Configured(r, FirstDir(list)) \/ (FirstDir(list) = Empty /\ \A x : ~Configured(r, x))
  <2>1. CASE FirstDir(list) = Empty /\ \A i \in DOMAIN list : ~Names(list[i])
    BY <1>5, <2>1, Zenon
  <2>2. CASE \E i \in DOMAIN list : /\ FirstDir(list) = list[i] /\ Names(list[i])
                                    /\ \A j \in DOMAIN list : Names(list[j]) => i <= j
    <3>1. PICK i \in DOMAIN list : /\ FirstDir(list) = list[i] /\ Names(list[i])
                                   /\ \A j \in DOMAIN list : Names(list[j]) => i <= j
      BY <2>2
    <3>2. Configured(r, FirstDir(list))
      BY <1>6, <3>1
    <3> QED
      BY <3>2, Zenon
  <2> QED
    BY <1>7, <2>1, <2>2, Zenon
<1> QED
  BY <1>8 DEF list
-----------------------------------------------------------------------------
(* The search step by step, for all command lines and files and however    *)
(* often runtimes start and exit.                                          *)

\* "steady" is about processes that are there; once containerd has not been found,
\* it has not run throughout, or was missed.
Watched ==
    /\ \A r \in steady : proc[r] # Absent
    /\ pc = "crio" /\ "containerd" \in steady => "containerd" \in missed

RuntimeInv ==
    /\ RuntimeTypeOK /\ DropInsTyped /\ Watched
    /\ PrecedenceRespected /\ SteadyRuntimeFound

\* newContainerRuntime gives a runtime of the two, or an error.
LEMMA NewContainerRuntimeFinds ==
  \A kind : NewContainerRuntime(kind) \subseteq Runtime \cup {Error}
<1>1. \A kind : KindOf(kind) \in Runtime \cup {Error}
  BY Zenon DEF KindOf, Runtime
<1> QED
  BY <1>1 DEF NewContainerRuntime

\* The initial states: every command line, every outcome of parsing every file.
LEMMA RuntimeInitInv == RuntimeInit => RuntimeInv
<1> SUFFICES ASSUME RuntimeInit PROVE RuntimeInv
  OBVIOUS
<1>1. PICK c \in RuntimeCmd["containerd"] \cup {Absent}, o \in RuntimeCmd["crio"] \cup {Absent} :
         proc = [r \in Runtime |-> IF r = "crio" THEN o ELSE c]
  BY DEF RuntimeInit
<1>2. RuntimeTypeOK
  <2>1. \A r \in Runtime : proc[r] \in RuntimeCmd[r] \cup {Absent}
    BY <1>1 DEF Runtime
  <2>2. kubelet \in KubeletCmd /\ churn = 0 /\ pc = "kubelet" /\ source = "none"
        /\ result = Empty /\ steady \subseteq Runtime /\ missed = {}
    BY DEF RuntimeInit
  <2> QED
    BY <2>1, <2>2, RuntimeAssumption DEF RuntimeTypeOK
<1>3. DropInsTyped
  <2>1. PICK f \in [DropIn -> Outcome] :
          dropins = [l \in DOMAIN ConfDir |->
                       [i \in DOMAIN ConfDir[l] |-> Parse(f[<<l, i>>], ConfDir[l][i])]]
    BY DEF RuntimeInit
  <2> SUFFICES ASSUME NEW l \in DOMAIN ConfDir PROVE IsSequence(dropins[l])
    BY <2>1 DEF DropInsTyped
  <2> DEFINE n == Len(ConfDir[l])
             Said(i) == Parse(f[<<l, i>>], ConfDir[l][i])
  <2>2. n \in Nat /\ DOMAIN ConfDir[l] = 1..n
    BY RuntimeAssumption
  <2>3. dropins[l] = [i \in 1..n |-> Said(i)]
    BY <2>1, <2>2
  <2> HIDE DEF n, Said
  <2>4. dropins[l] \in Seq({Said(i) : i \in 1..n}) /\ Len(dropins[l]) = n
    BY <2>2, <2>3
  <2> QED
    BY <2>2, <2>3, <2>4 DEF IsSequence
<1>4. Watched
  BY DEF RuntimeInit, Watched
<1>5. PrecedenceRespected /\ SteadyRuntimeFound
  BY DEF RuntimeInit, PrecedenceRespected, SteadyRuntimeFound
<1> QED
  BY <1>2, <1>3, <1>4, <1>5 DEF RuntimeInv

\* The answer that getCNIConfigDir gives for a runtime follows the precedence, and
\* still does when the default stands in for nothing.
LEMMA AnswerFollows ==
  ASSUME DropInsTyped, NEW r
  PROVE  /\ Follows(r, CNIConfigDir(r))
         /\ CNIConfigDir(r) = Empty => Follows(r, CNIDefaultConfigDir)
<1>1. CASE CNIConfigDirFromProcess(r) # Empty
  BY <1>1 DEF CNIConfigDir, Follows
<1>2. CASE CNIConfigDirFromProcess(r) = Empty
  <2>1. CNIConfigDir(r) = FirstDir(ConfigList(r))
    BY <1>2 DEF CNIConfigDir
  <2>2. CASE Configured(r, FirstDir(ConfigList(r)))
    <3>1. FirstDir(ConfigList(r)) # Empty
      BY <2>2, Zenon DEF Configured
    <3> QED
      BY <1>2, <2>1, <2>2, <3>1, Zenon DEF Follows
  <2>3. CASE FirstDir(ConfigList(r)) = Empty /\ \A x : ~Configured(r, x)
    BY <1>2, <2>1, <2>3, Zenon DEF Follows
  <2> QED
    BY <2>2, <2>3, FirstIsConfigured
<1> QED
  BY <1>1, <1>2

\* What follows the precedence does so as long as the node does not change.
LEMMA FollowsKept ==
  ASSUME UNCHANGED node, NEW r, NEW dir, source' = r, result' = dir, Follows(r, dir)
  PROVE  Follows(source, result)'
<1>1. proc' = proc /\ files' = files /\ dropins' = dropins
  BY DEF node
<1>2. ConfigDirPath(source)' = ConfigDirPath(r) /\ ConfigPath(source)' = ConfigPath(r)
  BY <1>1 DEF ConfigDirPath, ConfigPath
<1>3. DropInsAt(ConfigDirPath(source))' = DropInsAt(ConfigDirPath(r))
  BY <1>1, <1>2 DEF DropInsAt
<1>4. FileAt(ConfigPath(source))' = FileAt(ConfigPath(r))
  BY <1>1, <1>2 DEF FileAt
<1>5. CNIConfigDirFromProcess(source)' = CNIConfigDirFromProcess(r)
  BY <1>1 DEF CNIConfigDirFromProcess
<1>6. \A x : Configured(source, x)' <=> Configured(r, x)
  BY <1>3, <1>4, Zenon DEF Configured
<1>7. Configured(source, result)' <=> Configured(r, dir)
  BY <1>3, <1>4, Zenon DEF Configured
<1> QED
  BY <1>5, <1>6, <1>7, Zenon DEF Follows

\* What Finish leaves behind.
LEMMA FinishInv ==
  ASSUME RuntimeInv, NEW dir, NEW r, Finish(dir, r),
         r \in Runtime \cup {"none"}, missed' \subseteq Runtime,
         r \in steady => Follows(r, dir),
         ~KubeletNamesDir /\ r = "none" => steady \subseteq missed'
  PROVE  RuntimeInv'
<1>1. /\ pc' = "done" /\ result' = dir /\ source' = r /\ steady' = steady /\ churn' = churn
      /\ kubelet' = kubelet /\ proc' = proc /\ files' = files /\ dropins' = dropins
  BY DEF Finish, node
<1>2. RuntimeTypeOK'
  BY <1>1 DEF RuntimeInv, RuntimeTypeOK
<1>3. (DropInsTyped /\ Watched)'
  BY <1>1 DEF RuntimeInv, DropInsTyped, Watched
<1>4. PrecedenceRespected'
  <2>1. Follows(r, dir) => Follows(source, result)'
    BY <1>1, FollowsKept DEF Finish
  <2> QED
    BY <1>1, <2>1, Zenon DEF PrecedenceRespected
<1>5. SteadyRuntimeFound'
  BY <1>1 DEF SteadyRuntimeFound, KubeletNamesDir
<1> QED
  BY <1>2, <1>3, <1>4, <1>5 DEF RuntimeInv

\* A part that is missing leads to the next step of the search.
LEMMA GoesOnInv ==
  ASSUME RuntimeInv, NEW to \in {"containerd", "crio"}, pc' = to, pc # "done",
         to = "crio" /\ "containerd" \in steady => "containerd" \in missed',
         missed' \subseteq Runtime,
         UNCHANGED <<node, churn, result, source, steady>>
  PROVE  RuntimeInv'
<1>1. /\ result' = result /\ source' = source /\ steady' = steady /\ churn' = churn
      /\ kubelet' = kubelet /\ proc' = proc /\ files' = files /\ dropins' = dropins
  BY DEF node
<1>2. RuntimeTypeOK'
  BY <1>1 DEF RuntimeInv, RuntimeTypeOK
<1>3. (DropInsTyped /\ Watched)'
  BY <1>1 DEF RuntimeInv, DropInsTyped, Watched
<1>4. pc' # "done"
  OBVIOUS
<1>5. (PrecedenceRespected /\ SteadyRuntimeFound)'
  BY <1>4, Zenon DEF PrecedenceRespected, SteadyRuntimeFound
<1> QED
  BY <1>2, <1>3, <1>5 DEF RuntimeInv

LEMMA RuntimeStepInv == RuntimeInv /\ [RuntimeNext]_runtimeVars => RuntimeInv'
<1> SUFFICES ASSUME RuntimeInv, [RuntimeNext]_runtimeVars PROVE RuntimeInv'
  OBVIOUS
<1>0. missed \subseteq Runtime
  BY DEF RuntimeInv, RuntimeTypeOK
<1>1. CASE FromKubelet
  <2> DEFINE flag == GetArg(kubelet, "--cni-conf-dir")
             kind == KindFromKubelet
             Given == IF kind = Error THEN {Error} ELSE NewContainerRuntime(kind)
  <2>0. missed' = missed /\ missed' \subseteq Runtime
    BY <1>0, <1>1 DEF FromKubelet
  <2>1. CASE flag # Empty /\ Finish(flag, "none")
    <3>1. "none" \notin steady /\ KubeletNamesDir
      BY <2>1 DEF RuntimeInv, RuntimeTypeOK, Runtime, KubeletNamesDir
    <3> QED
      BY <2>0, <2>1, <3>1, FinishInv
  <2>2. CASE \E r \in Given \ {Error} : Finish(CNIConfigDir(r), r)
    <3>1. PICK r \in Given \ {Error} : Finish(CNIConfigDir(r), r)
      BY <2>2
    <3>2. r \in Runtime /\ r # "none"
      BY <3>1, NewContainerRuntimeFinds DEF Runtime
    <3>3. Follows(r, CNIConfigDir(r))
      BY AnswerFollows DEF RuntimeInv
    <3> QED
      BY <2>0, <3>1, <3>2, <3>3, FinishInv
  <2>3. CASE pc' = "containerd" /\ UNCHANGED <<node, churn, result, source, steady>>
    <3>1. pc # "done"
      BY <1>1 DEF FromKubelet
    <3> QED
      BY <2>0, <2>3, <3>1, GoesOnInv
  <2> QED
    BY <1>1, <2>1, <2>2, <2>3 DEF FromKubelet
<1>2. ASSUME NEW r \in Runtime, FromProcess(r) PROVE RuntimeInv'
  <2>0. r # "none" /\ pc = r /\ pc # "done"
    BY <1>2 DEF FromProcess, Runtime
  <2>1. CASE /\ Finish(IF CNIConfigDir(r) = Empty THEN CNIDefaultConfigDir
                                                  ELSE CNIConfigDir(r), r)
             /\ UNCHANGED missed
    <3> DEFINE dir == IF CNIConfigDir(r) = Empty THEN CNIDefaultConfigDir ELSE CNIConfigDir(r)
    <3>1. Follows(r, dir)
      BY AnswerFollows DEF RuntimeInv
    <3>2. Finish(dir, r)
      BY <2>1
    <3> HIDE DEF dir
    <3> QED
      BY <1>0, <2>0, <2>1, <3>1, <3>2, FinishInv
  <2>2. CASE /\ missed' = IF proc[r] = Absent THEN missed ELSE missed \cup {r}
             /\ \/ /\ r = "containerd" /\ pc' = "crio"
                   /\ UNCHANGED <<node, churn, result, source, steady>>
                \/ r = "crio" /\ Finish(CNIDefaultConfigDir, "none")
    <3>1. missed' \subseteq Runtime /\ missed \subseteq missed' /\ (r \in steady => r \in missed')
      BY <1>0, <2>2 DEF RuntimeInv, Watched
    <3>2. CASE /\ r = "containerd" /\ pc' = "crio"
               /\ UNCHANGED <<node, churn, result, source, steady>>
      BY <2>0, <3>1, <3>2, GoesOnInv
    <3>3. CASE r = "crio" /\ Finish(CNIDefaultConfigDir, "none")
      <4>1. steady \subseteq {"containerd", "crio"}
        BY DEF RuntimeInv, RuntimeTypeOK, Runtime
      <4>2. "containerd" \in steady => "containerd" \in missed
        BY <2>0, <3>3 DEF RuntimeInv, Watched
      <4>3. steady \subseteq missed'
        BY <3>1, <3>3, <4>1, <4>2
      <4>4. "none" \notin steady
        BY <4>1
      <4> QED
        BY <3>1, <3>3, <4>3, <4>4, FinishInv
    <3> QED
      BY <2>2, <3>2, <3>3
  <2> QED
    BY <1>2, <2>1, <2>2 DEF FromProcess
<1>3. ASSUME NEW r \in Runtime, Churn(r) PROVE RuntimeInv'
  <2>1. PICK p \in RuntimeCmd[r] \cup {Absent} : proc' = [proc EXCEPT ![r] = p]
    BY <1>3 DEF Churn
  <2>2. /\ pc # "done" /\ churn < MaxChurn /\ churn' = churn + 1 /\ steady' = steady \ {r}
        /\ kubelet' = kubelet /\ files' = files /\ dropins' = dropins
        /\ pc' = pc /\ result' = result /\ source' = source /\ missed' = missed
    BY <1>3 DEF Churn
  <2>3. \A q \in Runtime : q # r => proc'[q] = proc[q]
    BY <2>1
  <2>4. churn' \in 0..MaxChurn
    BY <2>2, RuntimeAssumption DEF RuntimeInv, RuntimeTypeOK
  <2>5. \A q \in Runtime : proc'[q] \in RuntimeCmd[q] \cup {Absent}
    BY <2>1, <2>3 DEF RuntimeInv, RuntimeTypeOK
  <2>6. RuntimeTypeOK'
    BY <2>2, <2>4, <2>5 DEF RuntimeInv, RuntimeTypeOK
  <2>7. (DropInsTyped /\ Watched)'
    BY <2>2, <2>3 DEF RuntimeInv, RuntimeTypeOK, DropInsTyped, Watched
  <2>8. (PrecedenceRespected /\ SteadyRuntimeFound)'
    BY <2>2, Zenon DEF PrecedenceRespected, SteadyRuntimeFound
  <2> QED
    BY <2>6, <2>7, <2>8 DEF RuntimeInv
<1>4. CASE UNCHANGED runtimeVars
  <2>1. /\ pc' = pc /\ result' = result /\ source' = source /\ steady' = steady
        /\ churn' = churn /\ missed' = missed
        /\ kubelet' = kubelet /\ proc' = proc /\ files' = files /\ dropins' = dropins
    BY <1>4 DEF runtimeVars, node
  <2>2. (RuntimeTypeOK /\ DropInsTyped /\ Watched)'
    BY <2>1 DEF RuntimeInv, RuntimeTypeOK, DropInsTyped, Watched
  <2>3. PrecedenceRespected'
    <3>1. PICK r, dir : r = source' /\ dir = result'
      OBVIOUS
    <3>2. UNCHANGED node
      BY <2>1 DEF node
    <3>3. Follows(r, dir) => Follows(source, result)'
      BY <3>1, <3>2, FollowsKept
    <3> QED
      BY <2>1, <3>1, <3>3 DEF RuntimeInv, PrecedenceRespected
  <2>4. SteadyRuntimeFound'
    BY <2>1 DEF RuntimeInv, SteadyRuntimeFound, KubeletNamesDir
  <2> QED
    BY <2>2, <2>3, <2>4 DEF RuntimeInv
<1> QED
  BY <1>1, <1>2, <1>3, <1>4 DEF RuntimeNext

\* RuntimeInv holds throughout a call of GetCNIConfigPath.
THEOREM RuntimeInvariance == RuntimeSpec => []RuntimeInv
  BY RuntimeInitInv, RuntimeStepInv, PTL DEF RuntimeSpec

\* The type invariant of the search, for all command lines and files.
THEOREM RuntimeTypeCorrect == RuntimeSpec => []RuntimeTypeOK
<1>1. RuntimeInv => RuntimeTypeOK
  BY DEF RuntimeInv
<1> QED
  BY <1>1, RuntimeInvariance, PTL

\* However many drop-in files there are, and whichever of them are broken or name
\* nothing, getCNIConfigDirFromConfig and GetCNIConfigPath keep to the documented
\* order for a runtime that runs on.
THEOREM PrecedenceKept == RuntimeSpec => []PrecedenceRespected
<1>1. RuntimeInv => PrecedenceRespected
  BY DEF RuntimeInv
<1> QED
  BY <1>1, RuntimeInvariance, PTL

\* A runtime that runs throughout GetCNIConfigPath is given up only if the search
\* for itself fails, however often the other one starts and exits or is missed.
THEOREM SteadyRuntimeNotMissed == RuntimeSpec => []SteadyRuntimeFound
<1>1. RuntimeInv => SteadyRuntimeFound
  BY DEF RuntimeInv
<1> QED
  BY <1>1, RuntimeInvariance, PTL
=============================================================================
