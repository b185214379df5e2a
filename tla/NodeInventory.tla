--------------------------- MODULE NodeInventory ---------------------------
(***************************************************************************)
(* SenseControlPlaneInfo, SenseCNIInfo and SenseOpenPorts                  *)
(* (sensor/controlplane.go, CNI.go, network.go): a request that looks for  *)
(* the parts of something one after the other and goes on whatever is      *)
(* missing.  Parts appear and vanish meanwhile, as they do when the        *)
(* kubelet restarts a static pod.                                          *)
(*                                                                         *)
(* A part is "there" if looking at it succeeds: the process is found, the  *)
(* file can be read or described.  A file or directory that a flag names   *)
(* is also missing if the flag is.  The encryption configuration is        *)
(* reported with its content, the secrets taken out.                       *)
(***************************************************************************)
EXTENDS Integers, Sequences, FiniteSets

CONSTANTS
    Sensor,        \* the sensors that run
    Config,        \* contents the encryption configuration may have
    MaxMissing,    \* bound: parts that are missing at first, or else all are
    MaxChanges     \* bound: parts that appear or vanish

ASSUME InventoryAssumption ==
    /\ Sensor \subseteq {"controlplane", "cni", "openedports"}
    /\ MaxMissing \in Nat /\ MaxChanges \in Nat

\* The order in which a sensor and what it calls look at the parts.
ControlPlaneParts ==
    << "APIServerInfo", "kube-apiserver.yaml", "EncryptionProviderConfigFile", "AuditPolicyFile",
       "ControllerManagerInfo", "kube-controller-manager.yaml", "controller-manager.conf",
       "SchedulerInfo", "kube-scheduler.yaml", "scheduler.conf",
       "EtcdConfigFile", "AdminConfigFile", "PKIDIr", "PKIFiles", "etcd", "EtcdDataDir" >>
ConfigParts == << "kubelet", "CNIConfigDir", "CNIConfigFiles" >>
supportedCNIs == << "aws", "Calico", "Flannel", "Cilium", "WeaveNet", "Kindnet", "Multus" >>
CNIParts == ConfigParts \o supportedCNIs
PortParts == << "tcp", "tcp6", "udp", "udp6", "udplite", "udplite6", "icmp", "icmp6" >>
Program(s) == CASE s = "controlplane" -> ControlPlaneParts
                [] s = "cni" -> CNIParts
                [] s = "openedports" -> PortParts

Among(p, from, to) == {p[i] : i \in from..to}
Part(s) == Among(Program(s), 1, Len(Program(s)))
Encryption == "EncryptionProviderConfigFile"

\* What has to be found for part x to be looked at: its process, the directory.
Owners(x) ==
    CASE x \in Among(ControlPlaneParts, 2, 4) -> {"APIServerInfo"}
      [] x \in Among(ControlPlaneParts, 6, 7) -> {"ControllerManagerInfo"}
      [] x \in Among(ControlPlaneParts, 9, 10) -> {"SchedulerInfo"}
      [] x = "EtcdDataDir" -> {"etcd"}
      [] x = "CNIConfigDir" -> {"kubelet"}
      [] x = "CNIConfigFiles" -> {"kubelet", "CNIConfigDir"}
      [] OTHER -> {}

\* getOpenedPorts: the files of a protocol are read up to the first that cannot
\* be, and then nothing of the protocol is kept.
Group(x) ==
    CASE x \in Among(PortParts, 1, 2) -> Among(PortParts, 1, 2)
      [] x \in Among(PortParts, 3, 6) -> Among(PortParts, 3, 6)
      [] x \in Among(PortParts, 7, 8) -> Among(PortParts, 7, 8)
      [] OTHER -> {x}

\* The parts that make a node a control plane.
Decisive == {"APIServerInfo", "ControllerManagerInfo", "SchedulerInfo",
             "EtcdConfigFile", "EtcdDataDir", "AdminConfigFile"}
\* Looked for only on the way to others.
Internal == {"etcd", "kubelet", "CNIConfigDir"}

VARIABLES
    sensor,
    there,     \* the parts that are there now
    changes,
    config,    \* the content of the encryption configuration
    step,      \* the part that is looked at next
    found,     \* the parts found
    content,   \* the content reported for the encryption configuration
    verdict,   \* how the request ended
    always     \* history: the parts that were there all the time of the request

host == <<sensor, there, changes, config, always>>
vars == <<host, step, found, content, verdict>>

-----------------------------------------------------------------------------
(* What yaml.Unmarshal gives: a node is <<"map", f>>, <<"list", s>> or     *)
(* <<"other">>, where "other" is also a map with a key that is no string.  *)

Other == <<"other">>
Unparsable == <<"unparsable">>
Nil == <<"nil">>

Redacted == <<"redacted">>

\* for i := range n: an element of another type is passed over.
Elements(n, F(_)) ==
    IF n[1] # "list" THEN n ELSE <<"list", [i \in DOMAIN n[2] |-> F(n[2][i])]>>
Values(n, F(_)) ==
    IF n[1] # "map" THEN n ELSE <<"map", [k \in DOMAIN n[2] |-> F(n[2][k])]>>
Field(n, k, F(_)) ==
    IF n[1] # "map" \/ k \notin DOMAIN n[2] THEN n
    ELSE <<"map", [n[2] EXCEPT ![k] = F(n[2][k])]>>

\* key["secret"] = "<REDACTED>", whether there was a secret or not.
RedactKey(n) ==
    IF n[1] # "map" THEN n
    ELSE <<"map", [k \in DOMAIN n[2] \cup {"secret"} |->
                     IF k = "secret" THEN Redacted ELSE n[2][k]]>>
RedactKeys(n) == Elements(n, RedactKey)
RedactObject(n) == Field(n, "keys", RedactKeys)
RedactProvider(n) == Values(n, RedactObject)

\* Mutant: an element of another type ends the loop over the providers.
RedactProviders_Stops(n) ==
    IF n[1] # "list" THEN n
    ELSE <<"list", [i \in DOMAIN n[2] |-> IF \E j \in 1..i : n[2][j][1] # "map" THEN n[2][i]
                                          ELSE RedactProvider(n[2][i])]>>

\* Mutant: an element of another type is left out of what is written back.
RedactProviders_Drops(n) ==
    LET IsMap(m) == m[1] = "map"
    IN  IF n[1] # "list" THEN n
        ELSE Elements(<<"list", SelectSeq(n[2], IsMap)>>, RedactProvider)

RedactProviders(n) == Elements(n, RedactProvider)
RedactResource(n) == Field(n, "providers", RedactProviders)
RedactResources(n) == Elements(n, RedactResource)
removeEncryptionProviderConfigSecrets(n) == Field(n, "resources", RedactResources)

-----------------------------------------------------------------------------
Init ==
    /\ sensor \in Sensor
    /\ there \in {t \in SUBSET Part(sensor) : Cardinality(Part(sensor) \ t) <= MaxMissing} \cup {{}}
    /\ changes = 0
    /\ config \in IF sensor = "controlplane" THEN Config \cup {Unparsable} ELSE {Unparsable}
    /\ step = 1 /\ found = {} /\ content = Nil /\ verdict = "pending"
    /\ always = there

Looking == verdict = "pending" /\ step <= Len(Program(sensor))
Current == Program(sensor)[step]
Before(x) == {y \in Group(x) : \E i \in 1..(step - 1) : Program(sensor)[i] = y}
\* The encryption configuration is left out if it is neither YAML nor JSON.
Readable(x) == x = Encryption => config # Unparsable
\* A part gives nil if it is missing, as is its flag, or what it hangs on.
Seen(x) ==
    x \in there /\ Readable(x) /\ Owners(x) \cup Before(x) \subseteq found

\* Mutant: the first part that is missing ends the request.
Inspect_GivesUp ==
    /\ Looking
    /\ LET seen == Current \in there /\ Owners(Current) \subseteq found
       IN  /\ found' = IF seen THEN found \cup {Current} ELSE found
           /\ step' = IF seen THEN step + 1 ELSE Len(Program(sensor)) + 1
    /\ UNCHANGED <<host, content, verdict>>

\* The next part is looked at: LocateProcessByExecSuffix, GetCNIConfigPath, a
\* directory listing, a description or a read of the file.  An error is logged.
Inspect ==
    /\ Looking
    /\ found' = IF Seen(Current) THEN found \cup {Current} ELSE found
    /\ content' = IF Seen(Current) /\ Current = Encryption
                  THEN removeEncryptionProviderConfigSecrets(config) ELSE content
    /\ step' = step + 1
    /\ UNCHANGED <<host, verdict>>

\* "If wasn't able to find any data - this is not a control plane".
Verdict ==
    IF sensor = "controlplane" /\ found \cap Decisive = {} THEN "not a control plane" ELSE "report"

\* The report is returned, or dropped with all that was found.
Respond ==
    /\ verdict = "pending" /\ step > Len(Program(sensor))
    /\ verdict' = Verdict
    /\ UNCHANGED <<host, step, found, content>>

\* A part appears or vanishes.
Change ==
    /\ verdict = "pending" /\ changes < MaxChanges
    /\ \E x \in Part(sensor) :
         there' = IF x \in there THEN there \ {x} ELSE there \cup {x}
    /\ changes' = changes + 1
    /\ always' = always \cap there'
    /\ UNCHANGED <<sensor, config, step, found, content, verdict>>

Next == Inspect \/ Respond \/ Change

Spec == Init /\ [][Next]_vars

-----------------------------------------------------------------------------
(* Properties.                                                             *)

TypeOK ==
    /\ sensor \in Sensor
    /\ there \subseteq Part(sensor) /\ always \subseteq there
    /\ changes \in 0..MaxChanges
    /\ step \in 1..(Len(Program(sensor)) + 1)
    /\ found \subseteq Part(sensor)
    /\ verdict \in {"pending", "report", "not a control plane"}

Needs(x) == Owners(x) \cup Group(x)
\* What the answer tells of; of a protocol everything or nothing.
Reported ==
    IF verdict = "report" THEN {x \in found \ Internal : Group(x) \subseteq found} ELSE {}

\* No failure of one part costs an unrelated one: what was there all through the
\* request, with all it needs, is in the answer, and a node that keeps a single
\* decisive part is not told "not a control plane", whatever comes and goes.
SteadyPartsReported ==
    verdict # "pending" =>
        LET sure == {x \in Part(sensor) : Needs(x) \subseteq always /\ Readable(x)}
        IN  sensor # "controlplane" \/ sure \cap Decisive # {} => sure \ Internal \subseteq Reported

\* The maps in the elements of a list under key k of a map.
MapsUnder(n, k) ==
    IF n[1] = "map" /\ k \in DOMAIN n[2] /\ n[2][k][1] = "list"
    THEN {n[2][k][2][i] : i \in {j \in DOMAIN n[2][k][2] : n[2][k][2][j][1] = "map"}} ELSE {}
KeysOf(data) ==
    UNION {UNION {UNION {MapsUnder(p[2][o], "keys") : o \in DOMAIN p[2]}
                    : p \in MapsUnder(r, "providers")} : r \in MapsUnder(data, "resources")}

\* Every key of every provider of every resource is reported without its secret,
\* also next to elements of another type, and on either side of them; if a map on
\* the way to it has a key that is no string, it is such an element, and stays.
SecretsRedacted ==
    content # Nil => \A key \in KeysOf(content) : key[2]["secret"] = Redacted

\* Nodes m and n agree as far as G tells their members apart.
Same(m, n, G(_, _)) ==
    m[1] = n[1] /\ (m[1] \in {"map", "list"} =>
                      /\ DOMAIN m[2] = DOMAIN n[2]
                      /\ \A k \in DOMAIN m[2] : G(m[2][k], n[2][k]))
SameKey(m, n) == m[1] = n[1] /\ (m[1] = "map" =>
    \A k \in DOMAIN n[2] : k \in DOMAIN m[2] /\ (k # "secret" => m[2][k] = n[2][k]))
SameKeys(m, n) == Same(m, n, SameKey)
SameObject(m, n) == Same(m, n, SameKeys)
SameProvider(m, n) == Same(m, n, SameObject)
SameProviders(m, n) == Same(m, n, SameProvider)
SameResource(m, n) == Same(m, n, SameProviders)
SameResources(m, n) == Same(m, n, SameResource)

\* The order and kinds of the providers, which is what the benchmark asks for,
\* and all else survive: only secrets differ from what is in the file.
RestKept ==
    content # Nil => Same(content, config, SameResources)
=============================================================================
