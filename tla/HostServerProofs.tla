--------------------------- MODULE HostServerProofs ---------------------------
(***************************************************************************)
(* Proofs about HostServer for any number of connections, with or without  *)
(* the debug port and a linked version, and for every probe threshold.     *)
(***************************************************************************)
EXTENDS HostServer, TLAPS

Phase == {"none", "new", "reading", "handler", "set", "tail"}
Status == {0, 200, 400, 404, 500, 503}
RequestType == [phase : Phase, ep : Endpoint, port : Port, status : Status, late : BOOLEAN]

\* TypeOK in the parts that the steps keep apart.
ProcessTyped ==
    /\ main \in {"boot", "handlers", "spawned", "waiting", "draining", "exited"}
    /\ listener \in {"none", "starting", "binding", "bound", "serving", "deaf", "closed"}
    /\ ready \in {"unset", "no", "yes"}
    /\ termChan \in {0, 1}
    /\ version \in {NoVersion, "v1", "unknown"}
KubeletTyped == started \in BOOLEAN /\ killing \in BOOLEAN /\ fails \in 0..FailureThreshold
HistoryTyped == settled \in BOOLEAN
Typed == ProcessTyped /\ req \in [Conn -> RequestType] /\ KubeletTyped /\ HistoryTyped

\* The kubelet stops counting failed probes when it kills.
ProbesCounted == ~killing => fails < FailureThreshold

\* Shutdown has closed the listener, or ListenAndServe has yet to ask for it.
DrainingIsDeaf == main = "draining" => listener # "serving"

\* A /version request that has been answered has left a version; one accepted
\* later is not among those that found none.
VersionSettled ==
    /\ settled => version # NoVersion
    /\ \A c \in Conn : req[c].late => settled /\ req[c].phase # "set"

\* The inductive invariant.
Inv ==
    /\ Typed /\ ProbesCounted /\ DrainingIsDeaf /\ VersionSettled /\ VersionFailsOnlyAtFirst

LEMMA NoRequestType == NoRequest \in RequestType
  BY DEF NoRequest, RequestType, Phase, Status, Endpoint, Port

LEMMA TypedTypeOK == Typed => TypeOK
<1> SUFFICES ASSUME Typed PROVE TypeOK
  OBVIOUS
<1>1. req \in [Conn -> [phase : {"none", "new", "reading", "handler", "set", "tail"},
                         ep : Endpoint, port : Port,
                         status : {0, 200, 400, 404, 500, 503}, late : BOOLEAN]]
  BY DEF Typed, RequestType, Phase, Status
<1>2. termChan \in 0..1
  BY DEF Typed, ProcessTyped
<1> QED
  BY <1>1, <1>2, Zenon DEF TypeOK, Typed, ProcessTyped, KubeletTyped, HistoryTyped

\* A process that has just begun, at Init and after a Restart.
LEMMA FreshRequests ==
  ASSUME NEW r, r = [c \in Conn |-> NoRequest]
  PROVE  /\ r \in [Conn -> RequestType]
         /\ \A c \in Conn : r[c].phase = "none" /\ ~r[c].late
<1>1. \A c \in Conn : r[c] = NoRequest
  OBVIOUS
<1>2. NoRequest.phase = "none" /\ ~NoRequest.late
  BY DEF NoRequest
<1> QED
  BY <1>1, <1>2, NoRequestType

LEMMA InitInv == Init => Inv
<1> SUFFICES ASSUME Init PROVE Inv
  OBVIOUS
<1>1. req \in [Conn -> RequestType] /\ \A c \in Conn : req[c].phase = "none" /\ ~req[c].late
  BY FreshRequests, Zenon DEF Init
<1>2. ProcessTyped
  BY ServerAssumption DEF Init, ProcessTyped
<1>3. fails = 0 /\ 0 \in 0..FailureThreshold /\ 0 < FailureThreshold
  BY ServerAssumption DEF Init
<1>4. KubeletTyped /\ HistoryTyped
  BY <1>3, Zenon DEF Init, KubeletTyped, HistoryTyped
<1>5. ProbesCounted /\ DrainingIsDeaf
  BY <1>3 DEF ProbesCounted, DrainingIsDeaf, Init
<1>7. VersionSettled
  BY <1>1, Zenon DEF VersionSettled, Init
<1>8. VersionFailsOnlyAtFirst
  BY <1>1, Zenon DEF VersionFailsOnlyAtFirst
<1> QED
  BY <1>1, <1>2, <1>4, <1>5, <1>7, <1>8 DEF Inv, Typed

-----------------------------------------------------------------------------
(* The process and the kubelet.                                            *)

\* However the process ends, no request is left.
LEMMA ExitInv ==
  ASSUME Inv, Exit, UNCHANGED settled, KubeletTyped', ProbesCounted'
  PROVE  Inv'
<1>1. req' \in [Conn -> RequestType] /\ \A c \in Conn : req'[c].phase = "none" /\ ~req'[c].late
  BY FreshRequests, Zenon DEF Exit
<1>2. ProcessTyped'
  BY DEF Inv, Typed, ProcessTyped, Exit
<1>3. HistoryTyped'
  BY Zenon DEF Inv, Typed, HistoryTyped
<1>4. DrainingIsDeaf'
  BY DEF DrainingIsDeaf, Exit
<1>5. VersionSettled'
  BY <1>1, Zenon DEF Inv, VersionSettled, Exit
<1>6. VersionFailsOnlyAtFirst'
  BY <1>1, Zenon DEF VersionFailsOnlyAtFirst
<1> QED
  BY <1>1, <1>2, <1>3, <1>4, <1>5, <1>6 DEF Inv, Typed

\* Steps of main, of its goroutines and of the kubelet that leave the requests
\* alone.
LEMMA QuietInv ==
  ASSUME Inv, ProcessTyped', KubeletTyped', ProbesCounted', DrainingIsDeaf',
         UNCHANGED <<req, version, settled>>, Running' => Running
  PROVE  Inv'
<1>2. VersionSettled' /\ VersionFailsOnlyAtFirst'
  BY DEF Inv, VersionSettled, VersionFailsOnlyAtFirst
<1>3. HistoryTyped' /\ req' \in [Conn -> RequestType]
  BY Zenon DEF Inv, Typed, HistoryTyped
<1> QED
  BY <1>2, <1>3 DEF Inv, Typed

LEMMA ProcessInv ==
  ASSUME Inv, InitHTTPHandlers \/ SetReady \/ SpawnServer \/ Listen \/ Notify \/ Receive
  PROVE  Inv'
<1> USE DEF kubelet, Running
<1>0. UNCHANGED <<req, version, kubelet, settled>> /\ Running
  BY DEF InitHTTPHandlers, SetReady, SpawnServer, Listen, Notify, Receive
<1>1. ProcessTyped'
  BY DEF Inv, Typed, ProcessTyped, InitHTTPHandlers, SetReady, SpawnServer, Listen, Notify, Receive
<1>2. DrainingIsDeaf'
  <2>1. CASE Listen
    BY <2>1 DEF Inv, DrainingIsDeaf, Listen
  <2>2. CASE Receive
    BY <2>2 DEF Inv, Typed, ProcessTyped, DrainingIsDeaf, Receive
  <2>3. CASE InitHTTPHandlers \/ SetReady \/ SpawnServer \/ Notify
    BY <2>3 DEF Inv, DrainingIsDeaf, InitHTTPHandlers, SetReady, SpawnServer, Notify
  <2> QED
    BY <2>1, <2>2, <2>3
<1>3. KubeletTyped' /\ ProbesCounted'
  BY <1>0, Zenon DEF Inv, Typed, KubeletTyped, ProbesCounted
<1> QED
  BY <1>0, <1>1, <1>2, <1>3, QuietInv

LEMMA EndInv ==
  ASSUME Inv, DrainComplete \/ DrainDeadline \/ Fatal
  PROVE  Inv'
<1> USE DEF kubelet, Running
<1>0. UNCHANGED <<started, fails, killing, settled>>
  BY DEF DrainComplete, DrainDeadline, Fatal
<1>1. UNCHANGED settled /\ KubeletTyped' /\ ProbesCounted'
  BY <1>0, Zenon DEF Inv, Typed, KubeletTyped, ProbesCounted
<1>2. CASE DrainComplete
  BY <1>1, <1>2, ExitInv DEF DrainComplete
<1>3. CASE DrainDeadline
  BY <1>1, <1>3, ExitInv DEF DrainDeadline
<1>4. CASE Fatal
  BY <1>1, <1>4, ExitInv DEF Fatal
<1> QED
  BY <1>2, <1>3, <1>4

\* A signal ends a process that has not subscribed to it, or waits for main.
LEMMA SignalInv ==
  ASSUME Inv, Signal, Running, UNCHANGED <<started, settled>>,
         fails' \in 0..FailureThreshold, killing' = TRUE
  PROVE  Inv'
<1>1. KubeletTyped' /\ ProbesCounted'
  BY Zenon DEF Inv, Typed, KubeletTyped, ProbesCounted
<1>2. CASE Exit
  BY <1>1, <1>2, ExitInv
<1>3. CASE termChan' = 1 /\ UNCHANGED <<main, listener, ready, version, req>>
  <2>1. ProcessTyped'
    BY <1>3 DEF Inv, Typed, ProcessTyped
  <2>2. DrainingIsDeaf'
    BY <1>3 DEF Inv, DrainingIsDeaf
  <2> QED
    BY <1>1, <1>3, <2>1, <2>2, QuietInv DEF Running
<1> QED
  BY <1>2, <1>3 DEF Signal

LEMMA TerminateInv == Inv /\ Terminate => Inv'
<1> SUFFICES ASSUME Inv, Terminate PROVE Inv'
  OBVIOUS
<1>1. fails' \in 0..FailureThreshold
  BY Zenon DEF Inv, Typed, KubeletTyped, Terminate
<1> QED
  BY <1>1, SignalInv DEF Terminate

\* A probe leaves the process alone, or is the one that makes the kubelet kill.
LEMMA ProbeInv == Inv /\ Probe => Inv'
<1> SUFFICES ASSUME Inv, Probe PROVE Inv'
  OBVIOUS
<1>0. Running /\ ~killing /\ UNCHANGED settled /\ fails \in 0..FailureThreshold
  BY DEF Probe, Inv, Typed, KubeletTyped
<1>1. fails < FailureThreshold
  BY <1>0, Zenon DEF Inv, ProbesCounted
<1>2. ASSUME UNCHANGED <<process, req, killing>>, started' \in BOOLEAN,
             fails' \in 0..FailureThreshold, fails' < FailureThreshold
      PROVE  Inv'
  <2>1. KubeletTyped' /\ ProbesCounted'
    BY <1>2, Zenon DEF Inv, Typed, KubeletTyped, ProbesCounted
  <2>2. ProcessTyped' /\ DrainingIsDeaf'
    BY <1>2 DEF Inv, Typed, ProcessTyped, DrainingIsDeaf, process
  <2> QED
    BY <1>0, <1>2, <2>1, <2>2, QuietInv DEF process, Running
<1>3. CASE ProbeOK
  <2>1. started' = TRUE /\ fails' = 0 /\ UNCHANGED <<process, req, killing>>
    BY <1>3, Zenon DEF Probe
  <2>2. 0 \in 0..FailureThreshold /\ 0 < FailureThreshold
    BY ServerAssumption
  <2> QED
    BY <1>2, <2>1, <2>2, Zenon
<1>4. CASE ~ProbeOK /\ fails + 1 = FailureThreshold
  <2>1. fails' = fails + 1 /\ UNCHANGED started /\ killing' = TRUE /\ Signal
    BY <1>4, Zenon DEF Probe
  <2>2. fails' \in 0..FailureThreshold
    BY <1>0, <1>1, <2>1, ServerAssumption
  <2> QED
    BY <1>0, <2>1, <2>2, SignalInv
<1>5. CASE ~ProbeOK /\ fails + 1 # FailureThreshold
  <2>1. fails' = fails + 1 /\ UNCHANGED started /\ UNCHANGED <<process, req, killing>>
    BY <1>5, Zenon DEF Probe
  <2>2. fails' \in 0..FailureThreshold /\ fails' < FailureThreshold
    BY <1>0, <1>1, <1>5, <2>1, ServerAssumption
  <2>3. started' \in BOOLEAN
    BY <2>1, Zenon DEF Inv, Typed, KubeletTyped
  <2> QED
    BY <1>2, <2>1, <2>2, <2>3
<1> QED
  BY <1>3, <1>4, <1>5

\* A new process knows nothing of the one before.
LEMMA RestartInv == Inv /\ Restart => Inv'
<1> SUFFICES ASSUME Inv, Restart PROVE Inv'
  OBVIOUS
<1>1. req' \in [Conn -> RequestType] /\ \A c \in Conn : req'[c].phase = "none" /\ ~req'[c].late
  BY FreshRequests, Zenon DEF Restart
<1>2. ProcessTyped'
  BY ServerAssumption DEF Restart, ProcessTyped
<1>3. fails' = 0 /\ 0 \in 0..FailureThreshold /\ 0 < FailureThreshold
  BY ServerAssumption DEF Restart
<1>4. KubeletTyped' /\ HistoryTyped'
  BY <1>3, Zenon DEF Restart, KubeletTyped, HistoryTyped
<1>5. ProbesCounted' /\ DrainingIsDeaf'
  BY <1>3 DEF ProbesCounted, DrainingIsDeaf, Restart
<1>7. VersionSettled'
  BY <1>1, Zenon DEF VersionSettled, Restart
<1>8. VersionFailsOnlyAtFirst'
  BY <1>1, Zenon DEF VersionFailsOnlyAtFirst
<1> QED
  BY <1>1, <1>2, <1>4, <1>5, <1>7, <1>8 DEF Inv, Typed

-----------------------------------------------------------------------------
(* Requests.                                                               *)

\* What is asked of one connection's request, by itself.
Sound(r) == r.late /\ r.ep = "/version" /\ r.status # 0 => r.status \in {200, 400}

\* A step of one connection.
LEMMA OneRequestInv ==
  ASSUME Inv, NEW c \in Conn, req' \in [Conn -> RequestType],
         \A d \in Conn : d # c => req'[d] = req[d],
         UNCHANGED <<main, listener, ready, termChan, kubelet>>,
         version' \in {NoVersion, "v1", "unknown"}, HistoryTyped',
         settled => settled', settled' => version' # NoVersion,
         req'[c].late => settled' /\ req'[c].phase # "set",
         Sound(req'[c])
  PROVE  Inv'
<1>1. Typed'
  <2>1. ProcessTyped'
    BY DEF Inv, Typed, ProcessTyped
  <2>2. KubeletTyped'
    BY Zenon DEF Inv, Typed, KubeletTyped, kubelet
  <2> QED
    BY <2>1, <2>2 DEF Typed
<1>2. ProbesCounted'
  BY Zenon DEF Inv, ProbesCounted, kubelet
<1>4. DrainingIsDeaf'
  BY Zenon DEF Inv, DrainingIsDeaf
<1>5. VersionSettled'
  BY Zenon DEF Inv, VersionSettled
<1>6. VersionFailsOnlyAtFirst'
  <2> SUFFICES ASSUME NEW d \in Conn, req'[d].late, req'[d].ep = "/version",
                      req'[d].status # 0
               PROVE  req'[d].status \in {200, 400}
    BY Zenon DEF VersionFailsOnlyAtFirst
  <2>1. CASE d = c
    BY <2>1, Zenon DEF Sound
  <2>2. CASE d # c
    <3>1. req'[d] = req[d]
      BY <2>2
    <3>2. req[d].late /\ req[d].ep = "/version" /\ req[d].status # 0
      BY <3>1, Zenon
    <3>3. req[d].status \in {200, 400}
      BY <3>2, Zenon DEF Inv, VersionFailsOnlyAtFirst
    <3> QED
      BY <3>1, <3>3, Zenon
  <2> QED
    BY <2>1, <2>2
<1> QED
  BY <1>1, <1>2, <1>4, <1>5, <1>6 DEF Inv

\* What the invariant says of one connection.
LEMMA InvOf ==
  ASSUME Inv, NEW c \in Conn
  PROVE  /\ req \in [Conn -> RequestType] /\ req[c] \in RequestType
         /\ req[c].late \in BOOLEAN
         /\ req[c].late => settled /\ version # NoVersion /\ req[c].phase # "set"
         /\ req[c].late /\ req[c].ep = "/version" /\ req[c].status # 0
              => req[c].status \in {200, 400}
         /\ settled \in BOOLEAN
         /\ settled => version # NoVersion
         /\ version \in {NoVersion, "v1", "unknown"}
<1>1. req \in [Conn -> RequestType] /\ req[c] \in RequestType
  BY DEF Inv, Typed
<1>2. req[c].late \in BOOLEAN
  BY <1>1 DEF RequestType
<1>3. settled \in BOOLEAN
  BY DEF Inv, Typed, HistoryTyped
<1>4. version \in {NoVersion, "v1", "unknown"}
  BY DEF Inv, Typed, ProcessTyped
<1> QED
  BY <1>1, <1>2, <1>3, <1>4, Zenon DEF Inv, VersionSettled, VersionFailsOnlyAtFirst

\* Write moves one request on and keeps the first status written.
LEMMA WriteFacts ==
  ASSUME req \in [Conn -> RequestType], NEW c \in Conn, NEW phase \in Phase, NEW code \in Status,
         Write(c, phase, code)
  PROVE  /\ req' \in [Conn -> RequestType]
         /\ \A d \in Conn : d # c => req'[d] = req[d]
         /\ req'[c].phase = phase
         /\ req'[c].status = IF req[c].status = 0 THEN code ELSE req[c].status
         /\ req'[c].ep = req[c].ep /\ req'[c].port = req[c].port
         /\ req'[c].late = req[c].late
  BY DEF Write, RequestType

\* A handler has written: the status is safe for a late /version request.
LEMMA WriteInv ==
  ASSUME Inv, NEW c \in Conn, NEW phase \in Phase, NEW code \in Status,
         Write(c, phase, code),
         req[c].late /\ req[c].ep = "/version" => phase # "set" /\ code \in {0, 200, 400},
         phase = "set" => req[c].ep = "/version",
         UNCHANGED <<main, listener, ready, termChan, kubelet>>,
         version' \in {version, "unknown"}, HistoryTyped',
         settled => settled', settled' => version' # NoVersion
  PROVE  Inv'
<1>1. /\ req' \in [Conn -> RequestType]
      /\ \A d \in Conn : d # c => req'[d] = req[d]
      /\ req'[c].phase = phase
      /\ req'[c].status = IF req[c].status = 0 THEN code ELSE req[c].status
      /\ req'[c].ep = req[c].ep /\ req'[c].port = req[c].port
      /\ req'[c].late = req[c].late
  BY WriteFacts, InvOf
<1>3. Sound(req'[c])
  <2> SUFFICES ASSUME req'[c].late, req'[c].ep = "/version", req'[c].status # 0
               PROVE  req'[c].status \in {200, 400}
    BY Zenon DEF Sound
  <2>0. req[c].late /\ req[c].ep = "/version"
    BY <1>1, Zenon
  <2>1. CASE req[c].status = 0
    <3>1. req'[c].status = code /\ code \in {0, 200, 400}
      BY <1>1, <2>0, <2>1, Zenon
    <3> QED
      BY <3>1
  <2>2. CASE req[c].status # 0
    <3>1. req'[c].status = req[c].status
      BY <1>1, <2>2, Zenon
    <3>2. req[c].status \in {200, 400}
      BY <2>0, <2>2, InvOf, Zenon
    <3> QED
      BY <3>1, <3>2, Zenon
  <2> QED
    BY <2>1, <2>2
<1>4. req'[c].late => settled' /\ req'[c].phase # "set"
  BY <1>1, InvOf, Zenon
<1>5. version' \in {NoVersion, "v1", "unknown"}
  BY InvOf, Zenon
<1> QED
  BY <1>1, <1>3, <1>4, <1>5, OneRequestInv

LEMMA Codes == /\ {0, 200, 400, 404, 500, 503} = Status
               /\ {"reading", "handler", "set", "tail"} \subseteq Phase
  BY DEF Status, Phase

\* Nothing but a request's own fields changes.
LEMMA HistoryKept ==
  ASSUME Inv, UNCHANGED <<process, kubelet, settled>>
  PROVE  /\ UNCHANGED <<main, listener, ready, termChan, kubelet>>
         /\ version' = version /\ settled' = settled /\ HistoryTyped'
         /\ settled => settled'
         /\ settled' => version' # NoVersion
<1>1. UNCHANGED <<main, listener, ready, termChan, kubelet, version, settled>>
  BY DEF process
<1>2. settled' = settled /\ version' = version
  BY <1>1
<1>3. settled \in BOOLEAN /\ (settled => version # NoVersion)
  BY Zenon DEF Inv, Typed, HistoryTyped, VersionSettled
<1>4. UNCHANGED <<main, listener, ready, termChan, kubelet>>
  BY <1>1
<1>5. HistoryTyped'
  BY <1>2, <1>3 DEF HistoryTyped
<1>6. (settled => settled') /\ (settled' => version' # NoVersion)
  <2>1. CASE settled = TRUE
    BY <1>2, <1>3, <2>1
  <2>2. CASE settled = FALSE
    BY <1>2, <1>3, <2>2
  <2> QED
    BY <1>3, <2>1, <2>2
<1> QED
  BY <1>2, <1>4, <1>5, <1>6, Zenon

LEMMA DispatchInv == \A c \in Conn : Inv /\ Dispatch(c) => Inv'
<1> SUFFICES ASSUME NEW c \in Conn, Inv, Dispatch(c) PROVE Inv'
  OBVIOUS
<1>1. PICK phase \in {"reading", "handler"} : Write(c, phase, 0)
  BY DEF Dispatch
<1>2. UNCHANGED <<process, kubelet, settled>>
  BY DEF Dispatch
<1>3. phase \in Phase /\ phase # "set" /\ 0 \in Status
  BY Codes
<1> QED
  BY <1>1, <1>2, <1>3, HistoryKept, WriteInv

LEMMA ReadBodyInv == \A c \in Conn : Inv /\ ReadBody(c) => Inv'
<1> SUFFICES ASSUME NEW c \in Conn, Inv, ReadBody(c) PROVE Inv'
  OBVIOUS
<1>1. PICK phase \in {"handler", "tail"}, code \in {0, 400} : Write(c, phase, code)
  BY DEF ReadBody
<1>2. UNCHANGED <<process, kubelet, settled>>
  BY DEF ReadBody
<1>3. phase \in Phase /\ phase # "set" /\ code \in Status
      /\ code \in {0, 200, 400}
  BY Codes
<1> QED
  BY <1>1, <1>2, <1>3, HistoryKept, WriteInv

LEMMA HandleInv == \A c \in Conn : Inv /\ Handle(c) => Inv'
<1> SUFFICES ASSUME NEW c \in Conn, Inv, Handle(c) PROVE Inv'
  OBVIOUS
<1>0. req[c].ep \in Endpoint
  BY InvOf DEF RequestType
<1>1. PICK code \in Answers(req[c].ep) : Write(c, "tail", code)
  BY DEF Handle
<1>2. code \in Status /\ "tail" \in Phase /\ req[c].ep # "/version"
  BY <1>0, Codes DEF Answers, Endpoint, Handle, Status
<1>3. UNCHANGED <<main, listener, ready, termChan, kubelet, version, settled>>
  BY DEF Handle, process
<1>4. HistoryTyped'
  BY <1>3, InvOf, Zenon DEF Handle, HistoryTyped
<1>5. settled' = settled /\ version' = version /\ (settled => version # NoVersion)
  BY <1>3, InvOf
<1> QED
  BY <1>1, <1>2, <1>3, <1>4, <1>5, WriteInv

\* A late request finds a version: it answers 200 and never sets it.
LEMMA VersionReadInv == \A c \in Conn : Inv /\ VersionRead(c) => Inv'
<1> SUFFICES ASSUME NEW c \in Conn, Inv, VersionRead(c) PROVE Inv'
  OBVIOUS
<1>1. UNCHANGED <<main, listener, ready, termChan, kubelet, version>>
  BY DEF VersionRead, process
<1>2. settled' = (settled \/ version # NoVersion) /\ req[c].ep = "/version"
  BY DEF VersionRead
<1>3. HistoryTyped'
  BY <1>1, <1>2, InvOf, Zenon DEF HistoryTyped
<1>4. settled => settled'
  BY <1>2, Zenon
<1>5. settled' => version' # NoVersion
  BY <1>1, <1>2, InvOf, Zenon
<1>6. CASE version = NoVersion
  <2>1. Write(c, "set", 0) /\ ~req[c].late
    BY <1>6, InvOf, Zenon DEF VersionRead
  <2> QED
    BY <1>1, <1>2, <1>3, <1>4, <1>5, <2>1, Codes, WriteInv
<1>7. CASE version # NoVersion
  <2>1. Write(c, "tail", 200)
    BY <1>7, Zenon DEF VersionRead
  <2>2. 200 \in {0, 200, 400} /\ "tail" # "set"
    OBVIOUS
  <2> QED
    BY <1>1, <1>2, <1>3, <1>4, <1>5, <2>1, <2>2, Codes, WriteInv
<1> QED
  BY <1>6, <1>7

LEMMA VersionSetInv == \A c \in Conn : Inv /\ VersionSet(c) => Inv'
<1> SUFFICES ASSUME NEW c \in Conn, Inv, VersionSet(c) PROVE Inv'
  OBVIOUS
<1>1. UNCHANGED <<main, listener, ready, termChan, kubelet>>
  BY DEF VersionSet
<1>2. Write(c, "tail", 500) /\ settled' = TRUE /\ version' = "unknown" /\ ~req[c].late
  BY InvOf, Zenon DEF VersionSet
<1>3. HistoryTyped'
  BY <1>1, <1>2, InvOf, Zenon DEF HistoryTyped
<1>4. version' # NoVersion
  BY <1>2, Zenon DEF NoVersion
<1>5. "tail" # "set" /\ version' \in {version, "unknown"}
  BY <1>2
<1> QED
  BY <1>1, <1>2, <1>3, <1>4, <1>5, Codes, WriteInv

LEMMA AcceptInv == \A c \in Conn : Inv /\ Accept(c) => Inv'
<1> SUFFICES ASSUME NEW c \in Conn, Inv, Accept(c) PROVE Inv'
  OBVIOUS
<1>1. UNCHANGED <<process, kubelet, settled>>
  BY DEF Accept
<1>2. PICK p \in Port, e \in Endpoint :
        req' = [req EXCEPT ![c] = [NoRequest EXCEPT !.phase = "new", !.ep = e, !.port = p,
                                                    !.late = settled]]
  BY DEF Accept
<1>3. req' \in [Conn -> RequestType] /\ \A d \in Conn : d # c => req'[d] = req[d]
  <2> DEFINE r == [NoRequest EXCEPT !.phase = "new", !.ep = e, !.port = p, !.late = settled]
  <2>1. settled \in BOOLEAN /\ "new" \in Phase
    BY InvOf DEF Phase
  <2>2. r \in RequestType
    BY <2>1, NoRequestType DEF RequestType
  <2> HIDE DEF r
  <2>3. req' = [req EXCEPT ![c] = r]
    BY <1>2 DEF r
  <2> QED
    BY <2>2, <2>3, InvOf
<1>4. req'[c].phase = "new" /\ req'[c].status = 0 /\ req'[c].late = settled
  BY <1>2, InvOf DEF NoRequest
<1>5. Sound(req'[c])
  BY <1>4, Zenon DEF Sound
<1>6. req'[c].late => settled' /\ req'[c].phase # "set"
  BY <1>1, <1>4, HistoryKept, Zenon
<1>7. version' \in {NoVersion, "v1", "unknown"}
  BY <1>1, HistoryKept, InvOf
<1> QED
  BY <1>1, <1>3, <1>5, <1>6, <1>7, HistoryKept, OneRequestInv

\* A request is over, or its connection is given up.
LEMMA OverInv ==
  ASSUME Inv, NEW c \in Conn, req' = [req EXCEPT ![c] = NoRequest],
         UNCHANGED <<process, kubelet, settled>>
  PROVE  Inv'
<1>1. req' \in [Conn -> RequestType] /\ \A d \in Conn : d # c => req'[d] = req[d]
  BY NoRequestType, InvOf
<1>2. req'[c].phase = "none" /\ ~req'[c].late
  BY InvOf DEF NoRequest
<1>3. Sound(req'[c])
  BY <1>2, Zenon DEF Sound
<1>4. version' \in {NoVersion, "v1", "unknown"}
  BY HistoryKept, InvOf
<1> QED
  BY <1>1, <1>2, <1>3, <1>4, HistoryKept, OneRequestInv

\* A handler that panics is a sensor, or read a torn version: it was not late.
LEMMA HandlerPanicInv == \A c \in Conn : Inv /\ HandlerPanic(c) => Inv'
<1> SUFFICES ASSUME NEW c \in Conn, Inv, HandlerPanic(c) PROVE Inv'
  OBVIOUS
<1>1. UNCHANGED <<process, kubelet, settled>>
  BY DEF HandlerPanic
<1>2. req[c].ep # "/version" \/ ~req[c].late
  BY InvOf, Zenon DEF HandlerPanic
<1>3. CASE req[c].port = "debug"
  BY <1>1, <1>3, OverInv DEF HandlerPanic
<1>4. CASE req[c].port # "debug"
  <2>1. PICK code \in {500, 200} : Write(c, "tail", code)
    BY <1>4 DEF HandlerPanic
  <2> QED
    BY <1>1, <1>2, <2>1, Codes, HistoryKept, WriteInv
<1> QED
  BY <1>3, <1>4

LEMMA FinishInv == \A c \in Conn : Inv /\ (Finish(c) \/ DropSilent(c)) => Inv'
  BY OverInv DEF Finish, DropSilent

-----------------------------------------------------------------------------
LEMMA StepInv == Inv /\ [Next]_vars => Inv'
<1> SUFFICES ASSUME Inv, [Next]_vars PROVE Inv'
  OBVIOUS
<1>1. CASE InitHTTPHandlers \/ SetReady \/ SpawnServer \/ Listen \/ Notify \/ Receive
  BY <1>1, ProcessInv
<1>2. CASE DrainComplete \/ DrainDeadline \/ Fatal
  BY <1>2, EndInv
<1>3. ASSUME NEW c \in Conn, Request(c) PROVE Inv'
  BY <1>3, AcceptInv, DispatchInv, ReadBodyInv, HandleInv, VersionReadInv, VersionSetInv,
     HandlerPanicInv, FinishInv DEF Request
<1>4. CASE Probe \/ Terminate \/ Restart
  BY <1>4, ProbeInv, TerminateInv, RestartInv
<1>5. CASE UNCHANGED vars
  <2>1. UNCHANGED <<main, listener, ready, termChan, version, req, started, fails, killing,
                    settled>>
    BY <1>5 DEF vars, process, kubelet
  <2>2. ProcessTyped' /\ DrainingIsDeaf'
    BY <2>1 DEF Inv, Typed, ProcessTyped, DrainingIsDeaf
  <2>3. KubeletTyped' /\ ProbesCounted'
    BY <2>1, Zenon DEF Inv, Typed, KubeletTyped, ProbesCounted
  <2> QED
    BY <2>1, <2>2, <2>3, QuietInv DEF Running
<1> QED
  BY <1>1, <1>2, <1>3, <1>4, <1>5 DEF Next, Main

\* Inv is an invariant of the process, its requests and its kubelet.
THEOREM Invariance == Spec => []Inv
  BY InitInv, StepInv, PTL DEF Spec

\* Every variable keeps its type, through every restart.
THEOREM TypeCorrect == Spec => []TypeOK
<1>1. Inv => TypeOK
  BY TypedTypeOK DEF Inv
<1> QED
  BY <1>1, Invariance, PTL

\* versionHandler answers 500 only to requests accepted before its first answer.
THEOREM VersionHeals == Spec => []VersionFailsOnlyAtFirst
<1>1. Inv => VersionFailsOnlyAtFirst
  BY DEF Inv
<1> QED
  BY <1>1, Invariance, PTL

\* server.Shutdown stops :7888 for good: no listener opens and no connection is
\* taken, also when ListenAndServe is late.
THEOREM DrainingAcceptsNothing == Spec => NoAcceptWhileDraining
<1> DEFINE P == main = "draining" =>
                  /\ listener' # "serving"
                  /\ \A c \in Conn : req'[c].phase = "new" /\ req[c].phase # "new"
                                        => req'[c].port = "debug"
<1>1. ASSUME Inv, [Next]_vars PROVE P
  <2> SUFFICES ASSUME main = "draining"
               PROVE  /\ listener' # "serving"
                      /\ \A c \in Conn : req'[c].phase = "new" /\ req[c].phase # "new"
                                            => req'[c].port = "debug"
    OBVIOUS
  <2>0. req \in [Conn -> RequestType] /\ listener # "serving"
    BY <1>1 DEF Inv, Typed, DrainingIsDeaf
  <2>1. CASE InitHTTPHandlers \/ SetReady \/ SpawnServer \/ Listen \/ Notify \/ Receive
    BY <2>0, <2>1 DEF InitHTTPHandlers, SetReady, SpawnServer, Listen, Notify, Receive
  <2>2. ASSUME Exit PROVE P
    <3>1. listener' = "closed"
      BY <2>2 DEF Exit
    <3>2. \A c \in Conn : req'[c].phase = "none"
      BY <2>2 DEF Exit, NoRequest
    <3> QED
      BY <3>1, <3>2
  <2>3. CASE DrainComplete \/ DrainDeadline \/ Fatal \/ Exit
    BY <2>2, <2>3 DEF DrainComplete, DrainDeadline, Fatal
  <2>4. CASE Probe \/ Terminate
    BY <2>0, <2>4 DEF Probe, Terminate, Signal, process
  <2>5. CASE Restart
    BY <2>5 DEF Restart, Running
  <2>6. CASE UNCHANGED vars
    BY <2>0, <2>6 DEF vars, process
  <2>7. ASSUME NEW c \in Conn, Request(c) PROVE P
    <3>1. listener' = listener
      BY <2>7 DEF Request, Accept, Dispatch, ReadBody, Handle, VersionRead, VersionSet,
                  HandlerPanic, Finish, DropSilent, process
    <3>2. CASE Accept(c)
      <4>1. PICK p \in Port, e \in Endpoint :
              /\ p = "main" => listener = "serving"
              /\ req' = [req EXCEPT ![c] = [NoRequest EXCEPT !.phase = "new", !.ep = e,
                                                             !.port = p, !.late = settled]]
        BY <3>2 DEF Accept
      <4>2. p = "debug"
        BY <2>0, <4>1 DEF Port
      <4>3. req'[c].port = "debug" /\ \A d \in Conn : d # c => req'[d] = req[d]
        BY <2>0, <4>1, <4>2 DEF NoRequest
      <4> QED
        BY <2>0, <3>1, <4>3
    <3>3. CASE ~Accept(c)
      <4>1. CASE Finish(c) \/ DropSilent(c)
        BY <2>0, <3>1, <4>1 DEF Finish, DropSilent, NoRequest
      <4>2. CASE HandlerPanic(c) /\ req[c].port = "debug"
        BY <2>0, <3>1, <4>2 DEF HandlerPanic, NoRequest
      <4>3. CASE ~(Finish(c) \/ DropSilent(c) \/ (HandlerPanic(c) /\ req[c].port = "debug"))
        <5>1. PICK ph \in Phase \ {"new"}, code \in Status : Write(c, ph, code)
          <6>1. CASE Dispatch(c) \/ ReadBody(c) \/ VersionRead(c) \/ VersionSet(c)
            BY <6>1, Codes DEF Dispatch, ReadBody, VersionRead, VersionSet
          <6>2. CASE Handle(c)
            <7>1. PICK code \in Answers(req[c].ep) : Write(c, "tail", code)
              BY <6>2 DEF Handle
            <7>2. code \in Status
              BY <2>0, <6>2, <7>1 DEF Answers, Handle, RequestType, Endpoint, Status
            <7> QED
              BY <7>1, <7>2, Codes
          <6>3. CASE HandlerPanic(c)
            BY <4>3, <6>3, Codes DEF HandlerPanic
          <6> QED
            BY <2>7, <3>3, <4>3, <6>1, <6>2, <6>3 DEF Request
        <5>2. req'[c].phase = ph /\ \A d \in Conn : d # c => req'[d] = req[d]
          BY <2>0, <5>1 DEF Write, RequestType
        <5> QED
          BY <2>0, <3>1, <5>2
      <4> QED
        BY <4>1, <4>2, <4>3
    <3> QED
      BY <3>2, <3>3
  <2> QED
    BY <1>1, <2>1, <2>3, <2>4, <2>5, <2>6, <2>7 DEF Next, Main
<1> QED
  BY <1>1, Invariance, PTL DEF Spec, NoAcceptWhileDraining
=============================================================================
