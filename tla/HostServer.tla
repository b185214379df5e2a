----------------------------- MODULE HostServer -----------------------------
(***************************************************************************)
(* The host-scanner process: main's start-up and shutdown (sensor.go), the *)
(* readiness flag, the request pipeline from negroni's Recovery through    *)
(* filterNLogHTTPErrors to the handlers (sensor.go, httphandlers.go), and  *)
(* the kubelet that probes, signals and restarts the container as          *)
(* deployment/host-scanner.yaml asks.                                      *)
(*                                                                         *)
(* What a sensor computes is abstracted to how it ends; net/http's Server  *)
(* is modelled from how main uses it.                                      *)
(***************************************************************************)
EXTENDS Naturals

CONSTANTS
    Conn,              \* client connections, each carrying one request at a time
    LinkedVersion,     \* BuildVersion as linked in: "" or a version
    DebugPort,         \* TRUE when CADB_DEBUG asks for the server on :6060
    FailureThreshold   \* consecutive probe failures before the kubelet kills

NoVersion == ""       \* BuildVersion as declared

ASSUME ServerAssumption ==
    /\ LinkedVersion \in {NoVersion, "v1"}
    /\ DebugPort \in BOOLEAN
    /\ FailureThreshold \in Nat \ {0}

Port == {"main"} \cup {p \in {"debug"} : DebugPort}
Endpoint == {"/healthz", "/readyz", "/version", "/osrelease", "sensor", "unknown"}

VARIABLES
    main,       \* where main() is
    listener,   \* the :7888 listener: none, starting, binding, bound, serving, deaf, closed
    ready,      \* isReady: unset, no, yes
    termChan,   \* signals buffered in termChan (capacity 1)
    version,    \* the global BuildVersion
    req,        \* per connection, its request
    started,    \* kubelet: the startup probe has succeeded
    fails,      \* kubelet: consecutive probe failures
    killing,    \* kubelet: SIGTERM sent, waiting for the exit
    settled     \* history: some /version request has been answered

process == <<main, listener, ready, termChan, version>>
kubelet == <<started, fails, killing>>
vars == <<process, req, kubelet, settled>>

NoRequest == [phase |-> "none", ep |-> "unknown", port |-> "main", status |-> 0, late |-> FALSE]

TypeOK ==
    /\ main \in {"boot", "handlers", "spawned", "waiting", "draining", "exited"}
    /\ listener \in {"none", "starting", "binding", "bound", "serving", "deaf", "closed"}
    /\ ready \in {"unset", "no", "yes"}
    /\ termChan \in 0..1
    /\ version \in {NoVersion, "v1", "unknown"}
    /\ req \in [Conn -> [phase : {"none", "new", "reading", "handler", "set", "tail"},
                         ep : Endpoint, port : Port,
                         status : {0, 200, 400, 404, 500, 503}, late : BOOLEAN]]
    /\ started \in BOOLEAN
    /\ fails \in 0..FailureThreshold
    /\ killing \in BOOLEAN
    /\ settled \in BOOLEAN

Running == main # "exited"
InFlight(c) == req[c].phase # "none"

SensorRuns(c) == req[c].phase = "handler" /\ req[c].ep = "sensor"
SensorsOverlap == \E c, d \in Conn : c # d /\ SensorRuns(c) /\ SensorRuns(d)

Init ==
    /\ main = "boot" /\ listener = "none" /\ ready = "unset" /\ termChan = 0
    /\ version = LinkedVersion
    /\ req = [c \in Conn |-> NoRequest]
    /\ started = FALSE /\ fails = 0 /\ killing = FALSE
    /\ settled = FALSE

-----------------------------------------------------------------------------
(* The process.                                                            *)

\* The process is gone: every request still in flight loses its connection.
Exit ==
    /\ main' = "exited"
    /\ listener' = "closed"
    /\ termChan' = 0
    /\ req' = [c \in Conn |-> NoRequest]
    /\ UNCHANGED <<ready, version>>

\* initHTTPHandlers: isReady is false, its goroutine is started, the handlers
\* are registered on http.DefaultServeMux.
InitHTTPHandlers ==
    /\ main = "boot"
    /\ main' = "handlers"
    /\ ready' = "no"
    /\ UNCHANGED <<listener, termChan, version, req, kubelet, settled>>

\* The goroutine of setupReadyz.
SetReady ==
    /\ Running /\ ready = "no"
    /\ ready' = "yes"
    /\ UNCHANGED <<main, listener, termChan, version, req, kubelet, settled>>

\* go server.ListenAndServe()
SpawnServer ==
    /\ main = "handlers"
    /\ main' = "spawned"
    /\ listener' = "starting"
    /\ UNCHANGED <<ready, termChan, version, req, kubelet, settled>>

\* ListenAndServe asks whether Shutdown has begun, binds the port, and asks again
\* when it registers its listener, which it closes if Shutdown came in between.
\* Its error is discarded: a failed bind leaves a process that only waits for a
\* signal.
Listen ==
    /\ Running
    /\ \/ listener = "starting"
          /\ listener' = IF main = "draining" THEN "closed" ELSE "binding"
       \/ listener = "binding"
          /\ listener' \in {"bound", "deaf"}
       \/ listener = "bound"
          /\ listener' = IF main = "draining" THEN "closed" ELSE "serving"
    /\ UNCHANGED <<main, ready, termChan, version, req, kubelet, settled>>

\* signal.Notify, after the server was started.
Notify ==
    /\ main = "spawned"
    /\ main' = "waiting"
    /\ UNCHANGED <<listener, ready, termChan, version, req, kubelet, settled>>

\* Mutant: the listener is left open while the process drains.
Receive_KeepsListening ==
    /\ main = "waiting" /\ termChan = 1
    /\ main' = "draining"
    /\ termChan' = 0
    /\ UNCHANGED <<listener, ready, version, req, kubelet, settled>>

\* <-termChan, then server.Shutdown closes the listener if one is registered.
Receive ==
    /\ main = "waiting" /\ termChan = 1
    /\ main' = "draining"
    /\ termChan' = 0
    /\ listener' = IF listener = "serving" THEN "closed" ELSE listener
    /\ UNCHANGED <<ready, version, req, kubelet, settled>>

\* Shutdown closes a connection that has sent nothing for five seconds.
DropSilent(c) ==
    /\ main = "draining" /\ req[c].phase = "new" /\ req[c].port = "main"
    /\ req' = [req EXCEPT ![c] = NoRequest]
    /\ UNCHANGED <<process, kubelet, settled>>

\* Shutdown returns nil once no connection of its server is in flight, and main
\* returns.  The debug server is not its concern.
DrainComplete ==
    /\ main = "draining"
    /\ \A c \in Conn : req[c].port = "main" => ~InFlight(c)
    /\ Exit
    /\ UNCHANGED <<kubelet, settled>>

\* Mutant: Shutdown with a context that never ends.
DrainDeadline_Never ==
    /\ main = "draining"
    /\ \A c \in Conn : ~InFlight(c)
    /\ Exit
    /\ UNCHANGED <<kubelet, settled>>

\* The 61 second context ends first: Shutdown returns its error and main returns.
DrainDeadline ==
    /\ main = "draining"
    /\ Exit
    /\ UNCHANGED <<kubelet, settled>>

\* Two sensors use userGroupCache at once and the runtime throws
\* (UserGroupCache!Throw).
Fatal ==
    /\ Running
    /\ SensorsOverlap
    /\ Exit
    /\ UNCHANGED <<kubelet, settled>>

-----------------------------------------------------------------------------
(* Requests.                                                               *)

Write(c, phase, code) ==
    req' = [req EXCEPT ![c].phase = phase,
                       ![c].status = IF @ = 0 THEN code ELSE @]

\* A connection is accepted on :7888, or on :6060, which serves the same mux.
Accept(c) ==
    /\ ~InFlight(c)
    /\ \E p \in Port, e \in Endpoint :
         /\ CASE p = "main"  -> listener = "serving"
              [] p = "debug" -> main \notin {"boot", "exited"}
         /\ req' = [req EXCEPT ![c] =
                      [NoRequest EXCEPT !.phase = "new", !.ep = e, !.port = p, !.late = settled]]
    /\ UNCHANGED <<process, kubelet, settled>>

\* The server has read the request's header and calls the negroni chain.  The
\* debug server has none: the handler runs at once.
Dispatch(c) ==
    /\ req[c].phase = "new"
    /\ Write(c, IF req[c].port = "main" THEN "reading" ELSE "handler", 0)
    /\ UNCHANGED <<process, kubelet, settled>>

\* filterNLogHTTPErrors reads the whole body before it calls the handler.
ReadBody(c) ==
    /\ req[c].phase = "reading"
    /\ \/ Write(c, "handler", 0)
       \/ Write(c, "tail", 400)
    /\ UNCHANGED <<process, kubelet, settled>>

\* What a handler may answer.  A sensor ends with a value, a SenseError
\* (its only code in this code base is 200: not a control plane) or an error.
Answers(e) ==
    CASE e = "/healthz"   -> {200}
      [] e = "/readyz"    -> IF ready = "yes" THEN {200} ELSE {503}
      [] e = "/osrelease" -> {200, 500}
      [] e = "sensor"     -> {200, 500}
      [] e = "unknown"    -> {404}

Handle(c) ==
    /\ req[c].phase = "handler" /\ req[c].ep # "/version"
    /\ \E code \in Answers(req[c].ep) : Write(c, "tail", code)
    /\ UNCHANGED <<process, kubelet, settled>>

\* versionHandler: BuildVersion is read; a request that finds it empty will set
\* it and answer 500.
VersionRead(c) ==
    /\ req[c].phase = "handler" /\ req[c].ep = "/version"
    /\ IF version = NoVersion THEN Write(c, "set", 0) ELSE Write(c, "tail", 200)
    /\ settled' = (settled \/ version # NoVersion)
    /\ UNCHANGED <<process, kubelet>>

\* Mutant: the error is returned but BuildVersion stays empty.
VersionSet_Forgets(c) ==
    /\ req[c].phase = "set"
    /\ Write(c, "tail", 500)
    /\ settled' = TRUE
    /\ UNCHANGED <<process, kubelet>>

VersionSet(c) ==
    /\ req[c].phase = "set"
    /\ version' = "unknown"
    /\ Write(c, "tail", 500)
    /\ settled' = TRUE
    /\ UNCHANGED <<main, listener, ready, termChan, kubelet>>

\* A handler panics, before it has written a header or after its 200 while it
\* encodes: a sensor that is given no FileInfo (walkVarsDir), or what a race left in
\* the cache (UserGroupCache!GetRef); a /version read torn by the first write.
\* Recovery answers 500 if it still can, in place of the rest of the filter; on the
\* debug port the connection just closes.
HandlerPanic(c) ==
    /\ req[c].phase = "handler"
    /\ \/ req[c].ep = "sensor"
       \/ req[c].ep = "/version" /\ version = NoVersion /\ \E d \in Conn : req[d].phase = "set"
    /\ IF req[c].port = "debug"
       THEN req' = [req EXCEPT ![c] = NoRequest]
       ELSE \E code \in {500} \cup {s \in {200} : req[c].ep = "sensor"} : Write(c, "tail", code)
    /\ UNCHANGED <<process, kubelet, settled>>

\* The rest of filterNLogHTTPErrors, or Recovery's log of the panic; the answer is
\* complete.
Finish(c) ==
    /\ req[c].phase = "tail"
    /\ req' = [req EXCEPT ![c] = NoRequest]
    /\ UNCHANGED <<process, kubelet, settled>>

-----------------------------------------------------------------------------
(* The kubelet.                                                            *)

\* SIGTERM ends the process while nothing is subscribed to it; afterwards it is
\* buffered, and lost when termChan is full.
Signal ==
    IF main \in {"boot", "handlers", "spawned"}
    THEN Exit
    ELSE /\ termChan' = 1
         /\ UNCHANGED <<main, listener, ready, version, req>>

\* Mutant: the probe only looks whether the process exists.
ProbeOK_ProcessExists == main = "waiting"

ProbeOK == listener = "serving" /\ (started \/ ready = "yes")

\* startupProbe on /readyz until it succeeds, then livenessProbe on /healthz.
Probe ==
    /\ Running /\ ~killing
    /\ IF ProbeOK
       THEN /\ started' = TRUE /\ fails' = 0
            /\ UNCHANGED <<process, req, killing>>
       ELSE /\ fails' = fails + 1
            /\ UNCHANGED started
            /\ IF fails + 1 = FailureThreshold
               THEN killing' = TRUE /\ Signal
               ELSE UNCHANGED <<process, req, killing>>
    /\ UNCHANGED settled

\* The pod is deleted, or someone signals the process again.
Terminate ==
    /\ Running
    /\ killing' = TRUE
    /\ Signal
    /\ UNCHANGED <<started, fails, settled>>

Restart ==
    /\ ~Running
    /\ main' = "boot" /\ listener' = "none" /\ ready' = "unset" /\ termChan' = 0
    /\ version' = LinkedVersion
    /\ req' = [c \in Conn |-> NoRequest]
    /\ started' = FALSE /\ fails' = 0 /\ killing' = FALSE
    /\ settled' = FALSE

-----------------------------------------------------------------------------
Main == InitHTTPHandlers \/ SpawnServer \/ Notify \/ Receive \/ DrainComplete

Request(c) ==
    \/ Accept(c) \/ Dispatch(c) \/ ReadBody(c) \/ Handle(c) \/ VersionRead(c) \/ VersionSet(c)
    \/ HandlerPanic(c) \/ Finish(c) \/ DropSilent(c)

Next ==
    \/ Main \/ SetReady \/ Listen \/ DrainDeadline \/ Fatal
    \/ \E c \in Conn : Request(c)
    \/ Probe \/ Terminate \/ Restart

\* The goroutines of the process, the drain timer and the kubelet keep going.
\* Nothing is assumed of clients, sensors or signals.
Fairness ==
    /\ WF_vars(Main) /\ WF_vars(SetReady) /\ WF_vars(Listen)
    /\ WF_vars(DrainDeadline)
    /\ WF_vars(Probe) /\ WF_vars(Restart)

Spec == Init /\ [][Next]_vars
FairSpec == Spec /\ Fairness

-----------------------------------------------------------------------------
(* Properties.                                                             *)

\* Once Shutdown has begun, :7888 takes no new connection, even when the signal
\* comes while ListenAndServe is binding the port.
NoAcceptWhileDraining ==
    [][main = "draining" =>
         /\ listener' # "serving"
         /\ \A c \in Conn : req'[c].phase = "new" /\ req[c].phase # "new"
                               => req'[c].port = "debug"]_vars

\* With no linked version only requests that overlap the first /version answer
\* fail: a request accepted after any answer gets 200.
VersionFailsOnlyAtFirst ==
    \A c \in Conn : req[c].late /\ req[c].ep = "/version" /\ req[c].status # 0
                      => req[c].status \in {200, 400}

\* A signal that main has been handed ends the process, even if a sensor hangs,
\* a client stalls its body or further signals keep coming.
SignalEndsProcess == termChan = 1 ~> main = "exited"

\* A process whose bind failed serves nothing and says nothing: the startup
\* probe gets rid of it.
DeafProcessIsReplaced == listener = "deaf" ~> main = "boot"
=============================================================================
