--------------------------- MODULE CloudProvider ---------------------------
(***************************************************************************)
(* SenseCloudProviderInfo (sensor/cloudProvider.go) and GetHttpClient      *)
(* (sensor/internal/utils/globals.go): requests that share one http.Client,*)
(* made by whoever comes first, and ask three metadata APIs in turn.  The  *)
(* first read of httpClient is not guarded by the lock, and every request  *)
(* sets the Timeout of the client all of them use.                         *)
(*                                                                         *)
(* The APIs answer with 200, with something else, or not at all; then only *)
(* the deadline, if there is one, ends the GET.                            *)
(***************************************************************************)
EXTENDS Integers, Sequences, FiniteSets

CONSTANTS
    Req,     \* requests, each on a goroutine of its own
    API      \* the number of metadata APIs (3 in the code)

None == "none"
Free == "free"

ASSUME CloudAssumption ==
    /\ API \in Nat \ {0}
    /\ None \notin Req /\ Free \notin Req

VARIABLES
    httpClient,  \* None, or the request that has made the client
    lock,        \* httpClientCreationlock: who holds it, or Free
    timeout,     \* the clients whose Timeout is set
    up,          \* the APIs that would answer with 200
    pc,          \* per request: the next statement
    client,      \*   client
    api,         \*   the API that is asked, or is to be asked next
    deadline,    \*   its GETs have one
    reply,       \*   what comes of the GET: a status, an error or nothing
    answer,      \*   ProviderMetaDataAPIAccess
    bodies,      \* <<t, i>>: t has not closed the response of API i
    steady       \* history: per request, the APIs up since it began

shared == <<httpClient, lock, timeout>>
local == <<pc, client, api, deadline, reply, answer>>
vars == <<shared, up, local, bodies, steady>>

Client == Req \cup {None}
Apis == 1..API

TypeOK ==
    /\ httpClient \in Client
    /\ lock \in Req \cup {Free}
    /\ timeout \subseteq Req
    /\ up \subseteq Apis
    /\ pc \in [Req -> {"idle", "probe", "lock", "check", "unlock", "timeout", "get", "wait",
                       "done"}]
    /\ client \in [Req -> Client]
    /\ api \in [Req -> 1..(API + 1)]
    /\ deadline \in [Req -> BOOLEAN]
    /\ reply \in [Req -> {"200", "other", "refused", "silent", None}]
    /\ answer \in [Req -> {"yes", "no", None}]
    /\ bodies \subseteq Req \X Apis
    /\ steady \in [Req -> SUBSET Apis]

Init ==
    /\ httpClient = None /\ lock = Free /\ timeout = {}
    /\ up \in SUBSET Apis
    /\ pc = [t \in Req |-> "idle"]
    /\ client = [t \in Req |-> None]
    /\ api = [t \in Req |-> 1]
    /\ deadline = [t \in Req |-> FALSE]
    /\ reply = [t \in Req |-> None]
    /\ answer = [t \in Req |-> None]
    /\ bodies = {}
    /\ steady = [t \in Req |-> {}]

Goto(t, l) == pc' = [pc EXCEPT ![t] = l]
At(t, l) == pc[t] = l

Begin(t) ==
    /\ At(t, "idle") /\ Goto(t, "probe")
    /\ steady' = [steady EXCEPT ![t] = up]
    /\ UNCHANGED <<shared, up, client, api, deadline, reply, answer, bodies>>

\* if httpClient == nil, read without the lock.
Probe(t) ==
    /\ At(t, "probe")
    /\ \/ httpClient = None /\ Goto(t, "lock") /\ UNCHANGED client
       \/ httpClient # None /\ Goto(t, "timeout") /\ client' = [client EXCEPT ![t] = httpClient]
    /\ UNCHANGED <<shared, up, api, deadline, reply, answer, bodies, steady>>

Lock(t) ==
    /\ At(t, "lock") /\ lock = Free
    /\ lock' = t /\ Goto(t, "check")
    /\ UNCHANGED <<httpClient, timeout, up, client, api, deadline, reply, answer, bodies, steady>>

\* Mutant: httpClient is not looked at again under the lock.
Check_Once(t) ==
    /\ At(t, "check")
    /\ httpClient' = t
    /\ Goto(t, "unlock")
    /\ UNCHANGED <<lock, timeout, up, client, api, deadline, reply, answer, bodies, steady>>

\* if httpClient == nil, again, and httpClient = &http.Client{}.
Check(t) ==
    /\ At(t, "check")
    /\ httpClient' = IF httpClient = None THEN t ELSE httpClient
    /\ Goto(t, "unlock")
    /\ UNCHANGED <<lock, timeout, up, client, api, deadline, reply, answer, bodies, steady>>

\* return httpClient, and the deferred Unlock.
Unlock(t) ==
    /\ At(t, "unlock")
    /\ client' = [client EXCEPT ![t] = httpClient]
    /\ lock' = Free /\ Goto(t, "timeout")
    /\ UNCHANGED <<httpClient, timeout, up, api, deadline, reply, answer, bodies, steady>>

\* Mutant: only the request that made the client sets its timeout.
SetTimeout_ByMaker(t) ==
    /\ At(t, "timeout")
    /\ timeout' = IF client[t] = t THEN timeout \cup {t} ELSE timeout
    /\ Goto(t, "get")
    /\ UNCHANGED <<httpClient, lock, up, client, api, deadline, reply, answer, bodies, steady>>

\* client.Timeout = 1000000000: all requests write the same second.
SetTimeout(t) ==
    /\ At(t, "timeout")
    /\ timeout' = timeout \cup {client[t]}
    /\ Goto(t, "get")
    /\ UNCHANGED <<httpClient, lock, up, client, api, deadline, reply, answer, bodies, steady>>

\* httputils.HttpGet sends the request; the client's Timeout is read here.
Get(t) ==
    /\ At(t, "get") /\ api[t] <= API
    /\ deadline' = [deadline EXCEPT ![t] = client[t] \in timeout]
    /\ \E r \in IF api[t] \in up THEN {"200"} ELSE {"other", "refused", "silent"} :
         reply' = [reply EXCEPT ![t] = r]
    /\ Goto(t, "wait")
    /\ UNCHANGED <<shared, up, client, api, answer, bodies, steady>>

NextAPI(t) ==
    /\ api' = [api EXCEPT ![t] = @ + 1] /\ Goto(t, "get") /\ UNCHANGED answer

\* Mutant: an error ends the loop.
Receive_StopsAtError(t) ==
    /\ At(t, "wait") /\ reply[t] # "silent"
    /\ answer' = [answer EXCEPT ![t] = IF reply[t] = "200" THEN "yes" ELSE "no"]
    /\ Goto(t, "done")
    /\ bodies' = IF reply[t] = "refused" THEN bodies ELSE bodies \cup {<<t, api[t]>>}
    /\ reply' = [reply EXCEPT ![t] = None]
    /\ UNCHANGED <<shared, up, client, api, deadline, steady>>

\* A response or an error: status 200 ends the loop.  Nobody closes the body.
Receive(t) ==
    /\ At(t, "wait") /\ reply[t] # "silent"
    /\ \/ /\ reply[t] = "200"
          /\ answer' = [answer EXCEPT ![t] = "yes"] /\ Goto(t, "done")
          /\ UNCHANGED api
       \/ reply[t] # "200" /\ NextAPI(t)
    /\ bodies' = IF reply[t] = "refused" THEN bodies ELSE bodies \cup {<<t, api[t]>>}
    /\ reply' = [reply EXCEPT ![t] = None]
    /\ UNCHANGED <<shared, up, client, deadline, steady>>

\* Mutant: the API that did not answer is asked again.
TimedOut_Retries(t) ==
    /\ At(t, "wait") /\ reply[t] = "silent" /\ deadline[t]
    /\ Goto(t, "get")
    /\ reply' = [reply EXCEPT ![t] = None]
    /\ UNCHANGED <<shared, up, client, api, deadline, answer, bodies, steady>>

\* A second has passed without an answer.
TimedOut(t) ==
    /\ At(t, "wait") /\ reply[t] = "silent" /\ deadline[t]
    /\ NextAPI(t)
    /\ reply' = [reply EXCEPT ![t] = None]
    /\ UNCHANGED <<shared, up, client, deadline, bodies, steady>>

NoAccess(t) ==
    /\ At(t, "get") /\ api[t] > API
    /\ answer' = [answer EXCEPT ![t] = "no"] /\ Goto(t, "done")
    /\ UNCHANGED <<shared, up, client, api, deadline, reply, bodies, steady>>

\* The client's timer goes on until the body is closed, and then cancels the
\* request: the transport closes the connection.
TimerCloses(t) ==
    /\ deadline[t]
    /\ \E i \in Apis : <<t, i>> \in bodies /\ bodies' = bodies \ {<<t, i>>}
    /\ UNCHANGED <<shared, up, local, steady>>

\* An API begins or ceases to answer.
Flip ==
    /\ \E t \in Req : ~At(t, "done")
    /\ \E i \in Apis : up' = IF i \in up THEN up \ {i} ELSE up \cup {i}
    /\ steady' = [t \in Req |-> IF At(t, "done") THEN steady[t] ELSE steady[t] \cap up']
    /\ UNCHANGED <<shared, local, bodies>>

\* What the scheduler, the network stack and the timers see to.
Run(t) ==
    \/ Probe(t) \/ Lock(t) \/ Check(t) \/ Unlock(t) \/ SetTimeout(t)
    \/ Get(t) \/ Receive(t) \/ TimedOut(t) \/ NoAccess(t)

Next == (\E t \in Req : Begin(t) \/ Run(t) \/ TimerCloses(t)) \/ Flip

Spec == Init /\ [][Next]_vars
FairSpec == Spec /\ \A t \in Req : WF_vars(Run(t)) /\ WF_vars(TimerCloses(t))

-----------------------------------------------------------------------------
(* Properties.                                                             *)

\* Although httpClient is first read without the lock, all requests get the same
\* client: "global http.client instance to reduce object resource overuse".
OneClient ==
    \A t, u \in Req : client[t] # None /\ client[u] # None => client[t] = client[u]

\* Whoever has made the client, and whoever has written its Timeout last, no GET
\* is sent through it before the Timeout is set.
EveryGetHasDeadline == \A t \in Req : At(t, "wait") => deadline[t]

\* Access is reported if one API works during the whole request, whatever the
\* APIs asked before it do.
WorkingAPIFound == \A t \in Req : At(t, "done") /\ steady[t] # {} => answer[t] = "yes"

\* A request ends even if no API ever answers, and whoever it shares the lock
\* and the client with.
RequestEnds == \A t \in Req : At(t, "probe") ~> At(t, "done")

\* Responses are never closed, and still do not pile up: after the request each
\* lets go of its connection.
ConnectionsReleased ==
    \A t \in Req : At(t, "done") ~> (\A i \in Apis : <<t, i>> \notin bodies)
=============================================================================
