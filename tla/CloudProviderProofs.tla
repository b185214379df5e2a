------------------------ MODULE CloudProviderProofs ------------------------
(***************************************************************************)
(* CloudProvider for any number of concurrent requests and metadata APIs:  *)
(* the types, the one client, and the deadline of every GET.               *)
(*                                                                         *)
(* OneClient follows because a request only ever gets the value httpClient *)
(* has, and that is assigned only while it is None, when no request can    *)
(* have got a client yet.  EveryGetHasDeadline follows because each        *)
(* request adds its own client to `timeout' before its first GET, and      *)
(* nobody removes it.                                                      *)
(***************************************************************************)
EXTENDS CloudProvider, TLAPS

\* A request past GetHttpClient has the client there is, one past the assignment
\* of Timeout has a client with a timeout, and one that waits asked an API of the
\* list with a deadline.
ClientInv ==
    \A t \in Req :
        /\ client[t] # None => client[t] = httpClient
        /\ pc[t] = "unlock" => httpClient # None
        /\ pc[t] \in {"timeout", "get", "wait", "done"} => client[t] # None
        /\ pc[t] \in {"get", "wait"} => client[t] \in timeout
        /\ pc[t] = "wait" => deadline[t] /\ api[t] <= API

Inv == TypeOK /\ ClientInv

LEMMA InitInv == Init => Inv
  BY CloudAssumption DEF Init, Inv, TypeOK, ClientInv, Client, Apis

LEMMA ClientSteps ==
  ASSUME Inv, NEW t \in Req,
         Begin(t) \/ Probe(t) \/ Lock(t) \/ Check(t) \/ Unlock(t) \/ SetTimeout(t)
  PROVE  Inv'
  <1> USE CloudAssumption DEF Inv, ClientInv, TypeOK, Client, Apis, shared, At, Goto
  <1>1. CASE Begin(t)
    BY <1>1 DEF Begin
  <1>2. CASE Probe(t)
    BY <1>2 DEF Probe
  <1>3. CASE Lock(t)
    BY <1>3 DEF Lock
  <1>4. CASE Check(t)
    BY <1>4 DEF Check
  <1>5. CASE Unlock(t)
    BY <1>5 DEF Unlock
  <1>6. CASE SetTimeout(t)
    BY <1>6 DEF SetTimeout
  <1> QED BY <1>1, <1>2, <1>3, <1>4, <1>5, <1>6

LEMMA RequestSteps ==
  ASSUME Inv, NEW t \in Req,
         Get(t) \/ Receive(t) \/ TimedOut(t) \/ NoAccess(t) \/ TimerCloses(t)
  PROVE  Inv'
  <1> USE CloudAssumption DEF Inv, ClientInv, TypeOK, Client, Apis, shared, local, At, Goto, NextAPI
  <1>1. CASE Get(t)
    <2>1. client[t] \in timeout
      BY <1>1 DEF Get
    <2>2. deadline' = [deadline EXCEPT ![t] = TRUE]
      <3>1. (client[t] \in timeout) = TRUE
        BY <2>1, Zenon
      <3> QED BY <1>1, <3>1, Zenon DEF Get
    <2>3. PICK r \in {"200", "other", "refused", "silent"} : reply' = [reply EXCEPT ![t] = r]
      BY <1>1 DEF Get
    <2>4. TypeOK'
      BY <1>1, <2>2, <2>3 DEF Get
    <2>5. ClientInv'
      BY <1>1, <2>1, <2>2 DEF Get
    <2> QED BY <2>4, <2>5
  <1>2. CASE Receive(t)
    BY <1>2 DEF Receive
  <1>3. CASE TimedOut(t)
    BY <1>3 DEF TimedOut
  <1>4. CASE NoAccess(t)
    BY <1>4 DEF NoAccess
  <1>5. CASE TimerCloses(t)
    BY <1>5 DEF TimerCloses
  <1> QED BY <1>1, <1>2, <1>3, <1>4, <1>5

LEMMA StepInv == Inv /\ [Next]_vars => Inv'
  <1> SUFFICES ASSUME Inv, [Next]_vars PROVE Inv'
    OBVIOUS
  <1>1. CASE Flip
    BY <1>1 DEF Flip, Inv, TypeOK, ClientInv, Apis, shared, local, At
  <1>2. CASE UNCHANGED vars
    BY <1>2 DEF Inv, TypeOK, ClientInv, vars, shared, local
  <1> QED BY <1>1, <1>2, ClientSteps, RequestSteps DEF Next, Run

\* The invariant holds in every reachable state.
THEOREM Invariance == Spec => []Inv
  BY InitInv, StepInv, PTL DEF Spec

\* The shared client, the lock and every request keep their types.
THEOREM TypeCorrect == Spec => []TypeOK
  <1>1. Inv => TypeOK
    BY DEF Inv
  <1> QED BY <1>1, Invariance, PTL

\* GetHttpClient gives all requests the same client, however many race for its
\* creation and although the first test of httpClient is made without the lock.
THEOREM SameClient == Spec => []OneClient
  <1>1. Inv => OneClient
    BY DEF Inv, ClientInv, OneClient
  <1> QED BY <1>1, Invariance, PTL

\* No request of SenseCloudProviderInfo sends a GET without the second's
\* deadline, whoever made the client it uses.
THEOREM GetsHaveDeadlines == Spec => []EveryGetHasDeadline
  <1>1. Inv => EveryGetHasDeadline
    BY DEF Inv, ClientInv, EveryGetHasDeadline, At
  <1> QED BY <1>1, Invariance, PTL

-----------------------------------------------------------------------------
\* An API that is up throughout has not been passed over: it is still ahead, or
\* asked and about to answer, or it has answered.
AccessInv ==
    \A t \in Req :
        /\ pc[t] = "idle" => api[t] = 1
        /\ pc[t] \notin {"idle", "done"} => steady[t] \subseteq up /\ \A i \in steady[t] : api[t] <= i
        /\ pc[t] = "wait" /\ api[t] \in steady[t] => reply[t] = "200"
        /\ pc[t] = "done" /\ answer[t] # "yes" => steady[t] = {}

LEMMA AccessStep == Inv /\ AccessInv /\ [Next]_vars => AccessInv'
  <1> SUFFICES ASSUME Inv, AccessInv, [Next]_vars PROVE AccessInv'
    OBVIOUS
  <1> USE CloudAssumption DEF Inv, TypeOK, AccessInv, Apis, shared, local, At, Goto, NextAPI
  <1>1. ASSUME NEW t \in Req, Begin(t) PROVE AccessInv'
    BY <1>1 DEF Begin
  <1>2. ASSUME NEW t \in Req, Probe(t) PROVE AccessInv'
    BY <1>2 DEF Probe
  <1>3. ASSUME NEW t \in Req, Lock(t) PROVE AccessInv'
    BY <1>3 DEF Lock
  <1>4. ASSUME NEW t \in Req, Check(t) PROVE AccessInv'
    BY <1>4 DEF Check
  <1>5. ASSUME NEW t \in Req, Unlock(t) PROVE AccessInv'
    BY <1>5 DEF Unlock
  <1>6. ASSUME NEW t \in Req, SetTimeout(t) PROVE AccessInv'
    BY <1>6 DEF SetTimeout
  <1>7. ASSUME NEW t \in Req, Get(t) PROVE AccessInv'
    BY <1>7 DEF Get
  <1>8. ASSUME NEW t \in Req, Receive(t) PROVE AccessInv'
    BY <1>8 DEF Receive
  <1>9. ASSUME NEW t \in Req, TimedOut(t) PROVE AccessInv'
    BY <1>9 DEF TimedOut
  <1>10. ASSUME NEW t \in Req, NoAccess(t) PROVE AccessInv'
    BY <1>10 DEF NoAccess
  <1>11. ASSUME NEW t \in Req, TimerCloses(t) PROVE AccessInv'
    BY <1>11 DEF TimerCloses
  <1>12. CASE Flip
    BY <1>12 DEF Flip
  <1>13. CASE UNCHANGED vars
    BY <1>13 DEF vars
  <1> QED
    BY <1>1, <1>2, <1>3, <1>4, <1>5, <1>6, <1>7, <1>8, <1>9, <1>10, <1>11, <1>12, <1>13
    DEF Next, Run

\* SenseCloudProviderInfo reports access if one API works during the whole
\* request, whatever the others do and however many requests run.
THEOREM AccessReported == Spec => []WorkingAPIFound
  <1>1. Init => AccessInv
    BY DEF Init, AccessInv
  <1>2. AccessInv => WorkingAPIFound
    BY DEF AccessInv, WorkingAPIFound, At
  <1> QED BY <1>1, <1>2, AccessStep, Invariance, PTL DEF Spec
=============================================================================
