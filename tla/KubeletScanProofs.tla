------------------------- MODULE KubeletScanProofs -------------------------
(***************************************************************************)
(* LocateProcessByExecSuffix implements the one-step search ProcessSearch, *)
(* for every set of pids and processes, however they come and go, for      *)
(* every size of the batches and whatever command lines cannot be read;    *)
(* and the sensors built on it keep the D-Bus connections counted.         *)
(*                                                                         *)
(* The search moves up through the pids.  What ran from the start is kept  *)
(* ahead of it: its pid is a name of the present batch that has not been   *)
(* looked at, or it is above everything that has been read; unless reading *)
(* its command line failed.  Hence nothing that ran throughout and could   *)
(* be read is behind the process that is found, and nothing is left of it  *)
(* when the end of the directory is reached.                               *)
(***************************************************************************)
EXTENDS KubeletScan, TLAPS

SteadyAhead ==
    \A m \in steady : procs[m[1]] = m[2] /\ (m[1] \in batch \/ m[1] > pos)

LocatorInv ==
    /\ LocatorTypeOK
    /\ answer = Pending => Search!Matches(procs) \subseteq ever /\ SteadyAhead
    /\ \A p \in batch : p <= pos

\* The three answers that are no process are told from one, and from each other.
LEMMA Answers ==
    /\ NotFound # Pending /\ Failed # Pending
    /\ \A p \in Pid, c \in Wanted : <<p, c>> # Pending
  BY DEF NotFound, Failed, Pending, Search!NotFound, Search!Failed, Search!Pending

LEMMA LocatorInitInv == LocatorInit => LocatorInv
  <1> SUFFICES ASSUME LocatorInit PROVE LocatorInv
    OBVIOUS
  <1>1. /\ procs \in [Pid -> Proc \cup {None}] /\ answer = Pending /\ pos = -1 /\ batch = {}
        /\ ever = Search!Matches(procs) /\ steady = Search!Matches(procs)
    BY DEF LocatorInit, Search!SearchInit, None, Pending
  <1>2. \A m \in Search!Matches(procs) :
          m \in Pid \X Wanted /\ m[1] \in Nat /\ procs[m[1]] = m[2]
    BY LocatorAssumption DEF Search!Matches
  <1>3. LocatorTypeOK
    BY <1>1, <1>2 DEF LocatorTypeOK
  <1>4. SteadyAhead
    BY <1>1, <1>2 DEF SteadyAhead
  <1> QED BY <1>1, <1>3, <1>4 DEF LocatorInv

LEMMA ReturnInv ==
  ASSUME LocatorInv, NEW a \in (Pid \X Wanted) \cup {NotFound, Failed}, Return(a), UNCHANGED procs
  PROVE  LocatorInv'
  BY Answers DEF LocatorInv, LocatorTypeOK, Return

LEMMA ReaddirnamesInv ==
  ASSUME LocatorInv, Readdirnames
  PROVE  LocatorInv'
  <1>1. PICK p \in batch' : (\A q \in batch' : q <= p) /\ pos' = p
    BY DEF Readdirnames
  <1>2. batch' \subseteq Ahead /\ Ahead \subseteq Pid /\ p \in Pid
    BY DEF Readdirnames, Ahead
  <1>3. \A r \in batch', q \in Ahead \ batch' : r < q
    BY DEF Readdirnames
  <1>4. /\ UNCHANGED <<procs, answer, ever, steady>> /\ pos' \in Int
        /\ LocatorTypeOK /\ answer = Pending /\ batch = {} /\ SteadyAhead
    BY <1>1, <1>2, LocatorAssumption DEF Readdirnames, Continue, LocatorInv
  <1>5. ASSUME NEW m \in steady
        PROVE  procs[m[1]] = m[2] /\ (m[1] \in batch' \/ m[1] > pos')
    <2>1. procs[m[1]] = m[2] /\ m[1] > pos /\ m[1] \in Pid /\ m[2] \in Wanted
      BY <1>4 DEF SteadyAhead, LocatorTypeOK
    <2>2. m[1] \in Ahead
      BY <2>1, LocatorAssumption DEF Ahead
    <2> QED BY <1>1, <1>2, <1>3, <2>1, <2>2
  <1>6. LocatorTypeOK'
    BY <1>2, <1>4 DEF LocatorTypeOK
  <1>7. (answer = Pending => Search!Matches(procs) \subseteq ever /\ SteadyAhead)'
    BY <1>4, <1>5 DEF LocatorInv, SteadyAhead, Search!Matches
  <1> QED BY <1>1, <1>6, <1>7 DEF LocatorInv

LEMMA ReadCmdlineInv ==
  ASSUME LocatorInv, ReadCmdline
  PROVE  LocatorInv'
  <1>1. PICK p \in Pid :
          /\ NextName(p)
          /\ \/ procs[p] \in Wanted /\ Return(<<p, procs[p]>>)
             \/ procs[p] \notin Wanted /\ batch' = batch \ {p} /\ Continue /\ UNCHANGED pos
          /\ UNCHANGED procs
    BY DEF ReadCmdline
  <1>2. p \in Pid /\ UNCHANGED procs /\ answer = Pending
    BY <1>1 DEF NextName
  <1>3. CASE procs[p] \in Wanted /\ Return(<<p, procs[p]>>)
    BY <1>2, <1>3, ReturnInv
  <1>4. CASE procs[p] \notin Wanted /\ batch' = batch \ {p} /\ Continue /\ UNCHANGED pos
    <2>1. ASSUME NEW m \in steady
          PROVE  procs[m[1]] = m[2] /\ (m[1] \in batch \ {p} \/ m[1] > pos)
      <3>1. procs[m[1]] = m[2] /\ m[2] \in Wanted /\ (m[1] \in batch \/ m[1] > pos)
        BY <1>2 DEF LocatorInv, LocatorTypeOK, SteadyAhead
      <3> QED BY <3>1, <1>4
    <2> QED BY <1>2, <1>4, <2>1 DEF LocatorInv, LocatorTypeOK, Continue, SteadyAhead, Search!Matches
  <1> QED BY <1>1, <1>3, <1>4

\* A process whose command line cannot be read is not looked for any more.
LEMMA CmdlineUnreadableInv ==
  ASSUME LocatorInv, CmdlineUnreadable
  PROVE  LocatorInv'
  <1>1. PICK p \in Pid :
          /\ NextName(p)
          /\ batch' = batch \ {p} /\ steady' = {m \in steady : m[1] # p}
          /\ UNCHANGED <<procs, answer, ever, pos>>
    BY DEF CmdlineUnreadable
  <1>2. answer = Pending
    BY <1>1 DEF NextName
  <1>3. ASSUME NEW m \in steady'
        PROVE  procs[m[1]] = m[2] /\ (m[1] \in batch' \/ m[1] > pos)
    <2>1. m \in steady /\ m[1] # p
      BY <1>1
    <2>2. procs[m[1]] = m[2] /\ (m[1] \in batch \/ m[1] > pos)
      BY <1>2, <2>1 DEF LocatorInv, SteadyAhead
    <2> QED BY <1>1, <2>1, <2>2
  <1>4. SteadyAhead'
    BY <1>1, <1>3 DEF SteadyAhead
  <1>5. LocatorTypeOK'
    BY <1>1 DEF LocatorInv, LocatorTypeOK
  <1> QED BY <1>1, <1>2, <1>4, <1>5 DEF LocatorInv, Search!Matches

LEMMA HostChurnInv ==
  ASSUME LocatorInv, HostChurn
  PROVE  LocatorInv'
  <1>1. LocatorTypeOK'
    <2>1. PICK p \in Pid, q \in Proc \cup {None} : procs' = [procs EXCEPT ![p] = q]
      BY DEF HostChurn, Search!Churn, None
    <2>2. Search!Matches(procs') \subseteq Pid \X Wanted
      BY DEF Search!Matches
    <2>3. procs' \in [Pid -> Proc \cup {None}]
      BY <2>1 DEF LocatorInv, LocatorTypeOK
    <2>4. ever' \subseteq Pid \X Wanted /\ steady' \subseteq Pid \X Wanted
      BY <2>2 DEF HostChurn, Search!Churn, LocatorInv, LocatorTypeOK
    <2> QED BY <2>3, <2>4 DEF HostChurn, Search!Churn, LocatorInv, LocatorTypeOK
  <1>2. ASSUME answer = Pending
        PROVE  Search!Matches(procs') \subseteq ever' /\ SteadyAhead'
    BY <1>2 DEF HostChurn, Search!Churn, LocatorInv, SteadyAhead, Search!Matches, Pending
  <1> QED BY <1>1, <1>2 DEF HostChurn, Search!Churn, LocatorInv, Search!Matches

LEMMA LocatorStepInv == LocatorInv /\ [Locate \/ HostChurn]_locatorVars => LocatorInv'
  <1> SUFFICES ASSUME LocatorInv, [Locate \/ HostChurn]_locatorVars PROVE LocatorInv'
    OBVIOUS
  <1>1. CASE Readdirnames
    BY <1>1, ReaddirnamesInv
  <1>2. CASE EndOfProc
    BY <1>2, ReturnInv DEF EndOfProc
  <1>3. CASE ProcUnreadable
    BY <1>3, ReturnInv DEF ProcUnreadable
  <1>4. CASE ReadCmdline
    BY <1>4, ReadCmdlineInv
  <1>5. CASE CmdlineUnreadable
    BY <1>5, CmdlineUnreadableInv
  <1>6. CASE HostChurn
    BY <1>6, HostChurnInv
  <1>7. CASE UNCHANGED locatorVars
    BY <1>7 DEF locatorVars, LocatorInv, LocatorTypeOK, SteadyAhead, Search!Matches
  <1> QED BY <1>1, <1>2, <1>3, <1>4, <1>5, <1>6, <1>7 DEF Locate

\* The invariant of the walk over /proc.
THEOREM LocatorInvariance == LocatorSpec => []LocatorInv
  BY LocatorInitInv, LocatorStepInv, PTL DEF LocatorSpec

\* Every step of the walk is the answer of ProcessSearch, a command line lost,
\* a change of the host's processes, or nothing at all to a caller.
LEMMA StepRefines ==
  ASSUME LocatorInv, [Locate \/ HostChurn]_locatorVars
  PROVE  [Search!Churn \/ Search!Overlook \/ Search!Answer]_(Search!searchVars)
  <1>1. CASE Readdirnames
    BY <1>1 DEF Readdirnames, Continue, Search!searchVars
  <1>2. CASE EndOfProc
    <2>1. steady = {}
      <3> SUFFICES ASSUME NEW m \in steady PROVE FALSE
        OBVIOUS
      <3>1. m[1] \in Pid /\ m[2] \in Wanted /\ procs[m[1]] = m[2] /\ m[1] > pos
        BY <1>2 DEF EndOfProc, LocatorInv, LocatorTypeOK, SteadyAhead
      <3> QED BY <1>2, <3>1, LocatorAssumption DEF EndOfProc, Ahead, None
    <2> QED BY <1>2, <2>1 DEF EndOfProc, Return, Search!Answer, Pending, NotFound
  <1>3. CASE ProcUnreadable
    BY <1>3 DEF ProcUnreadable, Return, Search!Answer, Pending, Failed
  <1>4. CASE ReadCmdline
    <2>1. PICK p \in Pid :
            /\ NextName(p)
            /\ \/ procs[p] \in Wanted /\ Return(<<p, procs[p]>>)
               \/ procs[p] \notin Wanted /\ batch' = batch \ {p} /\ Continue /\ UNCHANGED pos
            /\ UNCHANGED procs
      BY <1>4 DEF ReadCmdline
    <2>2. answer = Pending /\ UNCHANGED procs /\ p \in batch /\ \A q \in batch : p <= q
      BY <2>1 DEF NextName
    <2>3. CASE procs[p] \in Wanted /\ Return(<<p, procs[p]>>)
      <3>1. <<p, procs[p]>> \in ever
        BY <2>2, <2>3 DEF LocatorInv, Search!Matches
      <3>2. ASSUME NEW s \in steady PROVE p <= s[1]
        <4>1. s[1] \in Pid /\ (s[1] \in batch \/ s[1] > pos)
          BY <2>2 DEF LocatorInv, LocatorTypeOK, SteadyAhead
        <4>2. s[1] \in Int /\ p \in Int /\ pos \in Int
          <5>1. Pid \subseteq Int
            BY LocatorAssumption
          <5>2. pos \in Int
            BY DEF LocatorInv, LocatorTypeOK
          <5> QED BY <2>2, <4>1, <5>1, <5>2
        <4>3. p <= pos
          BY <2>2 DEF LocatorInv
        <4>4. \A q \in batch : p <= q
          BY <2>2
        <4> QED BY <4>1, <4>2, <4>3, <4>4
      <3> DEFINE found == <<p, procs[p]>>
      <3>3. \E m \in ever : (\A s \in steady : m[1] <= s[1]) /\ answer' = m
        <4>1. found \in ever /\ found[1] = p /\ answer' = found
          BY <3>1, <2>3 DEF Return
        <4> QED BY <4>1, <3>2
      <3> QED BY <2>2, <2>3, <3>3 DEF Return, Search!Answer, Pending
    <2>4. CASE procs[p] \notin Wanted /\ batch' = batch \ {p} /\ Continue /\ UNCHANGED pos
      BY <2>2, <2>4 DEF Continue, Search!searchVars
    <2> QED BY <2>1, <2>3, <2>4
  <1>5. CASE CmdlineUnreadable
    <2>1. PICK p \in Pid :
            /\ NextName(p)
            /\ steady' = {m \in steady : m[1] # p}
            /\ UNCHANGED <<procs, answer, ever>>
      BY <1>5 DEF CmdlineUnreadable
    <2>2. answer = Pending /\ \A m \in steady : m \in Pid \X Wanted /\ procs[m[1]] = m[2]
      BY <2>1 DEF NextName, LocatorInv, LocatorTypeOK, SteadyAhead
    <2>3. CASE \E m \in steady : m[1] = p
      <3>1. PICK m \in steady : m[1] = p
        BY <2>3
      <3>2. \A n \in steady : n[1] = p => n = m
        BY <2>2, <3>1
      <3>3. steady' = steady \ {m}
        BY <2>1, <3>1, <3>2
      <3> QED BY <2>1, <2>2, <3>1, <3>3 DEF Search!Overlook, Pending
    <2>4. CASE ~\E m \in steady : m[1] = p
      <3>1. steady' = steady
        BY <2>1, <2>4
      <3> QED BY <2>1, <3>1 DEF Search!searchVars
    <2> QED BY <2>3, <2>4
  <1>6. CASE HostChurn
    BY <1>6 DEF HostChurn
  <1>7. CASE UNCHANGED locatorVars
    BY <1>7 DEF locatorVars, Search!searchVars
  <1> QED BY <1>1, <1>2, <1>3, <1>4, <1>5, <1>6, <1>7 DEF Locate

\* LocateProcessByExecSuffix, with its batches and its races, does what the
\* one-step search of ProcessSearch promises.
THEOREM LocatorRefines == LocatorSpec => ImplementsSearch
  <1>1. LocatorInit => Search!SearchInit
    BY DEF LocatorInit
  <1>2. LocatorInv /\ [Locate \/ HostChurn]_locatorVars
          => [Search!Churn \/ Search!Overlook \/ Search!Answer]_(Search!searchVars)
    BY StepRefines
  <1> QED BY <1>1, <1>2, LocatorInvariance, PTL DEF LocatorSpec, ImplementsSearch, Search!SearchSpec

-----------------------------------------------------------------------------
(* The sensors.  The invariant says what the report may hold, and how many *)
(* D-Bus connections there are after each call made to set them up.        *)

Service == {Nil, <<"default">>} \cup {<<q>> : q \in Proc}
Field == Flag \cup {"service", "content"}
Value == Located \cup Service \cup Content \cup {Unset}

ReportTyped ==
    /\ report \in [Field -> Value]
    /\ report["service"] \in Service
    /\ report["content"] \in Content \cup {Unset}
    /\ \A f \in Flag : report[f] \in Located \cup {Nil}

ScanTyped ==
    /\ sensor \in Sensor
    /\ args \in Arguments
    /\ pc \in {"locate", "bus", "unit", "services", "done"} \cup Flag
    /\ tried \in 0..1 /\ moves \in 0..MaxMoves /\ broken \in BOOLEAN
    /\ ReportTyped

\* The sensor goes on only with the pid of a process.
Order ==
    /\ pc \notin {"locate", "done"} => answer \in Pid \X Wanted
    /\ answer = Pending => pc = "locate"

\* One connection after the first call, two after the fourth.
BusCounted ==
    /\ pc = "locate" => calls = 0 /\ bus = 0 /\ ~broken
    /\ pc = "bus" => /\ ~broken
                     /\ \/ calls = 0 /\ bus = 0
                        \/ calls \in {1, 2, 3} /\ bus = 1
                        \/ calls \in {4, 5} /\ bus = 2
    /\ pc = "unit" => ~broken /\ calls = 6 /\ bus = 2
    /\ pc \notin {"locate", "bus", "unit"} =>
         calls = 0 /\ (bus = 0 \/ (bus = 1 /\ broken))

ScanInv == ScanTyped /\ Order /\ BusCounted

LEMMA ScanInitInv == Init => ScanInv
<1> SUFFICES ASSUME Init PROVE ScanInv
  OBVIOUS
<1>1. /\ sensor \in Sensor /\ args = [f \in Flag |-> Unset] /\ pc = "locate" /\ tried = 0
      /\ calls = 0 /\ bus = 0 /\ broken = FALSE /\ moves = 0
      /\ answer = Pending /\ steady = Search!Matches(procs)
  BY DEF Init, LocatorInit, Search!SearchInit, Pending
<1>2. /\ report["service"] = Nil /\ report["content"] = Unset
      /\ \A f \in Flag : report[f] = Nil
      /\ report \in [Field -> {Nil, Unset}]
  BY DEF Init, Field, Flag
<1>3. ReportTyped
  <2>1. Nil \in Value /\ Unset \in Value /\ Nil \in Service
    BY DEF Value, Service
  <2> QED
    BY <1>2, <2>1 DEF ReportTyped
<1>4. args \in Arguments
  BY <1>1 DEF Arguments
<1>5. ScanTyped
  <2>1. tried \in 0..1 /\ moves \in 0..MaxMoves
    BY <1>1, ScanAssumption
  <2>2. broken \in BOOLEAN
    BY <1>1
  <2> QED
    BY <1>1, <1>3, <1>4, <2>1, <2>2 DEF ScanTyped
<1>6. Order
  BY <1>1 DEF Order
<1>7. BusCounted
  BY <1>1 DEF BusCounted
<1> QED
  BY <1>5, <1>6, <1>7 DEF ScanInv

\* During the search the sensor waits.
LEMMA SearchKeepsScan ==
  ASSUME LocatorInv, ScanInv, Locate \/ (HostChurn /\ answer = Pending), UNCHANGED scanVars
  PROVE  ScanInv'
<1>1. pc = "locate"
  BY DEF ScanInv, Order, Locate, Readdirnames, EndOfProc, ProcUnreadable, ReadCmdline,
         CmdlineUnreadable, NextName
<1>2. UNCHANGED <<moves, sensor, args, pc, tried, calls, bus, broken, report>>
  BY DEF scanVars
<1>3. ScanTyped'
  BY <1>2, Zenon DEF ScanInv, ScanTyped, ReportTyped
<1>4. Order'
  BY <1>1, <1>2 DEF Order
<1>5. BusCounted'
  BY <1>2, Zenon DEF ScanInv, BusCounted
<1> QED
  BY <1>3, <1>4, <1>5 DEF ScanInv

\* Processes that come and go change no report.
LEMMA MoveKeepsScan ==
  ASSUME LocatorInv, ScanInv, Move
  PROVE  ScanInv'
<1>1. UNCHANGED <<sensor, args, pc, tried, calls, bus, broken, report>> /\ moves' = moves + 1
      /\ moves < MaxMoves /\ HostChurn
  BY DEF Move
<1>2. answer' = answer
  BY <1>1 DEF HostChurn, Search!Churn
<1>4. ScanTyped'
  <2>1. moves \in 0..MaxMoves
    BY DEF ScanInv, ScanTyped
  <2>2. moves' \in 0..MaxMoves
    BY <1>1, <2>1, ScanAssumption
  <2> QED
    BY <1>1, <2>2, Zenon DEF ScanInv, ScanTyped, ReportTyped
<1>5. Order'
  BY <1>1, <1>2 DEF ScanInv, Order
<1>6. BusCounted'
  BY <1>1, Zenon DEF ScanInv, BusCounted
<1> QED
  BY <1>4, <1>5, <1>6 DEF ScanInv

LEMMA FoundInv ==
  ASSUME LocatorInv, ScanInv, Found
  PROVE  ScanInv'
<1>1. /\ pc = "locate" /\ answer # Pending /\ UNCHANGED locatorVars
      /\ UNCHANGED <<moves, sensor, tried, calls, bus, broken, report>>
      /\ pc' = IF answer \in {NotFound, Failed} THEN "done" ELSE First
  BY DEF Found
<1>2. First \in {"bus", "--kubeconfig"} /\ "--kubeconfig" \in Flag
  BY DEF First, Flag
<1>3. args' \in Arguments
  BY DEF Found, ScanInv, ScanTyped
<1>4. ScanTyped'
  BY <1>1, <1>2, <1>3, Zenon DEF ScanInv, ScanTyped, ReportTyped
<1>5. answer' = answer
  BY <1>1 DEF locatorVars
<1>6. Order'
  BY <1>1, <1>2, <1>5 DEF Order, LocatorInv, LocatorTypeOK
<1>7. BusCounted'
  BY <1>1, <1>2 DEF ScanInv, BusCounted
<1> QED
  BY <1>4, <1>6, <1>7 DEF ScanInv

\* A step that describes nothing.
LEMMA QuietScan ==
  ASSUME ScanInv, UNCHANGED <<locatorVars, moves, sensor, args, report>>,
         pc \notin {"locate", "done"}, pc' \in {"bus", "unit", "services", "done"} \cup Flag,
         tried' \in 0..1, broken' \in BOOLEAN, BusCounted'
  PROVE  ScanInv'
<1>1. ScanTyped'
  BY Zenon DEF ScanInv, ScanTyped, ReportTyped
<1>2. answer' = answer
  BY DEF locatorVars
<1>3. pc' # "locate"
  BY DEF Flag
<1>4. Order'
  BY <1>2, <1>3 DEF ScanInv, Order
<1> QED
  BY <1>1, <1>4 DEF ScanInv

\* The report gets the directory of the service files, or loses it.
LEMMA ServiceInv ==
  ASSUME ScanInv, UNCHANGED <<locatorVars, moves, sensor, args, tried>>,
         pc \notin {"locate", "done"}, pc' \in {"services", "--config"},
         NEW s \in Service, report' = [report EXCEPT !.service = s],
         broken' \in BOOLEAN, BusCounted'
  PROVE  ScanInv'
<1>0. "service" \in Field /\ \A f \in Flag : f \in Field /\ f # "service"
  BY DEF Field, Flag
<1>1. report \in [Field -> Value] /\ s \in Value
  BY DEF ScanInv, ScanTyped, ReportTyped, Value
<1>2. /\ report' \in [Field -> Value] /\ report'["service"] = s
      /\ report'["content"] = report["content"]
      /\ \A f \in Flag : report'[f] = report[f]
  BY <1>0, <1>1 DEF Field
<1>3. ReportTyped'
  BY <1>2 DEF ScanInv, ScanTyped, ReportTyped
<1>4. pc' \in {"services"} \cup Flag
  BY DEF Flag
<1>5. ScanTyped'
  BY <1>3, <1>4, Zenon DEF ScanInv, ScanTyped
<1>6. answer' = answer
  BY DEF locatorVars
<1>7. Order'
  BY <1>6 DEF ScanInv, Order
<1> QED
  BY <1>5, <1>7 DEF ScanInv

\* The two connections are set up call by call.
LEMMA BusCallInv == ScanInv /\ BusCall => ScanInv'
<1> SUFFICES ASSUME ScanInv, BusCall PROVE ScanInv'
  OBVIOUS
<1>1. /\ pc = "bus" /\ calls' = calls + 1 /\ bus' = IF calls % 3 = 0 THEN bus + 1 ELSE bus
      /\ pc' = IF calls' = 6 THEN "unit" ELSE "bus"
      /\ UNCHANGED <<locatorVars, moves, sensor, args, tried, broken, report>>
  BY DEF BusCall
<1>2. ~broken /\ \/ calls = 0 /\ bus = 0
                 \/ calls \in {1, 2, 3} /\ bus = 1
                 \/ calls \in {4, 5} /\ bus = 2
  BY <1>1, Zenon DEF ScanInv, BusCounted
<1>3. \/ pc' = "bus" /\ calls' \in {1, 2, 3} /\ bus' = 1
      \/ pc' = "bus" /\ calls' \in {4, 5} /\ bus' = 2
      \/ pc' = "unit" /\ calls' = 6 /\ bus' = 2
  BY <1>1, <1>2, SMT
<1>4. ~broken'
  BY <1>1, <1>2, Zenon
<1>5. BusCounted'
  BY <1>3, <1>4 DEF BusCounted
<1>6. tried' \in 0..1 /\ broken' \in BOOLEAN
  BY <1>1, Zenon DEF ScanInv, ScanTyped
<1> QED
  BY <1>1, <1>3, <1>5, <1>6, QuietScan

\* An error of any of the six calls: the first connection is closed if the
\* second fails, so that at most the one that Auth or Hello failed on stays open.
LEMMA BusFailsInv == ScanInv /\ BusFails => ScanInv'
<1> SUFFICES ASSUME ScanInv, BusFails PROVE ScanInv'
  OBVIOUS
<1>1. /\ pc = "bus" /\ bus' = (IF calls >= 3 THEN bus - 1 ELSE bus)
      /\ pc' = "services" /\ calls' = 0 /\ broken' = (broken \/ calls % 3 # 0)
      /\ report' = [report EXCEPT !.service = <<"default">>]
      /\ UNCHANGED <<locatorVars, moves, sensor, args, tried>>
  BY DEF BusFails
<1>2. \/ calls = 0 /\ bus = 0
      \/ calls \in {1, 2, 3} /\ bus = 1
      \/ calls \in {4, 5} /\ bus = 2
  BY <1>1, Zenon DEF ScanInv, BusCounted
<1>3. bus' = 0 \/ (bus' = 1 /\ calls % 3 # 0)
  BY <1>1, <1>2, SMT
<1>4. bus' = 0 \/ (bus' = 1 /\ broken')
  BY <1>1, <1>3, Zenon
<1>5. BusCounted'
  BY <1>1, <1>4 DEF BusCounted
<1>6. broken' \in BOOLEAN
  BY <1>1, Zenon
<1>7. <<"default">> \in Service
  BY DEF Service
<1> QED
  BY <1>1, <1>5, <1>6, <1>7, ServiceInv

LEMMA AskSystemdInv ==
  ASSUME LocatorInv, ScanInv, AskSystemd
  PROVE  ScanInv'
<1>1. /\ pc = "unit" /\ bus' = 0 /\ calls' = 0 /\ pc' = "services"
      /\ UNCHANGED <<locatorVars, moves, sensor, args, tried, broken>>
  BY DEF AskSystemd
<1>2. PICK dir \in {<<"default">>} \cup {<<q>> : q \in {Owner} \ {None}} :
        report' = [report EXCEPT !.service = dir]
  BY DEF AskSystemd
<1>3. answer \in Pid \X Wanted /\ Owner \in Proc \cup {None}
  BY <1>1 DEF ScanInv, Order, Owner, LocatorInv, LocatorTypeOK
<1>4. dir \in Service
  BY <1>3 DEF Service
<1>5. BusCounted' /\ broken' \in BOOLEAN
  BY <1>1, Zenon DEF BusCounted, ScanInv, ScanTyped
<1> QED
  BY <1>1, <1>2, <1>4, <1>5, ServiceInv

LEMMA ServiceFilesInv == ScanInv /\ ServiceFiles => ScanInv'
<1> SUFFICES ASSUME ScanInv, ServiceFiles PROVE ScanInv'
  OBVIOUS
<1>1. /\ pc = "services" /\ pc' = "--config" /\ "--config" \in Flag
      /\ UNCHANGED <<locatorVars, moves, sensor, args, tried, calls, bus, broken>>
  BY DEF ServiceFiles, Flag
<1>2. broken' \in BOOLEAN /\ tried' \in 0..1
  BY <1>1, Zenon DEF ScanInv, ScanTyped
<1>3. BusCounted'
  BY <1>1 DEF ScanInv, BusCounted
<1>4. CASE report' = [report EXCEPT !.service = Nil]
  <2>1. Nil \in Service
    BY DEF Service
  <2> QED
    BY <1>1, <1>2, <1>3, <1>4, <2>1, ServiceInv
<1>5. CASE UNCHANGED report
  BY <1>1, <1>2, <1>3, <1>5, QuietScan
<1> QED
  BY <1>4, <1>5 DEF ServiceFiles

\* The paths that may be described.
Path == {Empty, "/flag", "/named"} \cup
          UNION {{DefaultPaths[f][i] : i \in DOMAIN DefaultPaths[f]} : f \in Flag}

LEMMA DefaultFacts ==
  ASSUME NEW f \in Flag
  PROVE  /\ Len(DefaultPaths[f]) \in 0..2
         /\ \A i \in 1..Len(DefaultPaths[f]) : DefaultPaths[f][i] \in Path
<1>1. \/ DefaultPaths[f] = <<"/var/lib/kubelet/config.yaml",
                             "/etc/kubernetes/kubelet/kubelet-config.json">>
      \/ DefaultPaths[f] = <<"/etc/kubernetes/kubelet.conf", "/var/lib/kubelet/kubeconfig">>
      \/ DefaultPaths[f] = <<>>
  BY DEF DefaultPaths, Flag
<1>2. Len(DefaultPaths[f]) \in 0..2 /\ DOMAIN DefaultPaths[f] = 1..Len(DefaultPaths[f])
  <2>1. ASSUME NEW a, NEW b, DefaultPaths[f] = <<a, b>>
        PROVE  Len(DefaultPaths[f]) = 2 /\ DOMAIN DefaultPaths[f] = 1..2
    BY <2>1
  <2>2. ASSUME DefaultPaths[f] = <<>>
        PROVE  Len(DefaultPaths[f]) = 0 /\ DOMAIN DefaultPaths[f] = 1..0
    BY <2>2
  <2> QED
    BY <1>1, <2>1, <2>2
<1>3. \A i \in DOMAIN DefaultPaths[f] : DefaultPaths[f][i] \in Path
  <2> DEFINE Of(g) == {DefaultPaths[g][i] : i \in DOMAIN DefaultPaths[g]}
  <2>1. Path = {Empty, "/flag", "/named"} \cup UNION {Of(g) : g \in Flag}
    BY DEF Path
  <2>2. \A i \in DOMAIN DefaultPaths[f] : DefaultPaths[f][i] \in Of(f)
    OBVIOUS
  <2> HIDE DEF Of
  <2> QED
    BY <2>1, <2>2
<1> QED
  BY <1>2, <1>3

\* At most two paths are tried for a flag, all of them known.
LEMMA CandidateFacts ==
  ASSUME ScanInv, NEW f \in Flag
  PROVE  /\ Len(Candidates(f)) \in 0..2
         /\ \A i \in 1..Len(Candidates(f)) : Candidates(f)[i] \in Path
<1>0. args[f] \in {Unset, Empty, "/flag"} /\ ClientCA \in Path
  <2>1. args \in [Flag -> {Unset, Empty, "/flag"}]
    BY DEF ScanInv, ScanTyped, Arguments
  <2> QED
    BY <2>1 DEF ClientCA, Path, Flag
<1>1. CASE f = "--client-ca-file"
  <2>1. Candidates(f) = <<>> \/ Candidates(f) = <<ClientCA>>
    BY <1>1 DEF Candidates
  <2> QED
    BY <1>0, <2>1
<1>2. CASE f # "--client-ca-file" /\ args[f] # Unset
  <2>1. args[f] \in Path
    BY <1>0, <1>2 DEF Path
  <2>2. Candidates(f) = <<args[f]>>
    BY <1>2 DEF Candidates
  <2> QED
    BY <2>1, <2>2
<1>3. CASE f # "--client-ca-file" /\ args[f] = Unset
  <2>1. Candidates(f) = DefaultPaths[f] \/ Candidates(f) = <<>>
    BY <1>3 DEF Candidates
  <2> QED
    BY <2>1, DefaultFacts
<1> QED
  BY <1>1, <1>2, <1>3

LEMMA AfterFacts ==
  ASSUME NEW f \in Flag
  PROVE  After(f) \in {"bus", "unit", "services", "done"} \cup Flag
         /\ After(f) \notin {"locate", "bus", "unit"}
         /\ f \notin {"locate", "done", "bus", "unit", "services"}
  BY DEF After, Flag

LEMMA FileBus ==
  ASSUME ScanInv, pc \in Flag, pc' \notin {"locate", "bus", "unit"},
         UNCHANGED <<calls, bus, broken>>
  PROVE  BusCounted' /\ broken' \in BOOLEAN
<1>1. calls = 0 /\ (bus = 0 \/ (bus = 1 /\ broken))
  <2>1. pc \notin {"locate", "bus", "unit"}
    BY DEF Flag
  <2> QED
    BY <2>1, Zenon DEF ScanInv, BusCounted
<1>2. broken' \in BOOLEAN
  BY Zenon DEF ScanInv, ScanTyped
<1>3. calls' = 0 /\ (bus' = 0 \/ (bus' = 1 /\ broken'))
  BY <1>1, Zenon
<1> QED
  BY <1>2, <1>3, Zenon DEF BusCounted

LEMMA MissingInv ==
  ASSUME ScanInv, NEW f \in Flag, Missing(f)
  PROVE  ScanInv'
<1>1. pc = f /\ UNCHANGED <<locatorVars, moves, sensor, args, calls, bus, broken, report>>
  BY DEF Missing
<1>2. \/ tried + 1 < Len(Candidates(f)) /\ tried' = tried + 1 /\ pc' = pc
      \/ tried' = 0 /\ pc' = After(f)
  BY DEF Missing
<1>3. tried \in 0..1 /\ Len(Candidates(f)) \in 0..2
  BY CandidateFacts DEF ScanInv, ScanTyped
<1>4. tried' \in 0..1
  <2> DEFINE n == Len(Candidates(f))
  <2>1. tried' = 0 \/ (tried + 1 < n /\ tried' = tried + 1)
    BY <1>2
  <2>2. n \in 0..2 /\ tried \in 0..1
    BY <1>3
  <2> HIDE DEF n
  <2> QED
    BY <2>1, <2>2
<1>5. pc' \in {"bus", "unit", "services", "done"} \cup Flag
      /\ pc' \notin {"locate", "bus", "unit"} /\ pc \notin {"locate", "done"}
  BY <1>1, <1>2, AfterFacts
<1> QED
  BY <1>1, <1>4, <1>5, FileBus, QuietScan

\* A description is of the process that has the pid.
LEMMA DescribedInv ==
  ASSUME LocatorInv, ScanInv, NEW f \in Flag, Described(f)
  PROVE  ScanInv'
<1>1. /\ pc = f /\ tried < Len(Candidates(f)) /\ Owner # None
      /\ pc' = After(f) /\ tried' = 0
      /\ UNCHANGED <<locatorVars, moves, sensor, args, calls, bus, broken>>
  BY DEF Described
<1> DEFINE path == Candidates(f)[tried + 1]
<1>2. PICK c \in Content \cup {report["content"]} :
        /\ report' = [report EXCEPT ![f] = <<Owner, path>>, !.content = c]
        /\ f # "--config" => c = report["content"]
  BY DEF Described
<1>3. pc \notin {"locate", "done"} /\ pc' \notin {"locate", "bus", "unit"}
  BY <1>1, AfterFacts
<1>4. answer \in Pid \X Wanted /\ Owner \in Proc
  BY <1>1, <1>3 DEF ScanInv, Order, Owner, LocatorInv, LocatorTypeOK
<1>5. path \in Path
  <2>1. tried \in 0..1 /\ Len(Candidates(f)) \in 0..2
    BY CandidateFacts DEF ScanInv, ScanTyped
  <2>2. tried + 1 \in 1..Len(Candidates(f))
    BY <1>1, <2>1
  <2> QED
    BY <2>2, CandidateFacts
<1> HIDE DEF path
<1>6. <<Owner, path>> \in Located
  BY <1>4, <1>5 DEF Located, Path
<1>7. /\ report \in [Field -> Value] /\ report["content"] \in Content \cup {Unset}
      /\ <<Owner, path>> \in Value /\ c \in Value /\ c \in Content \cup {Unset}
  BY <1>6 DEF ScanInv, ScanTyped, ReportTyped, Value
<1>8. /\ report' \in [Field -> Value]
      /\ report'["service"] = report["service"] /\ report'["content"] = c
      /\ report'[f] = <<Owner, path>>
      /\ \A g \in Flag : g # f => report'[g] = report[g]
  <2>1. f \in Field /\ "content" \in Field /\ "service" \in Field /\ Flag \subseteq Field
    BY DEF Field
  <2>2. "content" \notin Flag /\ "service" \notin Flag
    BY DEF Flag
  <2> HIDE DEF Field
  <2> QED
    BY <1>2, <1>7, <2>1, <2>2
<1>9. ScanTyped'
  <2>1. ReportTyped'
    BY <1>6, <1>7, <1>8 DEF ScanInv, ScanTyped, ReportTyped
  <2>2. tried' \in 0..1
    BY <1>1
  <2>3. pc' \in {"locate", "bus", "unit", "services", "done"} \cup Flag
    BY <1>1, AfterFacts
  <2> QED
    BY <1>1, <2>1, <2>2, <2>3, Zenon DEF ScanInv, ScanTyped
<1>10. answer' = answer
  BY <1>1 DEF locatorVars
<1>11. Order'
  BY <1>3, <1>4, <1>10 DEF ScanInv, Order
<1>12. BusCounted'
  BY <1>1, <1>3, FileBus
<1> QED
  BY <1>9, <1>11, <1>12 DEF ScanInv

-----------------------------------------------------------------------------
Both == LocatorInv /\ ScanInv

\* A step of the sensor, of its search or of the host.
LEMMA BothStep == Both /\ [Next]_vars => Both'
<1> SUFFICES ASSUME LocatorInv, ScanInv, [Next]_vars PROVE LocatorInv' /\ ScanInv'
  BY DEF Both
<1>1. CASE Locate /\ UNCHANGED scanVars
  BY <1>1, LocatorStepInv, SearchKeepsScan
<1>2. CASE HostChurn /\ answer = Pending /\ UNCHANGED scanVars
  BY <1>2, LocatorStepInv, SearchKeepsScan
<1>3. CASE Move
  BY <1>3, LocatorStepInv, MoveKeepsScan DEF Move
<1>4. CASE Scan
  <2>1. UNCHANGED locatorVars
    BY <1>4 DEF Scan, Found, BusCall, BusFails, AskSystemd, ServiceFiles, Described, Missing
  <2>2. ScanInv'
    BY <1>4, FoundInv, BusCallInv, BusFailsInv, AskSystemdInv, ServiceFilesInv, DescribedInv,
       MissingInv DEF Scan
  <2> QED
    BY <2>1, <2>2, LocatorStepInv
<1>5. CASE UNCHANGED vars
  <2>1. UNCHANGED locatorVars /\ UNCHANGED scanVars
    BY <1>5 DEF vars
  <2>2. UNCHANGED <<moves, sensor, args, pc, tried, calls, bus, broken, report>>
    BY <2>1 DEF scanVars
  <2>3. answer' = answer
    BY <2>1 DEF locatorVars
  <2>4. ScanTyped' /\ BusCounted'
    BY <2>2, Zenon DEF ScanInv, ScanTyped, ReportTyped, BusCounted
  <2>5. Order'
    BY <2>2, <2>3 DEF ScanInv, Order
  <2> QED
    BY <2>1, <2>4, <2>5, LocatorStepInv DEF ScanInv
<1> QED
  BY <1>1, <1>2, <1>3, <1>4, <1>5 DEF Next

\* The invariants of the search and of the sensor hold together.
THEOREM Invariance == Spec => []Both
<1>1. Init => Both
  BY LocatorInitInv, ScanInitInv DEF Init, Both
<1> QED
  BY <1>1, BothStep, PTL DEF Spec

\* The sensors' state keeps its types, whatever processes come and go.
THEOREM TypeCorrect == Spec => []TypeOK
<1>1. Both => TypeOK
  <2> SUFFICES ASSUME LocatorInv, ScanInv PROVE TypeOK
    BY DEF Both
  <2>1. calls \in 0..6 /\ bus \in 0..2
    <3>1. \/ calls = 0 /\ bus = 0
          \/ calls \in {1, 2, 3} /\ bus = 1
          \/ calls \in {4, 5} /\ bus = 2
          \/ calls = 6 /\ bus = 2
          \/ calls = 0 /\ bus = 1
      BY Zenon DEF ScanInv, BusCounted
    <3> QED
      BY <3>1
  <2>2. pc \in {"locate", "bus", "unit", "services", "--config", "--kubeconfig",
                "--client-ca-file", "done"}
    BY DEF ScanInv, ScanTyped, Flag
  <2>3. /\ report.service \in {Nil, <<"default">>} \cup {<<q>> : q \in Proc}
        /\ report.content \in Content \cup {Unset}
        /\ \A f \in Flag : report[f] \in Located \cup {Nil}
    BY DEF ScanInv, ScanTyped, ReportTyped, Service
  <2> QED
    BY <2>1, <2>2, <2>3, Zenon DEF TypeOK, LocatorInv, ScanInv, ScanTyped
<1> QED
  BY <1>1, Invariance, PTL

\* GetKubeletServiceFiles leaves no D-Bus connection behind but one that the bus
\* has refused.
THEOREM BusClosed == Spec => []ConnectionsClosed
<1>1. Both => ConnectionsClosed
  <2> SUFFICES ASSUME ScanInv, pc = "done" PROVE bus <= IF broken THEN 1 ELSE 0
    BY DEF Both, ConnectionsClosed, Done
  <2>1. bus = 0 \/ (bus = 1 /\ broken)
    BY DEF ScanInv, BusCounted
  <2>2. CASE broken
    BY <2>1, <2>2
  <2>3. CASE ~broken
    BY <2>1, <2>3
  <2> QED
    BY <2>2, <2>3
<1> QED
  BY <1>1, Invariance, PTL

\* To the sensors' search the rest of the request is the host's churn: within a
\* request, too, LocateProcessByExecSuffix does what ProcessSearch promises.
THEOREM SearchWithinRequest == Spec => ImplementsSearch
<1>1. Init => LocatorInit
  BY DEF Init
<1>2. [Next]_vars => [Locate \/ HostChurn]_locatorVars
  BY DEF Next, Move, Scan, Found, BusCall, BusFails, AskSystemd, ServiceFiles, Described, Missing,
         vars
<1>3. Spec => LocatorSpec
  BY <1>1, <1>2, PTL DEF Spec, LocatorSpec
<1> QED
  BY <1>3, LocatorRefines
=============================================================================
