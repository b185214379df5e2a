---------------------------- MODULE ProcessSearch ----------------------------
(***************************************************************************)
(* What LocateProcessByExecSuffix (sensor/internal/utils/process.go)       *)
(* promises its callers, as one atomic answer: a process that was there    *)
(* during the call, none before it in /proc having been there all along,   *)
(* unless its command line could not be read.                              *)
(***************************************************************************)
EXTENDS Integers

CONSTANTS
    Pid,      \* process ids; /proc lists them in ascending order
    Proc,     \* processes
    Wanted    \* those whose executable has the suffix that is searched for

None == "none"                \* no process has this pid
Pending == <<"pending">>      \* the call has not returned
NotFound == <<"not found">>
Failed == <<"failed">>        \* /proc could not be read

VARIABLES
    procs,    \* procs[p]: the process with pid p
    answer,
    ever,     \* the wanted processes there have been in /proc during the call
    steady    \* those that have been there since it began and whose command line
              \* has not failed to be read; after the call, only the one found

searchVars == <<procs, answer, ever, steady>>

Matches(t) == {m \in Pid \X Wanted : t[m[1]] = m[2]}

SearchInit ==
    /\ procs \in [Pid -> Proc \cup {None}]
    /\ answer = Pending
    /\ ever = Matches(procs)
    /\ steady = Matches(procs)

\* A process starts or exits, or a pid goes to another process.
Churn ==
    /\ \E p \in Pid, q \in Proc \cup {None} : procs' = [procs EXCEPT ![p] = q]
    /\ ever' = IF answer = Pending THEN ever \cup Matches(procs') ELSE ever
    /\ steady' = steady \cap Matches(procs')
    /\ UNCHANGED answer

\* Reading the command line of a process fails, though it runs.
Overlook ==
    /\ answer = Pending
    /\ \E m \in steady : steady' = steady \ {m}
    /\ UNCHANGED <<procs, answer, ever>>

\* "The first entry at /proc that matches the suffix is returned".
Answer ==
    /\ answer = Pending
    /\ \/ \E m \in ever : (\A s \in steady : m[1] <= s[1]) /\ answer' = m
       \/ steady = {} /\ answer' = NotFound
       \/ answer' = Failed
    /\ ever' = {} /\ steady' = steady \cap {answer'}
    /\ UNCHANGED procs

SearchSpec == SearchInit /\ [][Churn \/ Overlook \/ Answer]_searchVars
=============================================================================
