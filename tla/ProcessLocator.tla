--------------------------- MODULE ProcessLocator ---------------------------
(***************************************************************************)
(* LocateProcessByExecSuffix (sensor/internal/utils/process.go): /proc is  *)
(* read in batches of names, and the command line of each name is read in  *)
(* turn, while processes start and exit and pids are reused.               *)
(*                                                                         *)
(* A command line is the process it belongs to.  Names that are no numbers *)
(* are skipped by the code and left out here.                              *)
(***************************************************************************)
EXTENDS Integers, FiniteSets

CONSTANTS
    Pid, Proc, Wanted,
    BatchSize          \* names per Readdirnames (100 in the code)

VARIABLES
    procs, answer, ever, steady,  \* as in ProcessSearch
    pos,      \* the pid at which the next batch starts is above this one
    batch     \* names of the present batch that have not been looked at

\* The batches and their position are not seen by a caller.
Search == INSTANCE ProcessSearch WITH procs <- procs, answer <- answer, ever <- ever,
                                      steady <- steady
None == Search!None
Pending == Search!Pending
NotFound == Search!NotFound
Failed == Search!Failed

ASSUME LocatorAssumption ==
    /\ Pid \subseteq Nat
    /\ Wanted \subseteq Proc
    /\ None \notin Proc
    /\ BatchSize \in Nat \ {0}

locatorVars == <<procs, ever, steady, answer, pos, batch>>

LocatorTypeOK ==
    /\ procs \in [Pid -> Proc \cup {None}]
    /\ ever \subseteq Pid \X Wanted
    /\ steady \subseteq Pid \X Wanted
    /\ answer \in (Pid \X Wanted) \cup {Pending, NotFound, Failed}
    /\ pos \in Int
    /\ batch \subseteq Pid

LocatorInit ==
    /\ Search!SearchInit
    /\ pos = -1
    /\ batch = {}

\* The call returns a, and /proc is closed.
Return(a) ==
    /\ answer' = a /\ ever' = {} /\ steady' = steady \cap {a}
    /\ pos' = -1 /\ batch' = {}
Continue == UNCHANGED <<answer, ever, steady>>

Ahead == {p \in Pid : p > pos /\ procs[p] # None}

\* Mutant: every batch starts at the beginning of the directory.
Readdirnames_Rewinds ==
    /\ answer = Pending /\ batch = {} /\ Ahead # {}
    /\ batch' = {p \in Ahead : \A q \in Ahead : p <= q}
    /\ Continue /\ UNCHANGED <<procs, pos>>

\* Mutant: a batch skips what does not fit into it.
Readdirnames_Skips ==
    /\ answer = Pending /\ batch = {} /\ Ahead # {}
    /\ batch' = {p \in Ahead : \A q \in Ahead : q <= p}
    /\ pos' \in batch'
    /\ Continue /\ UNCHANGED procs

\* procDir.Readdirnames(100): the next names, in the order of the pids.
Readdirnames ==
    /\ answer = Pending /\ batch = {} /\ Ahead # {}
    /\ batch' \in {b \in SUBSET Ahead : /\ b # {} /\ Cardinality(b) <= BatchSize
                                        /\ \A p \in b, q \in Ahead \ b : p < q}
    /\ \E p \in batch' : (\A q \in batch' : q <= p) /\ pos' = p
    /\ Continue /\ UNCHANGED procs

\* io.EOF: "no process with given suffix found".
EndOfProc ==
    /\ answer = Pending /\ batch = {} /\ Ahead = {}
    /\ Return(NotFound) /\ UNCHANGED procs

\* os.Open or Readdirnames fails.
ProcUnreadable ==
    /\ answer = Pending /\ batch = {}
    /\ Return(Failed) /\ UNCHANGED procs

NextName(p) == answer = Pending /\ p \in batch /\ \A q \in batch : p <= q

\* os.ReadFile of the next cmdline.  A process that is gone, or that has no
\* command line, is passed over; the pid found is that of the directory read.
ReadCmdline ==
    \E p \in Pid :
      /\ NextName(p)
      /\ \/ procs[p] \in Wanted /\ Return(<<p, procs[p]>>)
         \/ procs[p] \notin Wanted /\ batch' = batch \ {p} /\ Continue /\ UNCHANGED pos
      /\ UNCHANGED procs

\* Any error of it is ignored, also that of a process which has not died: there is
\* no descriptor left, no memory, or the file may not be read.
CmdlineUnreadable ==
    \E p \in Pid :
      /\ NextName(p)
      /\ batch' = batch \ {p} /\ steady' = {m \in steady : m[1] # p}
      /\ UNCHANGED <<procs, answer, ever, pos>>

Locate == Readdirnames \/ EndOfProc \/ ProcUnreadable \/ ReadCmdline \/ CmdlineUnreadable

\* The host's processes change, whatever the scanner does.
HostChurn == Search!Churn /\ UNCHANGED <<pos, batch>>

LocatorSpec == LocatorInit /\ [][Locate \/ HostChurn]_locatorVars

-----------------------------------------------------------------------------
(* Properties.                                                             *)

\* LocateProcessByExecSuffix keeps the promise of ProcessSearch although it
\* reads /proc in batches and processes come and go between any two reads: what
\* it returns was there with that pid, nothing that ran throughout and could be
\* read is overlooked, and of several such processes the first is taken.
ImplementsSearch == Search!SearchSpec

\* However fast processes come and go, a search ends: it only moves up.
SearchEnds == <>(answer # Pending)
=============================================================================
