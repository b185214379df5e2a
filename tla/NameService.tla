---------------------------- MODULE NameService ----------------------------
(***************************************************************************)
(* What getUserName and getGroupName (osuserswrapper.go of                 *)
(* sensor/internal/utils) promise the requests that call them, without the *)
(* cache: an answer in one step.  A name comes from the root's own file,   *)
(* at whatever time; an error is of this very call; anything else, and the *)
(* end of the process, needs conflicting accesses to have overlapped.      *)
(***************************************************************************)
CONSTANTS
    Req, Root, Kind, Id, Name,  \* as in UserGroupCache
    NoEntry,                    \* what a file says of an id it does not have
    Err,                        \* the answers that are no names: an error,
    Torn, Panic,                \* half a string, a panic
    None                        \* no answer yet

VARIABLES
    file, said,   \* what the roots' files say, and every name they ever gave
    call, busy,   \* per request: the arguments of its call, whether it runs,
    seen,         \* what the file has said of them since the call began,
    answer,       \* and what the call returned
    up,           \* the process runs
    faulty        \* two conflicting accesses have overlapped since it started

files == <<file, said>>
calls == <<call, busy, seen, answer>>
serviceVars == <<files, calls, up, faulty>>

Content == [Kind -> [Id -> Name \cup {NoEntry}]]
Call == [kind : Kind, root : Root, id : Id]
Says(f, c) == f[c.root][c.kind][c.id]

Idle ==
    /\ call \in [Req -> Call]
    /\ busy = [t \in Req |-> FALSE]
    /\ seen = [t \in Req |-> {}]
    /\ answer = [t \in Req |-> None]

ServiceInit ==
    /\ file \in [Root -> Content]
    /\ said = [r \in Root |-> [k \in Kind |-> [d \in Id |-> {file[r][k][d]} \cap Name]]]
    /\ Idle
    /\ up = TRUE
    /\ faulty = FALSE

Ask(t) ==
    /\ ~busy[t]
    /\ busy' = [busy EXCEPT ![t] = TRUE]
    /\ \E c \in Call : call' = [call EXCEPT ![t] = c]
    /\ seen' = [seen EXCEPT ![t] = {Says(file, call'[t])}]
    /\ answer' = [answer EXCEPT ![t] = None]

MayReply(t) ==
    Says(said, call[t]) \cup {e \in {Err} : NoEntry \in seen[t]}
                        \cup {e \in {Torn, Panic} : faulty'}

Reply(t) ==
    /\ busy[t]
    /\ busy' = [busy EXCEPT ![t] = FALSE]
    /\ \E a \in MayReply(t) : answer' = [answer EXCEPT ![t] = a]
    /\ UNCHANGED <<call, seen>>

\* The process works for a request; calls may come to overlap on the way.
Serve(t) ==
    /\ up /\ up'
    /\ faulty => faulty'
    /\ UNCHANGED files
    /\ UNCHANGED calls \/ Ask(t) \/ Reply(t)

\* A fatal runtime error ends the process with all its calls.
Crash ==
    /\ up /\ ~up'
    /\ faulty'
    /\ Idle'
    /\ UNCHANGED files

\* The next container serves the same roots.
Restart ==
    /\ ~up /\ up'
    /\ ~faulty'
    /\ UNCHANGED <<files, calls>>

\* The files of root r change, while the process runs or not.
Rewrite(r) ==
    /\ \E c \in Content : file' = [file EXCEPT ![r] = c]
    /\ said' = [said EXCEPT ![r] =
                  [k \in Kind |-> [d \in Id |-> @[k][d] \cup ({file'[r][k][d]} \cap Name)]]]
    /\ seen' = [t \in Req |-> IF busy[t] THEN seen[t] \cup {Says(file', call[t])} ELSE seen[t]]
    /\ UNCHANGED <<call, busy, answer, up, faulty>>

ServiceNext ==
    \/ \E t \in Req : Serve(t)
    \/ Crash
    \/ Restart
    \/ \E r \in Root : Rewrite(r)

ServiceSpec == ServiceInit /\ [][ServiceNext]_serviceVars
=============================================================================
