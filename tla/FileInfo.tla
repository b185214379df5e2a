------------------------------ MODULE FileInfo ------------------------------
(***************************************************************************)
(* How a file of a root directory is described:                            *)
(* makeContaineredFileInfoFromListVerbose and its single-path variants     *)
(* (sensor/verboseutils.go) over MakeChangedRootFileInfo and MakeFileInfo  *)
(* (sensor/internal/utils/utils.go).  The permissions, the owner and the   *)
(* content come from three system calls on the path, between which the     *)
(* file may be replaced, removed or made.                                  *)
(*                                                                         *)
(* A version is one state of a file: its mode, owner and content.  A field *)
(* of the report is the version it was read from.  getUserName and         *)
(* getGroupName are used by what UserGroupCacheProofs proves of them: they *)
(* give a name that the root's file gave for the id, or nothing.           *)
(***************************************************************************)
EXTENDS Naturals, Sequences

CONSTANTS
    Candidates,   \* the paths tried, in order: a list of defaults, or one path
    Version,      \* versions of files
    Unreadable,   \* those whose content cannot be read: a directory, say
    Nameless,     \* those whose owner is not in the root's passwd file
    Foreign,      \* those on a file system without UNIX ownership
    MaxChanges    \* bound: changes to the files during the call

Gone == "gone"      \* no such file
NoOwner == "-1"     \* uid and gid -1, with Ownership.Err set
Unset == "unset"

ASSUME FileInfoAssumption ==
    /\ Candidates \in Seq(STRING)
    /\ \A i \in DOMAIN Candidates : Candidates[i] # Gone
    /\ Unreadable \subseteq Version /\ Nameless \subseteq Version /\ Foreign \subseteq Version
    /\ {Gone, NoOwner, Unset} \cap Version = {}
    /\ MaxChanges \in Nat

Path == {Candidates[i] : i \in DOMAIN Candidates}

VARIABLES
    readContent,  \* the parameter readContent
    file,     \* file[p]: the version now at path p
    changes,
    pc,       \* the next step of the call
    next,     \* index of the candidate being described
    info,     \* ret of MakeFileInfo
    result,   \* the path of the file info returned, or Gone for nil
    was       \* history: was[p], the versions at p since the call began

vars == <<readContent, file, changes, pc, next, info, result, was>>

Blank == [perms |-> Unset, owner |-> Unset, content |-> Unset, username |-> Unset]

TypeOK ==
    /\ readContent \in BOOLEAN
    /\ file \in [Path -> Version \cup {Gone}]
    /\ changes \in 0..MaxChanges
    /\ pc \in {"perms", "owner", "content", "names", "done"}
    /\ next \in 1..(Len(Candidates) + 1)
    /\ info \in [perms : Version \cup {Unset}, owner : Version \cup {NoOwner, Unset},
                 content : Version \cup {Unset}, username : {Unset, "", "name"}]
    /\ result \in Path \cup {Gone}
    /\ was \in [Path -> SUBSET (Version \cup {Gone})]
    /\ pc \notin {"perms", "done"} => next <= Len(Candidates)

Init ==
    /\ readContent \in BOOLEAN
    /\ file \in [Path -> Version \cup {Gone}]
    /\ changes = 0
    /\ pc = "perms" /\ next = 1
    /\ info = Blank /\ result = Gone
    /\ was = [p \in Path |-> {file[p]}]

path == Candidates[next]

\* Mutant: the search ends with the first candidate that fails.
Fail_GivesUp ==
    /\ pc' = "done"
    /\ info' = Blank
    /\ UNCHANGED <<readContent, file, changes, next, result, was>>

\* MakeFileInfo returns an error: the error is logged, the next candidate is
\* tried.
Fail ==
    /\ next' = next + 1
    /\ pc' = "perms"
    /\ info' = Blank
    /\ UNCHANGED <<readContent, file, changes, result, was>>

Set(field, v, to) ==
    /\ info' = [info EXCEPT ![field] = v]
    /\ pc' = to
    /\ UNCHANGED <<readContent, file, changes, next, result, was>>

\* GetFilePermissions: os.Stat of the path, resolved anew for each candidate.
Permissions ==
    /\ pc = "perms" /\ next <= Len(Candidates)
    /\ \/ file[path] = Gone /\ Fail
       \/ file[path] # Gone /\ Set("perms", file[path], "owner")

AfterOwner == IF readContent THEN "content" ELSE "names"

\* No owner is given for these: os.Stat fails, or ErrNotUnixFS.
Ownerless == {Gone} \cup Foreign

\* GetFileUNIXOwnership: os.Stat again.  Its error does not end the call.
Ownership ==
    /\ pc = "owner"
    /\ Set("owner", IF file[path] \in Ownerless THEN NoOwner ELSE file[path], AfterOwner)

\* Mutant: a file that cannot be read is reported without its content.
Content_IgnoresError ==
    /\ pc = "content"
    /\ Set("content", IF file[path] = Gone THEN Unset ELSE file[path], "names")

\* os.ReadFile: its error does.
Content ==
    /\ pc = "content"
    /\ \/ file[path] \in Unreadable \cup {Gone} /\ Fail
       \/ file[path] \notin Unreadable \cup {Gone} /\ Set("content", file[path], "names")

\* getUserName and getGroupName: an error leaves the name empty.  The file info
\* is returned.
Names ==
    /\ pc = "names"
    /\ \E name \in {""} \cup {n \in {"name"} : info.owner \notin Nameless \cup {NoOwner}} :
         info' = [info EXCEPT !.username = name]
    /\ pc' = "done"
    /\ result' = path
    /\ UNCHANGED <<readContent, file, changes, next, was>>

\* No candidate is left: nil.
NotFound ==
    /\ pc = "perms" /\ next > Len(Candidates)
    /\ pc' = "done"
    /\ UNCHANGED <<readContent, file, changes, next, info, result, was>>

Becomes(p, v) ==
    /\ file' = [file EXCEPT ![p] = v]
    /\ was' = [was EXCEPT ![p] = @ \cup {v}]

\* Somebody makes, replaces, changes or removes the file at p ...
Change(p) ==
    /\ pc # "done" /\ changes < MaxChanges
    /\ changes' = changes + 1
    /\ \E v \in Version \cup {Gone} : v # file[p] /\ Becomes(p, v)
    /\ UNCHANGED <<readContent, pc, next, info, result>>

\* ... or renames it to q.
Rename(p, q) ==
    /\ pc # "done" /\ changes < MaxChanges
    /\ changes' = changes + 1
    /\ p # q /\ file[p] # Gone
    /\ file' = [file EXCEPT ![p] = Gone, ![q] = file[p]]
    /\ was' = [was EXCEPT ![p] = @ \cup {Gone}, ![q] = @ \cup {file[p]}]
    /\ UNCHANGED <<readContent, pc, next, info, result>>

Next ==
    \/ Permissions \/ Ownership \/ Content \/ Names \/ NotFound
    \/ \E p \in Path : Change(p) \/ \E q \in Path : Rename(p, q)

Spec == Init /\ [][Next]_vars

-----------------------------------------------------------------------------
(* Properties.                                                             *)

Found == pc = "done" /\ result # Gone

\* The report may mix versions, but not more than that: each field was true of
\* the reported path at some moment of the call, and the owner is missing only
\* if the file was missing at some moment, or has none.  A file that nobody
\* touches is therefore reported exactly.
FieldsWereTrue ==
    Found => /\ info.perms \in was[result]
             /\ \/ info.owner \in was[result] \ Ownerless
                \/ info.owner = NoOwner /\ was[result] \cap Ownerless # {}
             /\ readContent => info.content \in was[result] \ (Unreadable \cup {Gone})

CanFail == {Gone} \cup (IF readContent THEN Unreadable ELSE {})

\* "It tries to find the file in the given list of paths, by the order of the
\* list": a candidate is passed over only if it could not be described at some
\* moment of the call, so a candidate that stays where it is, and can be read,
\* hides all later ones and is never missed.
CandidatesInOrder ==
    pc = "done" => \A i \in DOMAIN Candidates :
        (was[Candidates[i]] \cap CanFail = {}) =>
            \E j \in 1..i : result = Candidates[j]
=============================================================================
