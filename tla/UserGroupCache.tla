--------------------------- MODULE UserGroupCache ---------------------------
(***************************************************************************)
(* The process-wide user and group name cache of                           *)
(* sensor/internal/utils/osuserswrapper.go.  userGroupCache maps a root    *)
(* directory to an item of two maps, id -> user name and id -> group name. *)
(* Every HTTP handler that describes a file calls getUserName and          *)
(* getGroupName, each on the goroutine of its own request, and nothing     *)
(* synchronises them.                                                      *)
(*                                                                         *)
(* Each access to a map is a step.  A map assignment is two steps, as the  *)
(* Go runtime performs it: mapassign inserts the key with the zero value   *)
(* and hands out the slot, then the caller's code stores the value.  The   *)
(* runtime's detection of concurrent use covers the first step only.       *)
(***************************************************************************)
EXTENDS Naturals

CONSTANTS
    Req,           \* request goroutines
    Root,          \* root directories: the host's, and /proc/<pid>/root
    Id,            \* numeric user or group ids
    Name,          \* user or group names
    Item,          \* heap cells for userGroupCacheItem
    EditableRoot,  \* roots whose passwd and group files get edited
    ProcRoot,      \* roots named by a pid, which the kernel may reuse
    MaxEdits       \* bound: how often the files change

Kind == {"users", "groups"}

Absent  == "absent"    \* no such key in a map
Nil     == "nil"       \* the zero userGroupCacheItem: two nil maps
Torn    == "torn"      \* a string value not yet (or only half) stored
NoEntry == "no entry"  \* the id is not in the file, or the file is unreadable
Err     == "error"     \* the call returned an error
Panic   == "panic"     \* "assignment to entry in nil map", recovered by negroni
None    == "none"

Marker == {Absent, Nil, Torn, NoEntry, Err, Panic, None}

ASSUME ConstantsAssumption ==
    /\ Root # {} /\ Id # {}
    /\ EditableRoot \subseteq Root
    /\ ProcRoot \subseteq Root
    /\ Name \cap Marker = {}
    /\ Item \cap Marker = {}
    /\ MaxEdits \in Nat

Content == [Kind -> [Id -> Name \cup {NoEntry}]]
EmptyItem == [k \in Kind |-> [d \in Id |-> Absent]]
Location == {"idle", "probe", "inner", "lookup", "check", "create", "publish",
             "ref", "assign", "store", "done"}

VARIABLES
    file,    \* file[r]: what r's /etc/passwd and /etc/group say of each id
    edits,   \* how often the files have changed
    outer,   \* userGroupCache
    heap,    \* the items that outer and the requests refer to
    pc, call, ref, name, answer,  \* per request: where it is, its arguments,
                                  \* the item it holds, what it found, returned
    stale,   \* requests whose slot was moved by a concurrent map growth
    alive,   \* FALSE once the runtime has thrown a fatal error
    raced,   \* history: two conflicting accesses have overlapped
    said,    \* history: every name r's files ever gave for an id
    seen     \* history: what the file has said since the request's call began

files == <<file, edits>>
local == <<pc, call, ref, name, answer>>
history == <<said, seen>>
vars == <<files, outer, heap, local, stale, alive, raced, history>>

TypeOK ==
    /\ file \in [Root -> Content]
    /\ edits \in 0..MaxEdits
    /\ outer \in [Root -> Item \cup {Absent, Nil}]
    /\ heap \in [Item -> [Kind -> [Id -> Name \cup {Absent, Torn}]]]
    /\ pc \in [Req -> Location]
    /\ call \in [Req -> [kind : Kind, root : Root, id : Id]]
    /\ ref \in [Req -> Item \cup {None}]
    /\ name \in [Req -> Name \cup {None}]
    /\ answer \in [Req -> Name \cup {None, Err, Torn, Panic}]
    /\ stale \in SUBSET Req
    /\ alive \in BOOLEAN
    /\ raced \in BOOLEAN
    /\ said \in [Root -> [Kind -> [Id -> SUBSET Name]]]
    /\ seen \in [Req -> SUBSET (Name \cup {NoEntry})]

AnyCall == [kind |-> "users", root |-> CHOOSE r \in Root : TRUE,
            id |-> CHOOSE d \in Id : TRUE]
Says(f, t) == f[call[t].root][call[t].kind][call[t].id]
Active(t) == pc[t] \notin {"idle", "done"}

-----------------------------------------------------------------------------
(* Which accesses conflict.                                                *)

OnOuter == {"probe", "check", "create", "ref"}
OnInner == {"inner", "assign"}
Writes  == {"create", "assign"}

SameInner(t, u) == ref[t] = ref[u] /\ call[t].kind = call[u].kind

\* Two accesses the runtime may see at once, at least one of them a write: it
\* checks hmap.flags in both, and throws if it notices.
Overlap(t, u) ==
    /\ t # u
    /\ pc[t] \in Writes \/ pc[u] \in Writes
    /\ \/ pc[t] \in OnOuter /\ pc[u] \in OnOuter
       \/ pc[t] \in OnInner /\ pc[u] \in OnInner /\ SameInner(t, u)

\* u has a slot and has not stored into it while t uses the same map.
MidStore(t, u) ==
    \/ pc[u] = "publish" /\ pc[t] \in OnOuter
    \/ pc[u] = "store" /\ pc[t] \in OnInner \cup {"store"} /\ t # u /\ SameInner(t, u)
    \/ pc[u] = "publish" /\ pc[t] = "publish" /\ t # u

RaceNow == \E t, u \in Req : Overlap(t, u) \/ MidStore(t, u)

\* What reading a map may give: what is in it; nothing, when a concurrent
\* insertion is moving the buckets; half a string, while one is being stored.
ReadOuter(t) ==
    {outer[call[t].root]} \cup {a \in {Absent} : \E u \in Req : Overlap(t, u)}
ReadInner(t) ==
    {heap[ref[t]][call[t].kind][call[t].id]}
      \cup {a \in {Absent} : \E u \in Req : Overlap(t, u)}
      \cup {a \in {Torn} : \E u \in Req \ stale : MidStore(t, u) /\ call[u].id = call[t].id}

\* Slots that an insertion by t into a map may move away from their holder, or
\* t's own if another insertion is under way: what is stored there is lost.
MovedBy(t, holders) ==
    SUBSET ({u \in holders : u # t}
              \cup {u \in {t} : \E v \in Req : Overlap(t, v) /\ pc[v] = pc[t]})

-----------------------------------------------------------------------------
Init ==
    /\ file \in [Root -> Content]
    /\ edits = 0
    /\ outer = [r \in Root |-> Absent]
    /\ heap = [i \in Item |-> EmptyItem]
    /\ pc = [t \in Req |-> "idle"]
    /\ call = [t \in Req |-> AnyCall]
    /\ ref = [t \in Req |-> None]
    /\ name = [t \in Req |-> None]
    /\ answer = [t \in Req |-> None]
    /\ stale = {}
    /\ alive = TRUE
    /\ raced = FALSE
    /\ said = [r \in Root |-> [k \in Kind |-> [d \in Id |-> {file[r][k][d]} \cap Name]]]
    /\ seen = [t \in Req |-> {}]

Goto(t, l) == pc' = [pc EXCEPT ![t] = l]
Return(t, a) == answer' = [answer EXCEPT ![t] = a] /\ Goto(t, "done")
\* Mutant: getGroupName stores in the users map.
Put_OneMap(t, v) == [heap EXCEPT ![ref[t]]["users"][call[t].id] = v]

Put(t, v) == [heap EXCEPT ![ref[t]][call[t].kind][call[t].id] = v]
Hold(t, i) == ref' = [ref EXCEPT ![t] = i]

\* getUserName(uid, root) or getGroupName(gid, root) is called.
Begin(t) ==
    /\ ~Active(t)
    /\ Goto(t, "probe")
    /\ \E k \in Kind, r \in Root, d \in Id :
         /\ call' = [call EXCEPT ![t] = [kind |-> k, root |-> r, id |-> d]]
         /\ seen' = [seen EXCEPT ![t] = {file[r][k][d]}]
    /\ answer' = [answer EXCEPT ![t] = None]
    /\ UNCHANGED <<files, outer, heap, ref, name, stale, said>>

\* users, ok := userGroupCache[root].  The zero item holds nil maps, which
\* answer every read with "not found".
ProbeOuter(t) ==
    /\ pc[t] = "probe"
    /\ \E i \in ReadOuter(t) :
         \/ i \in Item /\ Hold(t, i) /\ Goto(t, "inner")
         \/ i \notin Item /\ Goto(t, "lookup") /\ UNCHANGED ref
    /\ UNCHANGED <<files, outer, heap, call, name, answer, stale, history>>

\* username, ok := users.users[uid]; a hit is returned as it is.
ProbeInner(t) ==
    /\ pc[t] = "inner"
    /\ \E n \in ReadInner(t) :
         \/ n = Absent /\ Goto(t, "lookup") /\ UNCHANGED answer
         \/ n # Absent /\ Return(t, n)
    /\ Hold(t, None)
    /\ UNCHANGED <<files, outer, heap, call, name, stale, history>>

\* Mutant: "unknown id" is cached like a name.
Lookup_CachesErrors(t) ==
    /\ pc[t] = "lookup"
    /\ name' = [name EXCEPT ![t] = IF Says(file, t) = NoEntry THEN Err ELSE Says(file, t)]
    /\ Goto(t, "check")
    /\ UNCHANGED <<files, outer, heap, call, ref, answer, stale, history>>

\* lookupUsernameByUID or LookupGroupnameByGID reads the root's file; an error
\* is returned and leaves the cache alone.
Lookup(t) ==
    /\ pc[t] = "lookup"
    /\ \/ /\ Says(file, t) = NoEntry
          /\ Return(t, Err)
          /\ UNCHANGED name
       \/ /\ Says(file, t) # NoEntry
          /\ name' = [name EXCEPT ![t] = Says(file, t)]
          /\ Goto(t, "check")
          /\ UNCHANGED answer
    /\ UNCHANGED <<files, outer, heap, call, ref, stale, history>>

\* Mutant: no item is made for a new root.
Check_NeverCreates(t) ==
    /\ pc[t] = "check"
    /\ Goto(t, "ref")
    /\ UNCHANGED <<files, outer, heap, call, ref, name, answer, stale, history>>

\* Mutant: the root's item is made anew on every miss.
Check_AlwaysCreates(t) ==
    /\ pc[t] = "check"
    /\ Goto(t, "create")
    /\ UNCHANGED <<files, outer, heap, call, ref, name, answer, stale, history>>

\* if _, ok := userGroupCache[root]; !ok
Check(t) ==
    /\ pc[t] = "check"
    /\ \E i \in ReadOuter(t) : Goto(t, IF i = Absent THEN "create" ELSE "ref")
    /\ UNCHANGED <<files, outer, heap, call, ref, name, answer, stale, history>>

Held == {outer[r] : r \in Root} \cup {ref[t] : t \in Req}

\* userGroupCache[root] = userGroupCacheItem{...}: two fresh maps are made and
\* a slot is found for the key, or inserted with the zero item ...
Create(t) ==
    /\ pc[t] = "create"
    /\ \E i \in Item \ Held :
         /\ Hold(t, i)
         /\ heap' = [heap EXCEPT ![i] = EmptyItem]
    /\ \E moved \in MovedBy(t, {u \in Req : pc[u] = "publish"}) :
         /\ stale' = stale \cup moved
         /\ outer' = IF t \in moved \/ outer[call[t].root] # Absent
                     THEN outer ELSE [outer EXCEPT ![call[t].root] = Nil]
    /\ Goto(t, "publish")
    /\ UNCHANGED <<files, call, name, answer, history>>

\* ... and the item is stored in the slot.
Publish(t) ==
    /\ pc[t] = "publish"
    /\ outer' = IF t \in stale THEN outer
                ELSE [outer EXCEPT ![call[t].root] = ref[t]]
    /\ stale' = stale \ {t}
    /\ Hold(t, None)
    /\ Goto(t, "ref")
    /\ UNCHANGED <<files, heap, call, name, answer, history>>

\* userGroupCache[root].users[uid] = username: the item is read again; storing
\* in the nil map of a zero item panics ...
GetRef(t) ==
    /\ pc[t] = "ref"
    /\ \E i \in ReadOuter(t) :
         \/ i \in Item /\ Hold(t, i) /\ Goto(t, "assign") /\ UNCHANGED answer
         \/ i \notin Item /\ Return(t, Panic) /\ UNCHANGED ref
    /\ name' = IF pc'[t] = "done" THEN [name EXCEPT ![t] = None] ELSE name
    /\ UNCHANGED <<files, outer, heap, call, stale, history>>

\* ... a slot for the id is found in the item's map ...
Assign(t) ==
    /\ pc[t] = "assign"
    /\ \E moved \in MovedBy(t, {u \in Req : pc[u] = "store" /\ SameInner(t, u)}) :
         /\ stale' = stale \cup moved
         /\ heap' = IF t \in moved \/ heap[ref[t]][call[t].kind][call[t].id] # Absent
                    THEN heap
                    ELSE Put(t, Torn)
    /\ Goto(t, "store")
    /\ UNCHANGED <<files, outer, call, ref, name, answer, history>>

\* ... and the name is stored in it and returned.
Store(t) ==
    /\ pc[t] = "store"
    /\ heap' = IF t \in stale THEN heap
               ELSE Put(t, name[t])
    /\ stale' = stale \ {t}
    /\ Hold(t, None)
    /\ name' = [name EXCEPT ![t] = None]
    /\ Return(t, name[t])
    /\ UNCHANGED <<files, outer, call, history>>

\* "fatal error: concurrent map read and map write": no recover() stops it.
Throw(t) ==
    /\ \E u \in Req : Overlap(t, u)
    /\ alive' = FALSE
    /\ outer' = [r \in Root |-> Absent]
    /\ heap' = [i \in Item |-> EmptyItem]
    /\ pc' = [v \in Req |-> "idle"]
    /\ call' = [v \in Req |-> AnyCall]
    /\ ref' = [v \in Req |-> None]
    /\ name' = [v \in Req |-> None]
    /\ answer' = [v \in Req |-> None]
    /\ stale' = {}
    /\ seen' = [v \in Req |-> {}]
    /\ UNCHANGED <<files, said>>

\* The kubelet restarts the container, with an empty cache.
Restart ==
    /\ ~alive
    /\ alive' = TRUE
    /\ raced' = FALSE
    /\ UNCHANGED <<files, outer, heap, local, stale, history>>

\* The files of root r now say c.
Rewrite(r, c) ==
    /\ edits < MaxEdits
    /\ c # file[r]
    /\ edits' = edits + 1
    /\ file' = [file EXCEPT ![r] = c]
    /\ said' = [said EXCEPT ![r] =
                  [k \in Kind |-> [d \in Id |-> @[k][d] \cup ({c[k][d]} \cap Name)]]]
    /\ seen' = [t \in Req |-> IF Active(t) THEN seen[t] \cup {Says(file', t)}
                                            ELSE seen[t]]
    /\ UNCHANGED <<outer, heap, local, stale, alive, raced>>

\* An administrator adds, renames or removes a user or a group.
EditFile(r) ==
    \E k \in Kind, d \in Id, n \in Name \cup {NoEntry} :
        Rewrite(r, [file[r] EXCEPT ![k][d] = n])

\* The process behind /proc/<pid>/root exits, and the pid goes to another one.
PidReuse(r) == \E c \in Content : Rewrite(r, c)

Access(t) ==
    \/ Begin(t) \/ ProbeOuter(t) \/ ProbeInner(t) \/ Lookup(t)
    \/ Check(t) \/ Create(t) \/ Publish(t) \/ GetRef(t) \/ Assign(t) \/ Store(t)

Step(t) ==
    /\ alive
    /\ raced' = (raced \/ RaceNow)
    /\ \/ Access(t) /\ UNCHANGED alive
       \/ Throw(t)

Next ==
    \/ \E t \in Req : Step(t)
    \/ Restart
    \/ \E r \in EditableRoot : EditFile(r)
    \/ \E r \in ProcRoot : PidReuse(r)

Spec == Init /\ [][Next]_vars

\* The service that the cache implements.
Service == INSTANCE NameService WITH
               busy <- [t \in Req |-> Active(t)], up <- alive, faulty <- raced

-----------------------------------------------------------------------------
(* Properties.                                                             *)

\* Whatever the interleaving, a name that getUserName or getGroupName returns
\* is one that this root's own file gave, at some time, for this very id and
\* kind: concurrent fills of one item, items created twice and items replaced
\* never mix roots, ids, or users with groups.
NamesComeFromTheirFile ==
    \A t \in Req : answer[t] \in Name => answer[t] \in Says(said, t)

\* An empty name, a panic or a fatal runtime error needs a race: as long as no
\* two conflicting accesses have overlapped, every call returns a name or an
\* error, even though another call may have created the root's item in between.
FaultsOnlyFromRaces ==
    ~raced => alive /\ \A t \in Req : answer[t] \notin {Torn, Panic}

\* "Unknown id" is never a stale answer: negative results are not cached, so an
\* error means that the file had no such entry at some moment of this call.
ErrorsAreFresh ==
    \A t \in Req : answer[t] = Err => NoEntry \in seen[t]

\* A returned name is what the root's file said at some moment of the call:
\* "username extracted by UID from {root}/etc/passwd".
NamesAreFresh ==
    \A t \in Req : answer[t] \in Name => answer[t] \in seen[t]

\* What the callers rely on, all in one: with every map access, slot and item
\* hidden, each call of getUserName or getGroupName is one answer of the name
\* service, and what else happens is a crash, a restart, an edit or nothing.
ImplementsNameService == Service!ServiceSpec

\* With no race nothing that is cached is lost while the process lives: a root
\* keeps its item and an id, once it has a name there, keeps one, although two
\* requests may both have found it missing.
EntriesAreKept ==
    [][\A r \in Root, k \in Kind, d \in Id :
          ~raced /\ ~raced' /\ outer[r] \in Item /\ heap[outer[r]][k][d] \in Name =>
             /\ outer'[r] = outer[r]
             /\ heap'[outer[r]][k][d] \in Name]_vars
=============================================================================
