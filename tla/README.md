# Formal verification of host-scanner

TLA+ models of the Kubescape host-scanner, a DaemonSet whose HTTP server
(port 7888) reports security-relevant facts about its node: permissions, owners
and contents of files, processes and their flags, kernel variables, open ports.
The models are checked with TLC; the properties that matter most are proved for
every instance with TLAPS. Paths below are relative to `src/`.

## 1. The system

| Part | State | Operations | Hard behaviour |
|---|---|---|---|
| Process and request pipeline (`sensor.go`, `httphandlers.go`, `deployment/host-scanner.yaml`) | listener, readiness flag, signal channel, `BuildVersion`, connections | `main`, `setupReadyz`, `filterNLogHTTPErrors`, the handlers; kubelet probes and restarts | signals before `Notify`, `Shutdown` before the bind, a dropped bind error, hung sensors, panics, the 61 s deadline |
| User and group name cache (`sensor/internal/utils/osuserswrapper.go`) | `userGroupCache`: root → (uid → name, gid → name), global, never emptied | `getUserName`, `getGroupName` | no lock: map accesses of concurrent requests interleave and race; keys name a pid |
| passwd/group parsing (same file, 18–175) | none | `readColonFile`, `findUserId`, … | long lines, malformed rows |
| File description (`sensor/internal/utils/utils.go`, `sensor/verboseutils.go`) | none | `MakeFileInfo` and its wrappers | three system calls on a path that may change in between |
| Directory listing (`sensor/verboseutils.go`) | a stack of open directories | `makeHostDirFilesInfoVerbose` | link loops, depth limit, a tree that changes meanwhile |
| CNI configuration directory (`sensor/internal/utils/containerruntime.go`) | none | `GetCNIConfigPath` | precedence over many sources, partial failures, runtimes that come and go |
| Process search (`sensor/internal/utils/process.go`) | none | `LocateProcessByExecSuffix`, `GetArg` | a `/proc` that changes while it is read; reused pids |
| Kubelet and kube-proxy sensors (`sensor/kubelet.go`, `kubeproxy.go`) | the located pid, for the time of the request | `SenseKubeletInfo`, `SenseKubeProxyInfo` | one pid used over many calls while it may be reused; a field that depends on another's content |
| Kubelet service files (`sensor/internal/utils/service.go`) | two D-Bus connections | `GetKubeletServiceFiles` | error paths of the dialler |
| Control plane, CNI and port sensors (`sensor/controlplane.go`, `CNI.go`, `network.go`) | none | `SenseControlPlaneInfo`, `SenseCNIInfo`, `SenseOpenPorts` | parts that are missing, or come and go; redaction of secrets in data of any shape |
| Kernel variables (`sensor/kernelvariables.go`) | open files, the stack of deferred closes | `SenseKernelVariables`, `walkVarsDir` | errors tested through the wrong variable, descriptors held, names that vanish |
| Cloud metadata (`sensor/cloudProvider.go`, `sensor/internal/utils/globals.go`) | a shared `http.Client` and its lock | `hasMetaDataAPIAccess`, `GetHttpClient` | a read outside the lock, a shared timeout, silent APIs, unclosed responses |
| OS release, kernel version, hardening (`sensor/osrelease.go`) | none | single reads | – |

Every request runs on its own goroutine: handler → sensor → process search →
file description → name cache. The only state shared by requests is the name
cache, `BuildVersion`, the readiness flag and the HTTP client; everything else
they share with the host, which changes under them.

What makes each modelled part correct:

* **name cache** – an answer is a name that this root's file gave for this id
  and kind; errors are not cached; without a race nothing fails and nothing
  cached is lost;
* **process** – a signal ends it, nothing is accepted while it drains, a process
  that cannot serve is replaced, `/version` fails only at first;
* **CNI directory** – the documented precedence; a runtime that is there is given up
  only if the search for it fails; an answer in every case, which does not hold;
* **directory listing** – it ends, holds a bounded number of directories open,
  and lists exactly the files within the limit that stay where they are;
* **file description** – every field was true of the path during the call, and
  candidates are taken in order;
* **passwd/group parsing** – the first line for the id wins, and "unknown" means
  that no line has it, wherever the reader's buffer cuts the lines, unless a read
  error does;
* **process search** – the answer was there, nothing that ran throughout and could
  be read is overlooked or preceded, and the search ends;
* **kubelet and kube-proxy** – the search by which they find their process; no
  connection is left open that the peer did not break;
* **control plane, CNI, ports** – no failure costs an unrelated part, secrets and
  only secrets are removed;
* **kernel variables** – everything is closed in the end, however it ends, and a
  walk that succeeds lists what stays once;
* **cloud metadata** – one client, a deadline on every GET, and an answer.

## 2. Modules

| Module | Models | Used by |
|---|---|---|
| `NameService` | what `getUserName` and `getGroupName` promise, in one step | refined by `UserGroupCache` |
| `UserGroupCache` | the name cache | `MCUserGroupCache` (TLC), `UserGroupCacheProofs` |
| `HostServer` | process, requests, kubelet | run directly, `HostServerProofs` |
| `ContainerRuntime` | `GetCNIConfigPath` | `MCContainerRuntime`, `NodeInventoryProofs` |
| `DirWalk` | `makeHostDirFilesInfoVerbose` | run directly, `DirWalkProofs` |
| `FileInfo` | `MakeFileInfo` and the candidate search | `MCFileInfo`, `FileInfoProofs` |
| `ColonFile` | `readColonFile` and the matchers | `MCColonFile`, `FileInfoProofs` |
| `ProcessSearch` | what `LocateProcessByExecSuffix` promises, in one step | refined by `ProcessLocator` |
| `ProcessLocator` | `LocateProcessByExecSuffix` | `KubeletScan` |
| `KubeletScan` | the kubelet and kube-proxy sensors and the service files, composed with `ProcessLocator` | run directly, `KubeletScanProofs` |
| `NodeInventory` | the control plane, CNI and port sensors | `MCNodeInventory`, `NodeInventoryProofs` |
| `KernelVariables` | `SenseKernelVariables` and `walkVarsDir` | `MCKernelVariables`, `KernelVariablesProofs` |
| `CloudProvider` | `hasMetaDataAPIAccess` and `GetHttpClient` | run directly, `CloudProviderProofs` |

`PROJECT.json` maps each definition to the lines it stands for. Operators named
`X_Something` are mutants of `X`: plausible bugs, each of which makes TLC report
the property it is listed with.

**UserGroupCache.** A request's `pc` follows `getUserName` (or `getGroupName`,
the same code on the other map): `ProbeOuter`/`ProbeInner` (lines 195–199),
`Lookup` (202–205), `Check` (208), `Create`/`Publish` (209–212),
`GetRef`/`Assign`/`Store` (215). A Go map assignment is two steps, since the
runtime hands out a slot and compiled code stores into it. Data races are
undefined, so they are modelled by their possible outcomes: a read may miss an
entry while buckets move or see a half-stored string (`ReadOuter`, `ReadInner`),
a slot may be moved away before the store (`MovedBy`, `stale`), the runtime may
notice and end the process (`Throw`), and a zero item's nil maps panic on
assignment (`GetRef`). `said` and `seen` are histories of what the files said.
Every state of the files is possible initially, and every edit changes something.
A fatal error (`Throw`) ends the process and its memory; `Restart` is the next
container.

**NameService.** What the callers rely on: a call is asked and answered, each in
one step, with a name that the root's file gave for this id and kind (`said`), with
an error if it had none at some moment of the call (`seen`), or, once accesses have
overlapped (`faulty`), with half a string or a panic. The refinement mapping hides
the maps, the items and every local of a request: `busy` is `Active`, `up` is
`alive`, `faulty` is `raced`.

**HostServer.** `main` is a program counter over `main()`; `listener` is the
server's goroutine, which goes through `starting → binding → bound → serving`: its
bind may fail silently (`deaf`), and `Shutdown` may come before, between or after
its two looks at whether it has begun (`closed`), so that the port can be bound for
a moment while the process drains. A request goes through
`new → reading → handler → (set) → tail` and is then gone; the debug port serves the
same mux without the negroni chain. A sensor may panic at any time: `walkVarsDir`
uses the nil `FileInfo` of a failed `Stat` (`kernelvariables.go:59-62`), and a race
leaves a zero item in the name cache. The runtime's fatal error (`Fatal`) needs two
sensors at once, as in `UserGroupCache`. Which sensor runs, and what it computes, is
abstracted to the status it ends with. `net/http`, with its rule that the first
status written wins (`Write`) and its `Shutdown`, is modelled from how `main` and the
filter use it. No log is kept.

**ContainerRuntime.** A command line is a sequence of `[text, eq, val]`; GetArg's
treatment of an empty flag name and of the empty last argument follows the code.
A TOML file is what parsing it for the directory yields: nothing, an error, or a
directory. `OnHost` and `Own` keep apart paths joined with `/host_fs` and the
`--config-dir` value, which the code uses as it is. A search through `/proc` may
fail though the runtime runs, since `LocateProcessByExecSuffix` may (`process.go:30-33`,
`44-47`, `69-71`): `NewContainerRuntime` then gives an error, by which the call goes
on, and `missed` holds the runtimes that a search for them by name has missed.

**DirWalk.** One frame per active call, one step per system call. Names are
numbers in sorting order; going through a sorted batch is taking its least name.
A path is resolved from the top for each `Stat` and `Open`, as the kernel does,
while `Readdirnames` uses the directory that was opened.
The parameter `recursive` has no counterpart: all callers pass `true`, and its only
test is the last statement of the loop, where it decides nothing.

**FileInfo.** A version is one state of a file; a field of the report is the
version it was read from, so a torn report shows as differing versions. A `Foreign`
version is on a file system without UNIX owners: `ErrNotUnixFS` (`utils.go:46-55`)
makes the ownership an error, as a file that has vanished does, and the call goes on.
(On Linux `os.Stat` always gives a `Stat_t`; the path is there because the code has
it.) The name cache is used through what `Provenance` proves of it.

**ColonFile.** A file is a sequence of chunks as `bufio.Reader.ReadLine` hands
them out; a chunk has a number of colons and what the text from there on says if
it is taken for the start of a line, so that the model shows when the middle of a
line is mistaken for one. The last chunk may be marked as continued, too: a last
line without newline that just fills the buffer. `ReadLine` returns an error only if
it has nothing else to return: if it falls into a chunk, what came before it is
returned without error as the end of a line, and the next `ReadLine` goes on behind
it. `ReadCut` is this in the reading of a line, `SkipFails` in the skipping of one;
`Cut` says which chunks may be cut, and into what, `rest` holds what is left, and
`slip` remembers where a read error has gone unnoticed. (Behind a cut, the chunks of
a very long line would be cut differently, because the buffer is refilled from
there; the model keeps the bounds of later chunks.) Three corners show, the first and
the second inherited from Go's `os/user`, and the properties name them: `continue`
for a comment (line 69) does not skip the rest of a comment that was left early
because it has enough colons; an error of `ReadLine` in the skipping loop (77) ends
the loop before it is looked at; and a cut makes a line of each part (59).

**ProcessSearch, ProcessLocator.** `ProcessSearch` answers in one step: a process
that has been there during the call and that no process that ran throughout
precedes, or "not found" if none ran throughout, or a failure. `ProcessLocator`
reads names in batches and command lines one by one while processes start and
exit. Any error of reading a command line is passed over (`process.go:44-47`), so a
process may be overlooked though it runs: `CmdlineUnreadable` is that step, for which
the promise has `Overlook`, and whoever is overlooked is no longer `steady`. The
refinement mapping is the identity on the shared variables; `ever` and `steady` are
history variables of both.

**KubeletScan.** Extends `ProcessLocator`: after the search, the pid is used as
`/proc/<pid>/root` and in a question to systemd, by whatever process has it then
(`Owner`). A file described is a pair of that process and a path; whether the path
exists is open. A flag with an empty value leads to the root directory, which is
described where its content is not asked for and fails where it is (`WithContent`).
go-systemd's `NewConnection` calls `newSystemDbusConnection` twice
and closes the first connection if the second fails; it cannot close one whose
`Auth` or `Hello` failed, because the error hides it.

**NodeInventory.** Three sensors that look at one part after the other; that a part is
there means that looking at it succeeds. What has to be found before a part is looked
at is `Owners`, what is kept or dropped together is `Group`. The encryption
configuration is a tree of maps, lists and other values, and
`removeEncryptionProviderConfigSecrets` a composition of one operator per loop.

**KernelVariables.** `path` holds the active calls of `walkVarsDir`, `deferred`
what each of them will close. `err`, which is nil inside the loop, is tested where
`errStat` and `errCopy` are meant: a failed `Stat` leads to a nil dereference
(`StatPanics`), a failed copy to a value cut short (`"part"` in `OpenFile`; listed is
listed, whatever the value). Any error of `Open` but "permission denied" ends the walk
(`OpenFails`), whether the name has vanished or the descriptors have run out. The
kernel's place in a directory is the last name given (`Ahead`, external). Linux counts
positions in `/proc/sys`, so a removal between two batches can move a steady name out
of sight there; neither the code nor this model deals with that.

**CloudProvider.** Each statement of `GetHttpClient` is a step. A client is named
by the request that made it, so a second one would show. An API that does not
answer leaves the GET to its deadline; a response that nobody closes is left to
the client's timer.

## 3. Runs

| Run | Shows |
|---|---|
| `cache` | two requests, two roots, files edited or replaced: `NamesComeFromTheirFile`, `FaultsOnlyFromRaces`, `EntriesAreKept`, `ImplementsNameService` (the refinement) |
| `cache_pid_reuse` | **violated** `NamesAreFresh`: a name of the pid's former process is returned |
| `server` | `VersionFailsOnlyAtFirst`, `NoAcceptWhileDraining`; `SignalEndsProcess`, `DeafProcessIsReplaced` under `FairSpec` |
| `cni_path` | `PrecedenceRespected`, `SteadyRuntimeFound` |
| `cni_path_empty` | **violated** `AlwaysADirectory`: the kubelet's endpoint leads to a runtime that names no directory, and nothing is returned |
| `walk` | `DescriptorsBounded`, `StableFilesListedOnce`, `ListedInOrder`, `WalkEnds` |
| `file_info` | `FieldsWereTrue`, `CandidatesInOrder` |
| `kubelet_scan` | `ImplementsSearch` (the refinement), `SearchEnds`, `ConnectionsClosed` |
| `node_inventory` | `SteadyPartsReported`, `SecretsRedacted`, `RestKept` |
| `kernel_variables` | `ClosedAtEnd`, `OnlyPathHeld`, `SteadyVariablesListed`, `KernelWalkEnds` |
| `cloud` | `OneClient`, `EveryGetHasDeadline`, `WorkingAPIFound`, `RequestEnds`, `ConnectionsReleased` |
| `colon_file` | `NameIsFirstRow`, `UnknownMeansAbsent` |

The runs leave out the type invariants, which are proved (section 4), and
`ErrorsAreFresh`, which is proved and part of `NameService`. Each of the two violated
properties quotes a comment of the code; `PROJECT.json` records them as findings.

**Bounds.** *Cache*: a race needs two requests; two roots make mixing them
possible. One id per kind suffices because users and groups already are two maps
per item, and one name because whose it is, not which, is at stake (`said` and
`seen` tell a name that was said from one that was not); `Provenance` is proved
for all. Three heap cells are one fewer than two requests and two roots could
hold at once at the extreme; a request that needs a fourth waits, and the proof
has no such bound. One edit or reuse of the pid separates before from after.
*Server*: two connections, for everything that relates two requests; the failure
threshold is 2 where the deployment has 30 and the default of 3, which only shortens
the wait. *CNI*: each flag form the code
distinguishes, each file silent, broken or naming its own directory, two
drop-ins where order matters, one process change. *Walk*: two directories are
enough for loops of length one and two and for diamonds; the limit is 3 and the
batch 2 in place of 10 and 100, so that both are reached; one edit at any point.
*File info*: two candidates as in the kubelet's lists, three changes so that each
of the three system calls can see another version; of the three versions one cannot
be read, one has an owner without a name, one has none. *Kubelet scan*: three pids in
batches of two make two batches; two wanted processes and one other, any of whose
command lines may be unreadable; during the
search processes come and go without bound, afterwards one does, which is enough
to replace the located process or to leave it alone. *Node inventory*: every
sensor with all of its real parts, one of them missing at first or all, and two
changes, so that a part can vanish and return; every configuration that differs
from a well formed one in one node. *Kernel variables*: three nested directories
of up to three names in batches of two, variables before, between and after the
nested directory, changes without bound. *Cloud*: two requests for the race, the
three APIs of the code, each coming and going without bound. *Colon file*: four
chunks, which is a long line between or before others; two columns to a row; two
read errors, one of which may fall into what the other has left; seven ways to cut a
chunk, within the columns, within a name, at the newline and within a comment.

**Fairness.** `HostServer!FairSpec` assumes that the process's goroutines are
scheduled, that the drain timer fires, and that the kubelet keeps probing and
restarts the container; nothing is assumed of clients, sensors or signals.
The `FairSpec` of `DirWalk`, `KubeletScan` (of its search) and `KernelVariables`
assumes that the request's goroutine is scheduled, that of `CloudProvider` also
that the timer of a GET fires; the lock there needs only weak fairness, because
whoever finds the client made no longer asks for it. Changes of the host are
never assumed to happen, nor assumed to stop: the searches and walks end because
they only move forward.

Deadlock is checked for the cache and the server, which never stop. The models of
one call end with it, so it is not checked there.

## 4. Proofs

All from the named assumptions on constants alone, for every number of requests,
connections, roots, names, candidates, directories, processes, parts, APIs and
changes. One of them says how things are numbered: in `VariablesAssumption` a
directory comes before what is in it. That excludes trees in which directories contain
each other, and nothing else: sort a tree by path. Two say what a row or a file is: in
`ColonFileAssumption` no row's name is a word that the model uses for an answer, and
cutting a chunk loses no colon, in `RuntimeAssumption` the configuration of a runtime
lists its files in a sequence.

**The name cache** (`UserGroupCacheProofs`).

* `TypeCorrect`, `Provenance`: `[]TypeOK` and `[]NamesComeFromTheirFile`. The
  property says nothing of where a name is while it travels, so it is not
  inductive. `SaidInv` adds that the file's present content is in the history
  (`FileSaid`), that the name a request has looked up was said for its call
  (`NameSaid`), that every name in an item that belongs to a root was said by that
  root (`ItemSaid`), and that an item is never held for two roots (`ItemOwner`),
  which is why an item published twice, replaced or filled through an old reference
  still cannot leak a name to another root.
* `FreshErrors`: `[]ErrorsAreFresh`, because `seen` holds what the file says all
  through a call (`FileSeen`).
* `RacesCauseFaults`, `KeptEntries`: `[]FaultsOnlyFromRaces` and `EntriesAreKept`.
  A zero item or a half-stored string in the cache is as good as a fault, and each
  fill puts both there for a moment. `Orderly` says that without a race a zero item
  is about to be replaced by its one creator (`ZeroHeld`, `OneCreator`), an empty
  string by the call that is storing there (`TornHeld`), and that a call past its
  check still finds an item (`RefThere`): whoever saw one of these would overlap
  with that access, which is a race. `Clean` carries this through a restart.
* `ServiceImplemented`: `Spec => ImplementsNameService`. `Begin` asks, the steps that
  return reply, `Throw` is a crash, an edit or a reused pid a rewrite, and every
  other step is hidden. That a reply is one the service may give is what the
  theorems above say of the state after it (`Promised`).

**The process** (`HostServerProofs`). One invariant for `TypeCorrect`, `VersionHeals`,
and `DrainingAcceptsNothing`, an action property. `DrainingIsDeaf` is the case of a
signal before the bind: the listener is closed or will find itself closed.
`VersionSettled` says that an answer leaves a version behind and that a request
accepted after one is not between the test and the assignment.

**File description** (`FileInfoProofs`). `TypeCorrect`, `ReportsWereTrue`,
`OrderOfCandidates`: `Inv` adds that the history holds the present (`WasNow`), that
the fields filled so far were true of the present candidate (`Filled`), that every
earlier candidate has failed (`PassedOver`), and how the call ends (`Ended`).

**passwd and group files** (also `FileInfoProofs`). `LookupTypeCorrect`,
`FirstRowNamed`, `UnknownIsAbsent`. `Searching` is the invariant of the nested loops:
no line for the id starts before some chunk `b`, and what has been read since `b` is
one line so far, whose text and colons are in the locals (`InLine`). A line may have
any number of chunks. A cut in the skipping of a line leaves a `b` at which no line
starts (`rest`, `slip`); one in the reading of a line may cost the line itself, and
`NonePassed` is then given up. That one which starts has an end (`EndOfLine`) and that
of the lines for the id the reference takes the first (`ReferenceIsFirst`) is shown by
least counterexamples; the count of colons is a recursive function (`SumExists`). The
corners named in section 2 appear as the exceptions of the two properties.

**Directory listing** (`DirWalkProofs`). `TypeCorrect`, `BoundedDescriptors`: `Inv`
adds that a call's `recursionLevel` is its place on the stack (`Levels`) and that a
call about to be made still fits (`RoomToOpen`); the code's test for equality
suffices only because of `Levels`.

* `Trail` places the calls in the tree: each is for a name that its caller has taken
  up, and so is what is about to be opened or described (`Under`).
* `StableListed`: `[]StableFilesListedOnce`. `Listing` speaks of a set `B` that is no
  variable of the model: the paths that `Visit` has taken up. It holds of each call
  in progress just the names it has left behind (`Entered`), all that stays in a
  directory that is done with (`Finished`), and the list has each of its files once
  (`Lists`). When the walk is over, `B` holds every path that has stayed down to the
  depth limit (`AllTaken`): the shortest that is missing would be in a directory
  that is done with. A link loop does no harm, since paths are counted, not
  directories.
* `OrderedList`: `[]ListedInOrder`. In `Order` what is listed precedes, or is below
  what has been taken up in, every call in progress, and each call has read nothing
  or everything (`InTurn`).
* What `Resolve` gives for a longer path (`AtAppend`), and that a path stays where it
  leads while nothing on it is touched (`StableStays`), is shown with the least
  length for which it fails (`LeastOf`), as induction over paths is not available.
  These theorems need that a host has finitely many names (`WalkAssumption`).

**Process search and the sensors on it** (`KubeletScanProofs`).

* `LocatorRefines`, `SearchWithinRequest`: the search by itself, and as the first part
  of a request, implements `ProcessSearch`. Each step of `ProcessLocator` is a step of
  it or a stutter. `SteadyAhead`: the pid of whatever has run since the call began,
  and has not been overlooked, is an unread name of the present batch or above all
  that was read. So the process found precedes all of them, and at the end of the
  directory there is none.
* `BusClosed`: `BusCounted` ties the number of open connections to the calls made.
* `TypeCorrect`.

**Control plane, CNI, ports** (`NodeInventoryProofs`).

* `NoSecretLeft` and `OnlySecretsChange` are about
  `removeEncryptionProviderConfigSecrets` itself, for every tree of maps, lists and
  other values: one lemma per loop, from the keys up. `SecretsOut` and `RestIn`
  state them of the sensor. YAML
  maps with other keys are not among what the code redacts (section 5).
* `SteadyReported`: of the parts that the request has passed, each that can be
  relied on was found (`Passed`). It needs of the tables of parts that a part hangs
  only on earlier ones, which need no more than it (`OwnersFirst`, `OwnerNeeds`),
  and that parts kept together need the same (`MemberNeeds`).
* `TypeCorrect`.

**CNI configuration directory** (also `NodeInventoryProofs`).
`RuntimeTypeCorrect`, `PrecedenceKept`, `SteadyRuntimeNotMissed`: `Watched` says that
a runtime which is called steady runs, and that crio is only asked when containerd
is not steady or was missed. That going through the files
and stopping at the first which names a directory gives what takes precedence
(`FirstDirIsFirst`, `FirstIsConfigured`) is shown for lists of drop-ins of any length.

**Kernel variables** (`KernelVariablesProofs`).

* `TypeCorrect`, `NothingLeftOpen`, `BranchHeld`: `FilesInv` says that the open files
  are exactly what the active calls have deferred, that a call defers only names of
  its directory, and that only calls on the path have anything deferred.
* `SteadyListed`: `[]SteadyVariablesListed`. `ListInv` speaks of a set `B` that is no
  variable of the model: the names dealt with so far. The list has exactly the
  readable files of `B` (`Lists`); a directory on the path has its other steady names
  in its batch or beyond the last name read (`Remaining`); one that is done has none
  left (`Finished`). When the walk is over `B` holds all that is certain
  (`AllTaken`): the least name that is missing would be in a directory that is done.

**Cloud metadata** (`CloudProviderProofs`). `TypeCorrect`, `SameClient`,
`GetsHaveDeadlines`, `AccessReported`: `ClientInv` says how far a request is by what
it has: past `GetHttpClient` the client there is, past the assignment of `Timeout` a
client with a timeout. `AccessInv` says that an API that has been up throughout is
still ahead, or asked and about to answer.

Only model-checked is liveness (`SignalEndsProcess`, `DeafProcessIsReplaced`,
`WalkEnds`, `SearchEnds`, `KernelWalkEnds`, `RequestEnds`, `ConnectionsReleased`),
as the prover has no rule for fairness. Every invariant, action property and
refinement of the passing runs is proved.

## 5. Not modelled

* OS release, kernel version and hardening (`sensor/osrelease.go`): one or two files
  are read per request, without state or concurrency of their own. The search for
  os-release takes the first name in `/etc` with that ending and has the form of
  the process search, with nothing read until it has ended.
* Log and telemetry set-up, the parsing of TOML, YAML, JSON and `/proc/net`:
  libraries, modelled by what the code uses of them.
* Plain types, test and build tooling.
* A failing `os.Open` of `/proc/sys/kernel` itself, which ends the request before
  the walk begins.

Observations made on the way, one of which a run shows:

* A panic in a handler unwinds `filterNLogHTTPErrors` past its log statement to
  negroni's Recovery: such a failure is answered with 500 and not logged with
  request and response, though `sensor.go:113` says "in case of failure it logs
  the request and the response". The model keeps no log, so no run shows this.
* The fields of a kubelet report (`kubelet.go:118`) may come from different moments,
  or, if the pid is reused, from different processes. `KubeletScan` has these
  behaviours; nothing in the code or its docs promises otherwise.
* `CNIConfigDirFromKubelet` returns an empty directory and no error if the runtime
  of the kubelet's endpoint names none (a cri-dockerd endpoint leads there with
  containerd), where `containerruntime.go:92-95` promises the default: the
  finding of `cni_path_empty`.
* `newContainerRuntime` (`containerruntime.go:291`) compares the whole endpoint
  with "/crio.sock", which the comment at line 70 calls a suffix, so the search by
  process decides: with containerd and crio both running, containerd is asked. No
  property catches this: `PrecedenceRespected` judges the runtime that was asked.
* `getSELinuxStatus` (`osrelease.go:74`) opens SELinux's configuration and then
  reports the content of the AppArmor profiles.
* `SenseOpenPorts` filters UDP and ICMP by TCP's LISTEN state, and a node without
  IPv6, where `tcp6` is missing, reports no TCP port at all (`Group`):
  `SteadyPartsReported` promises only protocols all of whose files are readable.
* A YAML map with a key that is no string is not a `map[string]interface{}`, so the
  redaction leaves it, and what is in it, as it is (`Other`).

## 6. Not done

* `FileInfo` composed with `NameService` by an `INSTANCE`: it uses the names through
  what `Provenance` proves of them.
* A variant of the liveness arguments that does without fairness, by a measure that
  every step of a walk or a search decreases.
