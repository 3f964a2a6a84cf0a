# A TLA+ verification project for e2b-local

e2b-local is a gateway that serves the E2B sandbox API from one machine. It keeps
its sandboxes, templates and builds in memory and drives a container or VM backend
(Docker, OrbStack, Apple Container). This project models the parts whose
correctness depends on the order in which requests, handlers, timers, goroutines,
failing backend calls, operators and restarts of the process interleave, checks them
with TLC on small instances, and proves the main results about sandbox lifetimes,
restarts, template builds, uploads, Docker volumes, volume content, the three
backends and the HTTP layer with TLAPS.

Paths below are relative to `src/internal/` unless they start with `src/`.

## 1. The system

| Component | State | Operations | Model |
|---|---|---|---|
| HTTP layer (`gateway/gateway_api.go`, `server.go`, `e2bapi/api.gen.go`) | none that outlives a request; the pages of a listing depend on the store | routing, binding, decoding, error statuses, paged listing | `GatewayApi`, `GatewayClient` |
| Sandbox store and handlers (`gateway/store.go`, `gateway_callbacks.go`, `sandbox_deletion.go`) | `SandboxStore.sandboxes`: one entry per sandbox with state, `EndAt`, `OnTimeout`, runtime info and a `lifecycleMu` | create, get, list, kill, pause, resume, connect, timeout, refresh, snapshot, team kill | `SandboxLifecycle` |
| Deadline manager (`gateway/sandbox_deadlines.go`) | `timers`: one timer per sandbox; `stopped` | schedule, cancel, fire, expire, retry, shutdown | `SandboxLifecycle` |
| Start of the gateway (`gateway/server.go`, `src/cmd/e2b-local/main.go`) | nothing of its own: the store is rebuilt from what the backend restores | restore, reconcile, rebuild timers | `SandboxRestart` |
| Runtime interface (`gateway/runtime.go`) | the sandbox as the backend has it | create, delete, pause, resume, inspect | `RuntimeContract` |
| Docker backend (`backends/docker/runtime.go`) | containers, their labels, commits in the engine | the calls of the interface, snapshot, restore | `DockerContainers` |
| OrbStack backend, machines (`backends/orbstack/runtime.go`, `vm_client.go`) | machines, the metadata file in each, snapshot machines | as Docker, by scripts over ssh | `OrbstackMachines` |
| Apple Container backend (`backends/applecontainer/`) | containers with a published port and labels, a lock file | as Docker, by XPC requests | `AppleContainers` |
| Docker local volumes (`backends/docker/volumes.go`) | content directories, metadata files, mounts; `volumeCreateMu`, `volumeMountMu` | create, delete, mount at sandbox creation | `DockerVolumes` |
| Volume content (`gateway/volume_content.go`, `backends/docker/volumes.go`) | the files of a volume | upload, download, make a directory | `VolumeContent` |
| OrbStack volumes (`backends/orbstack/runtime.go`) | host directories with their metadata, no lock | create, list, get, mount, delete, migrate | `OrbstackVolumes` |
| Template builds (`gateway/template_build_manager.go`, `management_store.go`, `gateway_callbacks.go`) | `active` tasks, wait group, `stopping`; `templates`, `deletedTemplates`; the engine's images | create, update, rebuild, mark ready, start v2, delete, cancel, shutdown | `TemplateBuilds` |
| Template file uploads (`gateway/template_files.go`, `management_store.go`) | `templateUploads` (one-time tokens with expiry), `templateFiles`, temporary files | make a token, upload, look up | `TemplateUploads` |
| Configuration, CLI, `orbctl` client | none | validation, a second gateway for `volume create`, JSON-RPC | not modelled |

How they interact. A request passes the middleware, the router, the generated
wrapper and the handler before its callback runs. A callback on a sandbox takes the
sandbox's `lifecycleMu`, reconciles the store with what the backend reports, performs
its transition in the backend and then in the store, and syncs the sandbox's timer
with the new record. A timer that fires runs a callback that takes the same mutex,
checks that the record still has the deadline the timer was made for, and deletes or
pauses. Create never takes the mutex; the commit of a snapshot runs after the mutex
was released; containers and machines change behind the gateway's back. Every call of
a backend is a chain of requests to another program, each of which may fail before or
after it took effect. Build handlers and build goroutines share templates only
through single accesses of the management store: each reads a copy, changes it and
writes it back. The Docker backend protects volumes with two mutexes that different
calls take in different combinations, the Apple backend creates and resumes with a
lock file, and OrbStack's volumes have only the file system's own atomicity.

What is hard here:

* a callback that fired for one deadline and gets the mutex after the sandbox was
  renewed, paused or deleted; timer entries reused after they have fired; retries;
* backend calls that report an error after they took effect, and the three
  reconciliations (request, expiry, start) that have to make store, timer and
  backend agree again;
* the end of the process at any step, in the gateway and in a backend's call, and
  callbacks that race with the three loops of the next start;
* copies of templates written back over the outcome of a build; cancellation and
  shutdown against goroutines at every stage;
* directories and files that move, by migration, by a sandbox or by another request,
  between the look at them and their use;
* ports and names found free and taken by somebody else before they are used;
* pages of a listing whose sandboxes come and go.

What makes each component correct:

* HTTP layer: a request reaches the operation it was made for, the status tells what
  happened, a refused request has done nothing, and the pages of a listing show every
  sandbox that stays exactly once;
* lifecycle: a running sandbox is always watched for its current deadline, is never
  expired before the deadline its client was told, is never served again after a
  404, is never lost while it lives in the backend, and is destroyed only by a kill
  request or its due expiry;
* restart: the same for what the next process restores;
* backends: calls move the sandbox only where they should and answer what is so; a
  failed create leaves nothing behind; what is restored is what was created;
* builds: the limit counts what really runs, no build runs twice at once, a build
  settles, shutdown ends and leaves nothing running;
* uploads: a token is good for one upload, a file that a build holds stays readable
  and valid, and no temporary file is left behind;
* volumes: a directory is not removed under a container that mounts it or is about
  to, a user's directory is left alone, no volume is lost to a migration, a file is
  published whole and in its place, and nobody waits for ever.

`PROJECT.json` lists the hazards with their lines and the properties that cover
each.

## 2. The modules

`RuntimeContract` is the abstract specification in the middle. Above it,
`SandboxLifecycle` and `SandboxRestart` take each backend call as one step that obeys
the contract's rules: it moves the sandbox where the call may move it, and an error
may hide a success (`LateEffect`). Below it, `DockerContainers`, `OrbstackMachines`
and `AppleContainers` make the same calls of many steps, and each is shown to
implement the contract (`ImplementsRuntime == Runtime!CSpec`, with `Runtime` an
instance under a refinement mapping). The seam is by inspection: the lifecycle's
steps are not derived from the contract by a second refinement. Requests that land after
their call (`Lands`) have their place in the lifecycle as well: a stop, a bootstrap and a
delete that come late are what `ExternalChange` does there with `"pause"`, `"unpause"`
and `"die"`, and a late create follows only a create that failed, which `NoOrphanRuntime`
leaves out by name.

### SandboxLifecycle

| Model | Code |
|---|---|
| `store[s]`, `Put` | an entry of `SandboxStore`, its setters followed by `syncSandboxDeadline` |
| `op[s]` | `lifecycleMu` and the handler that holds it: its kind, the step it is in, its timeout or `expectedEndAt`; `Idle` is the free mutex |
| `timers[s]`, `schedule`, `syncSandboxDeadline`, `scheduleExpiryRetry` | the deadline manager's table and the functions of the same names |
| `callbacks[s]` | callbacks that have fired and wait for `lifecycleMu`, by `expectedEndAt` |
| `rt[s]` | the backend's sandbox: none, running, paused, dead |
| `created[s]` | how far `defaultCreateSandbox` got, and the `EndAt` and `OnTimeout` that go into the labels |
| `commits[s]` | the backend's half of a snapshot |
| `promised`, `refused` | history: the last `EndAt` in a response; a 404 was answered |

A request is `LockAndCheck` (or `RefuseExpired`, `RefuseAbsent`), then one of
`InspectFails`, `InspectMissing`, `InspectExists`, then the success or failure of
its own transition. An expiry is `TimerFires`, `ExpiryBegins`, then the transition;
when its pause fails, `ExpiryReconciles`. A failing backend call has done nothing,
or everything (`LateEffect`): a timeout of the call, or a failure of the inspection
that follows the change, looks the same to the gateway.

Abstractions. Ids are unique, so the loop of `lockSandbox` that looks the entry up
again has one outcome, and `store.Create` of a fresh id does not fail. Every
registered backend is an inspector: the branch without one is left out. The backend
call and the store write after it are one step, as both are under `lifecycleMu` and
what happens outside the mutex reads neither half alone; create, which is not under
it, has a step for each. The firing of a timer and its check of `stopped` are one
step. A retry instant is a clock reading and is taken never to equal an `EndAt`
(`retry` keeps them apart). Pending callbacks are a set: two for the same
`expectedEndAt` would do the same. Get, list and the lookup of team kill are the
kind `get`; list also iterates, which is several of them (`GatewayClient` has the
iteration).

### SandboxRestart

EXTENDS SandboxLifecycle with the process. `ProcessDies` empties what is memory;
`StartProcess`, `RestoreOne`, `ReconcileOne`, `ResyncOne` are the loops of
`restoreRuntimeSandboxes`, `reconcileStoredSandboxes` and
`restoreSandboxDeadlines`, one sandbox per step, over the records listed when the
loop began. Callbacks of timers that are already set run between the steps. A
failing inspection ends the start (`BootFails`), and the process is started again.
A create that dies half-way is a success or a failure of its backend call followed
by the crash. Label timestamps are RFC 3339 with nanoseconds, which loses nothing.

### RuntimeContract

One call per sandbox at a time. While it is under way it may move the sandbox within
`Reach`; its answer must be `Truthful` of a state the sandbox had at the end of the
call or that the call met and noted (`seen`); `Interference` is what others than the
gateway may do; `Crash` ends every call without an answer. An `error` tells nothing,
and only a call that ends in one, or in a crash, may leave requests behind: `owed` are
the states these may still take the sandbox to (`Lands`). The mappings of the Docker
and OrbStack backends owe nothing; the Apple one owes what is in `late`.
A pause may be reported as done of a sandbox that has died, which is Docker's
conflict.

### DockerContainers

`ctrs[s]` is the container: its state in the engine, the labels it has from the
request and from its image, and whether its ready command would succeed. A create is
the chain of `CreateSandbox`: image, platform, image labels (whose failure is only
logged: history `unlabelled`), ports, create, start, inspect, health, ready command;
a failure after `ContainerCreate` cleans up. `InspectSandbox` is two requests with
anything between them. Conflicts of pause and resume are successes, as in the code.
`commits[s]` is a commit in the engine: it outlives the handler and the process, and
unpauses at its end what it has paused. `RestoreOne` reads policy and metadata from
the labels. Records and labels carry a policy and one metadata value; ports,
addresses and environment are data. A request that fails has had its effect by then or
never has it (`Late`); a commit, and in `DockerVolumes` a create, may have it later.

### OrbstackMachines

`vms[s]` is the machine with the metadata file's policy. `configureMachine` is its
seven scripts (`ConfigureSteps`), each of which may run again when the connection is
lost (`RetrySSH`) or fail after it ran (`LateStep`). `CloneVM` failing has no
clean-up, later failures have. A pause looks first, stops, and confirms when the stop
fails. `snaps[s]` is the snapshot machine of one name with the version of its disk;
anonymous snapshots have names of their own and no state here. `RestoreOne` reads the
metadata file, which of a stopped machine the host may not see (`HostView`): then it
looks absent and the default policy is taken (history `unread`). An operator stops,
removes and starts machines. As in `DockerContainers`, a request that fails has had its
effect by then or never has it.

### AppleContainers

The lock file is `lock`, which creates and resumes take and every process shares. A
create picks a port that is free at that moment, makes the container, boots it,
starts envd and asks for its health at the port it has in hand; whoever has the port
answers (`Answering`). `ProvisionFails` and `cleanupContainer` are the attempts. An
inspection that finds an empty list asks again (`InspectAttempts`, of which
`EmptyLists` may be wrong), a restore believes one list. `XPCClient.mu` keeps the
requests of a process apart, so each is a step.

A request has no end of its own when nobody waits for it: `xpc_bridge_send` stops
waiting when the time is up (`GivesUp`), and a process that dies leaves the one request
it has sent (`InHand`). The service, another process, carries it out at any later
moment, or never: `late` is what is still to come, `LateRequestEnds` and `CarriesOut`
what becomes of it. A late bootstrap takes its port without the lock; so does an
operator's start (`ExternalChange`). The container that runs then is a `stray`: no call
has started it. The statuses that are no state of a sandbox answer `unclear`.

### DockerVolumes

Directories and metadata files are separate sets because every operation changes
them one after the other. `writer` is set from the moment `Lock` of the
`sync.RWMutex` is called, so that new readers wait for a waiting writer; `Unlocked`
hands the lock to the readers that wait, as Go's does. `Failures` names the system
calls and Docker requests that may fail, and the end of the process. A `ContainerCreate`
whose context ends, or whose process dies, gives the read lock back while the engine
may still make the container: `late` has its mounts until `LateCreate`, and `strays` are
the containers that came in this way during a removal.

### VolumeContent

All requests are for one path, `parent/file`. A directory is an inode that `os.Root`
holds wherever its name goes; `parent` is what stands at the parent's name, a
directory, nothing, or a link out of the volume. An upload is `WriteBegins`,
`OpenParent`, `LstatTarget`, `CreateTemp`, `BodyRead`, `Publish` (`Rename` with force,
`Link` without), `Cleanup`. Sandboxes that mount the volume rename, replace and remove
at any moment, the volume is deleted and made again, the process dies. File modes,
owners and sizes are data; a refusal by one of them is a failure of `BodyRead`.

### OrbstackVolumes

`dirs` has every host directory with whether its metadata is in the current form or an
older one (another attribute, or a file), its id and name, and the volume whose data it
holds. A lookup stats the directory named by the key, reads the list, reads entry by
entry, and migrates what it finds: `ReadMetadata`, `ReadOlderMetadata`,
`RewriteMetadata`, `ChooseTarget` (one `os.Stat` per step), `LstatTarget`, `Rename`.
Nothing is locked, any two calls may overlap, and every step acts on what is at its path
by then. `os.Rename` is its own `Lstat`, which refuses a directory that is there, and
then `rename(2)`, which replaces one that was made since if it is empty: a volume with
its metadata in an attribute is empty until somebody writes into it. `harmed` has the
volumes whose directory was replaced so, and those that a call has changed or removed
that meant another volume: `Astray`, a call whose own volume was deleted, or harmed, or
is mistaken for one that has its id for a name.

Left out or taken as one step: `os.RemoveAll` and `os.ReadDir` are one step each and the
former succeeds; so are the three system calls of `writeVolumeMetadata` and, in a delete,
`os.Stat` and `os.RemoveAll`. The metadata is that of `volume_metadata_darwin.go`; a
sidecar file of other builds would make directories non-empty. A volume name that ends
like a suffix (`data-2`) is not identified with the suffixed directory of another name.

### TemplateBuilds

`templates[t]` has the current build and the status of every build;
`UpsertTemplate` merges as the store does, and takes the template out of
`deletedTemplates`. `images` are the templates of which the engine has an image:
`findTemplate` lists the runtime's templates and the managed ones, so that an image
alone makes a template visible (`Visible`), and a build or a rebuild makes one. A
handler is `Find` (with the `Copy` it keeps) followed by `WriteBack`, `Delete`, or
`Reserve`, `StartBuild`; a build goroutine is `BuildReturns`, `SaveOutcome`,
`Complete`. Requests are numbered and arrive in that order, which loses nothing as
they are otherwise alike. Tag requests rewrite the template the way update does and
are the kind `update`. `saveLocked` writes no file and never fails, so `release`, the
undo of a reservation whose record could not be saved, is never reached. `isCurrent`
and the write after it are one step: only the task's own `complete` changes the
answer. Build logs and tag contents are data.

### TemplateUploads

A PUT is `PutBegins` (the first critical section), `BodyRead`, `Validate`, and then
`RefusedLate` or `Commit` (the second). Any number of PUTs may use one token at
once, and a build start takes a file's path that its goroutine opens later. A body is
one of a few contents; `Expected[k]` are those the hash of `k` stands for (all of
them when the hash is no sha256), `Malformed` those the archive check refuses.
`os.Remove` is taken to succeed.

### GatewayApi and GatewayClient

`GatewayApi` is tables, one row per operation: the method and path it is registered
under, its parameters in the order the wrapper binds them, whether the handler reads a
body, the callback it calls, its success status and the status an error gets that
carries none; and the router's rule for a path that two routes match. `GatewayClient`
sends requests through them: `Preflight`, `NotRouted`, `Routed`, `Bind`,
`NotImplemented`, `Decode`, the callback, `Respond`. Two handlers may fail after their
callback succeeded (`still`): the port lookup, whose port is not published or whose host
is not known, and the download, whose copy fails; an upload to a template that the store
does not take (`stored` false, no error) counts as refused by its callback. A request is
well-formed, or has one thing wrong with it: a parameter repeated, missing, empty or
malformed, a body absent, malformed or too large, a value the handler refuses, a trailing
slash, another method. Of the gateway's state only the sandboxes are kept; a callback on anything
else may succeed or fail in any way it has. `ListBegins`, `ReconcileNext`, `ListEnds`
are `defaultListSandboxes` with the world moving between the steps, and a session
asks for pages with the token of the page before. The filter by state, which the code
applies after the loop to the records the loop returned, is applied to each of them as
it is returned.

### The proofs

Each extends the module it is about and has the theorems of section 4:
`SandboxProofs` (`SandboxLifecycle`, and `SandboxRestart` with its help),
`TemplatesProofs` (`TemplateBuilds`, `TemplateUploads`), `DockerVolumesProofs`
(`DockerVolumes`, `VolumeContent`), `DockerContainersProofs`, `OrbstackMachinesProofs`,
`OrbstackVolumesProofs`, `AppleContainersProofs`, `GatewayClientProofs` (`GatewayClient`
with the tables of `GatewayApi`). The `MC` modules give the constants their values for
TLC.

## 3. The runs

| Run | Shows |
|---|---|
| `lifecycle` | the contract of the lifecycle over four instants: all requests, late failures, external changes, shutdown; and that an overdue sandbox does not stay overdue (0.46 million states) |
| `restart_safety` | two deaths of the process, at any step: nothing lost, deadlines watched and kept |
| `builds` | capacity, uniqueness, shutdown and settling with three requests and three builds |
| `volumes_safety` | the two mutexes, with three calls, a volume, a user's directory, every failure and late creates (0.17 million states) |
| `uploads_safety` | three uploads with two tokens, expiry during the upload, equal and different contents, a build that holds a file |
| `docker_containers`, `orbstack_machines`, `apple_containers` | each backend implements `RuntimeContract`, and its own promises (45 thousand, 51 thousand and 1.1 million states) |
| `orbstack_volumes` | two calls at once over two legacy volumes of the same name and new ones beside them (2.4 million states) |
| `volume_content` | two writers and a reader of one path while everything moves (0.6 million states) |
| `gateway_client` | every operation in every way a request can be wrong, and paged listings (1.0 million states) |
| `restart_forgets_renewal` | the first disagreement of section 5 |

Properties, by component:

* Lifecycle: `ExpiryCovered`, `NoExpiryBeforePromise`, `RefusedStaysRefused`,
  `NoOrphanRuntime`, `OnlyKillOrExpiryDestroys`, `OnlyTimeoutShortens` and
  `ExpiredIsHandled` state the contract of section 1.
* Restart: `ServedRuntimesAreKnown`, `RestoredAreCovered`; `NoExpiryBeforePromise`
  holds there as long as nobody renews.
* Backends: `ImplementsRuntime` for each. `RestoredAsCreated` (Docker, OrbStack): the
  next process knows what was created, with its policy, and for Docker its metadata,
  whatever the image's labels say. `AnsweredIsReady`: a create that was answered has
  passed the ready command. `SnapshotIsFresh`: a named snapshot is not an older one.
  `FailedCreateLeavesNothing` and `NoPortTakenMeanwhile` (Apple).
* Volumes: `DeleteSparesMounted`, `ForeignKept`, `CallsReturn`; `PublishedWhole`,
  `NoForceKeeps`; `VolumesKept`, `FoundById`, `MountedIsVolume`.
* Builds and uploads: `WithinCapacity`, `OneTaskPerBuild`, `QuietAfterShutdown`,
  `BuildSettles`, `ShutdownEnds`; `TokenUsedOnce`, `HeldFileReadable`, `NoStrayFile`,
  `AcceptedIsStored`.
* HTTP: `RoutedAsMeant`, `AnswerIsTrue`, `NotFoundMeansGone`, `PagesShowEachOnce`.

Several of them name their exceptions, and the exceptions are part of what they show.
`RoutedAsMeant` lists the four identifiers that literals of routes take from their
owners. `NotFoundMeansGone` leaves out the two handlers that answer any failure of the
runtime with 404, and `AnswerIsTrue` the two that may fail after their callback, which
have only read. `NoPortTakenMeanwhile` excepts containers that no call has started;
`DeleteSparesMounted` a container made late, during the removal itself. The three
properties of the OrbStack volumes speak of volumes that are `Unharmed`, which names the
races of section 5. `PagesShowEachOnce` leaves out listings whose token names a sandbox
that has gone, which the gateway ends. `RestoredAsCreated`, `AnsweredIsReady` and
`FailedCreateLeavesNothing` use the histories `unread`, `dropped`, `unlabelled`,
`leaked` and `missed` in the same way: each is set at the one step where the code
passes over a failure.

Bounds. One sandbox suffices for the lifecycle, the Docker containers and the OrbStack
machines, as entries share only the clock and the process; the lifecycle's proofs are
for any number. Instants 0..3 with timeouts 0, 1 and 2 allow a deadline, a renewal
before or after it, a failed expiry and its retry. `MaxTime` bounds deadlines in the
guards: requests that would set a deadline beyond it do not arrive, an expiry fails
only while a retry still fits, and the clock waits for a handler that needs room. Two
deaths let the second hit the start after the first. Three build requests with three
builds and two places allow a full table with a third start, or a build with a cancel,
an update or a delete. Three volume calls are a create, a delete and a sandbox at
once; the sandbox may mount both directories; `MaxLate` 1 is one container that the
engine makes late. Apple: two sandboxes that compete for one port, two attempts, an
inspection that is wrong once and asks twice, and one request that is given up at a time
(`Slots`), of which any number may follow another.
`MaxWrites` 2 gives a snapshot an older and a newer disk. OrbStack volumes: three
calls, two at a time, are two migrations, or a create, between the steps of another;
`MaxIndex` 3 is a suffix for each of the volumes of one name. `MaxVolumes` 2 is one
later volume of the same name. Page limits 1 and 2 over three sandboxes give one to
three pages; `Words` are the literals that identifiers may collide with, and one that
does not. Symmetry is used where no property of the run is temporal but the
action properties and refinements, which permuting the set leaves alone.

Assumptions made by constants:

* `SharedCreateWindow` FALSE: no request reaches a sandbox between `store.Create` and
  the timer sync of the create handler. That window is real (a list shows the
  sandbox) and breaks `ExpiredIsHandled` (section 5); the run excludes it so that the
  rest of the contract is not judged by it.
* The requests of `restart_safety` do not renew: a renewal is forgotten by the next
  process (section 5, first item).
* `restart_safety` has no `unpause` among its external changes, and nothing can
  overtake a commit as there is no resume: a sandbox that something else than the
  gateway wakes, an operator or a late bootstrap of the Apple backend, may be left
  without a timer (section 5, second item).
* `EmptyLists` < `InspectAttempts`: the container service is not wrong in every
  attempt.

Deadlock is checked where the system cannot stop: volumes, the three backends, the
HTTP client. The others may: after shutdown, or at the bound of time or requests.

Fairness. Handlers, goroutines and fired timers run on (weak fairness of their next
step). Waiting for a mutex is strong fairness: Go's mutex hands itself to a waiter
that has starved for a millisecond. Time passes; it is strongly fair only because
the bound makes it wait for handlers. A backend's build returns in the end, as its
context is cancelled at the latest by shutdown. A failure is never forced and never
excluded: at the bound of time the expiry no longer fails, which stands for the
assumption, needed for any such claim, that the backend does not fail for ever. No
request has to arrive, and the process need not die.

## 4. What is proved

Every proof has the same outline. An inductive invariant strengthens the properties,
a lemma per action (or group of actions that change the same state) shows that a step
keeps it, and a last step of temporal logic gives `Spec => []Inv`. TLC has checked
each of these invariants on the instances of section 3 before it was proved. Nothing is
assumed but the named assumptions of the modules and what a theorem states.

**Sandbox lifetimes** (`SandboxProofs`), for every set of sandboxes, requests
and timeouts, every retry delay and bound, and with late failures and external
changes, from `ConstantsAssumption` alone:

* `TypeCorrect`: `Spec => []TypeOK`. `TypeInv` strengthens it with `Holder`: the
  holder of the mutex is in a step of its own handler, and a renewal under way has
  room for its deadline.
* `NeverRevived`, `NeverOrphaned`, `NeverDestroyedOtherwise`,
  `NeverShortenedOtherwise`: from `CoreInv`, which holds in every state, those of the
  create window included. `PreStore`: before `store.Create` only the create handler
  knows the sandbox. `HeldRecord`: the mutex is held of a stored sandbox, and an
  expiry under way works on the deadline in the store, which has passed, with the
  step its policy asks for. These two and the types are `LockInv`; `CoreInv` adds
  `RefusedExpired` and `Known`, the two properties of one sandbox. Neither is inductive
  alone: that a failed expiry leaves a refused sandbox expired, and that a deletion
  leaves no live sandbox behind, need `HeldRecord`, and that needs `PreStore`.
* `AlwaysCovered`, `NeverBeforePromise`: from `IndInv`, with `~SharedCreateWindow`.
  `UnansweredCreate`: until create has answered nobody else has touched the sandbox.
  `TimerOfRecord`: only a running sandbox has a table entry, the entry expects the
  deadline in the store, and one that has fired has its callback waiting or at work;
  this is what makes the reuse of a fired entry in `schedule` safe. `PromiseStored`:
  the deadline in the store is the one last told. Without the assumption
  `CreateSync` breaks `TimerOfRecord`.

The proof has a lemma per group of actions (requests, handler steps, timers and the
world) for each of the layers `LockInv`, `CoreInv` and `IndInv`; `Locality` reduces a
step of one sandbox to the facts about that sandbox. `LockStep` and the lemmas under it
speak of any step of the lifecycle, so that the restart proofs use them as they are.

**Restarts** (the second part of `SandboxProofs`), for any number of deaths of the process:

* `RestartKnowsAll`, without hypotheses. `Known` does not hold across a restart, as
  the store is empty while the backend's sandboxes live on. `RestoreInv` has
  `KnownAgain`: a sandbox is known, or its turn to be restored is still to come. It
  needs `Emptied` (a process that is down has no memory), `Settled` (a create that died
  is as good as answered or failed) and `BootHolder` (the mutex that a loop of the
  start holds is one of its own steps).
* `DeathKeepsPromises`, when no request renews. `PromiseInv` adds `Asked` (handlers are
  of requests that arrive) and `AsCreated`: store, labels and promise agree on `EndAt`
  and `OnTimeout` from the create on. It uses neither the timers nor
  `~SharedCreateWindow`: an expiry compares deadlines once more under the mutex.
* `RestartCoversAll`, with `~SharedCreateWindow` and `Undisturbed` (no operator
  unpauses; not both snapshots and requests that resume). `TimerOfRecord` is false
  during a start. `CoverInv` says what is true instead: a sandbox has its timer, or is
  not yet synced, or is `Asleep`: paused with a stale entry that nothing will make
  wrong. `Resyncing` says that a record still to be synced by the last loop is the one
  in the store, or the sandbox is asleep; `CommitSleeps` and `NotDuringCommit` that the
  end of a commit does not wake it either. Without `Undisturbed` the theorem is false
  (section 5, second item).

**Template builds** (`TemplatesProofs`), for every finite set of requests, any
kinds, templates and builds, and every limit, from `BuildsAssumption`:

* `TypeCorrect`, which includes that the wait group is never told `Done` more often
  than `Add`; `CapacityKept`, `NeverTwice`, `QuietAfter` for the three safety
  properties of the build manager.
* The invariant is `BuildsInv`: types, `Keyed` (a request that has found its template
  has a real key), and `Table`: `active` is exactly the tasks in flight, `wg` is its
  size, it is within the limit, its keys are distinct, and after shutdown it is empty.
  None of the three properties speaks of `active` or `wg`, and none is inductive
  without them: the checks of `reserve` look at the table, not at the goroutines.
* A lemma per action; `SameTasks` and `AnswerKeeps` serve those that neither begin nor
  end a task, `ReserveKeeps` and `CompleteKeeps` carry the counting.

**Uploads** (the second part of `TemplatesProofs`), for any PUTs, tokens, keys, contents and
builds: `OneUploadPerToken`, `HeldStaysReadable`, `NothingStrays` and
`AcceptedMeansStored`, from `UploadsInv`. `Temporaries`: a PUT has a file only between
its body and its outcome, and what it is about to store is valid for its key; the
file of an accepted PUT is stored under some key or gone. `Stored`: a recorded file is
that of an accepted PUT, whole and valid. `HeldIsStored`: what a build was given is
still what the key has, because a later upload of the same key keeps the stored file.
`UsedIsGone`: the token of an accepted PUT is not in the table.
That a token is used once follows from `UsedIsGone` and the second look of the commit.

**Docker volumes** (`DockerVolumesProofs`), for any finite set of calls and any
volumes: `MountedAreSpared` and `ForeignStays`, from `VolumesInv`. `MountLock`: the
reader count of `volumeMountMu` is the cardinality of the set of calls that hold it,
a writer that waits or works is the one recorded, and while it works there are no
readers. `Touched`: a directory about to be removed is not foreign and mounted by nobody,
but for containers that the engine makes just then of requests that were given up
(`Unmounted`), and one about to get metadata is not foreign. `Shaped`: which calls get
to which line,
and about which volume. The reader count is what the code looks at, the set what the
argument is about; `HoldersFinite` and the lemmas after it relate them.

**Volume content** (the second part of `DockerVolumesProofs`), for any number of writers, readers,
directories and makings of the volume: `OnlyWholeIsPublished` and `NothingIsReplaced`,
from `ContentInv`. `Opened`: a write that has got so far holds a directory of the
volume. `Written`: it publishes only after the end of the body. `Final`: a writer whose
file stands under the name, or is being downloaded, is past its publication, so that
nothing changes the file.

**OrbStack volumes** (`OrbstackVolumesProofs`), for any number of calls, names and
volumes, what older versions left included, without hypotheses: `VolumesAreKept`,
`IdsAreFound` and `MountsAreVolumes`, from `VolumesInv`, although no call holds a lock
and any two may overlap. `Solid`: a directory named by an id is that of this volume.
The rest is said of each volume by itself, for as long as it is `Unharmed`. `Whole`: its
data and its identity are in the same, one directory. `Finds`: a call that means it finds
it at its path, or finds nothing because somebody else has migrated it, and a create has
its fresh directory to itself. `Search`: as long as a lookup of its id runs, its directory
is still among those the lookup will read, or is the one it reads. `Mounted`: so is what
was mounted for it. The step that carries the argument is `Missed`: a call that finds
another volume at its path has lost its own, so that the harm it does is counted.
`Spared` and `OthersSpared` say what a step does not do to other volumes; `RenameKeeps`
and `RemovedSpares` are the two that move and remove. What the theorems do not say is
what becomes of a volume once a delete, a rename or a late call has hit it; section 5
has these cases.

**Backends.** For any number of sandboxes each, and of ports, attempts, writes and
policies where there are such:

* `DockerCorrect` and, from it, `RestartKnowsThem`, `AnsweredAreReady`. `Kept` relates
  promise, labels and what the gateway knows, through deaths and restores; `Made`, how
  far a create is with its container; `Placed`, which step belongs to which call;
  `Witnessed`, that the history `met` has what an answer will be based on.
* `MachinesCorrect` and `RestartKnowsMachines`, `SnapshotsAreFresh`. `Configured`: once
  the script that writes it has run, the metadata file has the policy of the create.
  `Fresh`: the disk of a snapshot answered under a name is not older than its call.
* `AppleCorrect` and `PortsAreNotTaken`, `NothingIsLeft`, without hypotheses. `Locked`:
  whoever works on a port has the lock file, so that no other call boots a container.
  `Ported`: a container has the port it was made with, also one made late. `Left`: what a
  failed create has left, or may still leave through a request that was given up, is in
  `leaked` or `missed`. `AppleInv` includes `NoPortTakenMeanwhile`, in which only a
  `stray` may have the port: `Kept` says which steps can give a container one.
* `DockerImplementsRuntime`, `OrbstackImplementsRuntime`, `AppleImplementsRuntime`:
  the initial state is one of `RuntimeContract`, and under the invariant every step of
  the backend is a step of the contract, of the same sandbox, or a stutter, without
  hypotheses. There is a lemma per action that names the abstract step. The Apple one
  maps the requests in `late` to what the contract's sandbox is `owed`, so that a late
  bootstrap, stop or delete is a step `Lands`. That a create or resume was answered with
  success says there that the sandbox ran at some moment of the call, which is what the
  mapping notes in `seen` while the health check runs; it does not say that its own envd
  answered (section 5).

**HTTP layer** (`GatewayClientProofs`), for any sequence of sandboxes, any other
identifiers and any page limits, from `NamesAssumption`, and for the tables as they are:

* `AnswerIsTrueHolds` and `NotFoundMeansGoneHolds`, from `Truthful`. The first excepts the
  two handlers of `Reading`, by the tables' column `still`: these two, and no other, may
  answer an error after a callback that succeeded. `InOrder` says which
  layer has set what by the phase of the request; `Passed`, that a request whose callback
  runs was readable; `Returned`, that an outcome is one its callback may have. The two
  properties speak of the end of a request; these carry what was decided on the way to
  it. `HandlersArePlain` reads off the tables that a success status is a 2xx.
* `RoutedAsMeantHolds`, from `Addressed`: the request in flight is one a client makes for
  its operation, and what the router chose is for its path. The argument is about the
  tables. `MatchedByTwo`: of all pairs of operations only the four of `Overlap` have a
  path that matches both routes (`CloseRows` goes through the rows). `OverlapBeats`: in
  each of them the route with the literal in the second segment beats the other.
  `SomeoneChosen`: of the routes that match a path one is chosen. `ChosenIsMeant` puts
  these together: who reaches another operation has its literal for an identifier, and is
  one of the four of `Taken`. `RequestsAreMadeFor` is the part about the client.
* `PagesShowEachOnceHolds`, from `Fitting`, although sandboxes come, go and change state
  between and during the pages. `SeenFits`: what a session has shown is ascending in the
  order of creation, up to the sandbox of its token, and has every kept sandbox up to
  there, unless the listing was cut off. `Asking`: the request of a session has its token, states and limit.
  `ListingFits`: a listing under way has passed, in order, every kept sandbox whose turn
  it was. `PageFits`: a page begins behind its token and leaves nothing out, and ends the
  listing or names its last sandbox. `JoinAscending`, `PageIsPart` and `PageIsCutBehind`
  are the lemmas about `Page` and about sequences that ascend. The case the property
  leaves out, a token whose sandbox has gone, is where the argument has nothing to hold
  on to: the code then starts at the end of the list.

Only model-checked: liveness (`ExpiredIsHandled`, `BuildSettles`, `ShutdownEnds`,
`CallsReturn`), which this prover does not cover. Every safety property of a passing run
has a theorem; the hypotheses some of them have are named above.

## 5. Disagreements found

Two are bugs. The first has a run with a counterexample and an entry under `findings`;
TLC shows the second when a constant of `restart_safety` is changed.

1. Renewals are not written to the labels, so the next process expires a sandbox at the
   deadline of its creation (`restart_forgets_renewal`). For the same reason a sandbox
   that was shortened and refused is served again after a restart.
2. `restoreSandboxDeadlines` syncs the records it has listed without `lifecycleMu`.
   When an expiry pauses the sandbox after the listing, the stale record arms a timer
   for a paused sandbox. That timer fires, its callback finds nothing to do, and the
   fired entry stays in the table. If the sandbox is then seen running again (an
   operator unpaused it, or the commit of the previous process, overtaken by a resume,
   ended), `schedule` takes the fired entry for a live timer of the same `EndAt`, and
   the sandbox is never expired, although "timers are rebuilt from the store when the
   gateway starts" (`sandbox_deadlines.go:17`). A bootstrap of the Apple backend that
   was given up before the process died wakes a sandbox as well. With `"unpause"` in
   `ExternalChanges`, or with the requests `pause`, `snapshot` and `resume`, TLC finds
   `RestoredAreCovered` violated. The attempt to prove that property without
   `Undisturbed` led to it.

The models show these behaviours too, which have no run of their own:

* Create syncs its timer without `lifecycleMu`, with the record as it was stored. A
  timeout request in between has its timer replaced by that of the older deadline, and
  the sandbox is never expired. TLC finds it when `SharedCreateWindow` is TRUE.
* Resume may fail after the container was unpaused, or the machine started: the store
  says paused, no timer is set, and the sandbox runs past its deadline until a request
  looks at it. All three backends can do it.
* Update, and the tag requests, write back a template read before; a build that
  finished in between is recorded as building again. `BuildSettles` therefore says
  that the status leaves `building`, not that it never returns.
* A volume created between the two removals of a delete of the same name loses its
  metadata, and no call accepts its directory any more. A metadata file left by a
  half-failed delete lets a later `CreateVolume` adopt or roll back a directory that a
  sandbox already mounts.
* A build started before its template was deleted brings the template back when it
  finishes; a cancel counts a build that has passed its last look at the context and
  becomes ready.
* A pause of a running Docker sandbox during a commit is answered as done and undone
  when the commit ends: the engine had paused the container itself.
* OrbStack, volumes. A migration replaces the directory of a volume that was made
  between `os.Rename`'s own look and its system call, and that volume is gone. A call
  that comes back to its path after another has deleted and a third has made a volume
  there removes, renames or describes the wrong one. A volume whose name is the id of
  another is taken for it. A lookup that reads one entry while another rewrites its
  metadata answers that the volume does not exist. `VolumesKept`, `FoundById` and
  `MountedIsVolume` hold of all volumes that nothing of this has hit.
* OrbStack, machines: a restart while a machine is stopped may take the default timeout
  policy when the host does not see its files.
* Apple. A bootstrap that was given up runs a paused sandbox again, outside any call and
  without the lock: no timer watches it until a request looks at it, and it may take the
  port that a create has just found free. Then the create's own bootstrap fails, or an
  operator stops its container after the bootstrap and the health check, which asks at a
  port, is answered by the other sandbox. A late stop or delete undoes a resume. A create
  whose `ContainerCreate` was given up leaves a container, and a restore believes one
  list.
* Docker: a `ContainerCreate` whose context has ended may register its mounts while a
  delete removes the volume (`strays` in `DeleteSparesMounted`).
* A download that breaks off after its first bytes keeps its status 200; the log has the
  error.
* A template whose id is `tags` can be created and neither rebuilt nor deleted; a
  sandbox or template named like another literal of a route has the like.

## 6. Plan

Done: the modules above, and the proofs of section 4. Next, by importance:

1. A second gateway process on the same runtime (`e2b-local volume create` starts
   one): two stores and two timer tables over one backend.
2. A clock that steps back: restored deadlines have no monotonic reading, so a timer
   may fire before `EndAt`; its entry then blocks the next sync.
3. `App.Shutdown` composed of both managers, with the HTTP server still draining.
4. Volumes: migration of the legacy marker file of Docker's, the recursive listing.

Not modelled and not planned: configuration (read once, no state), the XPC framing
and the `orbctl` client (I/O of other programs, whose failures are steps of the
backends), conversion of records to response types, Dockerfile and cloud-init
rendering, image and platform selection (stateless).
