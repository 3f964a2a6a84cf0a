--------------------------- MODULE DockerVolumes ---------------------------
(***************************************************************************)
(* The Docker backend's local volumes: a content directory per volume, its *)
(* metadata file in another directory, the containers that mount it, and   *)
(* the calls that change them: CreateVolume, DeleteVolume, CreateSandbox   *)
(* with volume mounts, and the removal of a container.                     *)
(*                                                                         *)
(* volumeCreateMu serializes CreateVolume; volumeMountMu is read-locked by *)
(* CreateSandbox until Docker has registered the mounts and write-locked   *)
(* by DeleteVolume.  CreateVolume does not take volumeMountMu.             *)
(***************************************************************************)
EXTENDS Integers, FiniteSets

CONSTANTS
  Calls,      \* goroutines that serve a request; a sandbox is known by the one that made it
  NoCall,     \* nobody: the holder of a free mutex
  Volumes,    \* volume ids, which are also the directories' names
  Foreign,    \* directories a user made under the volume root before
  Failures,   \* what may go wrong
  MaxLate     \* bound on the requests whose container the engine may still make

FallibleSteps ==
  {"mkdir", "writeMeta", "removeDir", "removeMeta", "containerList", "containerCreate",
   "containerStart", "crash"}

ASSUME VolumesAssumption ==
  /\ IsFiniteSet(Calls)
  /\ NoCall \notin Calls
  /\ Foreign \subseteq Volumes
  /\ Failures \subseteq FallibleSteps
  /\ MaxLate \in Nat

VARIABLES
  dirs,       \* the volumes whose content directory exists
  meta,       \* the volumes whose metadata file exists
  mounted,    \* the volumes that the container of this call mounts
  late,       \* those of a container that the engine may still make for it, although its
              \* request has been given up
  strays,     \* history: calls whose container was made so during this removal of its volume
  call,       \* what each goroutine is doing
  createMu,   \* holder of volumeCreateMu
  readers,    \* number of read locks of volumeMountMu
  writer      \* who holds the write lock of volumeMountMu, or waits for the readers

vars == <<dirs, meta, mounted, late, strays, call, createMu, readers, writer>>

Idle == [pc |-> "idle", kind |-> "none", vol |-> {}, todo |-> {}, mounts |-> {}]

Init ==
  /\ dirs = Foreign
  /\ meta = {}
  /\ mounted = [p \in Calls |-> {}]
  /\ late = [p \in Calls |-> {}]
  /\ strays = {}
  /\ call = [p \in Calls |-> Idle]
  /\ createMu = NoCall
  /\ readers = 0
  /\ writer = NoCall

Goto(p, pc) == call' = [call EXCEPT ![p].pc = pc]

\* Mutation of Managed: the metadata is not asked for.
ManagedByDirectory(v) == v \in dirs

\* localVolume finds the volume: a directory with its metadata.
Managed(v) == v \in dirs /\ v \in meta

\* The volume a CreateVolume or DeleteVolume is about.
Vol(p) == CHOOSE v \in Volumes : call[p].vol = {v}

---------------------------------------------------------------------------
(* Requests.  A goroutine whose sandbox still has a container, or may get  *)
(* one, is not reused for another sandbox.                                 *)

Request(p, kind, v, mounts) ==
  /\ call[p].pc = "idle"
  /\ call' = [call EXCEPT ![p] =
       [pc |-> CASE kind = "create"  -> "lockCreate"
                 [] kind = "delete"  -> "lockWrite"
                 [] kind = "sandbox" -> "lockRead",
        kind |-> kind, vol |-> v, todo |-> mounts, mounts |-> mounts]]
  /\ UNCHANGED <<dirs, meta, mounted, late, strays, createMu, readers, writer>>

Arrive(p) ==
  \/ \E v \in Volumes, kind \in {"create", "delete"} : Request(p, kind, {v}, {})
  \/ /\ mounted[p] = {} /\ late[p] = {}
     /\ \E mounts \in (SUBSET Volumes) \ {{}} : Request(p, "sandbox", {}, mounts)

---------------------------------------------------------------------------
(* CreateVolume, called by a request or by ensureLocalVolume.              *)

\* Back to the caller: the request is answered, or CreateSandbox goes on with its
\* next mount, or fails and gives its read lock back.
Returned(p, ok) ==
  IF call[p].kind = "create"
  THEN /\ call' = [call EXCEPT ![p] = Idle]
       /\ UNCHANGED readers
  ELSE IF ok
  THEN /\ call' = [call EXCEPT ![p].pc = "mount", ![p].todo = @ \ call[p].vol]
       /\ UNCHANGED readers
  ELSE /\ call' = [call EXCEPT ![p] = Idle]
       /\ readers' = readers - 1

\* An existing directory is reused only with valid managed metadata.
Adoptable(v) == v \in meta

\* volumeCreateMu is taken.  A directory that is there is the answer or an error;
\* one that is not is made.
CreateBegins(p) ==
  LET v == Vol(p) IN
  /\ call[p].pc = "lockCreate"
  /\ createMu = NoCall
  /\ \/ /\ v \in dirs
        /\ Returned(p, Adoptable(v))
        /\ UNCHANGED <<dirs, createMu>>
     \/ /\ v \notin dirs
        /\ dirs' = dirs \cup {v}
        /\ createMu' = p
        /\ Goto(p, "writeMeta")
        /\ UNCHANGED readers
     \/ /\ v \notin dirs /\ "mkdir" \in Failures
        /\ Returned(p, FALSE)
        /\ UNCHANGED <<dirs, createMu>>
  /\ UNCHANGED <<meta, mounted, late, strays, writer>>

\* Mutation of MetadataWritten: the mutex is not unlocked.
MetadataWrittenStillLocked(p) ==
  /\ call[p].pc = "writeMeta"
  /\ meta' = meta \cup {Vol(p)}
  /\ Returned(p, TRUE)
  /\ UNCHANGED <<dirs, mounted, late, strays, createMu, writer>>

\* writeDockerLocalVolumeMetadata: the file is there whole or not at all.
MetadataWritten(p) ==
  /\ call[p].pc = "writeMeta"
  /\ meta' = meta \cup {Vol(p)}
  /\ createMu' = NoCall
  /\ Returned(p, TRUE)
  /\ UNCHANGED <<dirs, mounted, late, strays, writer>>

\* It fails: the directory is removed again, if it can be.
MetadataNotWritten(p) ==
  /\ call[p].pc = "writeMeta"
  /\ "writeMeta" \in Failures
  /\ dirs' \in {dirs \ {Vol(p)}} \cup (IF "removeDir" \in Failures THEN {dirs} ELSE {})
  /\ createMu' = NoCall
  /\ Returned(p, FALSE)
  /\ UNCHANGED <<meta, mounted, late, strays, writer>>

---------------------------------------------------------------------------
(* CreateSandbox, as far as volumes are concerned.                         *)

ReadLock(p) ==
  /\ call[p].pc = "lockRead"
  /\ writer = NoCall
  /\ readers' = readers + 1
  /\ Goto(p, "mount")
  /\ UNCHANGED <<dirs, meta, mounted, late, strays, createMu, writer>>

\* ensureLocalVolume of the next mount: found, or created on first reference.
EnsureLocalVolume(p) ==
  /\ call[p].pc = "mount"
  /\ \E v \in call[p].todo :
       \/ Managed(v) /\ call' = [call EXCEPT ![p].todo = @ \ {v}]
       \/ ~Managed(v) /\ call' = [call EXCEPT ![p].pc = "lockCreate", ![p].vol = {v}]
  /\ UNCHANGED <<dirs, meta, mounted, late, strays, createMu, readers, writer>>

\* Requests for a container are given up while the engine works on them.
GivenUp(asked) ==
  /\ late' = [p \in Calls |-> IF p \in asked THEN call[p].mounts ELSE late[p]]
  /\ Cardinality({p \in Calls : late'[p] # {}}) <= MaxLate

\* ContainerCreate, which refuses a bind source that is not there; the read lock is
\* given back either way, also when the request's context ends and the engine goes on.
ContainerCreate(p) ==
  /\ call[p].pc = "mount" /\ call[p].todo = {}
  /\ \/ /\ call[p].mounts \subseteq dirs
        /\ mounted' = [mounted EXCEPT ![p] = call[p].mounts]
        /\ Goto(p, "start")
        /\ UNCHANGED late
     \/ /\ ~(call[p].mounts \subseteq dirs)
        /\ call' = [call EXCEPT ![p] = Idle]
        /\ UNCHANGED <<mounted, late>>
     \/ /\ "containerCreate" \in Failures
        /\ call' = [call EXCEPT ![p] = Idle]
        /\ GivenUp({}) \/ GivenUp({p})
        /\ UNCHANGED mounted
  /\ readers' = readers - 1
  /\ UNCHANGED <<dirs, meta, strays, createMu, writer>>

\* The engine makes the container after all, or never.
LateCreate(p) ==
  /\ late[p] # {}
  /\ late' = [late EXCEPT ![p] = {}]
  /\ \/ /\ late[p] \subseteq dirs
        /\ mounted' = [mounted EXCEPT ![p] = late[p]]
        /\ strays' = strays \cup
             IF \E q \in Calls : call[q].pc = "removeDir" /\ Vol(q) \in late[p] THEN {p} ELSE {}
     \/ UNCHANGED <<mounted, strays>>
  /\ UNCHANGED <<dirs, meta, call, createMu, readers, writer>>

\* ContainerStart, the inspection and the two waits; if one fails the container is
\* removed, and an error of that is dropped.
ContainerStart(p) ==
  /\ call[p].pc = "start"
  /\ \/ UNCHANGED mounted
     \/ "containerStart" \in Failures /\ mounted' = [mounted EXCEPT ![p] = {}]
  /\ call' = [call EXCEPT ![p] = Idle]
  /\ UNCHANGED <<dirs, meta, late, strays, createMu, readers, writer>>

\* DeleteSandbox: removeContainer of a container that was made.
ContainerRemove(p) ==
  /\ call[p].pc # "start"
  /\ mounted[p] # {}
  /\ mounted' = [mounted EXCEPT ![p] = {}]
  /\ UNCHANGED <<dirs, meta, late, strays, call, createMu, readers, writer>>

---------------------------------------------------------------------------
(* DeleteVolume.                                                           *)

\* volumeMountMu.Lock: from here on readers have to wait ...
WriteLock(p) ==
  /\ call[p].pc = "lockWrite"
  /\ writer = NoCall
  /\ writer' = p
  /\ Goto(p, "drain")
  /\ UNCHANGED <<dirs, meta, mounted, late, strays, createMu, readers>>

\* Mutation of Drained: the readers are not waited for.
DrainedAnyway(p) == call[p].pc = "drain"

Drained(p) == call[p].pc = "drain" /\ readers = 0

\* ... and it returns when those that hold the lock are done.
WriteLocked(p) ==
  /\ Drained(p)
  /\ Goto(p, "check")
  /\ UNCHANGED <<dirs, meta, mounted, late, strays, createMu, readers, writer>>

\* dockerLocalVolumeInUse: some container, running or not, mounts the directory.
InUse(v) == \E p \in Calls : v \in mounted[p]

\* The call returns and unlocks; the readers that wait get the lock together.
Unlocked(p) ==
  LET waiting == {q \in Calls : call[q].pc = "lockRead"} IN
  /\ writer' = NoCall
  /\ readers' = readers + Cardinality(waiting)
  /\ call' = [q \in Calls |->
       IF q = p THEN Idle
       ELSE IF q \in waiting THEN [call[q] EXCEPT !.pc = "mount"]
       ELSE call[q]]

\* No such volume, the containers cannot be listed, or it is in use: nothing is done.
DeleteCheck(p) ==
  /\ call[p].pc = "check"
  /\ \/ /\ ~Managed(Vol(p)) \/ InUse(Vol(p)) \/ "containerList" \in Failures
        /\ Unlocked(p)
     \/ /\ Managed(Vol(p)) /\ ~InUse(Vol(p))
        /\ Goto(p, "removeDir")
        /\ UNCHANGED <<readers, writer>>
  /\ UNCHANGED <<dirs, meta, mounted, late, strays, createMu>>

RemoveDir(p) ==
  /\ call[p].pc = "removeDir"
  /\ \/ /\ dirs' = dirs \ {Vol(p)}
        /\ Goto(p, "removeMeta")
        /\ UNCHANGED <<readers, writer>>
     \/ /\ "removeDir" \in Failures
        /\ Unlocked(p)
        /\ UNCHANGED dirs
  /\ strays' = {}
  /\ UNCHANGED <<meta, mounted, late, createMu>>

RemoveMeta(p) ==
  /\ call[p].pc = "removeMeta"
  /\ meta' \in {meta \ {Vol(p)}} \cup (IF "removeMeta" \in Failures THEN {meta} ELSE {})
  /\ Unlocked(p)
  /\ UNCHANGED <<dirs, mounted, late, strays, createMu>>

---------------------------------------------------------------------------

Step(p) ==
  \/ CreateBegins(p) \/ MetadataWritten(p) \/ MetadataNotWritten(p)
  \/ ReadLock(p) \/ EnsureLocalVolume(p) \/ ContainerCreate(p) \/ ContainerStart(p)
  \/ WriteLock(p) \/ WriteLocked(p) \/ DeleteCheck(p) \/ RemoveDir(p) \/ RemoveMeta(p)

\* The gateway's process dies and starts again: directories, metadata and containers
\* stay as they are, and the engine may still make a container that was asked for.
Crash ==
  /\ "crash" \in Failures
  /\ \E p \in Calls : call[p].pc # "idle"
  /\ call' = [p \in Calls |-> Idle]
  /\ createMu' = NoCall
  /\ readers' = 0
  /\ writer' = NoCall
  /\ \E asked \in SUBSET {p \in Calls : call[p].pc = "mount" /\ call[p].todo = {}} : GivenUp(asked)
  /\ strays' = {}
  /\ UNCHANGED <<dirs, meta, mounted>>

Next ==
  \/ \E p \in Calls : Arrive(p) \/ Step(p) \/ ContainerRemove(p) \/ LateCreate(p)
  \/ Crash

Spec == Init /\ [][Next]_vars

\* A call under way runs on, and gets a lock that is free again and again (Go's
\* mutex does not starve a waiter).
Fairness == \A p \in Calls : SF_vars(Step(p))

FairSpec == Spec /\ Fairness

---------------------------------------------------------------------------
(* Properties.                                                             *)

\* The write lock of DeleteVolume pairs with the read lock of CreateSandbox, so that
\* "check the references and delete" does not interleave with the creation of a
\* container: a directory about to be removed is mounted nowhere, and no
\* CreateSandbox that counts on it can still register its mount.  The exception is a
\* container that the engine makes just then, of a request that was given up: the lock
\* is held until ContainerCreate returns, not until the engine is done.
DeleteSparesMounted ==
  \A p \in Calls : call[p].pc = "removeDir" =>
    /\ \A q \in Calls : Vol(p) \in mounted[q] => q \in strays
    /\ \A q \in Calls : call[q].pc = "mount" => Vol(p) \notin call[q].mounts

\* A directory a user made under the volume root is neither taken over nor removed,
\* whatever creates, mounts and deletes of its name come and fail.
ForeignKept == Foreign \subseteq dirs /\ Foreign \cap meta = {}

\* Every call returns: CreateSandbox waits for volumeCreateMu while it holds its read
\* lock of volumeMountMu, and nobody waits the other way round.
CallsReturn == \A p \in Calls : call[p].pc # "idle" ~> call[p].pc = "idle"
===========================================================================
