-------------------------- MODULE OrbstackVolumes --------------------------
(***************************************************************************)
(* The OrbStack backend's volumes: one host directory per volume, with the *)
(* volume's id and name attached to it.  No lock protects them: calls that *)
(* only look a volume up also migrate what older versions left (metadata   *)
(* in another attribute or a file, a directory named by the id), while     *)
(* other calls create, delete and mount.  Every system call that looks or  *)
(* changes something is a step, and acts on what is at its path by then.   *)
(*                                                                         *)
(* A directory name is <<base, n>>: n > 1 is the suffix "-n" that keeps    *)
(* volumes of the same name apart.                                         *)
(***************************************************************************)
EXTENDS Naturals, FiniteSets

CONSTANTS
  Procs,         \* concurrent calls
  Names,         \* volume names
  LegacyIds,     \* volumes that an older version made
  LegacyName,    \* their names
  NewIds,        \* what uuid.NewString hands out
  MaxCalls,      \* bound on the number of calls
  MaxIndex,      \* bound on the suffix
  Failures       \* which system calls may fail: "mkdir", "chmod", "write", "read"

ASSUME VolumesAssumption ==
  /\ LegacyName \in [LegacyIds -> Names]
  /\ MaxIndex \in Nat \ {0} /\ MaxCalls \in Nat
  /\ Failures \subseteq {"mkdir", "chmod", "write", "read"}
  /\ "none" \notin Names \cup LegacyIds \cup NewIds

VARIABLES
  dirs,     \* the directories: where their metadata is, id, name, and the volume
            \* whose data they hold
  calls,    \* the calls
  begun,    \* the number of calls so far
  wanted,   \* history: volumes whose create was answered, or which were there
  deleted,  \* history: volumes that a delete has removed
  harmed,   \* history: volumes whose directory a rename replaced, or a call changed
            \* that meant another one and came too late
  denied,   \* history: volumes that existed and were answered not to
  mounts    \* the paths mounted into machines, with the volume they were mounted for

vars == <<dirs, calls, begun, wanted, deleted, harmed, denied, mounts>>

Ids == LegacyIds \cup NewIds

DirNames == (Names \X (1 .. MaxIndex)) \cup (Ids \X {1})

NoDir == [meta |-> "absent", id |-> "none", name |-> "none", data |-> "none"]

\* A fresh directory: no metadata yet.
Bare(id) == [meta |-> "none", id |-> "none", name |-> "none", data |-> id]

Exists(d) == dirs[d] # NoDir

Nothing == [id |-> "none", name |-> "none"]

\* first: the directory looked at is the one named by the key, before the list.
Idle == [kind |-> "idle", step |-> "none", key |-> "none", sure |-> FALSE, first |-> FALSE,
         left |-> {}, dir |-> <<"none", 1>>, vol |-> Nothing, index |-> 1]

\* What older versions left: directories named by the id or by the name, with the
\* metadata in another attribute or in a file.
Init ==
  /\ \E place \in [LegacyIds -> DirNames] :
       /\ \A id \in LegacyIds : place[id] \in {<<id, 1>>, <<LegacyName[id], 1>>}
       /\ \A id, other \in LegacyIds : place[id] = place[other] => id = other
       /\ dirs = [d \in DirNames |->
            IF \E id \in LegacyIds : place[id] = d
            THEN LET id == CHOOSE i \in LegacyIds : place[i] = d
                 IN [meta |-> "older", id |-> id, name |-> LegacyName[id], data |-> id]
            ELSE NoDir]
  /\ calls = [p \in Procs |-> Idle]
  /\ begun = 0
  /\ wanted = LegacyIds
  /\ deleted = {}
  /\ harmed = {}
  /\ denied = {}
  /\ mounts = {}

---------------------------------------------------------------------------
(* Steps of a call.                                                        *)

Set(p, call) == calls' = [calls EXCEPT ![p] = call]

Done(p) == Set(p, Idle)

\* The answer is that there is no such volume.
NotFound(p) ==
  /\ Done(p)
  /\ denied' = denied \cup IF calls[p].sure THEN {calls[p].key} \ (deleted \cup harmed) ELSE {}

\* A call that changes what is at its path harms the volume that lies there, if it is
\* another one than it means: that one has been deleted since, or lost to such a change,
\* or is mistaken for one that has its id for a name.
Astray(p) ==
  IF calls[p].vol.id \in deleted \cup harmed \cup Names
  THEN {dirs[calls[p].dir].data} \ {calls[p].vol.id, "none"}
  ELSE {}

\* A call and its first look at the directories.
Begin(p, kind, key, step) ==
  /\ calls[p] = Idle
  /\ begun < MaxCalls
  /\ begun' = begun + 1
  /\ Set(p, [Idle EXCEPT !.kind = kind, !.key = key, !.step = step, !.first = (step = "read"),
                         !.dir = IF step = "readdir" THEN @ ELSE <<key, 1>>,
                         !.sure = key \in wanted \ deleted])

---------------------------------------------------------------------------
(* CreateVolume.                                                           *)

CreateBegins(p, name) ==
  /\ Begin(p, "create", name, "mkdir")
  /\ UNCHANGED <<dirs, wanted, deleted, harmed, denied, mounts>>

\* uuid.NewString: an id no volume has or had.
Fresh ==
  {id \in NewIds : /\ id \notin wanted \cup deleted \cup harmed
                   /\ \A d \in DirNames : dirs[d].data # id
                   /\ \A p \in Procs : calls[p].vol.id # id}

\* Mutation of Makable: os.MkdirAll is content with a directory that is there.
MakableAgain(d) == TRUE

\* os.Mkdir makes what is not there.
Makable(d) == ~Exists(d)

\* createVolumeHostDir: os.Mkdir of name, name-2, ... until one did not exist.
MakeDir(p) ==
  LET d == calls[p].dir IN
  /\ calls[p].step = "mkdir"
  /\ \/ \E id \in Fresh :
          /\ Makable(d)
          /\ dirs' = [dirs EXCEPT ![d] = Bare(id)]
          /\ Set(p, [calls[p] EXCEPT !.step = "chmod", !.vol = [id |-> id, name |-> calls[p].key]])
     \/ /\ Exists(d) /\ d[2] < MaxIndex
        /\ Set(p, [calls[p] EXCEPT !.dir = <<d[1], d[2] + 1>>])
        /\ UNCHANGED dirs
     \/ "mkdir" \in Failures /\ Done(p) /\ UNCHANGED dirs
  /\ UNCHANGED <<begun, wanted, deleted, harmed, denied, mounts>>

\* os.RemoveAll of the path: whatever is there.
RemoveAll(p) ==
  /\ dirs' = [dirs EXCEPT ![calls[p].dir] = NoDir]
  /\ harmed' = harmed \cup Astray(p)
  /\ Done(p)

\* os.Chmod, and os.RemoveAll if it fails.
Chmod(p) ==
  /\ calls[p].step = "chmod"
  /\ \/ /\ Exists(calls[p].dir)
        /\ Set(p, [calls[p] EXCEPT !.step = "write"])
        /\ UNCHANGED <<dirs, harmed>>
     \/ (~Exists(calls[p].dir) \/ "chmod" \in Failures) /\ RemoveAll(p)
  /\ UNCHANGED <<begun, wanted, deleted, denied, mounts>>

\* unix.Setxattr: the volume's metadata is attached to whatever is at the path.
Describe(p, vol) ==
  /\ Exists(calls[p].dir)
  /\ dirs' = [dirs EXCEPT ![calls[p].dir] =
                [@ EXCEPT !.meta = "current", !.id = vol.id, !.name = vol.name]]
  /\ harmed' = harmed \cup Astray(p)

\* writeVolumeMetadata succeeds, or the directory is removed again.
WriteVolumeMetadata(p) ==
  /\ calls[p].step = "write"
  /\ \/ /\ Describe(p, calls[p].vol)
        /\ wanted' = wanted \cup {calls[p].vol.id}
        /\ Done(p)
     \/ (~Exists(calls[p].dir) \/ "write" \in Failures) /\ RemoveAll(p) /\ UNCHANGED wanted
  /\ UNCHANGED <<begun, deleted, denied, mounts>>

---------------------------------------------------------------------------
(* findVolumeByID and ListVolumes.                                         *)

\* The lookup of a get, a delete or a mount starts with the directory of that name.
LookupBegins(p, kind, key) ==
  /\ Begin(p, kind, key, IF Exists(<<key, 1>>) THEN "read" ELSE "readdir")
  /\ UNCHANGED <<dirs, wanted, deleted, harmed, denied, mounts>>

ListBegins(p) ==
  /\ Begin(p, "list", "none", "readdir")
  /\ UNCHANGED <<dirs, wanted, deleted, harmed, denied, mounts>>

\* os.ReadDir: what is there now; the entries are then looked at one by one.
ReadDir(p) ==
  /\ calls[p].step = "readdir"
  /\ Set(p, [calls[p] EXCEPT !.step = "next", !.left = {d \in DirNames : Exists(d)}])
  /\ UNCHANGED <<dirs, begun, wanted, deleted, harmed, denied, mounts>>

\* The lookup goes on; nothing is kept of the entry.
LooksFurther(p, step, sure) ==
  Set(p, [Idle EXCEPT !.kind = calls[p].kind, !.key = calls[p].key, !.step = step,
                      !.sure = sure, !.left = calls[p].left])

\* The next entry, in any order, or the end of the loop: the list, or not found.
NextEntry(p) ==
  /\ calls[p].step = "next"
  /\ \/ /\ calls[p].left = {}
        /\ IF calls[p].kind = "list" THEN Done(p) /\ UNCHANGED denied ELSE NotFound(p)
     \/ \E d \in calls[p].left :
          /\ Set(p, [calls[p] EXCEPT !.step = "read", !.dir = d, !.left = @ \ {d}])
          /\ UNCHANGED denied
  /\ UNCHANGED <<dirs, begun, wanted, deleted, harmed, mounts>>

\* Mutation of PassOver: a lookup gives up when the first directory has gone.
PassOverTheList(p) == LooksFurther(p, "next", calls[p].sure)

\* An entry that is gone, has no metadata or does not match is passed over; after
\* the directory named by the key comes the whole list.
PassOver(p) == LooksFurther(p, IF calls[p].first THEN "readdir" ELSE "next", calls[p].sure)

\* The one case in which this may be the entry of the volume that is looked for.
PassOverRewritten(p) ==
  LooksFurther(p, IF calls[p].first THEN "readdir" ELSE "next",
               calls[p].sure /\ dirs[calls[p].dir].id # calls[p].key)

\* volumeMatches: by id or by name.
volumeMatches(vol, key) == key \in {vol.id, vol.name}

\* The volume is resolved to this directory: collected by a list, compared by a lookup.
Resolve(p, vol, d) ==
  IF calls[p].kind = "list" \/ ~volumeMatches(vol, calls[p].key) THEN PassOver(p)
  ELSE IF calls[p].kind = "get" THEN Done(p)
  ELSE Set(p, [Idle EXCEPT !.kind = calls[p].kind, !.step = "use", !.dir = d, !.vol = vol])

\* migrateLegacyVolumeDir concerns a directory named by the volume's id.
Migrate(p, vol, d) ==
  IF d = <<vol.id, 1>>
  THEN Set(p, [calls[p] EXCEPT !.step = "choose", !.vol = vol, !.index = 1])
  ELSE Resolve(p, vol, d)

\* readVolumeMetadata: first the current form ...
ReadMetadata(p) ==
  LET d == calls[p].dir IN
  /\ calls[p].step = "read"
  /\ \/ dirs[d].meta = "absent" /\ PassOver(p)
     \/ "read" \in Failures /\ Exists(d) /\ Done(p)
     \/ dirs[d].meta = "current" /\ Migrate(p, [id |-> dirs[d].id, name |-> dirs[d].name], d)
     \/ /\ dirs[d].meta \in {"none", "older"}
        /\ Set(p, [calls[p] EXCEPT !.step = "older"])
  /\ UNCHANGED <<dirs, begun, wanted, deleted, harmed, denied, mounts>>

\* ... then the older ones, which are rewritten.  Somebody else may have done so since:
\* then nothing is found, and the entry is passed over although it may be the one sought.
ReadOlderMetadata(p) ==
  LET d == calls[p].dir IN
  /\ calls[p].step = "older"
  /\ \/ dirs[d].meta \in {"absent", "none"} /\ PassOver(p)
     \/ dirs[d].meta = "current" /\ PassOverRewritten(p)
     \/ "read" \in Failures /\ Exists(d) /\ Done(p)
     \/ /\ dirs[d].meta = "older"
        /\ Set(p, [calls[p] EXCEPT !.step = "rewrite", !.vol = [id |-> dirs[d].id, name |-> dirs[d].name]])
  /\ UNCHANGED <<dirs, begun, wanted, deleted, harmed, denied, mounts>>

\* writeVolumeMetadata: a directory that has gone meanwhile is an error.
RewriteMetadata(p) ==
  /\ calls[p].step = "rewrite"
  /\ \/ Describe(p, calls[p].vol) /\ Migrate(p, calls[p].vol, calls[p].dir)
     \/ /\ ~Exists(calls[p].dir) \/ "write" \in Failures
        /\ Done(p) /\ UNCHANGED <<dirs, harmed>>
  /\ UNCHANGED <<begun, wanted, deleted, denied, mounts>>

---------------------------------------------------------------------------
(* migrateLegacyVolumeDir.                                                 *)

\* nextAvailableVolumeHostDir: os.Stat of name, name-2, ... until one does not exist.
Target(p) == <<calls[p].vol.name, calls[p].index>>

ChooseTarget(p) ==
  /\ calls[p].step = "choose"
  /\ \/ Exists(Target(p)) /\ calls[p].index < MaxIndex /\ Set(p, [calls[p] EXCEPT !.index = @ + 1])
     \/ /\ ~Exists(Target(p))
        /\ IF Target(p) = calls[p].dir
           THEN Resolve(p, calls[p].vol, calls[p].dir)
           ELSE Set(p, [calls[p] EXCEPT !.step = "lstat"])
  /\ UNCHANGED <<dirs, begun, wanted, deleted, harmed, denied, mounts>>

\* os.Rename looks at the target, and refuses a directory, ...
LstatTarget(p) ==
  /\ calls[p].step = "lstat"
  /\ IF Exists(Target(p)) THEN Done(p) ELSE Set(p, [calls[p] EXCEPT !.step = "rename"])
  /\ UNCHANGED <<dirs, begun, wanted, deleted, harmed, denied, mounts>>

\* Mutation of RenamedTo: the caller keeps the old path.
RenamedFrom(p) == calls[p].dir

RenamedTo(p) == Target(p)

\* ... before rename(2), which replaces one that was made since if it is empty: if
\* nobody has written into it, since metadata is an attribute.
Rename(p) ==
  /\ calls[p].step = "rename"
  /\ \/ /\ Exists(calls[p].dir)
        /\ dirs' = [dirs EXCEPT ![Target(p)] = dirs[calls[p].dir], ![calls[p].dir] = NoDir]
        /\ harmed' = harmed \cup Astray(p) \cup ({dirs[Target(p)].data} \ {"none"})
        /\ Resolve(p, calls[p].vol, RenamedTo(p))
     \/ /\ Exists(Target(p)) \/ ~Exists(calls[p].dir)
        /\ Done(p) /\ UNCHANGED <<dirs, harmed>>
  /\ UNCHANGED <<begun, wanted, deleted, denied, mounts>>

---------------------------------------------------------------------------
(* What a lookup is for.                                                   *)

\* DeleteVolume: os.RemoveAll of the path.
RemoveDir(p) ==
  /\ calls[p].kind = "delete" /\ calls[p].step = "use"
  /\ RemoveAll(p)
  /\ deleted' = deleted \cup {calls[p].vol.id}
  /\ UNCHANGED <<begun, wanted, denied, mounts>>

\* CreateSandbox mounts the path into its machine.
AddMount(p) ==
  /\ calls[p].kind = "mount" /\ calls[p].step = "use"
  /\ mounts' = mounts \cup {<<calls[p].dir, calls[p].vol.id>>}
  /\ Done(p)
  /\ UNCHANGED <<dirs, begun, wanted, deleted, harmed, denied>>

\* The process dies: what was on disk stays.
Crash ==
  /\ \E p \in Procs : calls[p] # Idle
  /\ calls' = [p \in Procs |-> Idle]
  /\ UNCHANGED <<dirs, begun, wanted, deleted, harmed, denied, mounts>>

---------------------------------------------------------------------------
(* The specification.                                                      *)

Arrive(p) ==
  \/ \E n \in Names : CreateBegins(p, n)
  \/ ListBegins(p)
  \/ \E kind \in {"get", "mount", "delete"}, key \in Ids \cup Names : LookupBegins(p, kind, key)

CallStep(p) ==
  \/ MakeDir(p) \/ Chmod(p) \/ WriteVolumeMetadata(p)
  \/ ReadDir(p) \/ NextEntry(p)
  \/ ReadMetadata(p) \/ ReadOlderMetadata(p) \/ RewriteMetadata(p)
  \/ ChooseTarget(p) \/ LstatTarget(p) \/ Rename(p)
  \/ RemoveDir(p) \/ AddMount(p)

Next == Crash \/ \E p \in Procs : Arrive(p) \/ CallStep(p)

Spec == Init /\ [][Next]_vars

---------------------------------------------------------------------------
(* Properties.                                                             *)

\* Its directory, with its data and its identity.
Home(id) == {d \in DirNames : dirs[d].id = id /\ dirs[d].data = id}

\* Neither deleted, nor harmed, nor named like another one.
Unharmed(id) == id \notin deleted \cup harmed \cup Names

\* A volume whose create was answered stays in exactly one directory, with its own
\* data, while others look volumes up and migrate them (migrateLegacyVolumeDir,
\* createVolumeHostDir), until a delete removes it, a rename replaces its directory
\* between os.Rename's own look and its system call, or a call comes too late whose own
\* volume was lost in one of these ways.
VolumesKept ==
  \A id \in wanted : Unharmed(id) =>
    Cardinality(Home(id)) = 1 /\ \A d \in DirNames : dirs[d].id = id => d \in Home(id)

\* findVolumeByID of an id never answers that an unharmed volume does not exist,
\* although a concurrent migration may take its directory away under the lookup: it
\* tries the directory of that name first and lists afterwards.  The exception is an
\* entry whose metadata somebody rewrites between the two reads of readVolumeMetadata.
FoundById == \A id \in denied : ~Unharmed(id)

\* What CreateSandbox mounts is and stays the directory of the volume it resolved,
\* unless that volume is deleted or harmed: a directory is not migrated twice.
MountedIsVolume == \A m \in mounts : Unharmed(m[2]) => m[1] \in Home(m[2])
===========================================================================
