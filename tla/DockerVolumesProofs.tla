------------------------ MODULE DockerVolumesProofs ------------------------
(***************************************************************************)
(* Theorems about the Docker backend's local volumes.                      *)
(*                                                                         *)
(* DockerVolumes, for any finite set of calls, any volumes and any set of  *)
(* failures.  The invariant says who holds volumeMountMu: the readers are  *)
(* counted, and while a DeleteVolume looks or removes there are none.      *)
(* VolumeContent: the second part of the module.                           *)
(***************************************************************************)
EXTENDS DockerVolumes, VolumeContent, FiniteSetTheorems, TLAPS

---------------------------------------------------------------------------
(* The invariant.                                                          *)

Pcs == {"idle", "lockCreate", "writeMeta", "lockRead", "mount", "start",
        "lockWrite", "drain", "check", "removeDir", "removeMeta"}

Call == [pc: Pcs, kind: {"none", "create", "delete", "sandbox"}, vol: SUBSET Volumes,
         todo: SUBSET Volumes, mounts: SUBSET Volumes]

VolumesTypeOK ==
  /\ dirs \subseteq Volumes /\ meta \subseteq Volumes
  /\ mounted \in [Calls -> SUBSET Volumes]
  /\ late \in [Calls -> SUBSET Volumes]
  /\ call \in [Calls -> Call]
  /\ createMu \in Calls \cup {NoCall}
  /\ readers \in Nat
  /\ writer \in Calls \cup {NoCall}

\* A call that is where the code can be: which calls get there, about which volume.
Shaped(c) ==
  /\ c.pc \in {"lockRead", "mount", "start"} => c.kind = "sandbox"
  /\ c.pc \in {"lockCreate", "writeMeta"} => c.kind \in {"create", "sandbox"}
  /\ c.pc \in {"lockWrite", "drain", "check", "removeDir", "removeMeta"} => c.kind = "delete"
  /\ c.pc \notin {"idle", "lockRead", "mount", "start"} => \E v \in Volumes : c.vol = {v}

\* volumeMountMu is read-locked: by CreateSandbox, also while it creates a volume.
Reads(c) == c.kind = "sandbox" /\ c.pc \in {"mount", "lockCreate", "writeMeta"}

\* It is write-locked, or waited for with the readers that come later shut out.
Writes(c) == c.pc \in {"drain", "check", "removeDir", "removeMeta"}

Excludes(c) == c.pc \in {"check", "removeDir", "removeMeta"}

Holders == {p \in Calls : Reads(call[p])}

MountLock ==
  /\ readers = Cardinality(Holders)
  /\ \A p \in Calls : Writes(call[p]) => writer = p
  /\ \A p \in Calls : Excludes(call[p]) => Holders = {}

\* Only containers that the engine makes during the removal mount the volume.
Unmounted(v) == \A q \in Calls : v \in mounted[q] => q \in strays

\* The directories that are about to be removed, or get metadata.
Touched ==
  /\ \A p \in Calls, v \in Volumes : call[p].pc = "removeDir" /\ v \in call[p].vol =>
       Unmounted(v) /\ v \notin Foreign
  /\ \A p \in Calls, v \in Volumes : call[p].pc = "writeMeta" /\ v \in call[p].vol =>
       v \notin Foreign

VolumesInv ==
  /\ VolumesTypeOK
  /\ \A p \in Calls : Shaped(call[p])
  /\ MountLock /\ Touched /\ ForeignKept

---------------------------------------------------------------------------
(* Lemmas about the readers.                                               *)

\* Finitely many calls hold the read lock.
LEMMA HoldersFinite == IsFiniteSet(Holders) /\ Cardinality(Holders) \in Nat
<1>1. Holders \subseteq Calls
  BY DEF Holders
<1>2. IsFiniteSet(Holders)
  BY <1>1, VolumesAssumption, FS_Subset
<1> QED BY <1>2, FS_CardinalityType

\* A goroutine that holds the read lock is counted.
LEMMA HolderCounted ==
  ASSUME MountLock, NEW p \in Holders
  PROVE  readers # 0
BY HoldersFinite, FS_EmptySet DEF MountLock

\* The volume of a CreateVolume or DeleteVolume.
LEMMA VolIsIt ==
  ASSUME NEW p \in Calls, \E v \in Volumes : call[p].vol = {v}
  PROVE  Vol(p) \in Volumes /\ call[p].vol = {Vol(p)}
BY DEF Vol

\* What a step of p does that takes it to c: p takes the read lock when nobody writes,
\* gives it back or keeps it; it mounts only while it holds it.
LEMMA OwnStep ==
  ASSUME VolumesInv, NEW p \in Calls, NEW c \in Call, Shaped(c),
         call' = [call EXCEPT ![p] = c],
         dirs' \subseteq Volumes, meta' \subseteq Volumes, ForeignKept',
         mounted' \in [Calls -> SUBSET Volumes],
         \A q \in Calls : mounted'[q] \subseteq mounted[q] \/ Reads(call[p]),
         late' \in [Calls -> SUBSET Volumes], strays' = strays \/ call[p].pc = "removeDir",
         createMu' \in Calls \cup {NoCall},
         \/ (Reads(c) <=> Reads(call[p])) /\ readers' = readers
         \/ Reads(c) /\ ~Reads(call[p]) /\ readers' = readers + 1 /\ writer = NoCall
         \/ ~Reads(c) /\ Reads(call[p]) /\ readers' = readers - 1,
         \/ (Writes(c) <=> Writes(call[p])) /\ writer' = writer
         \/ Writes(c) /\ writer = NoCall /\ writer' = p,
         Excludes(c) => Excludes(call[p]) \/ readers = 0,
         \A v \in c.vol : c.pc = "removeDir" => Unmounted(v)' /\ v \notin Foreign,
         \A v \in c.vol : c.pc = "writeMeta" => v \notin Foreign
  PROVE  VolumesInv'
<1>1. /\ \A q \in Calls : call'[q] = IF q = p THEN c ELSE call[q]
      /\ call' \in [Calls -> Call]
  BY DEF VolumesInv, VolumesTypeOK
<1>2. /\ (Reads(c) <=> Reads(call[p])) => Holders' = Holders
      /\ Reads(c) /\ ~Reads(call[p]) => Holders' = Holders \cup {p} /\ p \notin Holders
      /\ ~Reads(c) /\ Reads(call[p]) => Holders' = Holders \ {p} /\ p \in Holders
  BY <1>1 DEF Holders
<1>3. readers' = Cardinality(Holders') /\ readers' \in Nat
  <2>1. readers = Cardinality(Holders) /\ readers \in Nat
    BY DEF VolumesInv, MountLock, VolumesTypeOK
  <2>2. CASE (Reads(c) <=> Reads(call[p]))
    BY <1>2, <2>1, <2>2
  <2>3. CASE Reads(c) /\ ~Reads(call[p])
    <3>1. Cardinality(Holders \cup {p}) = Cardinality(Holders) + 1
      BY <1>2, <2>3, HoldersFinite, FS_AddElement
    <3>2. readers' = readers + 1
      BY <2>3
    <3>3. Holders' = Holders \cup {p}
      BY <1>2, <2>3
    <3> QED BY <2>1, <3>1, <3>2, <3>3
  <2>4. CASE ~Reads(c) /\ Reads(call[p])
    <3>1. Cardinality(Holders \ {p}) = Cardinality(Holders) - 1
      BY <1>2, <2>4, HoldersFinite, FS_RemoveElement
    <3>2. readers # 0
      BY <1>2, <2>4, HolderCounted DEF VolumesInv
    <3>3. readers' = readers - 1
      BY <2>4
    <3>4. Holders' = Holders \ {p}
      BY <1>2, <2>4
    <3> QED BY <2>1, <3>1, <3>2, <3>3, <3>4
  <2> QED BY <2>2, <2>3, <2>4
<1>4. writer' \in Calls \cup {NoCall}
  BY DEF VolumesInv, VolumesTypeOK
<1>5. \A q \in Calls : Writes(call'[q]) => writer' = q
  BY <1>1, VolumesAssumption DEF VolumesInv, MountLock
<1>6. ASSUME NEW q \in Calls, Excludes(call'[q])
      PROVE  Holders' = {}
  <2>1. CASE q = p
    <3>1. Excludes(c)
      BY <1>1, <1>6, <2>1
    <3>2. ~Reads(c)
      BY <3>1 DEF Excludes, Reads
    <3>3. CASE Excludes(call[p])
      BY <1>2, <3>2, <3>3 DEF VolumesInv, MountLock
    <3>4. CASE readers = 0
      BY <1>2, <3>2, <3>4, HoldersFinite, FS_EmptySet DEF VolumesInv, MountLock
    <3> QED BY <3>1, <3>3, <3>4
  <2>2. CASE q # p
    <3>1. Excludes(call[q]) /\ Holders = {} /\ writer = q
      BY <1>1, <1>6, <2>2 DEF VolumesInv, MountLock, Excludes, Writes
    <3>2. ~(Reads(c) /\ ~Reads(call[p]))
      BY <3>1, VolumesAssumption
    <3> QED BY <1>2, <3>1, <3>2
  <2> QED BY <2>1, <2>2
<1>7. MountLock'
  BY <1>3, <1>5, <1>6 DEF MountLock
<1>8. ASSUME NEW q \in Calls, NEW v \in Volumes, call'[q].pc = "removeDir", v \in call'[q].vol
      PROVE  Unmounted(v)' /\ v \notin Foreign
  <2>1. CASE q = p
    BY <1>1, <1>8, <2>1
  <2>2. CASE q # p
    <3>1. Unmounted(v) /\ v \notin Foreign /\ Holders = {} /\ writer = q
      BY <1>1, <1>8, <2>2 DEF VolumesInv, Touched, MountLock, Excludes, Writes
    <3>2. ~Reads(call[p])
      BY <3>1 DEF Holders
    <3>3. strays' = strays
      BY <2>2, <3>1 DEF VolumesInv, MountLock, Writes
    <3> QED BY <3>1, <3>2, <3>3 DEF Unmounted
  <2> QED BY <2>1, <2>2
<1>9. Touched'
  BY <1>1, <1>8 DEF VolumesInv, Touched
<1>10. \A q \in Calls : Shaped(call'[q])
  BY <1>1 DEF VolumesInv
<1>11. VolumesTypeOK'
  BY <1>1, <1>3, <1>4 DEF VolumesInv, VolumesTypeOK
<1> QED BY <1>7, <1>9, <1>10, <1>11 DEF VolumesInv

---------------------------------------------------------------------------
(* The steps.                                                              *)

\* A goroutine goes on with the request it has.
LEMMA GotoIs ==
  ASSUME VolumesTypeOK, NEW p \in Calls, NEW pc \in Pcs, Goto(p, pc)
  PROVE  \E c \in Call :
           /\ call' = [call EXCEPT ![p] = c]
           /\ c.pc = pc /\ c.kind = call[p].kind /\ c.vol = call[p].vol
<1>. DEFINE c == [call[p] EXCEPT !.pc = pc]
<1>1. call[p] \in Call
  BY DEF VolumesTypeOK
<1>2. c \in Call /\ c.pc = pc /\ c.kind = call[p].kind /\ c.vol = call[p].vol
  BY <1>1 DEF Call
<1>3. call' = [call EXCEPT ![p] = c]
  BY DEF Goto
<1> QED BY <1>2, <1>3

\* A goroutine that is done.
LEMMA IdleIs == Idle \in Call /\ Shaped(Idle) /\ ~Reads(Idle) /\ ~Writes(Idle) /\ ~Excludes(Idle)
                /\ Idle.pc = "idle"
BY DEF Idle, Call, Pcs, Shaped, Reads, Writes, Excludes

\* CreateVolume returns, to a request or to CreateSandbox.
LEMMA ReturnedIs ==
  ASSUME VolumesTypeOK, NEW p \in Calls, Shaped(call[p]), NEW ok \in BOOLEAN,
         call[p].pc \in {"lockCreate", "writeMeta"}, Returned(p, ok)
  PROVE  \E c \in Call :
           /\ call' = [call EXCEPT ![p] = c]
           /\ Shaped(c) /\ c.pc \in {"idle", "mount"}
           /\ \/ (Reads(c) <=> Reads(call[p])) /\ readers' = readers
              \/ ~Reads(c) /\ Reads(call[p]) /\ readers' = readers - 1
<1>1. call[p] \in Call
  BY DEF VolumesTypeOK
<1>2. CASE call[p].kind = "create"
  BY <1>2, IdleIs DEF Returned, Reads
<1>3. CASE call[p].kind = "sandbox" /\ ok
  <2>. DEFINE c == [[call[p] EXCEPT !.pc = "mount"] EXCEPT !.todo = @ \ call[p].vol]
  <2>1. c \in Call /\ c.pc = "mount" /\ c.kind = "sandbox"
    BY <1>1, <1>3 DEF Call, Pcs
  <2>2. call' = [call EXCEPT ![p] = c]
    BY <1>1, <1>3 DEF Returned, Call, VolumesTypeOK
  <2>3. readers' = readers
    BY <1>3 DEF Returned
  <2> QED BY <1>3, <2>1, <2>2, <2>3 DEF Shaped, Reads
<1>4. CASE call[p].kind = "sandbox" /\ ~ok
  BY <1>4, IdleIs DEF Returned, Reads
<1> QED BY <1>2, <1>3, <1>4 DEF Shaped

\* A request arrives.
LEMMA RequestKeeps ==
  ASSUME VolumesInv, NEW p \in Calls, NEW kind \in {"create", "delete", "sandbox"},
         NEW v \in SUBSET Volumes, NEW m \in SUBSET Volumes, Request(p, kind, v, m),
         kind # "sandbox" => \E x \in Volumes : v = {x}
  PROVE  VolumesInv'
<1>. DEFINE c == [pc |-> CASE kind = "create"  -> "lockCreate"
                           [] kind = "delete"  -> "lockWrite"
                           [] kind = "sandbox" -> "lockRead",
                  kind |-> kind, vol |-> v, todo |-> m, mounts |-> m]
<1>2. c \in Call /\ Shaped(c)
  BY DEF Call, Pcs, Shaped
<1>3. ~Reads(c) /\ ~Writes(c) /\ ~Excludes(c) /\ c.pc \notin {"removeDir", "writeMeta"}
  BY DEF Reads, Writes, Excludes
<1>4. call[p].pc = "idle" /\ call' = [call EXCEPT ![p] = c]
      /\ UNCHANGED <<dirs, meta, mounted, late, strays, createMu, readers, writer>>
  BY DEF Request
<1>5. ~Reads(call[p]) /\ ~Writes(call[p])
  BY <1>4 DEF Reads, Writes
<1>6. VolumesTypeOK /\ ForeignKept
  BY DEF VolumesInv
<1>7. ForeignKept'
  BY <1>4, <1>6 DEF ForeignKept
<1> HIDE DEF c
<1> QED BY <1>2, <1>3, <1>4, <1>5, <1>6, <1>7, OwnStep DEF VolumesTypeOK

\* A call begins without the lock.
LEMMA ArriveKeeps ==
  ASSUME VolumesInv, NEW p \in Calls, Arrive(p)
  PROVE  VolumesInv'
<1>1. ASSUME NEW x \in Volumes, NEW kind \in {"create", "delete"}, Request(p, kind, {x}, {})
      PROVE  VolumesInv'
  BY <1>1, RequestKeeps
<1>2. ASSUME NEW m \in SUBSET Volumes, Request(p, "sandbox", {}, m)
      PROVE  VolumesInv'
  BY <1>2, RequestKeeps
<1> QED BY <1>1, <1>2 DEF Arrive

\* A volume that CreateVolume or DeleteVolume works on.
LEMMA HasVol ==
  ASSUME VolumesInv, NEW p \in Calls,
         call[p].pc \in {"lockCreate", "writeMeta", "check", "removeDir", "removeMeta"}
  PROVE  Vol(p) \in Volumes /\ call[p].vol = {Vol(p)}
<1>1. \E v \in Volumes : call[p].vol = {v}
  BY DEF VolumesInv, Shaped
<1> QED BY <1>1, VolIsIt

\* CreateVolume ends: the mutex is free and volumes and metadata are as they may be.
LEMMA ReturnKeeps ==
  ASSUME VolumesInv, NEW p \in Calls, NEW ok \in BOOLEAN,
         call[p].pc \in {"lockCreate", "writeMeta"}, Returned(p, ok),
         dirs' \subseteq Volumes, meta' \subseteq Volumes, ForeignKept',
         createMu' \in {createMu, NoCall}, UNCHANGED <<mounted, late, strays, writer>>
  PROVE  VolumesInv'
<1>1. PICK c \in Call :
        /\ call' = [call EXCEPT ![p] = c]
        /\ Shaped(c) /\ c.pc \in {"idle", "mount"}
        /\ \/ (Reads(c) <=> Reads(call[p])) /\ readers' = readers
           \/ ~Reads(c) /\ Reads(call[p]) /\ readers' = readers - 1
  BY ReturnedIs DEF VolumesInv
<1>2. ~Writes(c) /\ ~Excludes(c) /\ ~Writes(call[p])
  BY <1>1 DEF Writes, Excludes
<1>3. /\ createMu' \in Calls \cup {NoCall}
      /\ mounted' \in [Calls -> SUBSET Volumes] /\ late' \in [Calls -> SUBSET Volumes]
      /\ \A q \in Calls : mounted'[q] \subseteq mounted[q]
  BY DEF VolumesInv, VolumesTypeOK
<1>4. c.pc # "removeDir" /\ c.pc # "writeMeta"
  BY <1>1
<1>5. c \in Call
  BY <1>1
<1> QED BY <1>1, <1>2, <1>3, <1>4, <1>5, OwnStep

\* CreateVolume.
LEMMA CreateBeginsKeeps ==
  ASSUME VolumesInv, NEW p \in Calls, CreateBegins(p)
  PROVE  VolumesInv'
<1>1. Vol(p) \in Volumes /\ call[p].vol = {Vol(p)} /\ call[p].pc = "lockCreate"
  BY HasVol DEF CreateBegins
<1>2. ASSUME NEW ok \in BOOLEAN, Returned(p, ok), UNCHANGED <<dirs, createMu>>
      PROVE  VolumesInv'
  BY <1>1, <1>2, ReturnKeeps DEF CreateBegins, VolumesInv, VolumesTypeOK, ForeignKept
<1>3. ASSUME Vol(p) \notin dirs, dirs' = dirs \cup {Vol(p)}, createMu' = p,
             Goto(p, "writeMeta"), readers' = readers
      PROVE  VolumesInv'
  <2>1. PICK c \in Call : call' = [call EXCEPT ![p] = c]
                          /\ c.pc = "writeMeta" /\ c.kind = call[p].kind /\ c.vol = call[p].vol
    BY <1>3, GotoIs DEF VolumesInv, Pcs
  <2>2. Shaped(c) /\ (Reads(c) <=> Reads(call[p]))
    BY <1>1, <2>1 DEF VolumesInv, Shaped, Reads
  <2>3. ~Writes(c) /\ ~Excludes(c) /\ ~Writes(call[p])
    BY <1>1, <2>1 DEF Writes, Excludes
  <2>4. Vol(p) \notin Foreign /\ ForeignKept'
    BY <1>3 DEF CreateBegins, VolumesInv, ForeignKept
  <2>5. mounted' \in [Calls -> SUBSET Volumes] /\ mounted' = mounted /\ writer' = writer
        /\ UNCHANGED <<late, strays>> /\ late' \in [Calls -> SUBSET Volumes]
        /\ dirs' \subseteq Volumes /\ meta' \subseteq Volumes
    BY <1>1, <1>3 DEF CreateBegins, VolumesInv, VolumesTypeOK
  <2> QED BY <1>1, <1>3, <2>1, <2>2, <2>3, <2>4, <2>5, OwnStep
<1>4. Adoptable(Vol(p)) \in BOOLEAN
  BY DEF Adoptable
<1> QED BY <1>2, <1>3, <1>4 DEF CreateBegins

\* The metadata is of a directory that the create has made itself.
LEMMA MetadataWrittenKeeps ==
  ASSUME VolumesInv, NEW p \in Calls, MetadataWritten(p)
  PROVE  VolumesInv'
<1>1. Vol(p) \in Volumes /\ call[p].vol = {Vol(p)} /\ call[p].pc = "writeMeta"
  BY HasVol DEF MetadataWritten
<1>2. Vol(p) \notin Foreign
  BY <1>1 DEF VolumesInv, Touched
<1>3. dirs' \subseteq Volumes /\ meta' \subseteq Volumes /\ ForeignKept'
  BY <1>1, <1>2 DEF MetadataWritten, VolumesInv, VolumesTypeOK, ForeignKept
<1> QED BY <1>1, <1>3, ReturnKeeps DEF MetadataWritten

\* So is the directory that is removed when it cannot be written.
LEMMA MetadataNotWrittenKeeps ==
  ASSUME VolumesInv, NEW p \in Calls, MetadataNotWritten(p)
  PROVE  VolumesInv'
<1>1. Vol(p) \in Volumes /\ call[p].vol = {Vol(p)} /\ call[p].pc = "writeMeta"
  BY HasVol DEF MetadataNotWritten
<1>2. Vol(p) \notin Foreign
  BY <1>1 DEF VolumesInv, Touched
<1>3. dirs' \in {dirs, dirs \ {Vol(p)}} /\ meta' = meta
  BY DEF MetadataNotWritten
<1>4. dirs' \subseteq Volumes /\ meta' \subseteq Volumes /\ ForeignKept'
  BY <1>2, <1>3 DEF VolumesInv, VolumesTypeOK, ForeignKept
<1> QED BY <1>1, <1>4, ReturnKeeps DEF MetadataNotWritten

\* CreateSandbox.
LEMMA ReadLockKeeps ==
  ASSUME VolumesInv, NEW p \in Calls, ReadLock(p)
  PROVE  VolumesInv'
<1>1. PICK c \in Call : call' = [call EXCEPT ![p] = c]
                        /\ c.pc = "mount" /\ c.kind = call[p].kind /\ c.vol = call[p].vol
  BY GotoIs DEF ReadLock, VolumesInv, Pcs
<1>2. call[p].pc = "lockRead" /\ call[p].kind = "sandbox"
  BY DEF ReadLock, VolumesInv, Shaped
<1>3. Shaped(c) /\ Reads(c) /\ ~Reads(call[p])
  BY <1>1, <1>2 DEF Shaped, Reads
<1>4. ~Writes(c) /\ ~Excludes(c) /\ ~Writes(call[p])
  BY <1>1, <1>2 DEF Writes, Excludes
<1>5. ForeignKept' /\ UNCHANGED <<dirs, meta, mounted, late, strays, createMu, writer>>
  BY DEF ReadLock, VolumesInv, ForeignKept
<1> QED
  BY <1>1, <1>3, <1>4, <1>5, OwnStep DEF ReadLock, VolumesInv, VolumesTypeOK

\* The volume of a sandbox is ensured under the read lock,
LEMMA EnsureLocalVolumeKeeps ==
  ASSUME VolumesInv, NEW p \in Calls, EnsureLocalVolume(p)
  PROVE  VolumesInv'
<1>1. call[p] \in Call /\ call[p].pc = "mount" /\ call[p].kind = "sandbox" /\ Reads(call[p])
  BY DEF EnsureLocalVolume, VolumesInv, VolumesTypeOK, Shaped, Reads
<1>2. PICK v \in call[p].todo :
        \/ call' = [call EXCEPT ![p].todo = @ \ {v}]
        \/ call' = [call EXCEPT ![p].pc = "lockCreate", ![p].vol = {v}]
  BY DEF EnsureLocalVolume
<1>3. v \in Volumes
  BY <1>1 DEF Call
<1>4. PICK c \in Call : /\ call' = [call EXCEPT ![p] = c]
                        /\ c.pc \in {"mount", "lockCreate"} /\ c.kind = "sandbox"
                        /\ c.pc = "lockCreate" => c.vol = {v}
  <2>1. CASE call' = [call EXCEPT ![p].todo = @ \ {v}]
    <3>. DEFINE c == [call[p] EXCEPT !.todo = @ \ {v}]
    <3>1. c \in Call /\ c.pc = "mount" /\ c.kind = "sandbox"
      BY <1>1 DEF Call
    <3> QED BY <2>1, <3>1
  <2>2. CASE call' = [call EXCEPT ![p].pc = "lockCreate", ![p].vol = {v}]
    <3>. DEFINE c == [call[p] EXCEPT !.pc = "lockCreate", !.vol = {v}]
    <3>1. c \in Call /\ c.pc = "lockCreate" /\ c.kind = "sandbox" /\ c.vol = {v}
      BY <1>1, <1>3 DEF Call, Pcs
    <3>2. call' = [call EXCEPT ![p] = c]
      BY <1>1, <2>2 DEF VolumesInv, VolumesTypeOK, Call
    <3> QED BY <3>1, <3>2
  <2> QED BY <1>2, <2>1, <2>2
<1>5. Shaped(c) /\ Reads(c)
  BY <1>3, <1>4 DEF Shaped, Reads
<1>6. ~Writes(c) /\ ~Excludes(c) /\ ~Writes(call[p])
  BY <1>1, <1>4 DEF Writes, Excludes
<1>7. ForeignKept' /\ UNCHANGED <<dirs, meta, mounted, late, strays, createMu, readers, writer>>
  BY DEF EnsureLocalVolume, VolumesInv, ForeignKept
<1> QED
  BY <1>1, <1>4, <1>5, <1>6, <1>7, OwnStep DEF VolumesInv, VolumesTypeOK

\* What the engine may still make is for volumes.
LEMMA GivenUpKeeps ==
  ASSUME VolumesTypeOK, NEW asked \in SUBSET Calls, GivenUp(asked)
  PROVE  late' \in [Calls -> SUBSET Volumes]
<1>1. \A p \in Calls : call[p].mounts \in SUBSET Volumes /\ late[p] \in SUBSET Volumes
  BY DEF VolumesTypeOK, Call
<1> QED BY <1>1 DEF GivenUp

\* ... under which its container is created: from then on the volume is in use.
LEMMA ContainerCreateKeeps ==
  ASSUME VolumesInv, NEW p \in Calls, ContainerCreate(p)
  PROVE  VolumesInv'
<1>1. call[p] \in Call /\ call[p].pc = "mount" /\ call[p].kind = "sandbox" /\ Reads(call[p])
      /\ ~Writes(call[p])
  BY DEF ContainerCreate, VolumesInv, VolumesTypeOK, Shaped, Reads, Writes
<1>2. ForeignKept' /\ UNCHANGED <<dirs, meta, strays, createMu, writer>> /\ readers' = readers - 1
  BY DEF ContainerCreate, VolumesInv, ForeignKept
<1>6. late' \in [Calls -> SUBSET Volumes]
  BY GivenUpKeeps DEF ContainerCreate, VolumesInv, VolumesTypeOK
<1>3. mounted' \in [Calls -> SUBSET Volumes] /\ \A q \in Calls : mounted'[q] \subseteq mounted[q] \/ Reads(call[p])
  <2>1. call[p].mounts \in SUBSET Volumes
    BY <1>1 DEF Call
  <2>2. mounted \in [Calls -> SUBSET Volumes]
    BY DEF VolumesInv, VolumesTypeOK
  <2>3. mounted' = mounted \/ mounted' = [mounted EXCEPT ![p] = call[p].mounts]
    BY DEF ContainerCreate
  <2> QED BY <1>1, <2>1, <2>2, <2>3
<1>4. PICK c \in Call : call' = [call EXCEPT ![p] = c] /\ Shaped(c) /\ c.pc \in {"start", "idle"}
  <2>1. CASE Goto(p, "start")
    <3>1. PICK c \in Call : call' = [call EXCEPT ![p] = c]
                            /\ c.pc = "start" /\ c.kind = call[p].kind /\ c.vol = call[p].vol
      BY <2>1, GotoIs DEF VolumesInv, Pcs
    <3> QED BY <1>1, <3>1 DEF Shaped
  <2>2. CASE call' = [call EXCEPT ![p] = Idle]
    BY <2>2, IdleIs
  <2> QED BY <2>1, <2>2 DEF ContainerCreate
<1>5. ~Reads(c) /\ ~Writes(c) /\ ~Excludes(c)
  BY <1>4 DEF Reads, Writes, Excludes
<1> QED
  BY <1>1, <1>2, <1>3, <1>4, <1>5, <1>6, OwnStep DEF VolumesInv, VolumesTypeOK

\* A start changes neither.
LEMMA ContainerStartKeeps ==
  ASSUME VolumesInv, NEW p \in Calls, ContainerStart(p)
  PROVE  VolumesInv'
<1>1. call[p].pc = "start" /\ ~Reads(call[p]) /\ ~Writes(call[p])
  BY DEF ContainerStart, Reads, Writes
<1>2. ForeignKept' /\ UNCHANGED <<dirs, meta, late, strays, createMu, readers, writer>>
      /\ call' = [call EXCEPT ![p] = Idle]
  BY DEF ContainerStart, VolumesInv, ForeignKept
<1>3. mounted' \in [Calls -> SUBSET Volumes] /\ \A q \in Calls : mounted'[q] \subseteq mounted[q]
  BY DEF ContainerStart, VolumesInv, VolumesTypeOK
<1> QED
  BY <1>1, <1>2, <1>3, IdleIs, OwnStep DEF VolumesInv, VolumesTypeOK

\* Nor does a removal, which gives mounts up.
LEMMA ContainerRemoveKeeps ==
  ASSUME VolumesInv, NEW p \in Calls, ContainerRemove(p)
  PROVE  VolumesInv'
<1>1. UNCHANGED <<dirs, meta, late, strays, call, createMu, readers, writer>>
  BY DEF ContainerRemove
<1>2. mounted' \in [Calls -> SUBSET Volumes] /\ \A q \in Calls : mounted'[q] \subseteq mounted[q]
  BY DEF ContainerRemove, VolumesInv, VolumesTypeOK
<1>3. Holders' = Holders
  BY <1>1 DEF Holders
<1>4. MountLock'
  BY <1>1, <1>3 DEF VolumesInv, MountLock
<1>5. Touched'
  BY <1>1, <1>2 DEF VolumesInv, Touched, Unmounted
<1> QED
  BY <1>1, <1>2, <1>4, <1>5 DEF VolumesInv, VolumesTypeOK, ForeignKept

\* The engine makes a container of a request that was given up: during a removal of its
\* volume it is a stray.
LEMMA LateCreateKeeps ==
  ASSUME VolumesInv, NEW p \in Calls, LateCreate(p)
  PROVE  VolumesInv'
<1>1. UNCHANGED <<dirs, meta, call, createMu, readers, writer>>
  BY DEF LateCreate
<1>2. /\ mounted \in [Calls -> SUBSET Volumes] /\ late \in [Calls -> SUBSET Volumes]
      /\ mounted' \in [Calls -> SUBSET Volumes] /\ late' \in [Calls -> SUBSET Volumes]
  BY DEF LateCreate, VolumesInv, VolumesTypeOK
<1>3. Holders' = Holders
  BY <1>1 DEF Holders
<1>4. MountLock'
  BY <1>1, <1>3 DEF VolumesInv, MountLock
<1>5. ASSUME NEW q \in Calls, NEW v \in Volumes, call[q].pc = "removeDir", v \in call[q].vol
      PROVE  Unmounted(v)'
  <2>1. Unmounted(v) /\ Vol(q) = v
    BY <1>5, HasVol DEF VolumesInv, Touched
  <2>2. strays \subseteq strays' /\ (mounted' # mounted /\ v \in late[p] => p \in strays')
    BY <1>5, <2>1 DEF LateCreate
  <2>3. \A r \in Calls : mounted'[r] = mounted[r] \/ (r = p /\ mounted' # mounted /\ mounted'[r] = late[p])
    BY <1>2 DEF LateCreate
  <2> QED BY <2>1, <2>2, <2>3 DEF Unmounted
<1>6. Touched'
  BY <1>1, <1>5 DEF VolumesInv, Touched
<1> QED
  BY <1>1, <1>2, <1>4, <1>6 DEF VolumesInv, VolumesTypeOK, ForeignKept

\* DeleteVolume.
LEMMA WriteLockKeeps ==
  ASSUME VolumesInv, NEW p \in Calls, WriteLock(p)
  PROVE  VolumesInv'
<1>1. PICK c \in Call : call' = [call EXCEPT ![p] = c]
                        /\ c.pc = "drain" /\ c.kind = call[p].kind /\ c.vol = call[p].vol
  BY GotoIs DEF WriteLock, VolumesInv, Pcs
<1>2. call[p].pc = "lockWrite" /\ Shaped(call[p])
  BY DEF WriteLock, VolumesInv
<1>3. Shaped(c) /\ ~Reads(c) /\ ~Reads(call[p]) /\ Writes(c) /\ ~Excludes(c)
  BY <1>1, <1>2 DEF Shaped, Reads, Writes, Excludes
<1>4. ForeignKept' /\ UNCHANGED <<dirs, meta, mounted, late, strays, createMu, readers>>
      /\ writer = NoCall /\ writer' = p
  BY DEF WriteLock, VolumesInv, ForeignKept
<1> QED
  BY <1>1, <1>3, <1>4, OwnStep DEF VolumesInv, VolumesTypeOK

\* A DeleteVolume that has the lock, or waits for it, goes on.
LEMMA DeleteGoesOn ==
  ASSUME VolumesInv, NEW p \in Calls, NEW pc \in {"check", "removeDir", "removeMeta"},
         Writes(call[p]), readers = 0 \/ Excludes(call[p]), Goto(p, pc),
         dirs' \subseteq Volumes, ForeignKept',
         pc = "removeDir" => ~InUse(Vol(p)) /\ Vol(p) \notin Foreign,
         strays' = strays \/ call[p].pc = "removeDir",
         UNCHANGED <<meta, mounted, late, createMu, readers, writer>>
  PROVE  VolumesInv'
<1>1. PICK c \in Call : call' = [call EXCEPT ![p] = c]
                        /\ c.pc = pc /\ c.kind = call[p].kind /\ c.vol = call[p].vol
  BY GotoIs DEF VolumesInv, Pcs
<1>2. Shaped(call[p]) /\ call[p].kind = "delete" /\ \E v \in Volumes : call[p].vol = {v}
  BY DEF VolumesInv, Shaped, Writes
<1>3. Shaped(c) /\ ~Reads(c) /\ ~Reads(call[p]) /\ Writes(c)
  BY <1>1, <1>2 DEF Shaped, Reads, Writes
<1>4. \A v \in c.vol : c.pc = "removeDir" => Unmounted(v)' /\ v \notin Foreign
  BY <1>1, <1>2, VolIsIt DEF InUse, Unmounted
<1>5. c.pc # "writeMeta"
  BY <1>1
<1> QED
  BY <1>1, <1>3, <1>4, <1>5, OwnStep DEF VolumesInv, VolumesTypeOK

\* The write lock is had only when no call holds the read lock.
LEMMA WriteLockedKeeps ==
  ASSUME VolumesInv, NEW p \in Calls, WriteLocked(p)
  PROVE  VolumesInv'
<1>1. Writes(call[p]) /\ readers = 0 /\ Goto(p, "check") /\ ForeignKept' /\ dirs' \subseteq Volumes
  BY DEF WriteLocked, Drained, Writes, VolumesInv, VolumesTypeOK, ForeignKept
<1> QED BY <1>1, DeleteGoesOn DEF WriteLocked

\* A DeleteVolume ends, and those that wait for the read lock get it.
LEMMA UnlockedKeeps ==
  ASSUME VolumesInv, NEW p \in Calls, Excludes(call[p]), Unlocked(p),
         dirs' \subseteq Volumes, meta' \subseteq Volumes, ForeignKept',
         UNCHANGED <<mounted, late, createMu>>
  PROVE  VolumesInv'
<1>. DEFINE waiting == {q \in Calls : call[q].pc = "lockRead"}
<1>1. Holders = {} /\ readers = 0 /\ \A q \in Calls : Writes(call[q]) => q = p
  <2>1. Writes(call[p])
    BY DEF Writes, Excludes
  <2> QED BY <2>1, FS_EmptySet DEF VolumesInv, MountLock
<1>2. \A q \in waiting :
        /\ [call[q] EXCEPT !.pc = "mount"] \in Call
        /\ [call[q] EXCEPT !.pc = "mount"].pc = "mount"
        /\ [call[q] EXCEPT !.pc = "mount"].kind = "sandbox"
  <2> SUFFICES ASSUME NEW q \in waiting
               PROVE  /\ [call[q] EXCEPT !.pc = "mount"] \in Call
                      /\ [call[q] EXCEPT !.pc = "mount"].pc = "mount"
                      /\ [call[q] EXCEPT !.pc = "mount"].kind = "sandbox"
    OBVIOUS
  <2>1. call[q] \in Call /\ call[q].kind = "sandbox"
    BY DEF VolumesInv, VolumesTypeOK, Shaped
  <2> QED BY <2>1 DEF Call, Pcs
<1>3. p \notin waiting
  BY DEF Excludes
<1>4. /\ call' \in [Calls -> Call]
      /\ \A q \in waiting : call'[q].pc = "mount" /\ call'[q].kind = "sandbox"
      /\ \A q \in Calls \ waiting : call'[q] = IF q = p THEN Idle ELSE call[q]
  <2>1. \A q \in Calls : call[q] \in Call
    BY DEF VolumesInv, VolumesTypeOK
  <2>2. call' = [q \in Calls |-> IF q = p THEN Idle
                                 ELSE IF q \in waiting THEN [call[q] EXCEPT !.pc = "mount"]
                                 ELSE call[q]]
    BY DEF Unlocked
  <2> QED BY <1>2, <1>3, <2>1, <2>2, IdleIs
<1>5. Holders' = waiting
  BY <1>1, <1>4, IdleIs DEF Holders, Reads
<1>6. IsFiniteSet(waiting) /\ Cardinality(waiting) \in Nat
  <2>1. waiting \subseteq Calls
    OBVIOUS
  <2> QED BY <2>1, VolumesAssumption, FS_Subset, FS_CardinalityType
<1>7. readers' = Cardinality(waiting) /\ writer' = NoCall
  BY <1>1, <1>6 DEF Unlocked
<1>8. \A q \in Calls : ~Writes(call'[q])
  BY <1>1, <1>4, IdleIs DEF Writes
<1>9. \A q \in Calls : ~Excludes(call'[q]) /\ call'[q].pc # "removeDir"
  BY <1>8 DEF Writes, Excludes
<1>10. MountLock'
  BY <1>5, <1>7, <1>8, <1>9 DEF MountLock
<1>11. \A q \in Calls : call'[q].pc = "writeMeta" => call'[q] = call[q]
  BY <1>4, IdleIs
<1>12. Touched'
  BY <1>9, <1>11 DEF VolumesInv, Touched
<1>13. \A q \in Calls : Shaped(call'[q])
  <2>1. \A q \in waiting : Shaped(call'[q])
    BY <1>4 DEF Shaped
  <2>2. \A q \in Calls \ waiting : Shaped(call'[q])
    BY <1>4, IdleIs DEF VolumesInv
  <2> QED BY <2>1, <2>2
<1>14. VolumesTypeOK'
  BY <1>4, <1>6, <1>7 DEF VolumesInv, VolumesTypeOK
<1> QED BY <1>10, <1>12, <1>13, <1>14 DEF VolumesInv

\* What DeleteVolume has seen of the containers stays true while it holds the write lock.
LEMMA DeleteCheckKeeps ==
  ASSUME VolumesInv, NEW p \in Calls, DeleteCheck(p)
  PROVE  VolumesInv'
<1>1. Vol(p) \in Volumes /\ call[p].vol = {Vol(p)} /\ call[p].pc = "check"
  BY HasVol DEF DeleteCheck
<1>2. Writes(call[p]) /\ Excludes(call[p])
  BY <1>1 DEF Writes, Excludes
<1>3. UNCHANGED <<dirs, meta, mounted, late, strays, createMu>> /\ ForeignKept' /\ dirs' \subseteq Volumes /\ meta' \subseteq Volumes
  BY DEF DeleteCheck, VolumesInv, VolumesTypeOK, ForeignKept
<1>4. CASE Unlocked(p)
  BY <1>2, <1>3, <1>4, UnlockedKeeps
<1>5. CASE Managed(Vol(p)) /\ ~InUse(Vol(p)) /\ Goto(p, "removeDir") /\ UNCHANGED <<readers, writer>>
  <2>1. Vol(p) \notin Foreign
    BY <1>5 DEF Managed, VolumesInv, ForeignKept
  <2> QED BY <1>2, <1>3, <1>5, <2>1, DeleteGoesOn
<1> QED BY <1>4, <1>5 DEF DeleteCheck

\* So the directory it removes is mounted by no container,
LEMMA RemoveDirKeeps ==
  ASSUME VolumesInv, NEW p \in Calls, RemoveDir(p)
  PROVE  VolumesInv'
<1>1. Vol(p) \in Volumes /\ call[p].vol = {Vol(p)} /\ call[p].pc = "removeDir"
  BY HasVol DEF RemoveDir
<1>2. Writes(call[p]) /\ Excludes(call[p])
  BY <1>1 DEF Writes, Excludes
<1>3. Vol(p) \notin Foreign
  BY <1>1 DEF VolumesInv, Touched
<1>4. dirs' \in {dirs, dirs \ {Vol(p)}} /\ UNCHANGED <<meta, mounted, late, createMu>>
  BY DEF RemoveDir
<1>5. ForeignKept' /\ dirs' \subseteq Volumes /\ meta' \subseteq Volumes
  BY <1>3, <1>4 DEF VolumesInv, VolumesTypeOK, ForeignKept
<1>6. CASE Unlocked(p)
  BY <1>2, <1>4, <1>5, <1>6, UnlockedKeeps
<1>7. CASE Goto(p, "removeMeta") /\ UNCHANGED <<readers, writer>>
  BY <1>1, <1>2, <1>4, <1>5, <1>7, DeleteGoesOn
<1> QED BY <1>6, <1>7 DEF RemoveDir

\* ... and the metadata goes after it, with the lock.
LEMMA RemoveMetaKeeps ==
  ASSUME VolumesInv, NEW p \in Calls, RemoveMeta(p)
  PROVE  VolumesInv'
<1>1. Excludes(call[p])
  BY DEF RemoveMeta, Excludes
<1>2. meta' \subseteq meta /\ UNCHANGED <<dirs, mounted, late, strays, createMu>> /\ Unlocked(p)
  BY DEF RemoveMeta
<1>3. ForeignKept' /\ dirs' \subseteq Volumes /\ meta' \subseteq Volumes
  BY <1>2 DEF VolumesInv, VolumesTypeOK, ForeignKept
<1> QED BY <1>1, <1>2, <1>3, UnlockedKeeps

\* The process dies.
LEMMA CrashKeeps ==
  ASSUME VolumesInv, Crash
  PROVE  VolumesInv'
<1>1. call' \in [Calls -> Call] /\ \A p \in Calls : call'[p] = Idle
  BY IdleIs DEF Crash
<1>2. Holders' = {}
  BY <1>1, IdleIs DEF Holders
<1>3. MountLock'
  BY <1>1, <1>2, IdleIs, FS_EmptySet DEF MountLock, Crash
<1>4. Touched'
  BY <1>1, IdleIs DEF Touched
<1>5. \A p \in Calls : Shaped(call'[p])
  BY <1>1, IdleIs
<1>6. late' \in [Calls -> SUBSET Volumes]
  BY GivenUpKeeps DEF Crash, VolumesInv
<1> QED
  BY <1>1, <1>3, <1>4, <1>5, <1>6 DEF Crash, VolumesInv, VolumesTypeOK, ForeignKept

\* The invariant holds at the start.
LEMMA InitVolumesInv == Init => VolumesInv
<1> SUFFICES ASSUME Init PROVE VolumesInv
  OBVIOUS
<1>1. call \in [Calls -> Call] /\ \A p \in Calls : call[p] = Idle
  BY IdleIs DEF Init
<1>2. Holders = {}
  BY <1>1, IdleIs DEF Holders
<1>3. MountLock
  BY <1>1, <1>2, IdleIs, FS_EmptySet DEF MountLock, Init
<1>4. Touched
  BY <1>1, IdleIs DEF Touched
<1>5. \A p \in Calls : Shaped(call[p])
  BY <1>1, IdleIs
<1> QED
  BY <1>1, <1>3, <1>4, <1>5, VolumesAssumption DEF Init, VolumesInv, VolumesTypeOK, ForeignKept

\* Every step keeps it.
LEMMA StepKeeps == VolumesInv /\ [Next]_vars => VolumesInv'
<1> SUFFICES ASSUME VolumesInv, [Next]_vars PROVE VolumesInv'
  OBVIOUS
<1>1. CASE UNCHANGED vars
  <2>1. Holders' = Holders
    BY <1>1 DEF vars, Holders
  <2> QED
    BY <1>1, <2>1 DEF vars, VolumesInv, VolumesTypeOK, MountLock, Touched, Unmounted, ForeignKept
<1>2. CASE Next
  BY <1>2, ArriveKeeps, CreateBeginsKeeps, MetadataWrittenKeeps, MetadataNotWrittenKeeps,
     ReadLockKeeps, EnsureLocalVolumeKeeps, ContainerCreateKeeps, ContainerStartKeeps,
     ContainerRemoveKeeps, LateCreateKeeps, WriteLockKeeps, WriteLockedKeeps, DeleteCheckKeeps, RemoveDirKeeps,
     RemoveMetaKeeps, CrashKeeps DEF Next, Step
<1> QED BY <1>1, <1>2

---------------------------------------------------------------------------
(* Theorems.                                                               *)

\* Every reachable state is well typed and has the invariant: volumeMountMu counts its
\* readers, and a DeleteVolume that looks or removes has shut them out.
THEOREM VolumesCorrect == Spec => []VolumesInv
BY InitVolumesInv, StepKeeps, PTL DEF Spec

\* A directory that DeleteVolume removes is mounted by no container, but one that the
\* engine makes just then of a request that was given up, and no CreateSandbox that
\* counts on it can still register its mount.
THEOREM MountedAreSpared == Spec => []DeleteSparesMounted
<1>1. VolumesInv => DeleteSparesMounted
  <2> SUFFICES ASSUME VolumesInv, NEW p \in Calls, call[p].pc = "removeDir"
               PROVE  /\ \A q \in Calls : Vol(p) \in mounted[q] => q \in strays
                      /\ \A q \in Calls : call[q].pc # "mount"
    BY DEF DeleteSparesMounted
  <2>1. \A q \in Calls : Vol(p) \in mounted[q] => q \in strays
    BY HasVol DEF VolumesInv, Touched, Unmounted
  <2>2. \A q \in Calls : ~Reads(call[q])
    BY DEF VolumesInv, MountLock, Excludes, Holders
  <2>3. \A q \in Calls : call[q].pc = "mount" => Reads(call[q])
    BY DEF VolumesInv, Shaped, Reads
  <2> QED BY <2>1, <2>2, <2>3
<1> QED BY <1>1, VolumesCorrect, PTL

\* A directory that a user made is never taken over or removed.
THEOREM ForeignStays == Spec => []ForeignKept
<1>1. VolumesInv => ForeignKept
  BY DEF VolumesInv
<1> QED BY <1>1, VolumesCorrect, PTL

---------------------------------------------------------------------------
(* VolumeContent, for any number of writers, readers, directories and      *)
(* makings of the volume: what is published is whole, and a write without  *)
(* force replaces nothing.                                                 *)

Steps == {"new", "parent", "lstat", "temp", "body", "publish", "cleanup", "mkdir", "done"}

ContentRequest == [kind: {"none", "put", "mkdir"}, step: Steps, force: BOOLEAN, volume: Nat,
            at: Dirs \cup {Outside}]

ContentTypeOK ==
  /\ volume \in Nat /\ made \in Nat
  /\ inodes \in [Dirs -> {"unused", "live", "gone"}]
  /\ parent \in Dirs \cup {"none", "link"}
  /\ entry \in [Dirs \cup {Outside} -> Unwritten \cup Writers]
  /\ content \in [Writers -> {"none", "half", "whole"}]
  /\ temps \subseteq Writers
  /\ reqs \in [Writers -> ContentRequest]
  /\ reading \in [Readers -> {"none", "theirs"} \cup Writers]

\* The request has opened the parent's directory, which is in the volume.
Opened(w) ==
  reqs[w].step \in {"lstat", "temp", "body", "publish", "cleanup"} => reqs[w].at \in Dirs

\* It has written its file to the end before it publishes it.
Written(w) == reqs[w].step = "publish" => content[w] = "whole"

\* A file that is to be seen under the name, or by a download, is changed no more, as
\* its writer is past the publication.
Final(w) ==
  /\ \A d \in Dirs \cup {Outside} :
       entry[d] = w => content[w] = "whole" /\ reqs[w].at = d /\ reqs[w].step \in {"cleanup", "done"}
  /\ \A r \in Readers :
       reading[r] = w => content[w] = "whole" /\ reqs[w].step \in {"cleanup", "done"}

ContentInv ==
  /\ ContentTypeOK
  /\ \A w \in Writers : Opened(w) /\ Written(w) /\ Final(w)

---------------------------------------------------------------------------
(* Lemmas about VolumeContent.                                             *)

\* A step that shows no more of a writer than before, and whose request goes nowhere
\* but to its end, keeps what is said of the writer.
LEMMA Unshown ==
  ASSUME NEW w \in Writers, Opened(w), Written(w), Final(w),
         content'[w] = content[w], reqs'[w].at = reqs[w].at,
         reqs'[w].step \in {reqs[w].step, "done"},
         \A d \in Dirs \cup {Outside} : entry'[d] = w => entry[d] = w,
         \A r \in Readers : reading'[r] = w => reading[r] = w \/ \E d \in Dirs : entry[d] = w
  PROVE  Opened(w)' /\ Written(w)' /\ Final(w)'
<1>1. Opened(w)' /\ Written(w)'
  BY DEF Opened, Written
<1>2. ASSUME NEW d \in Dirs \cup {Outside}, entry'[d] = w
      PROVE  content'[w] = "whole" /\ reqs'[w].at = d /\ reqs'[w].step \in {"cleanup", "done"}
  BY <1>2 DEF Final
<1>3. ASSUME NEW r \in Readers, reading'[r] = w
      PROVE  content'[w] = "whole" /\ reqs'[w].step \in {"cleanup", "done"}
  BY <1>3 DEF Final
<1> QED BY <1>1, <1>2, <1>3 DEF Final

\* The same of every writer.
LEMMA AllUnshown ==
  ASSUME ContentInv, ContentTypeOK', content' = content,
         \A w \in Writers : reqs'[w].at = reqs[w].at /\ reqs'[w].step \in {reqs[w].step, "done"},
         \A w \in Writers, d \in Dirs \cup {Outside} : entry'[d] = w => entry[d] = w,
         \A w \in Writers, r \in Readers :
           reading'[r] = w => reading[r] = w \/ \E d \in Dirs : entry[d] = w
  PROVE  ContentInv'
BY Unshown DEF ContentInv

\* A writer that has not published is not to be seen.
LEMMA Hidden ==
  ASSUME ContentInv, NEW w \in Writers, reqs[w].step \notin {"cleanup", "done"}
  PROVE  /\ \A d \in Dirs \cup {Outside} : entry[d] # w
         /\ \A r \in Readers : reading[r] # w
BY DEF ContentInv, Final

\* A request that goes on, and is not to be seen, leaves the other writers alone.
LEMMA OnlyOne ==
  ASSUME ContentInv, ContentTypeOK', NEW w \in Writers,
         \A v \in Writers \ {w} : content'[v] = content[v] /\ reqs'[v] = reqs[v],
         UNCHANGED reading,
         \A v \in Writers \ {w}, d \in Dirs \cup {Outside} : entry'[d] = v => entry[d] = v,
         Opened(w)', Written(w)', Final(w)'
  PROVE  ContentInv'
<1>1. ASSUME NEW v \in Writers \ {w}
      PROVE  Opened(v)' /\ Written(v)' /\ Final(v)'
  <2>1. Opened(v) /\ Written(v) /\ Final(v) /\ v \in Writers
    BY DEF ContentInv
  <2> QED BY <2>1, Unshown, <1>1
<1> QED BY <1>1 DEF ContentInv

---------------------------------------------------------------------------
(* The steps of a write.                                                   *)

\* The mutations are no part of the specification: a write that begins.
LEMMA WriteBeginsKeeps ==
  ASSUME ContentInv, NEW w \in Writers, NEW force \in BOOLEAN, WriteBegins(w, force)
  PROVE  ContentInv'
<1>1. ContentTypeOK'
  BY DEF ContentInv, ContentTypeOK, WriteBegins, ContentRequest, Steps
<1>2. /\ \A d \in Dirs \cup {Outside} : entry[d] # w
      /\ \A r \in Readers : reading[r] # w
  BY Hidden DEF WriteBegins, At
<1>3. reqs'[w].step = "parent" /\ UNCHANGED <<entry, reading, content>>
  BY DEF WriteBegins, ContentInv, ContentTypeOK
<1>4. Opened(w)' /\ Written(w)' /\ Final(w)'
  BY <1>2, <1>3 DEF Opened, Written, Final
<1>5. \A v \in Writers \ {w} : reqs'[v] = reqs[v]
  BY DEF WriteBegins, ContentInv, ContentTypeOK
<1> QED BY <1>1, <1>3, <1>4, <1>5, OnlyOne

\* OpenParent opens a directory of the volume, or ends.
LEMMA OpenParentKeeps ==
  ASSUME ContentInv, NEW w \in Writers, OpenParent(w)
  PROVE  ContentInv'
<1>1. /\ inodes' \in [Dirs -> {"unused", "live", "gone"}]
      /\ parent' \in Dirs \cup {"none", "link"}
      /\ reqs' \in [Writers -> ContentRequest]
      /\ (reqs'[w].step = "lstat" /\ reqs'[w].at \in Dirs) \/ reqs'[w].step = "done"
  BY DEF ContentInv, ContentTypeOK, OpenParent, MkdirParent, Live, Advance, ContentRequest, Steps
<1>2. ContentTypeOK'
  BY <1>1 DEF ContentInv, ContentTypeOK, OpenParent
<1>3. /\ \A d \in Dirs \cup {Outside} : entry[d] # w
      /\ \A r \in Readers : reading[r] # w
  BY Hidden DEF OpenParent, At
<1>4. UNCHANGED <<entry, reading, content>>
  BY DEF OpenParent
<1>5. Opened(w)' /\ Written(w)' /\ Final(w)'
  BY <1>1, <1>3, <1>4 DEF Opened, Written, Final
<1>6. \A v \in Writers \ {w} : reqs'[v] = reqs[v]
  BY DEF OpenParent, Advance, ContentInv, ContentTypeOK
<1> QED BY <1>2, <1>4, <1>5, <1>6, OnlyOne

\* Lstat of the target goes on or ends.
LEMMA LstatTargetKeeps ==
  ASSUME ContentInv, NEW w \in Writers, LstatTarget(w)
  PROVE  ContentInv'
<1>1. /\ reqs' \in [Writers -> ContentRequest]
      /\ reqs'[w].step \in {"temp", "done"} /\ reqs'[w].at = reqs[w].at
      /\ UNCHANGED <<entry, reading, content>>
      /\ \A v \in Writers \ {w} : reqs'[v] = reqs[v]
  BY DEF ContentInv, ContentTypeOK, LstatTarget, Advance, ContentRequest, Steps
<1>2. ContentTypeOK'
  BY <1>1 DEF ContentInv, ContentTypeOK, LstatTarget
<1>3. /\ \A d \in Dirs \cup {Outside} : entry[d] # w
      /\ \A r \in Readers : reading[r] # w
      /\ reqs[w].at \in Dirs
  BY Hidden DEF LstatTarget, At, ContentInv, Opened
<1>4. Opened(w)' /\ Written(w)' /\ Final(w)'
  BY <1>1, <1>3 DEF Opened, Written, Final
<1> QED BY <1>1, <1>2, <1>4, OnlyOne

\* The temporary file is empty at first, or is not made.
LEMMA CreateTempKeeps ==
  ASSUME ContentInv, NEW w \in Writers, CreateTemp(w)
  PROVE  ContentInv'
<1>1. /\ reqs' \in [Writers -> ContentRequest] /\ content' \in [Writers -> {"none", "half", "whole"}]
      /\ temps' \subseteq Writers
      /\ reqs'[w].step \in {"body", "done"} /\ reqs'[w].at = reqs[w].at
      /\ UNCHANGED <<entry, reading>>
      /\ \A v \in Writers \ {w} : reqs'[v] = reqs[v] /\ content'[v] = content[v]
  BY DEF ContentInv, ContentTypeOK, CreateTemp, Advance, ContentRequest, Steps
<1>2. ContentTypeOK'
  BY <1>1 DEF ContentInv, ContentTypeOK, CreateTemp
<1>3. /\ \A d \in Dirs \cup {Outside} : entry[d] # w
      /\ \A r \in Readers : reading[r] # w
      /\ reqs[w].at \in Dirs
  BY Hidden DEF CreateTemp, At, ContentInv, Opened
<1>4. Opened(w)' /\ Written(w)' /\ Final(w)'
  BY <1>1, <1>3 DEF Opened, Written, Final
<1> QED BY <1>1, <1>2, <1>4, OnlyOne

\* Only a body that was read to its end is published.
LEMMA BodyReadKeeps ==
  ASSUME ContentInv, NEW w \in Writers, BodyRead(w)
  PROVE  ContentInv'
<1>1. /\ reqs' \in [Writers -> ContentRequest] /\ content' \in [Writers -> {"none", "half", "whole"}]
      /\ (reqs'[w].step = "publish" /\ content'[w] = "whole") \/ reqs'[w].step = "cleanup"
      /\ reqs'[w].at = reqs[w].at
      /\ UNCHANGED <<entry, reading>>
      /\ \A v \in Writers \ {w} : reqs'[v] = reqs[v] /\ content'[v] = content[v]
  BY DEF ContentInv, ContentTypeOK, BodyRead, Advance, ContentRequest, Steps
<1>2. ContentTypeOK'
  BY <1>1 DEF ContentInv, ContentTypeOK, BodyRead
<1>3. /\ \A d \in Dirs \cup {Outside} : entry[d] # w
      /\ \A r \in Readers : reading[r] # w
      /\ reqs[w].at \in Dirs
  BY Hidden DEF BodyRead, At, ContentInv, Opened
<1>4. Opened(w)' /\ Written(w)' /\ Final(w)'
  BY <1>1, <1>3 DEF Opened, Written, Final
<1> QED BY <1>1, <1>2, <1>4, OnlyOne

\* What Rename and Link do: the file stands in the directory that was opened, and
\* nowhere else; without force nothing stood there.
LEMMA Published ==
  ASSUME ContentInv, NEW w \in Writers, At(w, "publish"), Rename(w) \/ Link(w)
  PROVE  /\ entry' \in [Dirs \cup {Outside} -> Unwritten \cup Writers]
         /\ temps' \subseteq Writers
         /\ entry'[reqs[w].at] = w
         /\ \A d \in Dirs \cup {Outside} : d # reqs[w].at => entry'[d] = entry[d]
         /\ ~reqs[w].force => entry[reqs[w].at] = "none"
<1>1. reqs[w].at \in Dirs
  BY DEF ContentInv, Opened, At
<1> QED BY <1>1 DEF ContentInv, ContentTypeOK, Rename, Link, Target

\* Publication puts a whole file where the request has opened the directory.
LEMMA PublishKeeps ==
  ASSUME ContentInv, NEW w \in Writers, Publish(w)
  PROVE  ContentInv'
<1>1. /\ reqs' \in [Writers -> ContentRequest]
      /\ reqs'[w].step = "cleanup" /\ reqs'[w].at = reqs[w].at
      /\ UNCHANGED <<reading, content>>
      /\ \A v \in Writers \ {w} : reqs'[v] = reqs[v]
  BY DEF ContentInv, ContentTypeOK, Publish, Advance, ContentRequest, Steps
<1>2. /\ \A d \in Dirs \cup {Outside} : entry[d] # w
      /\ \A r \in Readers : reading[r] # w
      /\ reqs[w].at \in Dirs /\ content[w] = "whole"
  BY Hidden DEF Publish, At, ContentInv, Opened, Written
<1>3. /\ entry' \in [Dirs \cup {Outside} -> Unwritten \cup Writers]
      /\ temps' \subseteq Writers
      /\ \A d \in Dirs \cup {Outside} : entry'[d] # entry[d] => d = reqs[w].at /\ entry'[d] = w
  BY Published DEF Publish, ContentInv, ContentTypeOK
<1>4. ContentTypeOK'
  BY <1>1, <1>3 DEF ContentInv, ContentTypeOK, Publish
<1>5. Opened(w)' /\ Written(w)' /\ Final(w)'
  BY <1>1, <1>2, <1>3 DEF Opened, Written, Final
<1>6. \A v \in Writers \ {w}, d \in Dirs \cup {Outside} : entry'[d] = v => entry[d] = v
  BY <1>3
<1> QED BY <1>1, <1>4, <1>5, <1>6, OnlyOne

\* The clean-up removes no published file.
LEMMA CleanupKeeps ==
  ASSUME ContentInv, NEW w \in Writers, Cleanup(w)
  PROVE  ContentInv'
<1>1. /\ reqs' \in [Writers -> ContentRequest] /\ temps' \subseteq Writers
      /\ \A v \in Writers : reqs'[v].at = reqs[v].at /\ reqs'[v].step \in {reqs[v].step, "done"}
      /\ UNCHANGED <<entry, reading, content>>
  BY DEF ContentInv, ContentTypeOK, Cleanup, Advance, ContentRequest, Steps
<1>2. ContentTypeOK'
  BY <1>1 DEF ContentInv, ContentTypeOK, Cleanup
<1> QED BY <1>1, <1>2, AllUnshown

---------------------------------------------------------------------------
(* The other operations, the sandboxes and the end of the process.         *)

\* A request for a directory begins.
LEMMA MkdirBeginsKeeps ==
  ASSUME ContentInv, NEW w \in Writers, MkdirBegins(w)
  PROVE  ContentInv'
<1>1. /\ reqs' \in [Writers -> ContentRequest] /\ reqs'[w].step = "mkdir"
      /\ UNCHANGED <<entry, reading, content>>
      /\ \A v \in Writers \ {w} : reqs'[v] = reqs[v]
  BY DEF ContentInv, ContentTypeOK, MkdirBegins, ContentRequest, Steps, New
<1>2. ContentTypeOK'
  BY <1>1 DEF ContentInv, ContentTypeOK, MkdirBegins
<1>3. /\ \A d \in Dirs \cup {Outside} : entry[d] # w
      /\ \A r \in Readers : reading[r] # w
  BY Hidden DEF MkdirBegins, At
<1>4. Opened(w)' /\ Written(w)' /\ Final(w)'
  BY <1>1, <1>3 DEF Opened, Written, Final
<1> QED BY <1>1, <1>2, <1>4, OnlyOne

\* It makes a directory of what was free or a directory.
LEMMA MkdirAllKeeps ==
  ASSUME ContentInv, NEW w \in Writers, MkdirAll(w)
  PROVE  ContentInv'
<1>1. /\ reqs' \in [Writers -> ContentRequest]
      /\ \A v \in Writers : reqs'[v].at = reqs[v].at /\ reqs'[v].step \in {reqs[v].step, "done"}
      /\ UNCHANGED <<reading, content>>
  BY DEF ContentInv, ContentTypeOK, MkdirAll, Advance, ContentRequest, Steps
<1>2. /\ inodes' \in [Dirs -> {"unused", "live", "gone"}]
      /\ parent' \in Dirs \cup {"none", "link"}
  BY DEF ContentInv, ContentTypeOK, MkdirAll, MkdirParent
<1>3. /\ entry' \in [Dirs \cup {Outside} -> Unwritten \cup Writers]
      /\ \A d \in Dirs \cup {Outside} : entry'[d] \in {entry[d], "dir"}
  BY <1>2 DEF ContentInv, ContentTypeOK, MkdirAll, Unwritten
<1>4. ContentTypeOK'
  BY <1>1, <1>2, <1>3 DEF ContentInv, ContentTypeOK, MkdirAll
<1> QED BY <1>1, <1>3, <1>4, AllUnshown, ContentAssumption DEF Unwritten

\* A download opens what stands under the name, and ends.
LEMMA ReaderKeeps ==
  ASSUME ContentInv, NEW r \in Readers, ReadVolumeFile(r) \/ ReadEnds(r)
  PROVE  ContentInv'
<1>1. /\ UNCHANGED <<entry, content, reqs>>
      /\ reading' \in [Readers -> {"none", "theirs"} \cup Writers]
      /\ \A q \in Readers : reading'[q] \in {reading[q], "none"} \/ \E d \in Dirs : entry[d] = reading'[q]
  BY DEF ContentInv, ContentTypeOK, ReadVolumeFile, ReadEnds, Live
<1>2. ContentTypeOK'
  BY <1>1 DEF ContentInv, ContentTypeOK, ReadVolumeFile, ReadEnds
<1>3. \A w \in Writers, q \in Readers : reading'[q] = w => reading[q] = w \/ \E d \in Dirs : entry[d] = w
  BY <1>1, ContentAssumption DEF Unwritten
<1> QED BY <1>1, <1>2, <1>3, AllUnshown

\* Directories that are removed, moved or put in the place of the parent, and files
\* that a sandbox changes, are nobody's publication.
LEMMA WorldKeeps ==
  ASSUME ContentInv,
         \/ SandboxMovesParent \/ DeleteVolume \/ CreateVolume
         \/ \E d \in Dirs : SandboxChangesFile(d) \/ SandboxRemovesDir(d)
         \/ \E w \in Writers : SandboxRemovesTemp(w)
  PROVE  ContentInv'
<1>1. ASSUME NEW gone \in SUBSET Dirs, Removed(gone)
      PROVE  /\ inodes' \in [Dirs -> {"unused", "live", "gone"}]
             /\ parent' \in Dirs \cup {"none", "link"}
             /\ temps' \subseteq Writers
             /\ entry' \in [Dirs \cup {Outside} -> Unwritten \cup Writers]
             /\ \A d \in Dirs \cup {Outside} : entry'[d] \in {entry[d]} \cup Unwritten
  BY <1>1 DEF Removed, ContentInv, ContentTypeOK, Unwritten
<1>2. CASE SandboxMovesParent
  <2>1. ContentTypeOK' /\ UNCHANGED <<entry, content, reqs, reading>>
    BY <1>2 DEF SandboxMovesParent, ContentInv, ContentTypeOK
  <2> QED BY <2>1, AllUnshown
<1>3. CASE DeleteVolume
  <2>1. Live \in SUBSET Dirs
    BY DEF Live
  <2>2. /\ ContentTypeOK' /\ UNCHANGED <<content, reqs, reading>>
        /\ \A d \in Dirs \cup {Outside} : entry'[d] \in {entry[d]} \cup Unwritten
    BY <1>1, <1>3, <2>1 DEF DeleteVolume, ContentInv, ContentTypeOK
  <2> QED BY <2>2, AllUnshown, ContentAssumption
<1>4. CASE CreateVolume
  <2>1. ContentTypeOK' /\ UNCHANGED <<entry, content, reqs, reading>>
    BY <1>4 DEF CreateVolume, ContentInv, ContentTypeOK
  <2> QED BY <2>1, AllUnshown
<1>5. ASSUME NEW d \in Dirs, SandboxChangesFile(d)
      PROVE  ContentInv'
  <2>1. /\ ContentTypeOK' /\ UNCHANGED <<content, reqs, reading>>
        /\ \A c \in Dirs \cup {Outside} : entry'[c] \in {entry[c]} \cup Unwritten
    BY <1>5 DEF SandboxChangesFile, ContentInv, ContentTypeOK
  <2> QED BY <2>1, AllUnshown, ContentAssumption
<1>6. ASSUME NEW d \in Dirs, SandboxRemovesDir(d)
      PROVE  ContentInv'
  <2>1. {d} \in SUBSET Dirs
    OBVIOUS
  <2>2. /\ ContentTypeOK' /\ UNCHANGED <<content, reqs, reading>>
        /\ \A c \in Dirs \cup {Outside} : entry'[c] \in {entry[c]} \cup Unwritten
    BY <1>1, <1>6, <2>1 DEF SandboxRemovesDir, ContentInv, ContentTypeOK
  <2> QED BY <2>2, AllUnshown, ContentAssumption
<1>7. ASSUME NEW w \in Writers, SandboxRemovesTemp(w)
      PROVE  ContentInv'
  <2>1. ContentTypeOK' /\ UNCHANGED <<entry, content, reqs, reading>>
    BY <1>7 DEF SandboxRemovesTemp, ContentInv, ContentTypeOK
  <2> QED BY <2>1, AllUnshown
<1> QED BY <1>2, <1>3, <1>4, <1>5, <1>6, <1>7

\* The end of the process ends every request, and changes no file.
LEMMA ProcessEndsKeeps ==
  ASSUME ContentInv, ProcessEnds
  PROVE  ContentInv'
<1>1. /\ reqs' \in [Writers -> ContentRequest]
      /\ \A w \in Writers : reqs'[w].at = reqs[w].at /\ reqs'[w].step \in {reqs[w].step, "done"}
      /\ reading' \in [Readers -> {"none", "theirs"} \cup Writers]
      /\ \A r \in Readers : reading'[r] = "none"
      /\ UNCHANGED <<entry, content>>
  BY DEF ProcessEnds, ContentInv, ContentTypeOK, ContentRequest, Steps, At
<1>2. ContentTypeOK'
  BY <1>1 DEF ProcessEnds, ContentInv, ContentTypeOK
<1> QED BY <1>1, <1>2, AllUnshown, ContentAssumption DEF Unwritten

---------------------------------------------------------------------------
(* Theorems about VolumeContent.                                           *)

\* At first there is one volume, and no file but one outside of it.
LEMMA ContentInitially == ContentInit => ContentInv
<1> SUFFICES ASSUME ContentInit
             PROVE  ContentInv
  OBVIOUS
<1>1. ContentTypeOK
  BY DEF ContentInit, ContentTypeOK, New, ContentRequest, Steps, Unwritten
<1>2. ASSUME NEW w \in Writers
      PROVE  Opened(w) /\ Written(w) /\ Final(w)
  BY ContentAssumption DEF ContentInit, New, Opened, Written, Final, Unwritten
<1> QED BY <1>1, <1>2 DEF ContentInv

\* Every step keeps the invariant.
LEMMA ContentStep == ContentInv /\ [ContentNext]_fvars => ContentInv'
<1> SUFFICES ASSUME ContentInv, [ContentNext]_fvars
             PROVE  ContentInv'
  OBVIOUS
<1>1. ASSUME NEW w \in Writers, WriteStep(w)
      PROVE  ContentInv'
  BY <1>1, OpenParentKeeps, LstatTargetKeeps, CreateTempKeeps, BodyReadKeeps, PublishKeeps,
     CleanupKeeps, MkdirAllKeeps DEF WriteStep
<1>2. CASE UNCHANGED fvars
  <2>1. ContentTypeOK' /\ UNCHANGED <<entry, content, reqs, reading>>
    BY <1>2 DEF fvars, ContentInv, ContentTypeOK
  <2> QED BY <2>1, AllUnshown
<1> QED BY <1>1, <1>2, WriteBeginsKeeps, MkdirBeginsKeeps, ReaderKeeps, WorldKeeps, ProcessEndsKeeps DEF ContentNext

\* The inductive invariant of the volume content.
THEOREM ContentCorrect == ContentSpec => []ContentInv
BY ContentInitially, ContentStep, PTL DEF ContentSpec

\* WriteVolumeFile publishes only what it has written completely, in the directory it
\* has opened, and a download never gets a file that is still being written.
THEOREM OnlyWholeIsPublished == ContentSpec => []PublishedWhole
<1>1. ContentInv => PublishedWhole
  BY DEF ContentInv, ContentTypeOK, Final, PublishedWhole
<1> QED BY <1>1, ContentCorrect, PTL

\* A write without force never takes the place of anything, although it looks at the
\* name long before it publishes.
THEOREM NothingIsReplaced == ContentSpec => NoForceKeeps
<1>1. ASSUME ContentInv, [ContentNext]_fvars
      PROVE  [\A d \in Dirs \cup {Outside}, w \in Writers :
               entry'[d] = w /\ entry[d] # w /\ ~reqs[w].force => entry[d] = "none"]_fvars
  <2> SUFFICES ASSUME NEW d \in Dirs \cup {Outside}, NEW w \in Writers, ContentNext,
                      entry'[d] = w, entry[d] # w, ~reqs[w].force
               PROVE  entry[d] = "none"
    BY <1>1 DEF fvars
  <2>1. ASSUME NEW v \in Writers, Publish(v)
        PROVE  entry[d] = "none"
    <3>1. At(v, "publish") /\ (Rename(v) \/ Link(v))
      BY <2>1 DEF Publish
    <3> QED BY <1>1, <3>1, Published
  <2>2. ASSUME NEW v \in Writers, MkdirAll(v)
        PROVE  entry'[d] \in {entry[d], "dir"}
    <3>1. parent' \in Dirs \cup {Outside, "none", "link"}
      BY <1>1, <2>2 DEF MkdirAll, MkdirParent, ContentInv, ContentTypeOK
    <3> QED BY <1>1, <2>2, <3>1 DEF MkdirAll, ContentInv, ContentTypeOK
  <2>3. ASSUME NEW gone, Removed(gone)
        PROVE  entry'[d] \in {entry[d], "none"}
    BY <1>1, <2>3 DEF Removed, ContentInv, ContentTypeOK
  <2>4. ASSUME NEW c \in Dirs, SandboxChangesFile(c)
        PROVE  entry'[d] \in {entry[d]} \cup Unwritten
    BY <1>1, <2>4 DEF SandboxChangesFile, ContentInv, ContentTypeOK
  <2>5. w \notin Unwritten /\ "dir" \in Unwritten /\ "none" \in Unwritten
    BY ContentAssumption DEF Unwritten
  <2>6. \/ \E v \in Writers : Publish(v) \/ MkdirAll(v)
        \/ \E gone : Removed(gone)
        \/ \E c \in Dirs : SandboxChangesFile(c)
        \/ UNCHANGED entry
    BY DEF ContentNext, WriteStep, OpenParent, LstatTarget, CreateTemp, BodyRead, Cleanup, MkdirBegins,
       SandboxRemovesTemp, WriteBegins, ReadVolumeFile, ReadEnds, SandboxRemovesDir,
       SandboxMovesParent, DeleteVolume, CreateVolume, ProcessEnds
  <2> QED BY <2>1, <2>2, <2>3, <2>4, <2>5, <2>6
<1> QED BY <1>1, ContentCorrect, PTL DEF ContentSpec, NoForceKeeps
===========================================================================
