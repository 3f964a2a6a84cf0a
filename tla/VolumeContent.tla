--------------------------- MODULE VolumeContent ---------------------------
(***************************************************************************)
(* The files of a Docker volume, written through the volume content API    *)
(* while other requests write and read them, the sandboxes that mount the  *)
(* volume rename and remove what they like, and the volume itself is       *)
(* deleted and made again.                                                 *)
(*                                                                         *)
(* All requests are for one path, parent/file.  A directory is an inode:   *)
(* os.Root holds on to it wherever its name goes.                          *)
(***************************************************************************)
EXTENDS Naturals

CONSTANTS
  Writers,    \* the requests that change the volume
  Readers,    \* the requests that download the file
  Dirs,       \* the directories that may come to stand at the parent's name
  Outside,    \* a directory of the host that is no part of the volume
  MaxVolumes  \* bound: how often the volume is made

\* What may be at a name, but for the file of a writer: nothing, a file of a sandbox, a
\* directory, a link.
Unwritten == {"none", "theirs", "dir", "link"}

ASSUME ContentAssumption ==
  /\ Outside \notin Dirs
  /\ Dirs \cap Unwritten = {} /\ Writers \cap Unwritten = {}
  /\ MaxVolumes \in Nat

VARIABLES
  volume,   \* which making of the volume exists, 0 if none does
  made,     \* how often it was made
  inodes,     \* the directories: "unused", "live", "gone"
  parent,   \* what is at the parent's name: a directory, "none", or "link" to Outside
  entry,    \* what is at the file's name in each directory
  content,  \* the inode a writer made: "none", "half", "whole"
  temps,    \* the writers whose temporary file has its name
  reqs,     \* the requests
  reading   \* what a download has opened

fvars == <<volume, made, inodes, parent, entry, content, temps, reqs, reading>>

New == [kind |-> "none", step |-> "new", force |-> FALSE, volume |-> 0, at |-> Outside]

ContentInit ==
  /\ volume = 1
  /\ made = 1
  /\ inodes = [d \in Dirs |-> "unused"]
  /\ parent = "none"
  /\ entry = [d \in Dirs \cup {Outside} |-> IF d = Outside THEN "theirs" ELSE "none"]
  /\ content = [w \in Writers |-> "none"]
  /\ temps = {}
  /\ reqs = [w \in Writers |-> New]
  /\ reading = [r \in Readers |-> "none"]

Live == {d \in Dirs : inodes[d] = "live"}

At(w, step) == reqs[w].step = step

Advance(w, step) == reqs' = [reqs EXCEPT ![w].step = step]

---------------------------------------------------------------------------
(* WriteVolumeFile.                                                        *)

\* localVolume, resolveVolumeContentPath and openVolumeContentRoot.
WriteBegins(w, force) ==
  /\ At(w, "new")
  /\ volume # 0
  /\ reqs' = [reqs EXCEPT ![w] =
       [kind |-> "put", step |-> "parent", force |-> force, volume |-> volume, at |-> Outside]]
  /\ UNCHANGED <<volume, made, inodes, parent, entry, content, temps, reading>>

\* A name that is free gets a new directory.
MkdirParent(d) ==
  /\ parent = "none" /\ inodes[d] = "unused"
  /\ parent' = d
  /\ inodes' = [inodes EXCEPT ![d] = "live"]

\* MkdirAll and OpenRoot of the parent, below the volume's root; a link that leads
\* out of it, or a root that is no more, is refused.
OpenParent(w) ==
  /\ At(w, "parent")
  /\ \/ /\ volume = reqs[w].volume
        /\ \/ parent \in Live /\ UNCHANGED <<inodes, parent>>
           \/ \E d \in Dirs : MkdirParent(d)
        /\ reqs' = [reqs EXCEPT ![w].step = "lstat", ![w].at = parent']
     \/ /\ volume # reqs[w].volume \/ parent = "link"
        /\ Advance(w, "done")
        /\ UNCHANGED <<inodes, parent>>
  /\ UNCHANGED <<volume, made, entry, content, temps, reading>>

\* A directory and a link are refused, and without force whatever is there.
Writable(w) == entry[reqs[w].at] \notin {"dir", "link"} /\ (reqs[w].force \/ entry[reqs[w].at] = "none")

LstatTarget(w) ==
  /\ At(w, "lstat")
  /\ Advance(w, IF Writable(w) THEN "temp" ELSE "done")
  /\ UNCHANGED <<volume, made, inodes, parent, entry, content, temps, reading>>

\* OpenFile with O_EXCL under a name of its own.
CreateTemp(w) ==
  /\ At(w, "temp")
  /\ \/ /\ inodes[reqs[w].at] = "live"
        /\ temps' = temps \cup {w}
        /\ content' = [content EXCEPT ![w] = "half"]
        /\ Advance(w, "body")
     \/ Advance(w, "done") /\ UNCHANGED <<temps, content>>
  /\ UNCHANGED <<volume, made, inodes, parent, entry, reading>>

\* Mutation of BodyRead: the end of the body is not waited for.
PublishedEarly(w) ==
  /\ At(w, "body")
  /\ Advance(w, "publish")
  /\ UNCHANGED <<volume, made, inodes, parent, entry, content, temps, reading>>

\* The body up to its end, the mode, the owner, fsync and close; or the body breaks
\* off, is too large, or one of them fails.
BodyRead(w) ==
  /\ At(w, "body")
  /\ \/ content' = [content EXCEPT ![w] = "whole"] /\ Advance(w, "publish")
     \/ UNCHANGED content /\ Advance(w, "cleanup")
  /\ UNCHANGED <<volume, made, inodes, parent, entry, temps, reading>>

\* The directory that was opened, whatever its name leads to now.
Target(w) == reqs[w].at

\* Mutation of Rename: it serves both cases, after the first look.
RenameAnyway(w) ==
  /\ entry[Target(w)] # "dir"
  /\ entry' = [entry EXCEPT ![Target(w)] = w]
  /\ temps' = temps \ {w}

\* Force: whatever is there is replaced, but for a directory.
Rename(w) ==
  /\ reqs[w].force
  /\ entry[Target(w)] # "dir"
  /\ entry' = [entry EXCEPT ![Target(w)] = w]
  /\ temps' = temps \ {w}

\* No force: a second name for the file, if nobody has it.
Link(w) ==
  /\ ~reqs[w].force
  /\ entry[Target(w)] = "none"
  /\ entry' = [entry EXCEPT ![Target(w)] = w]
  /\ UNCHANGED temps

Publish(w) ==
  /\ At(w, "publish")
  /\ \/ w \in temps /\ inodes[reqs[w].at] = "live" /\ (Rename(w) \/ Link(w))
     \/ UNCHANGED <<entry, temps>>
  /\ Advance(w, "cleanup")
  /\ UNCHANGED <<volume, made, inodes, parent, content, reading>>

\* The deferred Remove, with the stat for the answer before it; its error is ignored.
Cleanup(w) ==
  /\ At(w, "cleanup")
  /\ temps' = temps \ {w} \/ UNCHANGED temps
  /\ Advance(w, "done")
  /\ UNCHANGED <<volume, made, inodes, parent, entry, content, reading>>

---------------------------------------------------------------------------
(* The other operations.                                                   *)

\* CreateVolumeDir of the path looks first ...
MkdirBegins(w) ==
  /\ At(w, "new")
  /\ volume # 0
  /\ parent # "link"
  /\ parent \in Dirs => entry[parent] \in {"none", "dir"}
  /\ reqs' = [reqs EXCEPT ![w] = [New EXCEPT !.kind = "mkdir", !.step = "mkdir", !.volume = volume]]
  /\ UNCHANGED <<volume, made, inodes, parent, entry, content, temps, reading>>

\* ... and then makes what is missing, which may have changed.
MkdirAll(w) ==
  /\ At(w, "mkdir")
  /\ \/ /\ volume = reqs[w].volume
        /\ \/ parent \in Live /\ UNCHANGED <<inodes, parent>>
           \/ \E d \in Dirs : MkdirParent(d)
        /\ entry[parent'] \in {"none", "dir"}
        /\ entry' = [entry EXCEPT ![parent'] = "dir"]
     \/ UNCHANGED <<inodes, parent, entry>>
  /\ Advance(w, "done")
  /\ UNCHANGED <<volume, made, content, temps, reading>>

\* ReadVolumeFile: what is open stays what it is.
ReadVolumeFile(r) ==
  /\ reading[r] = "none"
  /\ parent \in Live
  /\ entry[parent] \in Writers \cup {"theirs"}
  /\ reading' = [reading EXCEPT ![r] = entry[parent]]
  /\ UNCHANGED <<volume, made, inodes, parent, entry, content, temps, reqs>>

ReadEnds(r) ==
  /\ reading[r] # "none"
  /\ reading' = [reading EXCEPT ![r] = "none"]
  /\ UNCHANGED <<volume, made, inodes, parent, entry, content, temps, reqs>>

---------------------------------------------------------------------------
(* The sandboxes that mount the volume, DeleteVolume and CreateVolume, and *)
(* the end of the process.                                                 *)

\* A directory is removed with all that is in it.
Removed(gone) ==
  /\ inodes' = [d \in Dirs |-> IF d \in gone THEN "gone" ELSE inodes[d]]
  /\ entry' = [d \in DOMAIN entry |-> IF d \in gone THEN "none" ELSE entry[d]]
  /\ temps' = {w \in temps : reqs[w].at \notin gone}
  /\ parent' = IF parent \in gone THEN "none" ELSE parent

SandboxMovesParent ==
  /\ volume # 0
  /\ \E to \in {"none", "link"} \cup Dirs :
       /\ to \in Dirs => inodes[to] # "gone"
       /\ parent' = to
       /\ inodes' = [d \in Dirs |-> IF d = to THEN "live" ELSE inodes[d]]
  /\ UNCHANGED <<volume, made, entry, content, temps, reqs, reading>>

SandboxChangesFile(d) ==
  /\ d \in Live
  /\ \E e \in Unwritten : entry' = [entry EXCEPT ![d] = e]
  /\ UNCHANGED <<volume, made, inodes, parent, content, temps, reqs, reading>>

SandboxRemovesTemp(w) ==
  /\ w \in temps
  /\ temps' = temps \ {w}
  /\ UNCHANGED <<volume, made, inodes, parent, entry, content, reqs, reading>>

SandboxRemovesDir(d) ==
  /\ d \in Live
  /\ Removed({d})
  /\ UNCHANGED <<volume, made, content, reqs, reading>>

\* DeleteVolume: os.RemoveAll of the volume's directory.
DeleteVolume ==
  /\ volume # 0
  /\ volume' = 0
  /\ Removed(Live)
  /\ UNCHANGED <<made, content, reqs, reading>>

CreateVolume ==
  /\ volume = 0
  /\ made < MaxVolumes
  /\ volume' = made + 1
  /\ made' = made + 1
  /\ parent' = "none"
  /\ UNCHANGED <<inodes, entry, content, temps, reqs, reading>>

ProcessEnds ==
  /\ reqs' = [w \in Writers |-> IF At(w, "new") THEN reqs[w] ELSE [reqs[w] EXCEPT !.step = "done"]]
  /\ reading' = [r \in Readers |-> "none"]
  /\ UNCHANGED <<volume, made, inodes, parent, entry, content, temps>>

---------------------------------------------------------------------------
(* The specification.                                                      *)

WriteStep(w) ==
  \/ OpenParent(w) \/ LstatTarget(w) \/ CreateTemp(w) \/ BodyRead(w) \/ Publish(w)
  \/ Cleanup(w) \/ MkdirAll(w)

ContentNext ==
  \/ \E w \in Writers :
       WriteStep(w) \/ MkdirBegins(w) \/ SandboxRemovesTemp(w) \/ \E force \in BOOLEAN : WriteBegins(w, force)
  \/ \E r \in Readers : ReadVolumeFile(r) \/ ReadEnds(r)
  \/ \E d \in Dirs : SandboxChangesFile(d) \/ SandboxRemovesDir(d)
  \/ SandboxMovesParent \/ DeleteVolume \/ CreateVolume \/ ProcessEnds

ContentSpec == ContentInit /\ [][ContentNext]_fvars

---------------------------------------------------------------------------
(* Properties.                                                             *)

\* WriteVolumeFile publishes what it has written completely ("a failed upload leaves
\* neither the old file nor the target half-written"), and in the directory it opened
\* ("anchored in the opened parent"), never outside the volume or in a later volume of
\* the same name, wherever the sandbox has moved the names meanwhile.
PublishedWhole ==
  /\ \A d \in DOMAIN entry, w \in Writers : entry[d] = w => content[w] = "whole" /\ d = reqs[w].at
  /\ \A r \in Readers, w \in Writers : reading[r] = w => content[w] = "whole"

\* Without force a write never takes the place of anything, however late that came
\* after the first look ("hard link gives an atomic create-if-absent").
NoForceKeeps ==
  [][\A d \in Dirs \cup {Outside}, w \in Writers :
       entry'[d] = w /\ entry[d] # w /\ ~reqs[w].force => entry[d] = "none"]_fvars
===========================================================================
