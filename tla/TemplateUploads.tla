-------------------------- MODULE TemplateUploads --------------------------
(***************************************************************************)
(* Uploads of the files that the COPY steps of a template build name: the  *)
(* one-time tokens and the files of the GatewayManagementStore, the PUT    *)
(* requests that use a token, and the builds that hold a stored file.      *)
(*                                                                         *)
(* A PUT checks its token, gives the store's mutex back while it writes    *)
(* the body into a temporary file and validates it, and takes the mutex    *)
(* again to check the token once more and keep the file.  What is kept is  *)
(* the temporary file itself.                                              *)
(***************************************************************************)
EXTENDS Integers

CONSTANTS
  Puts,       \* the PUT requests; a temporary file is known by the one that wrote it
  NoPut,      \* no path
  Tokens,     \* what newManagementSecret hands out
  FileKeys,   \* templateFileKey: a template and a hash
  Contents,   \* what a body may be
  Malformed,  \* the bodies that are no acceptable gzip tar archive
  Expected,   \* Expected[k]: the contents the hash of k stands for (all, if it is no sha256)
  Builders,   \* build starts that look a file up
  TokenLife,  \* the 15 minutes a token is valid
  MaxTime     \* bound on the clock

ASSUME UploadsAssumption ==
  /\ NoPut \notin Puts
  /\ Malformed \subseteq Contents
  /\ Expected \in [FileKeys -> SUBSET Contents]
  /\ TokenLife \in Nat
  /\ MaxTime \in Nat

VARIABLES
  clock,    \* time.Now()
  uploads,  \* GatewayManagementStore.templateUploads, by token
  files,    \* GatewayManagementStore.templateFiles: the path of the key's file
  disk,     \* temporary files: their content
  put,      \* the PUT requests
  held      \* the file each build start was given, by path and key

uploadsVars == <<clock, uploads, files, disk, put, held>>

\* A token is unknown (before it is made), valid for a key until expiresAt, or gone.
Upload == [known: {"no", "yes", "gone"}, keys: SUBSET FileKeys, expiresAt: 0 .. MaxTime + TokenLife]

New == [phase |-> "new", tokens |-> {}, keys |-> {}]

UploadsInit ==
  /\ clock = 0
  /\ uploads = [t \in Tokens |-> [known |-> "no", keys |-> {}, expiresAt |-> 0]]
  /\ files = [k \in FileKeys |-> NoPut]
  /\ disk = [p \in Puts |-> {}]
  /\ put = [p \in Puts |-> New]
  /\ held = [b \in Builders |-> [path |-> NoPut, keys |-> {}]]

Tick ==
  /\ clock < MaxTime
  /\ clock' = clock + 1
  /\ UNCHANGED <<uploads, files, disk, put, held>>

---------------------------------------------------------------------------
(* Tokens.                                                                 *)

ExpiresAt == clock + TokenLife

\* defaultGetTemplateFileUpload: every call makes a token of its own.
CreateTemplateFileUpload(t, k) ==
  /\ uploads[t].known = "no"
  /\ uploads' = [uploads EXCEPT ![t] = [known |-> "yes", keys |-> {k}, expiresAt |-> ExpiresAt]]
  /\ UNCHANGED <<clock, files, disk, put, held>>

Expired(t) == clock > uploads[t].expiresAt

\* The check of both critical sections.
Valid(t, ks) == uploads[t].known = "yes" /\ ~Expired(t) /\ uploads[t].keys = ks

Gone(t) == [uploads EXCEPT ![t].known = "gone"]

\* A refused PUT deletes its token if it is the expiry that refuses it.
Swept(t) == IF uploads[t].known = "yes" /\ Expired(t) THEN Gone(t) ELSE uploads

---------------------------------------------------------------------------
(* StoreTemplateFileUploadReader.                                          *)

\* The first critical section.
PutBegins(p, t, k) ==
  /\ put[p].phase = "new"
  /\ IF Valid(t, {k})
     THEN /\ put' = [put EXCEPT ![p] = [phase |-> "reading", tokens |-> {t}, keys |-> {k}]]
          /\ UNCHANGED uploads
     ELSE /\ put' = [put EXCEPT ![p].phase = "refused"]
          /\ uploads' = Swept(t)
  /\ UNCHANGED <<clock, files, disk, held>>

\* writeTemplateUploadTemp; on an error or an empty or too large body it has
\* removed its file.
BodyRead(p) ==
  /\ put[p].phase = "reading"
  /\ \/ \E c \in Contents :
          /\ disk' = [disk EXCEPT ![p] = {c}]
          /\ put' = [put EXCEPT ![p].phase = "validating"]
     \/ /\ put' = [put EXCEPT ![p].phase = "refused"]
        /\ UNCHANGED disk
  /\ UNCHANGED <<clock, uploads, files, held>>

\* validateTemplateUploadHash: a hash that is a sha256 is the content's.
HashMatches(p) == \A k \in put[p].keys : disk[p] \subseteq Expected[k]

\* ValidateTemplateBuildFileArchive: names, links, number and size of the entries.
ArchiveAccepted(p) == disk[p] \cap Malformed = {}

\* Mutation of Removed: the deferred removal is forgotten.
NotRemoved(p) == disk

\* The deferred os.Remove of a temporary file that is not kept.
Removed(p) == [disk EXCEPT ![p] = {}]

Validate(p) ==
  /\ put[p].phase = "validating"
  /\ IF HashMatches(p) /\ ArchiveAccepted(p)
     THEN /\ put' = [put EXCEPT ![p].phase = "committing"]
          /\ UNCHANGED disk
     ELSE /\ put' = [put EXCEPT ![p].phase = "refused"]
          /\ disk' = Removed(p)
  /\ UNCHANGED <<clock, uploads, files, held>>

\* The second critical section: the token may have expired or been used meanwhile.
RefusedLate(p, t) ==
  /\ put[p].phase = "committing" /\ put[p].tokens = {t}
  /\ ~Valid(t, put[p].keys)
  /\ uploads' = Swept(t)
  /\ disk' = Removed(p)
  /\ put' = [put EXCEPT ![p].phase = "refused"]
  /\ UNCHANGED <<clock, files, held>>

\* Mutation of StillValid: the second check is left out.
ValidBefore(t, ks) == TRUE

StillValid(t, ks) == Valid(t, ks)

\* Mutation of SameContent: a different file of the same hash is accepted as well.
AnyContent(p, k) == TRUE

\* The file that is there has the digest of the new one.
SameContent(p, k) == disk[files[k]] = disk[p]

\* Mutation of Duplicate: the new file takes the old one's place, which is removed.
DuplicateReplaces(p, t, k) ==
  /\ files[k] # NoPut /\ SameContent(p, k)
  /\ uploads' = Gone(t)
  /\ put' = [put EXCEPT ![p].phase = "accepted"]
  /\ files' = [files EXCEPT ![k] = p]
  /\ disk' = Removed(files[k])

\* The key has this content already: the token is used up, the old file stays.
Duplicate(p, t, k) ==
  /\ files[k] # NoPut /\ SameContent(p, k)
  /\ uploads' = Gone(t)
  /\ put' = [put EXCEPT ![p].phase = "accepted"]
  /\ disk' = Removed(p)
  /\ UNCHANGED files

\* The key has another content: 409, and the token may be used again.
Conflict(p, k) ==
  /\ files[k] # NoPut /\ ~SameContent(p, k)
  /\ put' = [put EXCEPT ![p].phase = "refused"]
  /\ disk' = Removed(p)
  /\ UNCHANGED <<uploads, files>>

\* The temporary file is kept.
Store(p, t, k) ==
  /\ files[k] = NoPut
  /\ files' = [files EXCEPT ![k] = p]
  /\ uploads' = Gone(t)
  /\ put' = [put EXCEPT ![p].phase = "accepted"]
  /\ UNCHANGED disk

Commit(p, t, k) ==
  /\ put[p].phase = "committing" /\ put[p].tokens = {t} /\ put[p].keys = {k}
  /\ StillValid(t, {k})
  /\ Duplicate(p, t, k) \/ Conflict(p, k) \/ Store(p, t, k)
  /\ UNCHANGED <<clock, held>>

---------------------------------------------------------------------------

\* templateBuildFiles: the build start takes the path, and the goroutine of the
\* build opens it much later.
TemplateFile(b, k) ==
  /\ held[b].path = NoPut
  /\ files[k] # NoPut
  /\ held' = [held EXCEPT ![b] = [path |-> files[k], keys |-> {k}]]
  /\ UNCHANGED <<clock, uploads, files, disk, put>>

UploadsNext ==
  \/ Tick
  \/ \E t \in Tokens, k \in FileKeys : CreateTemplateFileUpload(t, k)
  \/ \E p \in Puts, t \in Tokens, k \in FileKeys : PutBegins(p, t, k) \/ Commit(p, t, k)
  \/ \E p \in Puts : BodyRead(p) \/ Validate(p)
  \/ \E p \in Puts, t \in Tokens : RefusedLate(p, t)
  \/ \E b \in Builders, k \in FileKeys : TemplateFile(b, k)

UploadsSpec == UploadsInit /\ [][UploadsNext]_uploadsVars

---------------------------------------------------------------------------
(* Properties.                                                             *)

\* A token is good for one accepted upload, although any number of PUTs may pass
\* the first check of StoreTemplateFileUploadReader with it at once.
TokenUsedOnce ==
  \A p, q \in Puts :
    put[p].phase = "accepted" /\ put[q].phase = "accepted" /\ put[p].tokens = put[q].tokens => p = q

\* A build that was given a file reads a whole, valid file of the hash it named,
\* whatever uploads of the same hash, accepted or refused, come before it opens it.
HeldFileReadable ==
  \A b \in Builders : held[b].path # NoPut =>
    /\ disk[held[b].path] # {}
    /\ \A k \in held[b].keys : disk[held[b].path] \subseteq Expected[k] \ Malformed

\* Every temporary file is a stored one or that of a PUT under way: none of the ways
\* out of StoreTemplateFileUploadReader leaves its file behind.
NoStrayFile ==
  \A p \in Puts : disk[p] # {} =>
    put[p].phase \in {"validating", "committing"} \/ \E k \in FileKeys : files[k] = p

\* Two uploads of one hash that are both answered 200 had the same content: the
\* uploader of the second is not told that a file is there which is not its own.
\* (Conflict answers 409; a hash that is no sha256 does not tell them apart.)
AcceptedIsStored ==
  [][\A p \in Puts, k \in FileKeys :
       put'[p].phase = "accepted" /\ put[p].phase = "committing" /\ put[p].keys = {k}
         => files'[k] # NoPut /\ disk'[files'[k]] = disk[p]]_uploadsVars
===========================================================================
