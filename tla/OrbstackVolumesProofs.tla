----------------------- MODULE OrbstackVolumesProofs -----------------------
(***************************************************************************)
(* Theorems about OrbstackVolumes, for any number of calls and volumes.    *)
(* The invariant speaks of each volume by itself.  As long as a volume is  *)
(* neither deleted nor harmed, every call that means it finds it at its    *)
(* path, or nothing; so a call that finds another volume there means one   *)
(* that was lost, and what it does is counted as harm.                     *)
(***************************************************************************)
EXTENDS OrbstackVolumes, FiniteSetTheorems, TLAPS

---------------------------------------------------------------------------
(* The invariant.                                                          *)

Lookups == {"get", "mount", "delete"}

Creating == {"mkdir", "chmod", "write"}

\* The steps that concern a directory until it is resolved, ...
Reading == {"read", "older", "rewrite", "choose", "lstat", "rename"}

\* ... and those that go by what was read of it.
Working == {"rewrite", "choose", "lstat", "rename", "use"}

Steps == {"none", "readdir", "next", "use"} \cup Creating \cup Reading

Dir == [meta: {"absent", "none", "older", "current"}, id: Ids \cup {"none"},
        name: Names \cup {"none"}, data: Ids \cup {"none"}]

Call == [kind: {"idle", "create", "list"} \cup Lookups, step: Steps, key: Names \cup Ids \cup {"none"},
         sure: BOOLEAN, first: BOOLEAN, left: SUBSET DirNames, dir: DirNames \cup {<<"none", 1>>},
         vol: [id: Ids \cup {"none"}, name: Names \cup {"none"}], index: 1 .. MaxIndex]

VolumesTypeOK ==
  /\ dirs \in [DirNames -> Dir]
  /\ calls \in [Procs -> Call]
  /\ begun \in Nat
  /\ wanted \subseteq Ids /\ deleted \subseteq Ids /\ harmed \subseteq Ids
  /\ mounts \subseteq DirNames \X Ids

\* A directory holds the data of a volume, and that of its id if it is named by one;
\* metadata that can be read is complete.
Solid(d) ==
  \/ dirs[d] = NoDir
  \/ /\ dirs[d].data \in Ids /\ dirs[d].meta # "absent"
     /\ IF dirs[d].meta = "none" THEN dirs[d].id = "none"
        ELSE dirs[d].id \in Ids /\ dirs[d].name \in Names
     /\ d[1] \notin Names => dirs[d].data = d[1]

\* The call is where the code can be.
Placed(p) ==
  /\ calls[p].kind = "idle" => calls[p] = Idle
  /\ calls[p].kind = "create" <=> calls[p].step \in Creating
  /\ calls[p].step = "none" => calls[p].kind = "idle"
  /\ calls[p].kind = "create" =>
       calls[p].key \in Names /\ calls[p].dir \in DirNames /\ calls[p].dir[1] = calls[p].key
  /\ calls[p].step \in Reading \cup {"use"} => calls[p].dir \in DirNames
  /\ calls[p].step \in {"chmod", "write"} \cup Working =>
       calls[p].vol.id \in Ids /\ calls[p].vol.name \in Names
  /\ calls[p].step = "use" => calls[p].kind \in {"mount", "delete"} /\ ~calls[p].sure
  /\ calls[p].first =>
       /\ calls[p].kind \in Lookups /\ calls[p].step \in Reading
       /\ calls[p].key \in Names \cup Ids /\ calls[p].dir = <<calls[p].key, 1>>
  /\ calls[p].step \in {"choose", "lstat", "rename"} => calls[p].dir = <<calls[p].vol.id, 1>>
  /\ calls[p].step \in {"lstat", "rename"} => Target(p) # calls[p].dir
  /\ calls[p].sure => calls[p].key \in wanted /\ calls[p].kind # "list"

\* No two creates make the same volume.
CreatorsApart ==
  \A p, q \in Procs :
    /\ calls[p].step \in {"chmod", "write"} /\ calls[q].step \in {"chmod", "write"}
    /\ calls[p].vol.id = calls[q].vol.id
    => p = q

\* The volume has one directory for its data, which alone has its identity, and which it
\* has for good once its create was answered.
Whole(id) ==
  /\ \A d, e \in DirNames : dirs[d].data = id /\ dirs[e].data = id => d = e
  /\ \A d \in DirNames : dirs[d].id = id => dirs[d].data = id /\ id \in wanted
  /\ id \in wanted => \E d \in DirNames : dirs[d].id = id

\* The call finds the volume it means at its path: a create its fresh directory, and
\* another call the one it has read, unless that one was named by the id and has been
\* migrated by somebody else.
Finds(p) ==
  /\ calls[p].step \in {"chmod", "write"} =>
       dirs[calls[p].dir] = Bare(calls[p].vol.id) /\ calls[p].vol.id \notin wanted
  /\ calls[p].step \in Working =>
       /\ calls[p].vol.id \in wanted
       /\ \/ dirs[calls[p].dir].data = calls[p].vol.id
          \/ dirs[calls[p].dir] = NoDir /\ calls[p].dir = <<calls[p].vol.id, 1>>
  /\ calls[p].step = "use" =>
       dirs[calls[p].dir].data = calls[p].vol.id /\ calls[p].dir # <<calls[p].vol.id, 1>>

\* A lookup of an id that must succeed has its volume's directory still before it.
Search(p) ==
  /\ calls[p].step \in {"readdir", "next"} \/ (~calls[p].first /\ calls[p].step \in Reading) =>
       dirs[<<calls[p].key, 1>>] = NoDir
  /\ \A d \in DirNames : dirs[d].id = calls[p].key =>
       /\ calls[p].step = "next" => d \in calls[p].left
       /\ ~calls[p].first /\ calls[p].step \in Reading =>
            d \in calls[p].left \/ (calls[p].step \in {"read", "older", "rewrite"} /\ d = calls[p].dir)
  /\ calls[p].first /\ calls[p].step \in Working => calls[p].vol.id = calls[p].key

\* What a call has to do with a volume.
Heeds(p, id) ==
  /\ calls[p].vol.id = id => Finds(p)
  /\ calls[p].sure /\ calls[p].key = id => Search(p)

\* What is mounted is the directory of the volume, and not one that will be migrated.
Mounted(id) ==
  \A m \in mounts : m[2] = id =>
    id \in wanted /\ dirs[m[1]].data = id /\ m[1] # <<id, 1>>

VolumesInv ==
  /\ VolumesTypeOK
  /\ \A d \in DirNames : Solid(d)
  /\ \A p \in Procs : Placed(p)
  /\ CreatorsApart
  /\ \A id \in Ids : Unharmed(id) => Whole(id) /\ Mounted(id) /\ \A p \in Procs : Heeds(p, id)
  /\ FoundById

---------------------------------------------------------------------------
(* Lemmas about directories and calls.                                     *)

\* "none" stands for no volume.
LEMMA NoneApart == "none" \notin Names /\ "none" \notin Ids
BY VolumesAssumption DEF Ids

\* The first directory of every name and id.
LEMMA FirstDir ==
  ASSUME NEW k \in Names \cup Ids
  PROVE  <<k, 1>> \in DirNames
<1>1. 1 \in 1 .. MaxIndex
  BY VolumesAssumption
<1> QED BY <1>1 DEF DirNames

\* A directory that is not there holds nothing; one that is holds something.
LEMMA Absent ==
  ASSUME VolumesInv, NEW d \in DirNames
  PROVE  /\ dirs[d] \in Dir
         /\ dirs[d].data = "none" <=> dirs[d] = NoDir
         /\ dirs[d].meta = "absent" <=> dirs[d] = NoDir
         /\ dirs[d].meta \in {"absent", "none"} => dirs[d].id = "none"
         /\ dirs[d].meta \in {"older", "current"} => dirs[d].id \in Ids /\ dirs[d].name \in Names
         /\ dirs[d] # NoDir /\ d[1] \notin Names => dirs[d].data = d[1]
<1>1. Solid(d) /\ dirs[d] \in Dir
  BY DEF VolumesInv, VolumesTypeOK
<1>2. dirs[d].meta \in {"absent", "none", "older", "current"}
  BY <1>1 DEF Dir
<1> QED BY <1>1, <1>2, NoneApart DEF Solid, NoDir

\* The directory of a volume that is unharmed and has been answered.
LEMMA WholeDir ==
  ASSUME VolumesInv, NEW id \in wanted, Unharmed(id), NEW d \in DirNames, dirs[d].data = id
  PROVE  dirs[d].id = id
<1>1. id \in Ids /\ Whole(id)
  BY DEF VolumesInv, VolumesTypeOK
<1>2. PICK e \in DirNames : dirs[e].id = id
  BY <1>1 DEF Whole
<1> QED BY <1>1, <1>2 DEF Whole

\* A directory that has the identity of a volume that is unharmed is its own.
LEMMA OwnId ==
  ASSUME VolumesInv, NEW id \in Ids, Unharmed(id), NEW d \in DirNames, dirs[d].id = id
  PROVE  dirs[d].data = id /\ id \in wanted
BY DEF VolumesInv, Whole

\* A call that ends heeds every volume.
LEMMA IdleFits ==
  ASSUME NEW p \in Procs, calls'[p] = Idle
  PROVE  Placed(p)' /\ \A id \in Ids : Heeds(p, id)'
<1>1. /\ Idle.step = "none" /\ Idle.kind = "idle" /\ ~Idle.first /\ ~Idle.sure
  BY DEF Idle
<1>2. Placed(p)'
  BY <1>1 DEF Placed, Creating, Reading, Working
<1>3. Finds(p)'
  BY <1>1 DEF Finds, Working
<1> QED BY <1>1, <1>2, <1>3 DEF Heeds

\* Set and Done change one call.
LEMMA SetOne ==
  ASSUME VolumesInv, NEW p \in Procs
  PROVE  /\ \A c : Set(p, c) => calls'[p] = c /\ \A q \in Procs \ {p} : calls'[q] = calls[q]
         /\ \A c \in Call : Set(p, c) => calls' \in [Procs -> Call]
         /\ Done(p) => calls' \in [Procs -> Call] /\ calls'[p] = Idle /\ \A q \in Procs \ {p} : calls'[q] = calls[q]
         /\ Idle \in Call
<1>1. Idle \in Call
  BY VolumesAssumption DEF Idle, Call, Steps, Nothing
<1>2. calls \in [Procs -> Call]
  BY DEF VolumesInv, VolumesTypeOK
<1> QED BY <1>1, <1>2 DEF Set, Done

\* What the step of a call does not do to a volume leaves it whole, and found by the
\* other calls.
LEMMA Spared ==
  ASSUME VolumesInv, NEW p \in Procs, NEW id \in Ids, Unharmed(id),
         \A q \in Procs \ {p} : calls'[q] = calls[q],
         \A d \in DirNames : Solid(d)',
         \A d \in DirNames :
           /\ dirs'[d].data = id <=> dirs[d].data = id
           /\ dirs'[d].id = id <=> dirs[d].id = id
           /\ dirs[d] = Bare(id) => dirs'[d] = dirs[d],
         id \in wanted' <=> id \in wanted, UNCHANGED mounts
  PROVE  Whole(id)' /\ Mounted(id)' /\ \A q \in Procs \ {p} : Heeds(q, id)'
<1>1. Whole(id) /\ Mounted(id) /\ id \notin Names
  BY DEF VolumesInv, Unharmed
<1>2. Whole(id)'
  BY <1>1 DEF Whole
<1>3. Mounted(id)'
  BY <1>1 DEF Mounted, VolumesInv, VolumesTypeOK
<1>4. <<id, 1>> \in DirNames /\ (dirs[<<id, 1>>] = NoDir => dirs'[<<id, 1>>] = NoDir)
  <2>1. <<id, 1>> \in DirNames
    BY FirstDir
  <2>2. dirs[<<id, 1>>] = NoDir => dirs'[<<id, 1>>].data # id
    BY <2>1, NoneApart DEF NoDir
  <2>3. Solid(<<id, 1>>)'
    BY <2>1
  <2> QED BY <1>1, <2>1, <2>2, <2>3 DEF Solid
<1>5. ASSUME NEW q \in Procs \ {p}
      PROVE  Heeds(q, id)'
  <2>1. Heeds(q, id) /\ Placed(q) /\ calls'[q] = calls[q]
    BY DEF VolumesInv
  <2>2. ASSUME calls[q].vol.id = id
        PROVE  Finds(q)'
    <3>1. Finds(q)
      BY <2>1, <2>2 DEF Heeds
    <3>2. calls[q].step \in {"chmod", "write"} => calls[q].dir \in DirNames
      BY <2>1 DEF Placed, Creating
    <3>3. calls[q].step \in Working => calls[q].dir \in DirNames
      BY <2>1 DEF Placed, Working, Reading
    <3> QED BY <1>4, <2>1, <2>2, <3>1, <3>2, <3>3 DEF Finds, Working
  <2>3. ASSUME calls[q].sure, calls[q].key = id
        PROVE  Search(q)'
    <3>1. Search(q)
      BY <2>1, <2>3 DEF Heeds
    <3> QED BY <1>4, <2>1, <2>3, <3>1 DEF Search
  <2> QED BY <2>1, <2>2, <2>3 DEF Heeds
<1> QED BY <1>2, <1>3, <1>5

\* The parts of the invariant after a step of one call.
LEMMA StepKeeps ==
  ASSUME VolumesInv, NEW p \in Procs, VolumesTypeOK', \A d \in DirNames : Solid(d)',
         \A q \in Procs \ {p} : calls'[q] = calls[q], Placed(p)', CreatorsApart',
         wanted \subseteq wanted', deleted \subseteq deleted', harmed \subseteq harmed',
         \A id \in Ids : Unharmed(id)' =>
           Whole(id)' /\ Mounted(id)' /\ Heeds(p, id)' /\ \A q \in Procs \ {p} : Heeds(q, id)',
         FoundById'
  PROVE  VolumesInv'
<1>1. ASSUME NEW q \in Procs \ {p}
      PROVE  Placed(q)'
  <2>1. Placed(q) /\ calls'[q] = calls[q]
    BY DEF VolumesInv
  <2> QED BY <2>1 DEF Placed, Target
<1>2. \A q \in Procs : Placed(q)'
  BY <1>1
<1>3. \A id \in Ids : Unharmed(id)' => Whole(id)' /\ Mounted(id)' /\ \A q \in Procs : Heeds(q, id)'
  OBVIOUS
<1> QED BY <1>2, <1>3 DEF VolumesInv

\* FoundById stays, as nothing that is harmed heals.
LEMMA StillFound ==
  ASSUME VolumesInv, deleted \subseteq deleted', harmed \subseteq harmed', UNCHANGED denied
  PROVE  FoundById'
BY DEF VolumesInv, FoundById, Unharmed

\* One call goes on or ends, and makes no directory.
Moved(p) ==
  /\ calls' \in [Procs -> Call]
  /\ \A q \in Procs \ {p} : calls'[q] = calls[q]
  /\ calls'[p].step \in {"chmod", "write"} =>
       calls[p].step \in {"chmod", "write"} /\ calls'[p].vol = calls[p].vol

\* The call is where the code can be, and heeds every volume.
Fits(p) == Placed(p)' /\ \A id \in Ids : Unharmed(id)' => Heeds(p, id)'

LEMMA StillApart ==
  ASSUME VolumesInv, NEW p \in Procs, Moved(p)
  PROVE  CreatorsApart'
<1>1. CreatorsApart
  BY DEF VolumesInv
<1>2. \A q \in Procs : calls'[q].step \in {"chmod", "write"} =>
        calls[q].step \in {"chmod", "write"} /\ calls'[q].vol = calls[q].vol
  BY DEF Moved
<1> QED BY <1>1, <1>2 DEF CreatorsApart

\* A step that touches no directory.
LEMMA LooksOnly ==
  ASSUME VolumesInv, NEW p \in Procs, Moved(p), Fits(p), begun' \in Nat, FoundById',
         UNCHANGED <<dirs, wanted, deleted, harmed, mounts>>
  PROVE  VolumesInv'
<1>1. VolumesTypeOK'
  BY DEF Moved, VolumesInv, VolumesTypeOK
<1>2. \A d \in DirNames : Solid(d)'
  BY DEF VolumesInv, Solid
<1>3. ASSUME NEW id \in Ids, Unharmed(id)'
      PROVE  Whole(id)' /\ Mounted(id)' /\ \A q \in Procs \ {p} : Heeds(q, id)'
  <2>1. Unharmed(id) /\ \A q \in Procs \ {p} : calls'[q] = calls[q]
    BY <1>3 DEF Unharmed, Moved
  <2> QED BY <1>2, <2>1, Spared
<1>4. CreatorsApart' /\ \A q \in Procs \ {p} : calls'[q] = calls[q]
  BY StillApart DEF Moved
<1> QED BY <1>1, <1>2, <1>3, <1>4, StepKeeps DEF Fits

\* A call that ends.
LEMMA Ends ==
  ASSUME VolumesInv, NEW p \in Procs, Done(p)
  PROVE  Moved(p) /\ Fits(p) /\ calls'[p] = Idle
<1>1. /\ calls' \in [Procs -> Call] /\ calls'[p] = Idle /\ \A q \in Procs \ {p} : calls'[q] = calls[q]
  BY SetOne
<1>2. Idle.step = "none"
  BY DEF Idle
<1> QED BY <1>1, <1>2, IdleFits DEF Moved, Fits

\* A call that goes by the path of a volume that is lost is the only one that meets
\* another there.
LEMMA Missed ==
  ASSUME VolumesInv, NEW p \in Procs, calls[p].step \in {"chmod", "write"} \cup Working,
         NEW id \in Ids, Unharmed(id), id \notin Astray(p), id # calls[p].vol.id
  PROVE  dirs[calls[p].dir].data # id
<1> DEFINE u == calls[p].vol.id
<1>1. u \in Ids /\ id # "none"
  BY NoneApart DEF VolumesInv, Placed
<1>2. CASE u \in deleted \cup harmed \cup Names
  BY <1>1, <1>2 DEF Astray
<1>3. CASE u \notin deleted \cup harmed \cup Names
  <2>1. Finds(p)
    BY <1>1, <1>3 DEF VolumesInv, Unharmed, Heeds
  <2> QED BY <1>1, <2>1 DEF Finds, Bare, NoDir
<1> QED BY <1>2, <1>3

---------------------------------------------------------------------------
(* Calls begin.                                                            *)

\* A call that has just begun is a call.
LEMMA BegunIsCall ==
  ASSUME NEW kind \in {"create", "list"} \cup Lookups, NEW key \in Names \cup Ids \cup {"none"},
         NEW step \in {"mkdir", "readdir", "read"}, NEW first \in BOOLEAN, NEW sure \in BOOLEAN,
         NEW d \in DirNames \cup {<<"none", 1>>}
  PROVE  [Idle EXCEPT !.kind = kind, !.key = key, !.step = step, !.first = first,
                      !.dir = d, !.sure = sure] \in Call
<1>1. kind \in {"idle", "create", "list"} \cup Lookups /\ step \in Steps
  BY DEF Steps, Creating, Reading
<1>2. Idle \in Call
  BY VolumesAssumption DEF Idle, Call, Steps, Nothing
<1> QED BY <1>1, <1>2 DEF Call

\* A call that begins has touched nothing.
LEMMA BeginKeeps ==
  ASSUME VolumesInv, NEW p \in Procs,
         NEW kind \in {"create", "list"} \cup Lookups, NEW key \in Names \cup Ids \cup {"none"},
         NEW step \in {"mkdir", "readdir", "read"}, Begin(p, kind, key, step),
         kind = "create" <=> step = "mkdir", kind = "list" => step = "readdir" /\ key = "none",
         kind = "create" => key \in Names, kind \in Lookups => key \in Names \cup Ids,
         kind \in Lookups /\ step = "readdir" => dirs[<<key, 1>>] = NoDir,
         UNCHANGED <<dirs, wanted, deleted, harmed, denied, mounts>>
  PROVE  VolumesInv'
<1> DEFINE c == [Idle EXCEPT !.kind = kind, !.key = key, !.step = step, !.first = (step = "read"),
                             !.dir = IF step = "readdir" THEN @ ELSE <<key, 1>>,
                             !.sure = key \in wanted \ deleted]
<1>1. /\ c.kind = kind /\ c.key = key /\ c.step = step /\ c.vol = Nothing
      /\ c.first <=> step = "read"
      /\ step # "readdir" => c.dir = <<key, 1>>
      /\ c.sure <=> key \in wanted \ deleted
  BY DEF Idle
<1>2. key # "none" => <<key, 1>> \in DirNames
  BY FirstDir
<1>3. c \in Call
  <2> DEFINE d == IF step = "readdir" THEN Idle.dir ELSE <<key, 1>>
  <2>1. d \in DirNames \cup {<<"none", 1>>}
    BY <1>2 DEF Idle
  <2>2. (key \in wanted \ deleted) \in BOOLEAN /\ (step = "read") \in BOOLEAN
    OBVIOUS
  <2>3. [Idle EXCEPT !.kind = kind, !.key = key, !.step = step, !.first = (step = "read"),
                     !.dir = d, !.sure = key \in wanted \ deleted] \in Call
    <3> HIDE DEF d
    <3> QED BY <2>1, <2>2, BegunIsCall, Zenon
  <2> QED BY <2>3
<1> HIDE DEF c
<1>4. Set(p, c) /\ begun' = begun + 1 /\ begun' \in Nat
  BY DEF Begin, c, VolumesInv, VolumesTypeOK
<1>5. calls' \in [Procs -> Call] /\ calls'[p] = c /\ \A q \in Procs \ {p} : calls'[q] = calls[q]
  BY <1>3, <1>4, SetOne
<1>6. step # "mkdir" => kind \in {"list"} \cup Lookups
  OBVIOUS
<1>7. key \in wanted => kind # "list"
  BY NoneApart DEF VolumesInv, VolumesTypeOK
<1>8. Placed(p)'
  <2>1. kind = "create" => <<key, 1>> \in DirNames /\ <<key, 1>>[1] = key
    BY FirstDir
  <2>2. step = "read" => kind \in Lookups /\ key \in Names \cup Ids /\ <<key, 1>> \in DirNames
    BY <1>2, <1>6, NoneApart
  <2>3. kind # "idle" /\ (step \in Creating <=> step = "mkdir") /\ (step \in Reading <=> step = "read")
    BY DEF Lookups, Creating, Reading
  <2> QED BY <1>1, <1>5, <1>7, <2>1, <2>2, <2>3 DEF Placed, Working
<1>9. ASSUME NEW id \in Ids
      PROVE  Heeds(p, id)'
  <2>1. Finds(p)'
    BY <1>1, <1>5 DEF Finds, Working
  <2>2. ASSUME key \in wanted \ deleted
        PROVE  Search(p)'
    <3>1. kind \in Lookups \/ step = "mkdir"
      BY <1>7, <2>2
    <3> QED BY <1>1, <1>5, <3>1 DEF Search, Reading, Working
  <2> QED BY <1>1, <1>5, <2>1, <2>2 DEF Heeds
<1>10. Moved(p) /\ FoundById'
  BY <1>1, <1>5, StillFound DEF Moved
<1> QED BY <1>4, <1>8, <1>9, <1>10, LooksOnly DEF Fits

---------------------------------------------------------------------------
(* Lookups go on.                                                          *)

\* A lookup of an id that must succeed has an id for its key.
LEMMA SureKey ==
  ASSUME VolumesInv, NEW p \in Procs, calls[p].sure
  PROVE  /\ calls[p].key \in wanted /\ calls[p].key \in Ids /\ <<calls[p].key, 1>> \in DirNames
         /\ calls[p].kind # "list"
         /\ Unharmed(calls[p].key) => Search(p)
<1>1. Placed(p) /\ wanted \subseteq Ids
  BY DEF VolumesInv, VolumesTypeOK
<1>2. calls[p].key \in Ids
  BY <1>1 DEF Placed
<1> QED BY <1>1, <1>2, FirstDir DEF Placed, VolumesInv, Heeds

\* What is at the path named by the key of such a lookup is its volume.
LEMMA FirstIsIt ==
  ASSUME VolumesInv, NEW p \in Procs, calls[p].sure, calls[p].first, Unharmed(calls[p].key)
  PROVE  /\ calls[p].dir = <<calls[p].key, 1>> /\ calls[p].dir \in DirNames
         /\ \/ dirs[calls[p].dir] = NoDir
            \/ dirs[calls[p].dir].id = calls[p].key /\ dirs[calls[p].dir].data = calls[p].key
<1> DEFINE d == calls[p].dir
<1>1. calls[p].key \in wanted /\ <<calls[p].key, 1>> \in DirNames /\ calls[p].key \notin Names
  BY SureKey DEF Unharmed
<1>2. d = <<calls[p].key, 1>>
  BY DEF VolumesInv, Placed
<1>3. CASE dirs[d] # NoDir
  <2>1. dirs[d].data = calls[p].key
    BY <1>1, <1>2, <1>3, Absent
  <2> QED BY <1>1, <1>2, <2>1, WholeDir
<1> QED BY <1>1, <1>2, <1>3

\* An entry that is passed over is not that of a volume that must be found.
LEMMA LooksFurtherFits ==
  ASSUME VolumesInv, NEW p \in Procs, calls[p].step \in Reading,
         NEW sure \in BOOLEAN, NEW step \in {"readdir", "next"}, LooksFurther(p, step, sure),
         sure => calls[p].sure, wanted \subseteq wanted',
         \A id \in Ids : sure /\ calls[p].key = id /\ Unharmed(id)' =>
           /\ dirs'[<<id, 1>>] = NoDir
           /\ step = "next" => \A d \in DirNames : dirs'[d].id = id => d \in calls[p].left
  PROVE  Moved(p) /\ Fits(p)
<1> DEFINE c == [Idle EXCEPT !.kind = calls[p].kind, !.key = calls[p].key, !.step = step,
                             !.sure = sure, !.left = calls[p].left]
<1>1. /\ calls[p] \in Call /\ Placed(p) /\ Idle \in Call
      /\ calls[p].kind \notin {"idle", "create"}
  <2>1. calls[p] \in Call /\ Placed(p) /\ Idle \in Call
    BY SetOne DEF VolumesInv, VolumesTypeOK
  <2> QED BY <2>1 DEF Placed, Idle, Reading, Creating
<1>2. c \in Call
  BY <1>1 DEF Call, Steps
<1>3. /\ c.kind = calls[p].kind /\ c.key = calls[p].key /\ c.step = step
      /\ c.sure = sure /\ c.left = calls[p].left /\ ~c.first
  BY DEF Idle
<1>4. /\ calls' \in [Procs -> Call] /\ calls'[p] = c /\ \A q \in Procs \ {p} : calls'[q] = calls[q]
  BY <1>2, SetOne DEF LooksFurther
<1> HIDE DEF c
<1>5. Moved(p)
  BY <1>3, <1>4 DEF Moved
<1>6. Placed(p)'
  BY <1>1, <1>3, <1>4 DEF Placed, Creating, Reading, Working
<1>7. ASSUME NEW id \in Ids, Unharmed(id)'
      PROVE  Heeds(p, id)'
  BY <1>3, <1>4, <1>7 DEF Heeds, Finds, Search, Reading, Working
<1> QED BY <1>5, <1>6, <1>7 DEF Fits

\* The same for what is passed over as the code does.
LEMMA PassOverFits ==
  ASSUME VolumesInv, NEW p \in Procs, calls[p].step \in Reading, PassOver(p), wanted \subseteq wanted',
         \A id \in Ids : calls[p].sure /\ calls[p].key = id /\ Unharmed(id)' =>
           /\ dirs'[<<id, 1>>] = NoDir
           /\ ~calls[p].first => \A d \in DirNames : dirs'[d].id = id => d \in calls[p].left
  PROVE  Moved(p) /\ Fits(p)
<1>1. calls[p].sure \in BOOLEAN
  BY DEF VolumesInv, VolumesTypeOK, Call
<1>2. CASE calls[p].first
  BY <1>1, <1>2, LooksFurtherFits DEF PassOver
<1>3. CASE ~calls[p].first
  BY <1>1, <1>3, LooksFurtherFits DEF PassOver
<1> QED BY <1>2, <1>3

\* A volume that is resolved to its directory is listed, answered, or used.
LEMMA ResolveFits ==
  ASSUME VolumesInv, NEW p \in Procs, calls[p].step \in Reading,
         NEW vol \in [id: Ids, name: Names], NEW e \in DirNames, Resolve(p, vol, e),
         wanted \subseteq wanted',
         Unharmed(vol.id)' => vol.id \in wanted' /\ dirs'[e].data = vol.id /\ e # <<vol.id, 1>>,
         \A id \in Ids \ {vol.id} : calls[p].sure /\ calls[p].key = id /\ Unharmed(id)' =>
           /\ dirs'[<<id, 1>>] = NoDir
           /\ ~calls[p].first => \A d \in DirNames : dirs'[d].id = id => d \in calls[p].left
  PROVE  Moved(p) /\ Fits(p)
<1>0. Placed(p) /\ calls[p] \in Call /\ Idle \in Call /\ vol.id \in Ids /\ vol.name \in Names
  BY SetOne DEF VolumesInv, VolumesTypeOK
<1>1. CASE PassOver(p) /\ (calls[p].kind = "list" \/ ~volumeMatches(vol, calls[p].key))
  <2>1. calls[p].sure => calls[p].key # vol.id
    BY <1>1, SureKey DEF volumeMatches
  <2> QED BY <1>1, <2>1, PassOverFits
<1>2. CASE Done(p)
  BY <1>2, Ends
<1>3. CASE /\ Set(p, [Idle EXCEPT !.kind = calls[p].kind, !.step = "use", !.dir = e, !.vol = vol])
           /\ calls[p].kind \notin {"list", "get"}
  <2> DEFINE c == [Idle EXCEPT !.kind = calls[p].kind, !.step = "use", !.dir = e, !.vol = vol]
  <2>1. c \in Call
    BY <1>0 DEF Call, Steps
  <2>2. calls' \in [Procs -> Call] /\ calls'[p] = c /\ \A q \in Procs \ {p} : calls'[q] = calls[q]
    BY <1>3, <2>1, SetOne
  <2>3. /\ c.step = "use" /\ c.kind = calls[p].kind /\ c.dir = e /\ c.vol = vol
        /\ ~c.first /\ ~c.sure
    BY DEF Idle
  <2> HIDE DEF c
  <2>4. calls[p].kind \in {"mount", "delete"}
    BY <1>0, <1>3 DEF Call, Placed, Idle, Reading, Creating, Lookups
  <2>5. Placed(p)'
    BY <1>0, <2>2, <2>3, <2>4 DEF Placed, Reading, Creating, Working, Lookups
  <2>6. ASSUME NEW id \in Ids, Unharmed(id)'
        PROVE  Heeds(p, id)'
    BY <2>2, <2>3, <2>6 DEF Heeds, Finds, Working
  <2> QED BY <2>2, <2>3, <2>5, <2>6 DEF Moved, Fits
<1> QED BY <1>1, <1>2, <1>3 DEF Resolve

\* A volume with current metadata is migrated if its directory is named by its id.
LEMMA MigrateFits ==
  ASSUME VolumesInv, NEW p \in Procs, calls[p].step \in {"read", "rewrite"},
         NEW vol \in [id: Ids, name: Names], Migrate(p, vol, calls[p].dir),
         dirs'[calls[p].dir].id = vol.id, wanted \subseteq wanted',
         Unharmed(vol.id)' => vol.id \in wanted' /\ dirs'[calls[p].dir].data = vol.id,
         \A id \in Ids : calls[p].sure /\ calls[p].key = id /\ Unharmed(id)' =>
           /\ calls[p].first => vol.id = id
           /\ ~calls[p].first =>
                /\ dirs'[<<id, 1>>] = NoDir
                /\ \A d \in DirNames : dirs'[d].id = id => d \in calls[p].left \/ d = calls[p].dir
  PROVE  Moved(p) /\ Fits(p)
<1> DEFINE e == calls[p].dir
<1>0. /\ Placed(p) /\ calls[p] \in Call /\ vol.id \in Ids /\ vol.name \in Names /\ e \in DirNames
      /\ calls[p].step \in Reading /\ vol.id # "none" /\ 1 \in 1 .. MaxIndex
  BY NoneApart, VolumesAssumption DEF VolumesInv, VolumesTypeOK, Placed, Reading
<1>1. CASE e = <<vol.id, 1>>
  <2>1. Set(p, [calls[p] EXCEPT !.step = "choose", !.vol = vol, !.index = 1])
    BY <1>1 DEF Migrate
  <2>2. [calls[p] EXCEPT !.step = "choose", !.vol = vol, !.index = 1] \in Call
    BY <1>0 DEF Call, Steps, Reading
  <2>3. /\ calls' \in [Procs -> Call] /\ \A q \in Procs \ {p} : calls'[q] = calls[q]
        /\ calls'[p] = [calls[p] EXCEPT !.step = "choose", !.vol = vol, !.index = 1]
    BY <2>1, <2>2, SetOne
  <2>4. /\ calls'[p].step = "choose" /\ calls'[p].kind = calls[p].kind /\ calls'[p].key = calls[p].key
        /\ calls'[p].dir = e /\ calls'[p].vol = vol /\ calls'[p].left = calls[p].left
        /\ calls'[p].first = calls[p].first /\ calls'[p].sure = calls[p].sure
    BY <1>0, <2>3 DEF Call
  <2>5. Placed(p)'
    <3>1. calls[p].kind \notin {"idle", "create"}
      BY <1>0 DEF Placed, Idle, Reading, Creating
    <3> QED BY <1>0, <1>1, <2>4, <3>1 DEF Placed, Reading, Creating, Working
  <2>6. ASSUME NEW id \in Ids, Unharmed(id)', vol.id = id
        PROVE  Finds(p)'
    BY <2>4, <2>6 DEF Finds, Working
  <2>7. ASSUME NEW id \in Ids, Unharmed(id)', calls[p].sure, calls[p].key = id
        PROVE  Search(p)'
    <3>1. ASSUME ~calls[p].first, NEW d \in DirNames, dirs'[d].id = id
          PROVE  d \in calls[p].left
      <4>1. CASE d = e
        <5>1. id = vol.id /\ dirs'[<<id, 1>>] = NoDir /\ e = <<id, 1>>
          BY <1>1, <2>7, <3>1, <4>1
        <5> QED BY <3>1, <4>1, <5>1, NoneApart DEF NoDir
      <4> QED BY <2>7, <3>1, <4>1
    <3> QED BY <2>4, <2>7, <3>1 DEF Search, Reading, Working
  <2> QED BY <2>3, <2>4, <2>5, <2>6, <2>7 DEF Moved, Fits, Heeds
<1>2. CASE e # <<vol.id, 1>>
  <2>1. Resolve(p, vol, e)
    BY <1>2 DEF Migrate
  <2>2. \A id \in Ids \ {vol.id} : calls[p].sure /\ calls[p].key = id /\ Unharmed(id)' =>
          /\ dirs'[<<id, 1>>] = NoDir
          /\ ~calls[p].first => \A d \in DirNames : dirs'[d].id = id => d \in calls[p].left
    OBVIOUS
  <2> QED BY <1>0, <1>2, <2>1, <2>2, ResolveFits
<1> QED BY <1>1, <1>2

---------------------------------------------------------------------------
(* The steps of a lookup.                                                  *)

\* os.ReadDir lists every directory there is.
LEMMA ReadDirKeeps ==
  ASSUME VolumesInv, NEW p \in Procs, ReadDir(p)
  PROVE  VolumesInv'
<1> DEFINE L == {d \in DirNames : Exists(d)}
           c == [calls[p] EXCEPT !.step = "next", !.left = L]
<1>1. /\ calls[p] \in Call /\ Placed(p) /\ calls[p].step = "readdir" /\ Set(p, c) /\ begun' \in Nat
      /\ UNCHANGED <<dirs, wanted, deleted, harmed, denied, mounts>>
  BY DEF ReadDir, VolumesInv, VolumesTypeOK
<1>2. c \in Call
  BY <1>1 DEF Call, Steps
<1>3. calls' \in [Procs -> Call] /\ calls'[p] = c /\ \A q \in Procs \ {p} : calls'[q] = calls[q]
  BY <1>1, <1>2, SetOne
<1>4. /\ c.step = "next" /\ c.left = L /\ c.kind = calls[p].kind /\ c.key = calls[p].key
      /\ c.first = calls[p].first /\ c.sure = calls[p].sure
  BY <1>1 DEF Call
<1> HIDE DEF c
<1>5. ~calls[p].first /\ calls[p].kind \notin {"idle", "create"}
  BY <1>1 DEF Placed, Reading, Creating, Idle
<1>6. Placed(p)'
  BY <1>1, <1>3, <1>4, <1>5 DEF Placed, Reading, Creating, Working
<1>7. ASSUME NEW id \in Ids, Unharmed(id)'
      PROVE  Heeds(p, id)'
  <2>1. Finds(p)'
    BY <1>3, <1>4 DEF Finds, Working
  <2>2. ASSUME calls[p].sure, calls[p].key = id
        PROVE  Search(p)'
    <3>1. Search(p)
      BY <1>1, <1>7, <2>2, SureKey DEF Unharmed
    <3>2. ASSUME NEW d \in DirNames, dirs[d].id = id
          PROVE  d \in L
      BY <3>2, NoneApart DEF Exists, NoDir
    <3> QED BY <1>1, <1>3, <1>4, <2>2, <3>1, <3>2 DEF Search, Reading, Working
  <2> QED BY <1>3, <1>4, <2>1, <2>2 DEF Heeds
<1>8. Moved(p) /\ FoundById'
  BY <1>1, <1>3, <1>4, StillFound DEF Moved
<1> QED BY <1>1, <1>6, <1>7, <1>8, LooksOnly DEF Fits

\* A lookup that must succeed does not come to the end of its list.
LEMMA NextEntryKeeps ==
  ASSUME VolumesInv, NEW p \in Procs, NextEntry(p)
  PROVE  VolumesInv'
<1>1. /\ calls[p] \in Call /\ Placed(p) /\ calls[p].step = "next" /\ begun' \in Nat
      /\ UNCHANGED <<dirs, wanted, deleted, harmed, mounts>>
  BY DEF NextEntry, VolumesInv, VolumesTypeOK
<1>2. CASE Done(p) /\ UNCHANGED denied
  <2>1. FoundById'
    BY <1>1, <1>2, StillFound
  <2> QED BY <1>1, <1>2, <2>1, Ends, LooksOnly
<1>3. CASE NotFound(p) /\ calls[p].left = {}
  <2>1. ASSUME calls[p].sure
        PROVE  ~Unharmed(calls[p].key)
    <3>1. SUFFICES ASSUME Unharmed(calls[p].key)
                   PROVE  FALSE
      OBVIOUS
    <3>2. calls[p].key \in wanted /\ calls[p].key \in Ids /\ Search(p)
      BY <2>1, <3>1, SureKey
    <3>3. Whole(calls[p].key)
      BY <3>1, <3>2 DEF VolumesInv
    <3>4. PICK d \in DirNames : dirs[d].id = calls[p].key
      BY <3>2, <3>3 DEF Whole
    <3> QED BY <1>1, <1>3, <3>2, <3>4 DEF Search
  <2>2. ASSUME NEW id \in denied'
        PROVE  ~Unharmed(id)
    BY <1>3, <2>1, <2>2 DEF NotFound, VolumesInv, FoundById
  <2>3. FoundById'
    BY <1>1, <2>2 DEF FoundById, Unharmed
  <2>4. Done(p)
    BY <1>3 DEF NotFound
  <2> QED BY <1>1, <2>3, <2>4, Ends, LooksOnly
<1>4. ASSUME NEW e \in calls[p].left, UNCHANGED denied,
             Set(p, [calls[p] EXCEPT !.step = "read", !.dir = e, !.left = @ \ {e}])
      PROVE  VolumesInv'
  <2> DEFINE c == [calls[p] EXCEPT !.step = "read", !.dir = e, !.left = @ \ {e}]
  <2>1. e \in DirNames /\ calls[p].left \subseteq DirNames
    BY <1>1 DEF Call
  <2>2. c \in Call
    BY <1>1, <2>1 DEF Call, Steps, Reading
  <2>3. calls' \in [Procs -> Call] /\ calls'[p] = c /\ \A q \in Procs \ {p} : calls'[q] = calls[q]
    BY <1>4, <2>2, SetOne
  <2>4. /\ c.step = "read" /\ c.left = calls[p].left \ {e} /\ c.dir = e /\ c.kind = calls[p].kind
        /\ c.key = calls[p].key /\ c.first = calls[p].first /\ c.sure = calls[p].sure
    BY <1>1 DEF Call
  <2> HIDE DEF c
  <2>5. ~calls[p].first /\ calls[p].kind \notin {"idle", "create"}
    BY <1>1 DEF Placed, Reading, Creating, Idle
  <2>6. Placed(p)'
    BY <1>1, <2>1, <2>3, <2>4, <2>5 DEF Placed, Reading, Creating, Working
  <2>7. ASSUME NEW id \in Ids, Unharmed(id)'
        PROVE  Heeds(p, id)'
    <3>1. Finds(p)'
      BY <2>3, <2>4 DEF Finds, Working
    <3>2. ASSUME calls[p].sure, calls[p].key = id
          PROVE  Search(p)'
      <4>1. Search(p)
        BY <1>1, <2>7, <3>2, SureKey DEF Unharmed
      <4> QED BY <1>1, <2>3, <2>4, <3>2, <4>1 DEF Search, Reading, Working
    <3> QED BY <2>3, <2>4, <3>1, <3>2 DEF Heeds
  <2>8. Moved(p) /\ FoundById'
    BY <1>1, <1>4, <2>3, <2>4, StillFound DEF Moved
  <2> QED BY <1>1, <2>6, <2>7, <2>8, LooksOnly DEF Fits
<1> QED BY <1>2, <1>3, <1>4 DEF NextEntry

\* An entry without metadata is not that of a volume that must be found.
LEMMA EmptyPassed ==
  ASSUME VolumesInv, NEW p \in Procs, calls[p].step \in {"read", "older"}, PassOver(p),
         dirs[calls[p].dir].meta \in {"absent", "none"},
         UNCHANGED <<dirs, wanted, deleted, harmed>>
  PROVE  Moved(p) /\ Fits(p)
<1>1. calls[p].dir \in DirNames /\ calls[p].step \in Reading
  BY DEF VolumesInv, Placed, Reading
<1>2. dirs[calls[p].dir].id = "none"
  BY <1>1, Absent
<1>3. ASSUME NEW id \in Ids, calls[p].sure, calls[p].key = id, Unharmed(id)'
      PROVE  /\ dirs'[<<id, 1>>] = NoDir
             /\ ~calls[p].first => \A d \in DirNames : dirs'[d].id = id => d \in calls[p].left
  <2>1. Unharmed(id) /\ Search(p)
    BY <1>3, SureKey DEF Unharmed
  <2>2. CASE calls[p].first
    BY <1>2, <1>3, <2>1, <2>2, FirstIsIt, NoneApart
  <2>3. CASE ~calls[p].first
    BY <1>1, <1>2, <1>3, <2>1, <2>3, NoneApart DEF Search
  <2> QED BY <2>2, <2>3
<1> QED BY <1>1, <1>3, PassOverFits

\* readVolumeMetadata of the current form.
LEMMA ReadMetadataKeeps ==
  ASSUME VolumesInv, NEW p \in Procs, ReadMetadata(p)
  PROVE  VolumesInv'
<1> DEFINE d == calls[p].dir
<1>1. /\ calls[p] \in Call /\ Placed(p) /\ calls[p].step = "read" /\ begun' \in Nat
      /\ UNCHANGED <<dirs, wanted, deleted, harmed, denied, mounts>>
  BY DEF ReadMetadata, VolumesInv, VolumesTypeOK
<1>2. d \in DirNames
  BY <1>1 DEF Placed, Reading
<1>3. FoundById'
  BY <1>1, StillFound
<1>4. CASE dirs[d].meta = "absent" /\ PassOver(p)
  BY <1>1, <1>3, <1>4, EmptyPassed, LooksOnly
<1>5. CASE Done(p)
  BY <1>1, <1>3, <1>5, Ends, LooksOnly
<1>6. CASE dirs[d].meta = "current" /\ Migrate(p, [id |-> dirs[d].id, name |-> dirs[d].name], d)
  <2>0. dirs[d].id \in Ids /\ dirs[d].name \in Names /\ dirs[d] # NoDir
    BY <1>2, <1>6, Absent, NoneApart DEF NoDir
  <2>1. PICK vol \in [id: Ids, name: Names] : vol = [id |-> dirs[d].id, name |-> dirs[d].name]
    BY <2>0
  <2>2. vol.id = dirs[d].id /\ vol.id \in Ids
    BY <2>0, <2>1
  <2>3. ASSUME NEW id \in Ids, calls[p].sure, calls[p].key = id, Unharmed(id)'
        PROVE  /\ calls[p].first => vol.id = id
               /\ ~calls[p].first =>
                    /\ dirs'[<<id, 1>>] = NoDir
                    /\ \A e \in DirNames : dirs'[e].id = id => e \in calls[p].left \/ e = calls[p].dir
    <3>1. Unharmed(id) /\ Search(p)
      BY <1>1, <2>3, SureKey DEF Unharmed
    <3>2. calls[p].first => vol.id = id
      BY <2>0, <2>2, <2>3, <3>1, FirstIsIt
    <3> QED BY <1>1, <2>3, <3>1, <3>2 DEF Search, Reading
  <2>4. Migrate(p, vol, d)
    BY <1>6, <2>1
  <2>5. Moved(p) /\ Fits(p)
    <3>1. Unharmed(vol.id)' => vol.id \in wanted' /\ dirs'[d].data = vol.id
      BY <1>1, <1>2, <2>2, OwnId DEF Unharmed
    <3>2. dirs'[d].id = vol.id /\ wanted \subseteq wanted'
      BY <1>1, <2>2
    <3> QED BY <1>1, <2>3, <2>4, <3>1, <3>2, MigrateFits
  <2> QED BY <1>1, <1>3, <2>5, LooksOnly
<1>7. CASE Set(p, [calls[p] EXCEPT !.step = "older"])
  <2> DEFINE c == [calls[p] EXCEPT !.step = "older"]
  <2>1. c \in Call
    BY <1>1 DEF Call, Steps, Reading
  <2>2. calls' \in [Procs -> Call] /\ calls'[p] = c /\ \A q \in Procs \ {p} : calls'[q] = calls[q]
    BY <1>7, <2>1, SetOne
  <2>3. /\ c.step = "older" /\ c.left = calls[p].left /\ c.dir = d /\ c.kind = calls[p].kind
        /\ c.key = calls[p].key /\ c.first = calls[p].first /\ c.sure = calls[p].sure
    BY <1>1 DEF Call
  <2> HIDE DEF c
  <2>4. Placed(p)'
    <3>1. calls[p].kind \notin {"idle", "create"}
      BY <1>1 DEF Placed, Creating, Idle
    <3> QED BY <1>1, <1>2, <2>2, <2>3, <3>1 DEF Placed, Reading, Creating, Working
  <2>5. ASSUME NEW id \in Ids, Unharmed(id)'
        PROVE  Heeds(p, id)'
    <3>1. Finds(p)'
      BY <2>2, <2>3 DEF Finds, Working
    <3>2. ASSUME calls[p].sure, calls[p].key = id
          PROVE  Search(p)'
      <4>1. Search(p)
        BY <1>1, <2>5, <3>2, SureKey DEF Unharmed
      <4> QED BY <1>1, <2>2, <2>3, <3>2, <4>1 DEF Search, Reading, Working
    <3> QED BY <2>2, <2>3, <3>1, <3>2 DEF Heeds
  <2> QED BY <1>1, <1>3, <2>2, <2>3, <2>4, <2>5, LooksOnly DEF Moved, Fits
<1> QED BY <1>4, <1>5, <1>6, <1>7 DEF ReadMetadata

\* readVolumeMetadata of the older forms.
LEMMA ReadOlderMetadataKeeps ==
  ASSUME VolumesInv, NEW p \in Procs, ReadOlderMetadata(p)
  PROVE  VolumesInv'
<1> DEFINE d == calls[p].dir
<1>1. /\ calls[p] \in Call /\ Placed(p) /\ calls[p].step = "older" /\ begun' \in Nat
      /\ UNCHANGED <<dirs, wanted, deleted, harmed, denied, mounts>>
  BY DEF ReadOlderMetadata, VolumesInv, VolumesTypeOK
<1>2. d \in DirNames /\ calls[p].step \in Reading
  BY <1>1 DEF Placed, Reading
<1>3. FoundById'
  BY <1>1, StillFound
<1>4. CASE dirs[d].meta \in {"absent", "none"} /\ PassOver(p)
  BY <1>1, <1>3, <1>4, EmptyPassed, LooksOnly
<1>5. CASE dirs[d].meta = "current" /\ PassOverRewritten(p)
  <2> DEFINE sure == calls[p].sure /\ dirs[d].id # calls[p].key
  <2>1. ASSUME NEW id \in Ids, sure, calls[p].key = id, Unharmed(id)'
        PROVE  /\ dirs'[<<id, 1>>] = NoDir
               /\ \A e \in DirNames : dirs'[e].id = id => e \in calls[p].left
    <3>1. Unharmed(id) /\ Search(p)
      BY <1>1, <2>1, SureKey DEF Unharmed
    <3>2. ~calls[p].first
      <4>1. dirs[d] # NoDir
        BY <1>5 DEF NoDir
      <4> QED BY <2>1, <3>1, <4>1, FirstIsIt
    <3> QED BY <1>1, <1>2, <2>1, <3>1, <3>2 DEF Search
  <2>2. sure \in BOOLEAN /\ (sure => calls[p].sure)
    OBVIOUS
  <2>3. \E step \in {"readdir", "next"} : LooksFurther(p, step, sure)
    BY <1>5 DEF PassOverRewritten
  <2> HIDE DEF sure
  <2>4. Moved(p) /\ Fits(p)
    BY <1>1, <1>2, <2>1, <2>2, <2>3, LooksFurtherFits
  <2> QED BY <1>1, <1>3, <2>4, LooksOnly
<1>6. CASE Done(p)
  BY <1>1, <1>3, <1>6, Ends, LooksOnly
<1>7. CASE /\ dirs[d].meta = "older"
           /\ Set(p, [calls[p] EXCEPT !.step = "rewrite", !.vol = [id |-> dirs[d].id, name |-> dirs[d].name]])
  <2> DEFINE vol == [id |-> dirs[d].id, name |-> dirs[d].name]
             c == [calls[p] EXCEPT !.step = "rewrite", !.vol = vol]
  <2>1. /\ vol \in [id: Ids \cup {"none"}, name: Names \cup {"none"}]
        /\ vol.id = dirs[d].id /\ vol.id \in Ids /\ vol.name \in Names /\ dirs[d] # NoDir
    BY <1>2, <1>7, Absent
  <2> HIDE DEF vol
  <2>2. c \in Call
    BY <1>1, <2>1 DEF Call, Steps, Reading
  <2>3. calls' \in [Procs -> Call] /\ calls'[p] = c /\ \A q \in Procs \ {p} : calls'[q] = calls[q]
    BY <1>7, <2>2, SetOne DEF vol
  <2>4. /\ c.step = "rewrite" /\ c.left = calls[p].left /\ c.dir = d /\ c.kind = calls[p].kind
        /\ c.key = calls[p].key /\ c.first = calls[p].first /\ c.sure = calls[p].sure /\ c.vol = vol
    BY <1>1 DEF Call
  <2> HIDE DEF c
  <2>5. Placed(p)'
    <3>1. calls[p].kind \notin {"idle", "create"}
      BY <1>1 DEF Placed, Creating, Idle
    <3> QED BY <1>1, <1>2, <2>1, <2>3, <2>4, <3>1 DEF Placed, Reading, Creating, Working
  <2>6. ASSUME NEW id \in Ids, Unharmed(id)'
        PROVE  Heeds(p, id)'
    <3>0. Unharmed(id)
      BY <1>1, <2>6 DEF Unharmed
    <3>1. ASSUME vol.id = id
          PROVE  Finds(p)'
      <4>1. dirs[d].data = id /\ id \in wanted
        BY <1>2, <2>1, <3>0, <3>1, OwnId
      <4> QED BY <1>1, <2>3, <2>4, <3>1, <4>1 DEF Finds, Working
    <3>2. ASSUME calls[p].sure, calls[p].key = id
          PROVE  Search(p)'
      <4>1. Search(p)
        BY <3>0, <3>2, SureKey
      <4>2. calls[p].first => vol.id = id
        BY <2>1, <3>0, <3>2, FirstIsIt
      <4> QED BY <1>1, <2>3, <2>4, <3>2, <4>1, <4>2 DEF Search, Reading, Working
    <3> QED BY <2>3, <2>4, <3>1, <3>2 DEF Heeds
  <2> QED BY <1>1, <1>3, <2>3, <2>4, <2>5, <2>6, LooksOnly DEF Moved, Fits
<1> QED BY <1>4, <1>5, <1>6, <1>7 DEF ReadOlderMetadata

---------------------------------------------------------------------------
(* Steps that change a directory.                                          *)

\* The parts of the invariant that a step which changes directories must keep.
LEMMA ChangeKeeps ==
  ASSUME VolumesInv, NEW p \in Procs, VolumesTypeOK', \A d \in DirNames : Solid(d)',
         Moved(p), Fits(p), harmed \subseteq harmed', deleted \subseteq deleted',
         wanted \subseteq wanted', UNCHANGED denied,
         \A id \in Ids : Unharmed(id)' =>
           Whole(id)' /\ Mounted(id)' /\ \A q \in Procs \ {p} : Heeds(q, id)'
  PROVE  VolumesInv'
<1>1. FoundById'
  BY StillFound
<1>2. CreatorsApart' /\ \A q \in Procs \ {p} : calls'[q] = calls[q]
  BY StillApart DEF Moved
<1> QED BY <1>1, <1>2, StepKeeps DEF Fits

\* What a call attaches to the directory at its path says nothing of a volume that the
\* call does not mean.
LEMMA OthersSpared ==
  ASSUME VolumesInv, NEW p \in Procs, calls[p].step \in {"write", "rewrite"},
         Describe(p, calls[p].vol), \A d \in DirNames : Solid(d)',
         \A q \in Procs \ {p} : calls'[q] = calls[q], deleted \subseteq deleted',
         NEW id \in Ids, Unharmed(id)', id # calls[p].vol.id,
         id \in wanted' <=> id \in wanted, UNCHANGED mounts
  PROVE  Whole(id)' /\ Mounted(id)' /\ \A q \in Procs \ {p} : Heeds(q, id)'
<1> DEFINE d == calls[p].dir
<1>1. /\ d \in DirNames /\ dirs \in [DirNames -> Dir]
      /\ dirs' = [dirs EXCEPT ![d] = [@ EXCEPT !.meta = "current", !.id = calls[p].vol.id,
                                              !.name = calls[p].vol.name]]
      /\ harmed' = harmed \cup Astray(p)
  BY DEF VolumesInv, VolumesTypeOK, Placed, Creating, Reading, Describe
<1>2. Unharmed(id) /\ id \notin Astray(p)
  BY <1>1 DEF Unharmed
<1>3. dirs[d].data # id
  BY <1>2, Missed DEF Working
<1>4. dirs[d].id # id
  BY <1>1, <1>2, <1>3, OwnId
<1>5. dirs'[d].id = calls[p].vol.id /\ dirs'[d].data = dirs[d].data
  BY <1>1 DEF Dir
<1>6. \A e \in DirNames \ {d} : dirs'[e] = dirs[e]
  BY <1>1
<1>7. dirs[d] # Bare(id)
  BY <1>3 DEF Bare
<1> QED BY <1>2, <1>3, <1>4, <1>5, <1>6, <1>7, Spared

\* A directory with metadata is as it should be.
LEMMA DescribedSolid ==
  ASSUME VolumesInv, NEW p \in Procs, calls[p].step \in {"write", "rewrite"},
         Describe(p, calls[p].vol)
  PROVE  /\ dirs' \in [DirNames -> Dir] /\ \A d \in DirNames : Solid(d)'
         /\ harmed' \subseteq Ids /\ harmed \subseteq harmed'
<1> DEFINE d == calls[p].dir
<1>1. /\ d \in DirNames /\ dirs \in [DirNames -> Dir] /\ dirs[d] # NoDir
      /\ calls[p].vol.id \in Ids /\ calls[p].vol.name \in Names
      /\ dirs' = [dirs EXCEPT ![d] = [@ EXCEPT !.meta = "current", !.id = calls[p].vol.id,
                                              !.name = calls[p].vol.name]]
      /\ harmed' = harmed \cup Astray(p) /\ harmed \subseteq Ids
  BY DEF VolumesInv, VolumesTypeOK, Placed, Creating, Reading, Working, Describe, Exists
<1>2. dirs' \in [DirNames -> Dir]
  BY <1>1 DEF Dir
<1>3. /\ dirs'[d].meta = "current" /\ dirs'[d].id = calls[p].vol.id
      /\ dirs'[d].name = calls[p].vol.name /\ dirs'[d].data = dirs[d].data
  BY <1>1 DEF Dir
<1>4. ASSUME NEW e \in DirNames
      PROVE  Solid(e)'
  <2>1. Solid(e)
    BY DEF VolumesInv
  <2>2. CASE e = d
    BY <1>1, <1>3, <2>1, <2>2 DEF Solid
  <2>3. CASE e # d
    BY <1>1, <2>1, <2>3 DEF Solid
  <2> QED BY <2>2, <2>3
<1>5. Astray(p) \subseteq Ids
  BY <1>1 DEF Astray, Dir
<1> QED BY <1>1, <1>2, <1>4, <1>5

\* writeVolumeMetadata of what an older version left.
LEMMA RewriteMetadataKeeps ==
  ASSUME VolumesInv, NEW p \in Procs, RewriteMetadata(p)
  PROVE  VolumesInv'
<1> DEFINE d == calls[p].dir
           u == calls[p].vol.id
<1>1. /\ calls[p] \in Call /\ Placed(p) /\ calls[p].step = "rewrite" /\ begun' \in Nat
      /\ UNCHANGED <<wanted, deleted, denied, mounts>>
  BY DEF RewriteMetadata, VolumesInv, VolumesTypeOK
<1>2. d \in DirNames /\ u \in Ids /\ calls[p].vol.name \in Names /\ dirs \in [DirNames -> Dir]
  BY <1>1 DEF Placed, Reading, Working, VolumesInv, VolumesTypeOK
<1>3. CASE Done(p) /\ UNCHANGED <<dirs, harmed>>
  <2>1. FoundById'
    BY <1>1, <1>3, StillFound
  <2> QED BY <1>1, <1>3, <2>1, Ends, LooksOnly
<1>4. CASE Describe(p, calls[p].vol) /\ Migrate(p, calls[p].vol, d)
  <2>1. /\ dirs' \in [DirNames -> Dir] /\ \A e \in DirNames : Solid(e)'
        /\ harmed' \subseteq Ids /\ harmed \subseteq harmed'
    BY <1>1, <1>4, DescribedSolid
  <2>2. /\ dirs[d] # NoDir /\ dirs'[d].id = u /\ dirs'[d].data = dirs[d].data
        /\ \A e \in DirNames \ {d} : dirs'[e] = dirs[e]
    BY <1>2, <1>4 DEF Describe, Exists, Dir
  <2>3. PICK vol \in [id: Ids, name: Names] : vol = calls[p].vol
    BY <1>1, <1>2 DEF Call
  <2>4. Unharmed(vol.id)' => vol.id \in wanted /\ dirs[d].data = vol.id /\ dirs[d].id = vol.id
    <3>1. SUFFICES ASSUME Unharmed(vol.id)'
                   PROVE  vol.id \in wanted /\ dirs[d].data = vol.id /\ dirs[d].id = vol.id
      OBVIOUS
    <3>2. Unharmed(vol.id)
      BY <1>1, <2>1, <3>1 DEF Unharmed
    <3>3. Finds(p)
      BY <1>2, <2>3, <3>2 DEF VolumesInv, Heeds
    <3>4. vol.id \in wanted /\ dirs[d].data = vol.id
      BY <1>1, <2>2, <2>3, <3>3 DEF Finds, Working
    <3> QED BY <1>2, <3>2, <3>4, WholeDir
  <2>5. ASSUME NEW id \in Ids, calls[p].sure, calls[p].key = id, Unharmed(id)'
        PROVE  /\ calls[p].first => vol.id = id
               /\ ~calls[p].first =>
                    /\ dirs'[<<id, 1>>] = NoDir
                    /\ \A e \in DirNames : dirs'[e].id = id => e \in calls[p].left \/ e = calls[p].dir
    <3>1. Unharmed(id)
      BY <1>1, <2>1, <2>5 DEF Unharmed
    <3>2. Search(p) /\ <<id, 1>> \in DirNames
      BY <2>5, <3>1, SureKey
    <3>3. CASE calls[p].first
      BY <1>1, <2>3, <2>5, <3>2, <3>3 DEF Search, Working
    <3>4. CASE ~calls[p].first
      <4>1. dirs[<<id, 1>>] = NoDir
        BY <1>1, <2>5, <3>2, <3>4 DEF Search, Reading
      <4>2. dirs'[<<id, 1>>] = NoDir
        BY <2>2, <3>2, <4>1
      <4>3. ASSUME NEW e \in DirNames \ {d}, dirs'[e].id = id
            PROVE  e \in calls[p].left
        BY <1>1, <2>2, <2>5, <3>2, <3>4, <4>3 DEF Search, Reading
      <4> QED BY <3>4, <4>2, <4>3
    <3> QED BY <3>3, <3>4
  <2>6. Moved(p) /\ Fits(p)
    <3>1. Migrate(p, vol, d) /\ dirs'[d].id = vol.id /\ wanted \subseteq wanted'
      BY <1>1, <1>4, <2>2, <2>3
    <3>2. Unharmed(vol.id)' => vol.id \in wanted' /\ dirs'[d].data = vol.id
      BY <1>1, <2>2, <2>4
    <3> QED BY <1>1, <2>5, <3>1, <3>2, MigrateFits
  <2>7. ASSUME NEW id \in Ids, Unharmed(id)'
        PROVE  Whole(id)' /\ Mounted(id)' /\ \A q \in Procs \ {p} : Heeds(q, id)'
    <3>1. \A q \in Procs \ {p} : calls'[q] = calls[q]
      BY <2>6 DEF Moved
    <3>2. CASE id # vol.id
      BY <1>1, <1>4, <2>1, <2>3, <2>7, <3>1, <3>2, OthersSpared
    <3>3. CASE id = vol.id
      <4>1. dirs[d].id = id /\ dirs[d].data = id
        BY <2>4, <2>7, <3>3
      <4>2. dirs[d] # Bare(id)
        BY <4>1, NoneApart DEF Bare
      <4>3. Unharmed(id)
        BY <1>1, <2>1, <2>7 DEF Unharmed
      <4>4. \A e \in DirNames :
              /\ dirs'[e].data = id <=> dirs[e].data = id
              /\ dirs'[e].id = id <=> dirs[e].id = id
              /\ dirs[e] = Bare(id) => dirs'[e] = dirs[e]
        BY <2>2, <2>3, <3>3, <4>1, <4>2
      <4> QED BY <1>1, <2>1, <3>1, <4>3, <4>4, Spared
    <3> QED BY <3>2, <3>3
  <2>8. VolumesTypeOK'
    BY <1>1, <2>1, <2>6 DEF VolumesInv, VolumesTypeOK, Moved
  <2> QED BY <1>1, <2>1, <2>6, <2>7, <2>8, ChangeKeeps
<1> QED BY <1>3, <1>4 DEF RewriteMetadata

---------------------------------------------------------------------------
(* migrateLegacyVolumeDir.                                                 *)

\* A migration that goes on keeps what it has read.
LEMMA GoesOn ==
  ASSUME VolumesInv, NEW p \in Procs, calls[p].step \in {"choose", "lstat"},
         NEW c \in Call, Set(p, c), c.step \in {"choose", "lstat", "rename"},
         c.kind = calls[p].kind, c.key = calls[p].key, c.sure = calls[p].sure,
         c.first = calls[p].first, c.left = calls[p].left, c.dir = calls[p].dir,
         c.vol = calls[p].vol, c.step # "choose" => <<c.vol.name, c.index>> # c.dir,
         UNCHANGED <<dirs, wanted, deleted, harmed>>
  PROVE  Moved(p) /\ Fits(p)
<1>1. calls' \in [Procs -> Call] /\ calls'[p] = c /\ \A q \in Procs \ {p} : calls'[q] = calls[q]
  BY SetOne
<1>2. Placed(p) /\ calls[p].kind \notin {"idle", "create"}
  BY DEF VolumesInv, Placed, Creating, Idle
<1>3. Placed(p)'
  <2>1. calls'[p].step # "choose" => <<calls'[p].vol.name, calls'[p].index>> # calls'[p].dir
    BY <1>1
  <2> QED BY <1>1, <1>2, <2>1 DEF Placed, Target, Reading, Creating, Working
<1>4. ASSUME NEW id \in Ids, Unharmed(id)'
      PROVE  Heeds(p, id)'
  <2>1. Heeds(p, id)
    BY <1>4 DEF VolumesInv, Unharmed
  <2>2. ASSUME c.vol.id = id
        PROVE  Finds(p)'
    <3>1. Finds(p)
      BY <2>1, <2>2 DEF Heeds
    <3> QED BY <1>1, <3>1 DEF Finds, Working
  <2>3. ASSUME c.sure, c.key = id
        PROVE  Search(p)'
    <3>1. Search(p)
      BY <2>1, <2>3 DEF Heeds
    <3> QED BY <1>1, <3>1 DEF Search, Reading, Working
  <2> QED BY <1>1, <2>2, <2>3 DEF Heeds
<1> QED BY <1>1, <1>3, <1>4 DEF Moved, Fits

\* nextAvailableVolumeHostDir.
LEMMA ChooseTargetKeeps ==
  ASSUME VolumesInv, NEW p \in Procs, ChooseTarget(p)
  PROVE  VolumesInv'
<1> DEFINE d == calls[p].dir
<1>1. /\ calls[p] \in Call /\ Placed(p) /\ calls[p].step = "choose" /\ begun' \in Nat
      /\ UNCHANGED <<dirs, wanted, deleted, harmed, denied, mounts>>
  BY DEF ChooseTarget, VolumesInv, VolumesTypeOK
<1>2. FoundById'
  BY <1>1, StillFound
<1>3. CASE calls[p].index < MaxIndex /\ Set(p, [calls[p] EXCEPT !.index = @ + 1])
  <2> DEFINE c == [calls[p] EXCEPT !.index = @ + 1]
  <2>1. calls[p].index + 1 \in 1 .. MaxIndex
    BY <1>1, <1>3, VolumesAssumption DEF Call
  <2>2. c \in Call
    BY <1>1, <2>1 DEF Call
  <2>3. /\ c.step = "choose" /\ c.kind = calls[p].kind /\ c.key = calls[p].key /\ c.sure = calls[p].sure
        /\ c.first = calls[p].first /\ c.left = calls[p].left /\ c.dir = calls[p].dir
        /\ c.vol = calls[p].vol
    BY <1>1 DEF Call
  <2>4. Set(p, c)
    BY <1>3
  <2> HIDE DEF c
  <2>5. Moved(p) /\ Fits(p)
    BY <1>1, <2>2, <2>3, <2>4, GoesOn
  <2> QED BY <1>1, <1>2, <2>5, LooksOnly
<1>4. CASE ~Exists(Target(p)) /\ Target(p) = d /\ Resolve(p, calls[p].vol, d)
  <2>1. d \in DirNames /\ d = <<calls[p].vol.id, 1>> /\ calls[p].vol.name \in Names
    BY <1>1 DEF Placed, Reading, Working
  <2>2. PICK vol \in [id: Ids, name: Names] : vol = calls[p].vol
    BY <1>1 DEF Placed, Call, Working
  <2>3. vol.id \in Names
    BY <1>4, <2>1, <2>2 DEF Target
  <2>4. Resolve(p, vol, d) /\ ~Unharmed(vol.id)'
    BY <1>4, <2>2, <2>3 DEF Unharmed
  <2>5. ASSUME NEW id \in Ids \ {vol.id}, calls[p].sure, calls[p].key = id, Unharmed(id)'
        PROVE  /\ dirs'[<<id, 1>>] = NoDir
               /\ ~calls[p].first => \A e \in DirNames : dirs'[e].id = id => e \in calls[p].left
    <3>1. Search(p)
      BY <1>1, <2>5, SureKey DEF Unharmed
    <3> QED BY <1>1, <2>2, <2>5, <3>1 DEF Search, Reading, Working
  <2>6. Moved(p) /\ Fits(p)
    <3>1. calls[p].step \in Reading /\ wanted \subseteq wanted'
      BY <1>1 DEF Reading
    <3> QED BY <2>1, <2>4, <2>5, <3>1, ResolveFits
  <2> QED BY <1>1, <1>2, <2>6, LooksOnly
<1>5. CASE Target(p) # d /\ Set(p, [calls[p] EXCEPT !.step = "lstat"])
  <2> DEFINE c == [calls[p] EXCEPT !.step = "lstat"]
  <2>1. c \in Call
    BY <1>1 DEF Call, Steps, Reading
  <2>2. /\ c.step = "lstat" /\ c.kind = calls[p].kind /\ c.key = calls[p].key /\ c.sure = calls[p].sure
        /\ c.first = calls[p].first /\ c.left = calls[p].left /\ c.dir = calls[p].dir
        /\ c.vol = calls[p].vol /\ c.index = calls[p].index
    BY <1>1 DEF Call
  <2>3. Set(p, c)
    BY <1>5
  <2> HIDE DEF c
  <2>4. <<c.vol.name, c.index>> # c.dir
    BY <1>5, <2>2 DEF Target
  <2>5. Moved(p) /\ Fits(p)
    BY <1>1, <2>1, <2>2, <2>3, <2>4, GoesOn
  <2> QED BY <1>1, <1>2, <2>5, LooksOnly
<1> QED BY <1>3, <1>4, <1>5 DEF ChooseTarget

\* os.Rename's look at the target.
LEMMA LstatTargetKeeps ==
  ASSUME VolumesInv, NEW p \in Procs, LstatTarget(p)
  PROVE  VolumesInv'
<1>1. /\ calls[p] \in Call /\ Placed(p) /\ calls[p].step = "lstat" /\ begun' \in Nat
      /\ UNCHANGED <<dirs, wanted, deleted, harmed, denied, mounts>>
  BY DEF LstatTarget, VolumesInv, VolumesTypeOK
<1>2. FoundById'
  BY <1>1, StillFound
<1>3. CASE Done(p)
  BY <1>1, <1>2, <1>3, Ends, LooksOnly
<1>4. CASE Set(p, [calls[p] EXCEPT !.step = "rename"])
  <2> DEFINE c == [calls[p] EXCEPT !.step = "rename"]
  <2>1. c \in Call
    BY <1>1 DEF Call, Steps, Reading
  <2>2. /\ c.step = "rename" /\ c.kind = calls[p].kind /\ c.key = calls[p].key /\ c.sure = calls[p].sure
        /\ c.first = calls[p].first /\ c.left = calls[p].left /\ c.dir = calls[p].dir
        /\ c.vol = calls[p].vol /\ c.index = calls[p].index
    BY <1>1 DEF Call
  <2>3. Set(p, c)
    BY <1>4
  <2> HIDE DEF c
  <2>4. <<c.vol.name, c.index>> # c.dir
    BY <1>1, <2>2 DEF Placed, Target
  <2>5. Moved(p) /\ Fits(p)
    BY <1>1, <2>1, <2>2, <2>3, <2>4, GoesOn
  <2> QED BY <1>1, <1>2, <2>5, LooksOnly
<1> QED BY <1>3, <1>4 DEF LstatTarget

\* rename(2): every volume but the one that is renamed keeps its directory, or was in
\* the target and is lost.
LEMMA RenameKeeps ==
  ASSUME VolumesInv, NEW p \in Procs, Rename(p)
  PROVE  VolumesInv'
<1>1. /\ calls[p] \in Call /\ Placed(p) /\ calls[p].step = "rename" /\ begun' \in Nat
      /\ UNCHANGED <<wanted, deleted, denied, mounts>>
      /\ dirs \in [DirNames -> Dir] /\ wanted \subseteq Ids /\ harmed \subseteq Ids
  BY DEF Rename, VolumesInv, VolumesTypeOK
<1>2. PICK vol \in [id: Ids, name: Names] : vol = calls[p].vol
  BY <1>1 DEF Placed, Call, Working
<1>3. PICK d \in DirNames : d = calls[p].dir /\ d = <<vol.id, 1>>
  BY <1>1, <1>2 DEF Placed, Reading
<1>4. PICK t \in DirNames : t = Target(p) /\ t[1] = vol.name
  <2>1. vol.name \in Names /\ calls[p].index \in 1 .. MaxIndex
    BY <1>1 DEF Call
  <2>2. <<vol.name, calls[p].index>> \in DirNames
    BY <2>1 DEF DirNames
  <2> QED BY <1>2, <2>2 DEF Target
<1>5. t # d /\ calls[p].step \in Reading /\ calls[p].step \in Working
  BY <1>1, <1>3, <1>4 DEF Placed, Reading, Working
<1>6. CASE Done(p) /\ UNCHANGED <<dirs, harmed>>
  <2>1. FoundById'
    BY <1>1, <1>6, StillFound
  <2> QED BY <1>1, <1>6, <2>1, Ends, LooksOnly
<1>7. CASE /\ Exists(d) /\ Resolve(p, vol, t)
           /\ dirs' = [dirs EXCEPT ![t] = dirs[d], ![d] = NoDir]
           /\ harmed' = harmed \cup Astray(p) \cup ({dirs[t].data} \ {"none"})
  <2>1. /\ dirs'[t] = dirs[d] /\ dirs'[d] = NoDir /\ dirs[d] # NoDir
        /\ \A e \in DirNames \ {d, t} : dirs'[e] = dirs[e]
    BY <1>1, <1>5, <1>7 DEF Exists
  <2>2. harmed \subseteq harmed' /\ harmed' \subseteq Ids
    <3>1. dirs[t] \in Dir /\ dirs[d] \in Dir
      BY <1>1
    <3>2. Astray(p) \subseteq Ids
      BY <1>3, <3>1 DEF Astray, Dir
    <3> QED BY <1>1, <1>7, <3>1, <3>2 DEF Dir
  <2>3. ASSUME NEW id \in Ids, Unharmed(id)'
        PROVE  /\ Unharmed(id) /\ id \notin Astray(p) /\ dirs[t].data # id
               /\ dirs[<<id, 1>>] = NoDir => dirs'[<<id, 1>>] = NoDir
    <3>1. Unharmed(id) /\ id \notin Astray(p) /\ dirs[t].data # id
      BY <1>1, <1>7, <2>3, NoneApart DEF Unharmed
    <3>2. <<id, 1>> # t /\ <<id, 1>> \in DirNames
      BY <1>4, <3>1, FirstDir DEF Unharmed
    <3> QED BY <2>1, <3>1, <3>2
  <2>4. ASSUME NEW e \in DirNames
        PROVE  Solid(e)'
    <3>1. Solid(e) /\ Solid(d)
      BY DEF VolumesInv
    <3>2. CASE e = d
      BY <2>1, <3>2 DEF Solid
    <3>3. CASE e = t
      BY <1>4, <2>1, <3>1, <3>3 DEF Solid
    <3>4. CASE e \notin {d, t}
      BY <2>1, <3>1, <3>4 DEF Solid
    <3> QED BY <3>2, <3>3, <3>4
  <2>5. Unharmed(vol.id)' => vol.id \in wanted /\ dirs[d].data = vol.id /\ dirs[d].id = vol.id
    <3>1. SUFFICES ASSUME Unharmed(vol.id)'
                   PROVE  vol.id \in wanted /\ dirs[d].data = vol.id /\ dirs[d].id = vol.id
      OBVIOUS
    <3>2. Unharmed(vol.id)
      BY <2>3, <3>1
    <3>3. Finds(p)
      BY <1>2, <3>2 DEF VolumesInv, Heeds
    <3>4. vol.id \in wanted /\ dirs[d].data = vol.id
      BY <1>2, <1>3, <1>5, <2>1, <3>3 DEF Finds
    <3> QED BY <3>2, <3>4, WholeDir
  <2>6. ASSUME NEW id \in Ids \ {vol.id}, Unharmed(id)'
        PROVE  dirs[d].data # id /\ dirs[d].id # id /\ dirs[t].id # id
    <3>1. Unharmed(id) /\ id \notin Astray(p) /\ dirs[t].data # id
      BY <2>3, <2>6
    <3>2. dirs[d].data # id
      BY <1>2, <1>3, <1>5, <3>1, Missed
    <3> QED BY <3>1, <3>2, OwnId
  <2>7. Moved(p) /\ Fits(p)
    <3>1. ASSUME NEW id \in Ids \ {vol.id}, calls[p].sure, calls[p].key = id, Unharmed(id)'
          PROVE  /\ dirs'[<<id, 1>>] = NoDir
                 /\ ~calls[p].first => \A e \in DirNames : dirs'[e].id = id => e \in calls[p].left
      <4>1. Search(p) /\ Unharmed(id)
        BY <2>3, <3>1, SureKey
      <4>2. ~calls[p].first
        BY <1>2, <1>5, <3>1, <4>1 DEF Search
      <4>3. dirs'[<<id, 1>>] = NoDir
        BY <1>5, <2>3, <3>1, <4>1, <4>2 DEF Search
      <4>4. ASSUME NEW e \in DirNames, dirs'[e].id = id
            PROVE  e \in calls[p].left
        <5>1. e \notin {d, t}
          BY <2>1, <2>6, <3>1, <4>4, NoneApart DEF NoDir
        <5>2. dirs[e].id = id
          BY <2>1, <4>4, <5>1
        <5> QED BY <1>1, <1>5, <3>1, <4>1, <4>2, <5>2 DEF Search
      <4> QED BY <4>3, <4>4
    <3>2. Unharmed(vol.id)' => vol.id \in wanted' /\ dirs'[t].data = vol.id /\ t # <<vol.id, 1>>
      BY <1>1, <1>3, <1>5, <2>1, <2>5
    <3> QED BY <1>1, <1>5, <1>7, <3>1, <3>2, ResolveFits
  <2>8. \A q \in Procs \ {p} : calls'[q] = calls[q]
    BY <2>7 DEF Moved
  <2>9. ASSUME NEW id \in Ids \ {vol.id}, Unharmed(id)'
        PROVE  Whole(id)' /\ Mounted(id)' /\ \A q \in Procs \ {p} : Heeds(q, id)'
    <3>1. /\ Unharmed(id) /\ dirs[t].data # id /\ dirs[t].id # id
          /\ dirs[d].data # id /\ dirs[d].id # id
      BY <2>3, <2>6, <2>9
    <3>2. NoDir.data # id /\ NoDir.id # id /\ dirs[t] # Bare(id) /\ dirs[d] # Bare(id)
      BY <3>1, NoneApart DEF NoDir, Bare
    <3>3. ASSUME NEW e \in DirNames
          PROVE  /\ dirs'[e].data = id <=> dirs[e].data = id
                 /\ dirs'[e].id = id <=> dirs[e].id = id
                 /\ dirs[e] = Bare(id) => dirs'[e] = dirs[e]
      BY <2>1, <3>1, <3>2
    <3> QED BY <1>1, <2>4, <2>8, <3>1, <3>3, Spared
  <2>10. ASSUME NEW id \in {vol.id}, Unharmed(id)'
         PROVE  Whole(id)' /\ Mounted(id)' /\ \A q \in Procs \ {p} : Heeds(q, id)'
    <3>1. Unharmed(id) /\ id \in Ids /\ id \in wanted /\ dirs[d].data = id /\ dirs[d].id = id
      BY <2>3, <2>5, <2>10
    <3>2. Whole(id) /\ Mounted(id) /\ \A q \in Procs : Heeds(q, id) /\ Placed(q)
      BY <3>1 DEF VolumesInv
    <3>3. \A e \in DirNames : (dirs[e].data = id => e = d) /\ (dirs[e].id = id => e = d)
      BY <3>1, <3>2 DEF Whole
    <3>4. dirs'[t].data = id /\ dirs'[t].id = id
      BY <2>1, <3>1
    <3>5. \A e \in DirNames : (dirs'[e].data = id => e = t) /\ (dirs'[e].id = id => e = t)
      BY <2>1, <3>1, <3>3, NoneApart DEF NoDir
    <3>6. Whole(id)'
      BY <1>1, <3>1, <3>4, <3>5 DEF Whole
    <3>7. \A m \in mounts : m[2] # id
      <4>1. \A m \in mounts : m[1] \in DirNames
        BY DEF VolumesInv, VolumesTypeOK
      <4> QED BY <1>3, <2>10, <3>2, <3>3, <4>1 DEF Mounted
    <3>8. Mounted(id)'
      BY <1>1, <3>7 DEF Mounted
    <3>9. ASSUME NEW q \in Procs \ {p}
          PROVE  Heeds(q, id)'
      <4>1. ASSUME calls[q].vol.id = id
            PROVE  Finds(q)'
        <5>1. Finds(q)
          BY <3>2, <4>1 DEF Heeds
        <5>2. calls[q].step \notin {"chmod", "write"}
          BY <3>1, <4>1, <5>1 DEF Finds
        <5>3. CASE calls[q].step \notin Working
          BY <2>8, <5>2, <5>3 DEF Finds, Working
        <5>4. CASE calls[q].step \in Working
          <6>1. calls[q].dir \in DirNames
            BY <3>2, <5>4 DEF Placed, Working, Reading
          <6>2. calls[q].dir = d
            BY <1>3, <2>10, <3>3, <4>1, <5>1, <5>4, <6>1 DEF Finds
          <6>3. calls[q].step # "use"
            BY <1>3, <2>10, <4>1, <5>1, <6>2 DEF Finds
          <6> QED BY <1>1, <1>3, <2>1, <2>8, <2>10, <3>1, <4>1, <5>2, <6>2, <6>3 DEF Finds
        <5> QED BY <5>3, <5>4
      <4>2. ASSUME calls[q].sure, calls[q].key = id
            PROVE  Search(q)'
        <5>1. Search(q)
          BY <3>2, <4>2 DEF Heeds
        <5>2. /\ calls[q].step \notin {"readdir", "next"}
              /\ calls[q].first \/ calls[q].step \notin Reading
          BY <1>3, <2>1, <2>10, <4>2, <5>1 DEF Search
        <5> QED BY <2>8, <4>2, <5>1, <5>2 DEF Search
      <4> QED BY <2>8, <4>1, <4>2 DEF Heeds
    <3> QED BY <3>6, <3>8, <3>9
  <2>11. VolumesTypeOK'
    <3>1. dirs' \in [DirNames -> Dir]
      <4>1. NoDir \in Dir
        BY DEF NoDir, Dir
      <4> QED BY <1>1, <1>7, <4>1
    <3> QED BY <1>1, <2>2, <2>7, <3>1 DEF VolumesInv, VolumesTypeOK, Moved
  <2>12. ASSUME NEW id \in Ids, Unharmed(id)'
         PROVE  Whole(id)' /\ Mounted(id)' /\ \A q \in Procs \ {p} : Heeds(q, id)'
    BY <2>9, <2>10, <2>12
  <2> QED BY <1>1, <2>2, <2>4, <2>7, <2>11, <2>12, ChangeKeeps
<1> QED BY <1>2, <1>3, <1>4, <1>6, <1>7 DEF Rename, RenamedTo

---------------------------------------------------------------------------
(* CreateVolume.                                                           *)

\* os.Mkdir makes a directory for a volume that nobody knows yet.
LEMMA MakeDirKeeps ==
  ASSUME VolumesInv, NEW p \in Procs, MakeDir(p)
  PROVE  VolumesInv'
<1>1. /\ calls[p] \in Call /\ Placed(p) /\ calls[p].step = "mkdir" /\ begun' \in Nat
      /\ UNCHANGED <<wanted, deleted, harmed, denied, mounts>>
      /\ dirs \in [DirNames -> Dir] /\ wanted \subseteq Ids
  BY DEF MakeDir, VolumesInv, VolumesTypeOK
<1>2. calls[p].kind = "create" /\ calls[p].key \in Names /\ ~calls[p].first
  BY <1>1 DEF Placed, Creating, Lookups
<1>3. PICK d \in DirNames : d = calls[p].dir /\ d[1] = calls[p].key
  BY <1>1, <1>2 DEF Placed
<1>4. FoundById'
  BY <1>1, StillFound
<1>5. CASE Done(p) /\ UNCHANGED dirs
  BY <1>1, <1>4, <1>5, Ends, LooksOnly
<1>6. CASE d[2] < MaxIndex /\ Set(p, [calls[p] EXCEPT !.dir = <<d[1], d[2] + 1>>]) /\ UNCHANGED dirs
  <2> DEFINE c == [calls[p] EXCEPT !.dir = <<d[1], d[2] + 1>>]
  <2>1. <<d[1], d[2] + 1>> \in DirNames
    <3>1. d[2] \in 1 .. MaxIndex
      BY VolumesAssumption DEF DirNames
    <3>2. d[2] + 1 \in 1 .. MaxIndex
      BY <1>6, <3>1, VolumesAssumption
    <3> QED BY <1>2, <1>3, <3>2 DEF DirNames
  <2>2. c \in Call
    BY <1>1, <2>1 DEF Call
  <2>3. calls' \in [Procs -> Call] /\ calls'[p] = c /\ \A q \in Procs \ {p} : calls'[q] = calls[q]
    BY <1>6, <2>2, SetOne
  <2>4. /\ c.step = "mkdir" /\ c.kind = "create" /\ c.key = calls[p].key /\ c.sure = calls[p].sure
        /\ ~c.first /\ c.dir = <<d[1], d[2] + 1>> /\ c.dir[1] = c.key
    BY <1>1, <1>2, <1>3 DEF Call
  <2> HIDE DEF c
  <2>5. Placed(p)'
    BY <1>1, <1>2, <2>1, <2>3, <2>4 DEF Placed, Reading, Creating, Working
  <2>6. Finds(p)' /\ Search(p)'
    BY <2>3, <2>4 DEF Finds, Search, Reading, Working
  <2>7. Moved(p) /\ Fits(p)
    BY <2>3, <2>4, <2>5, <2>6 DEF Moved, Fits, Heeds
  <2> QED BY <1>1, <1>4, <1>6, <2>7, LooksOnly
<1>7. ASSUME NEW f \in Fresh, Makable(d), dirs' = [dirs EXCEPT ![d] = Bare(f)],
             Set(p, [calls[p] EXCEPT !.step = "chmod", !.vol = [id |-> f, name |-> calls[p].key]])
      PROVE  VolumesInv'
  <2> DEFINE vol == [id |-> f, name |-> calls[p].key]
             c == [calls[p] EXCEPT !.step = "chmod", !.vol = vol]
  <2>1. /\ f \in Ids /\ f \notin wanted \cup deleted \cup harmed /\ f # "none"
        /\ \A e \in DirNames : dirs[e].data # f
        /\ \A q \in Procs : calls[q].vol.id # f
    BY NoneApart DEF Fresh, Ids
  <2>2. vol \in [id: Ids \cup {"none"}, name: Names \cup {"none"}] /\ vol.id = f /\ vol.name = calls[p].key
    BY <1>2, <2>1
  <2> HIDE DEF vol
  <2>3. c \in Call
    BY <1>1, <2>2 DEF Call, Steps, Creating
  <2>4. calls' \in [Procs -> Call] /\ calls'[p] = c /\ \A q \in Procs \ {p} : calls'[q] = calls[q]
    BY <1>7, <2>3, SetOne DEF vol
  <2>5. /\ c.step = "chmod" /\ c.kind = "create" /\ c.key = calls[p].key /\ c.sure = calls[p].sure
        /\ ~c.first /\ c.dir = d /\ c.vol = vol
    BY <1>1, <1>2, <1>3 DEF Call
  <2> HIDE DEF c
  <2>6. /\ dirs'[d] = Bare(f) /\ dirs[d] = NoDir
        /\ \A e \in DirNames \ {d} : dirs'[e] = dirs[e]
    BY <1>1, <1>7 DEF Makable, Exists
  <2>7. Placed(p)'
    BY <1>1, <1>2, <1>3, <2>1, <2>2, <2>4, <2>5 DEF Placed, Reading, Creating, Working
  <2>8. Search(p)'
    BY <2>4, <2>5 DEF Search, Reading, Working
  <2>9. Finds(p)'
    BY <1>1, <1>3, <2>1, <2>2, <2>4, <2>5, <2>6 DEF Finds, Working
  <2>10. CreatorsApart'
    <3>1. CreatorsApart
      BY DEF VolumesInv
    <3>2. \A q \in Procs \ {p} : calls'[q].vol.id # f
      BY <2>1, <2>4
    <3>3. calls'[p].vol.id = f
      BY <2>2, <2>4, <2>5
    <3> QED BY <2>4, <3>1, <3>2, <3>3 DEF CreatorsApart
  <2>11. /\ Bare(f) \in Dir /\ Bare(f).data = f /\ Bare(f).id = "none" /\ Bare(f).meta = "none"
         /\ NoDir.data = "none" /\ NoDir.id = "none"
    BY <2>1 DEF Bare, Dir, NoDir
  <2>12. ASSUME NEW e \in DirNames
         PROVE  Solid(e)'
    <3>1. Solid(e)
      BY DEF VolumesInv
    <3>2. CASE e = d
      BY <1>2, <1>3, <2>1, <2>6, <2>11, <3>2 DEF Solid
    <3>3. CASE e # d
      BY <2>6, <3>1, <3>3 DEF Solid
    <3> QED BY <3>2, <3>3
  <2>13. VolumesTypeOK'
    <3>1. dirs' \in [DirNames -> Dir]
      BY <1>1, <1>7, <2>11
    <3> QED BY <1>1, <2>4, <3>1 DEF VolumesInv, VolumesTypeOK
  <2>14. ASSUME NEW id \in Ids, Unharmed(id)'
         PROVE  Whole(id)' /\ Mounted(id)' /\ \A q \in Procs \ {p} : Heeds(q, id)'
    <3>1. Unharmed(id)
      BY <1>1, <2>14 DEF Unharmed
    <3>2. CASE id # f
      <4>1. NoDir # Bare(id) /\ id # "none"
        BY NoneApart DEF NoDir, Bare
      <4>2. ASSUME NEW e \in DirNames
            PROVE  /\ dirs'[e].data = id <=> dirs[e].data = id
                   /\ dirs'[e].id = id <=> dirs[e].id = id
                   /\ dirs[e] = Bare(id) => dirs'[e] = dirs[e]
        BY <2>6, <2>11, <3>2, <4>1
      <4> QED BY <1>1, <2>4, <2>12, <3>1, <4>2, Spared
    <3>3. CASE id = f
      <4>1. Whole(f) /\ Mounted(f) /\ \A q \in Procs : Heeds(q, f) /\ Placed(q)
        BY <2>1, <3>1, <3>3 DEF VolumesInv
      <4>2. \A e \in DirNames : dirs'[e].data = f => e = d
        BY <2>1, <2>6
      <4>3. \A e \in DirNames : dirs'[e].id # f
        BY <2>1, <2>6, <2>11, <4>1 DEF Whole
      <4>4. Whole(f)'
        BY <1>1, <2>1, <4>2, <4>3 DEF Whole
      <4>5. Mounted(f)'
        BY <1>1, <2>1, <4>1 DEF Mounted
      <4>6. \A q \in Procs \ {p} : calls'[q].vol.id # f
        BY <2>1, <2>4
      <4>7. \A q \in Procs \ {p} : ~(calls'[q].sure /\ calls'[q].key = f)
        BY <2>1, <2>4, <4>1 DEF Placed
      <4>8. \A q \in Procs \ {p} : Heeds(q, f)'
        BY <4>6, <4>7 DEF Heeds
      <4> QED BY <3>3, <4>4, <4>5, <4>8
    <3> QED BY <3>2, <3>3
  <2>15. \A id \in Ids : Heeds(p, id)'
    BY <2>8, <2>9 DEF Heeds
  <2>16. /\ wanted \subseteq wanted' /\ deleted \subseteq deleted' /\ harmed \subseteq harmed'
         /\ \A q \in Procs \ {p} : calls'[q] = calls[q]
    BY <1>1, <2>4
  <2> QED BY <1>4, <2>7, <2>10, <2>12, <2>13, <2>14, <2>15, <2>16, StepKeeps
<1> QED BY <1>3, <1>5, <1>6, <1>7 DEF MakeDir

\* What is removed is nothing of a volume that the call does not mean.
LEMMA RemovedSpares ==
  ASSUME VolumesInv, NEW p \in Procs, calls[p].step \in {"chmod", "write", "use"}, RemoveAll(p),
         deleted \subseteq deleted', UNCHANGED <<wanted, mounts>>
  PROVE  /\ dirs' \in [DirNames -> Dir] /\ \A d \in DirNames : Solid(d)'
         /\ harmed' \subseteq Ids /\ harmed \subseteq harmed' /\ Moved(p) /\ Fits(p)
         /\ \A id \in Ids : Unharmed(id)' /\ id # calls[p].vol.id =>
              Whole(id)' /\ Mounted(id)' /\ \A q \in Procs \ {p} : Heeds(q, id)'
         /\ calls[p].dir \in DirNames /\ dirs'[calls[p].dir] = NoDir
         /\ \A e \in DirNames : e # calls[p].dir => dirs'[e] = dirs[e]
<1>1. PICK d \in DirNames : d = calls[p].dir
  BY DEF VolumesInv, Placed, Creating
<1>2. /\ dirs \in [DirNames -> Dir] /\ harmed \subseteq Ids /\ Done(p)
      /\ dirs' = [dirs EXCEPT ![d] = NoDir] /\ harmed' = harmed \cup Astray(p)
  BY <1>1 DEF RemoveAll, VolumesInv, VolumesTypeOK
<1>3. /\ dirs'[d] = NoDir /\ \A e \in DirNames \ {d} : dirs'[e] = dirs[e]
      /\ NoDir \in Dir
  BY <1>2 DEF NoDir, Dir
<1>4. dirs' \in [DirNames -> Dir]
  BY <1>2, <1>3
<1>5. ASSUME NEW e \in DirNames
      PROVE  Solid(e)'
  <2>1. Solid(e)
    BY DEF VolumesInv
  <2> QED BY <1>3, <2>1 DEF Solid
<1>6. Astray(p) \subseteq Ids
  <2>1. dirs[d] \in Dir
    BY <1>2
  <2> QED BY <1>1, <2>1 DEF Astray, Dir
<1>7. Moved(p) /\ Fits(p)
  BY <1>2, Ends
<1>8. ASSUME NEW id \in Ids, Unharmed(id)', id # calls[p].vol.id
      PROVE  Whole(id)' /\ Mounted(id)' /\ \A q \in Procs \ {p} : Heeds(q, id)'
  <2>1. Unharmed(id) /\ id \notin Astray(p)
    BY <1>2, <1>8 DEF Unharmed
  <2>2. dirs[d].data # id
    BY <1>1, <1>8, <2>1, Missed DEF Working
  <2>3. dirs[d].id # id
    BY <2>1, <2>2, OwnId
  <2>4. NoDir.data # id /\ NoDir.id # id /\ dirs[d] # Bare(id)
    BY <2>2, NoneApart DEF NoDir, Bare
  <2>5. ASSUME NEW e \in DirNames
        PROVE  /\ dirs'[e].data = id <=> dirs[e].data = id
               /\ dirs'[e].id = id <=> dirs[e].id = id
               /\ dirs[e] = Bare(id) => dirs'[e] = dirs[e]
    BY <1>3, <2>2, <2>3, <2>4
  <2>6. \A q \in Procs \ {p} : calls'[q] = calls[q]
    BY <1>7 DEF Moved
  <2> QED BY <1>5, <2>1, <2>5, <2>6, Spared
<1> QED BY <1>1, <1>2, <1>3, <1>4, <1>5, <1>6, <1>7, <1>8

\* A volume that is being made is nothing to anybody else.
LEMMA UnbornAlone ==
  ASSUME VolumesInv, NEW p \in Procs, calls[p].step \in {"chmod", "write"},
         NEW u \in Ids, u = calls[p].vol.id, Unharmed(u)
  PROVE  /\ dirs[calls[p].dir] = Bare(u) /\ u \notin wanted
         /\ \A d \in DirNames : dirs[d].id # u /\ (dirs[d].data = u => d = calls[p].dir)
         /\ \A m \in mounts : m[2] # u
         /\ \A q \in Procs \ {p} :
              /\ calls[q].vol.id = u => calls[q].step \notin {"chmod", "write"} \cup Working
              /\ ~(calls[q].sure /\ calls[q].key = u)
<1>1. Finds(p) /\ Whole(u) /\ Mounted(u) /\ CreatorsApart /\ \A q \in Procs : Placed(q) /\ Heeds(q, u)
  BY DEF VolumesInv, Heeds
<1>2. dirs[calls[p].dir] = Bare(u) /\ u \notin wanted
  BY <1>1 DEF Finds
<1>3. calls[p].dir \in DirNames
  BY <1>1 DEF Placed, Creating
<1>4. \A d \in DirNames : dirs[d].id # u /\ (dirs[d].data = u => d = calls[p].dir)
  BY <1>1, <1>2, <1>3 DEF Whole, Bare
<1>5. \A m \in mounts : m[2] # u
  BY <1>1, <1>2 DEF Mounted
<1>6. ASSUME NEW q \in Procs \ {p}
      PROVE  /\ calls[q].vol.id = u => calls[q].step \notin {"chmod", "write"} \cup Working
             /\ ~(calls[q].sure /\ calls[q].key = u)
  <2>1. calls[q].vol.id = u => calls[q].step \notin {"chmod", "write"}
    BY <1>1 DEF CreatorsApart
  <2>2. calls[q].vol.id = u => calls[q].step \notin Working
    BY <1>1, <1>2 DEF Heeds, Finds
  <2>3. ~(calls[q].sure /\ calls[q].key = u)
    BY <1>1, <1>2 DEF Placed
  <2> QED BY <2>1, <2>2, <2>3
<1> QED BY <1>2, <1>4, <1>5, <1>6

\* A create that removes its directory again.
LEMMA UndoneKeeps ==
  ASSUME VolumesInv, NEW p \in Procs, calls[p].step \in {"chmod", "write"}, RemoveAll(p),
         begun' \in Nat, UNCHANGED <<wanted, deleted, denied, mounts>>
  PROVE  VolumesInv'
<1>1. /\ dirs' \in [DirNames -> Dir] /\ \A d \in DirNames : Solid(d)'
      /\ harmed' \subseteq Ids /\ harmed \subseteq harmed' /\ Moved(p) /\ Fits(p)
      /\ \A id \in Ids : Unharmed(id)' /\ id # calls[p].vol.id =>
           Whole(id)' /\ Mounted(id)' /\ \A q \in Procs \ {p} : Heeds(q, id)'
      /\ dirs'[calls[p].dir] = NoDir
      /\ \A e \in DirNames : e # calls[p].dir => dirs'[e] = dirs[e]
  BY RemovedSpares
<1>2. ASSUME NEW id \in Ids, Unharmed(id)', id = calls[p].vol.id
      PROVE  Whole(id)' /\ Mounted(id)' /\ \A q \in Procs \ {p} : Heeds(q, id)'
  <2>1. Unharmed(id)
    BY <1>1, <1>2 DEF Unharmed
  <2>2. /\ id \notin wanted /\ \A m \in mounts : m[2] # id
        /\ \A d \in DirNames : dirs[d].id # id /\ (dirs[d].data = id => d = calls[p].dir)
        /\ \A q \in Procs \ {p} :
             /\ calls[q].vol.id = id => calls[q].step \notin {"chmod", "write"} \cup Working
             /\ ~(calls[q].sure /\ calls[q].key = id)
    BY <1>2, <2>1, UnbornAlone
  <2>3. \A d \in DirNames : dirs'[d].id # id /\ dirs'[d].data # id
    BY <1>1, <2>2, NoneApart DEF NoDir
  <2>4. Whole(id)' /\ Mounted(id)'
    BY <2>2, <2>3 DEF Whole, Mounted
  <2>5. \A q \in Procs \ {p} : calls'[q] = calls[q]
    BY <1>1 DEF Moved
  <2>6. ASSUME NEW q \in Procs \ {p}
        PROVE  Heeds(q, id)'
    BY <2>2, <2>5 DEF Heeds, Finds, Working
  <2> QED BY <2>4, <2>6
<1>3. VolumesTypeOK'
  BY <1>1 DEF VolumesInv, VolumesTypeOK, Moved
<1>4. \A id \in Ids : Unharmed(id)' =>
        Whole(id)' /\ Mounted(id)' /\ \A q \in Procs \ {p} : Heeds(q, id)'
  BY <1>1, <1>2
<1> QED BY <1>1, <1>3, <1>4, ChangeKeeps

\* os.Chmod.
LEMMA ChmodKeeps ==
  ASSUME VolumesInv, NEW p \in Procs, Chmod(p)
  PROVE  VolumesInv'
<1>1. /\ calls[p] \in Call /\ Placed(p) /\ calls[p].step = "chmod" /\ begun' \in Nat
      /\ UNCHANGED <<wanted, deleted, denied, mounts>>
  BY DEF Chmod, VolumesInv, VolumesTypeOK
<1>2. CASE RemoveAll(p)
  BY <1>1, <1>2, UndoneKeeps
<1>3. CASE Set(p, [calls[p] EXCEPT !.step = "write"]) /\ UNCHANGED <<dirs, harmed>>
  <2> DEFINE c == [calls[p] EXCEPT !.step = "write"]
  <2>1. c \in Call
    BY <1>1 DEF Call, Steps, Creating
  <2>2. calls' \in [Procs -> Call] /\ calls'[p] = c /\ \A q \in Procs \ {p} : calls'[q] = calls[q]
    BY <1>3, <2>1, SetOne
  <2>3. /\ c.step = "write" /\ c.kind = calls[p].kind /\ c.key = calls[p].key /\ c.sure = calls[p].sure
        /\ c.first = calls[p].first /\ c.dir = calls[p].dir /\ c.vol = calls[p].vol
    BY <1>1 DEF Call
  <2> HIDE DEF c
  <2>4. ~calls[p].first
    BY <1>1 DEF Placed, Reading
  <2>5. Placed(p)'
    BY <1>1, <2>2, <2>3, <2>4 DEF Placed, Reading, Creating, Working
  <2>6. ASSUME NEW id \in Ids, Unharmed(id)'
        PROVE  Heeds(p, id)'
    <3>1. Heeds(p, id)
      BY <1>1, <1>3, <2>6 DEF VolumesInv, Unharmed
    <3>2. calls[p].vol.id = id => Finds(p)'
      BY <1>1, <1>3, <2>2, <2>3, <3>1 DEF Heeds, Finds, Working
    <3>3. Search(p)'
      BY <2>2, <2>3, <2>4 DEF Search, Reading, Working
    <3> QED BY <2>2, <2>3, <3>2, <3>3 DEF Heeds
  <2>7. FoundById'
    BY <1>1, <1>3, StillFound
  <2>8. Moved(p) /\ Fits(p)
    BY <1>1, <2>2, <2>3, <2>5, <2>6 DEF Moved, Fits
  <2> QED BY <1>1, <1>3, <2>7, <2>8, LooksOnly
<1> QED BY <1>2, <1>3 DEF Chmod

\* The create is answered.
LEMMA WriteVolumeMetadataKeeps ==
  ASSUME VolumesInv, NEW p \in Procs, WriteVolumeMetadata(p)
  PROVE  VolumesInv'
<1>1. /\ calls[p] \in Call /\ Placed(p) /\ calls[p].step = "write" /\ begun' \in Nat
      /\ UNCHANGED <<deleted, denied, mounts>>
  BY DEF WriteVolumeMetadata, VolumesInv, VolumesTypeOK
<1>2. CASE RemoveAll(p) /\ UNCHANGED wanted
  BY <1>1, <1>2, UndoneKeeps
<1>3. CASE Describe(p, calls[p].vol) /\ wanted' = wanted \cup {calls[p].vol.id} /\ Done(p)
  <2>1. PICK d \in DirNames : d = calls[p].dir
    BY <1>1 DEF Placed, Creating
  <2>2. PICK u \in Ids : u = calls[p].vol.id
    BY <1>1 DEF Placed
  <2>3. /\ dirs' \in [DirNames -> Dir] /\ \A e \in DirNames : Solid(e)'
        /\ harmed' \subseteq Ids /\ harmed \subseteq harmed'
    BY <1>1, <1>3, DescribedSolid
  <2>4. /\ dirs'[d].id = u /\ dirs'[d].data = dirs[d].data
        /\ \A e \in DirNames \ {d} : dirs'[e] = dirs[e]
    <3>1. dirs \in [DirNames -> Dir]
      BY DEF VolumesInv, VolumesTypeOK
    <3> QED BY <1>3, <2>1, <2>2, <3>1 DEF Describe, Dir
  <2>5. Moved(p) /\ Fits(p) /\ \A q \in Procs \ {p} : calls'[q] = calls[q]
    BY <1>3, Ends DEF Moved
  <2>6. ASSUME NEW id \in Ids \ {u}, Unharmed(id)'
        PROVE  Whole(id)' /\ Mounted(id)' /\ \A q \in Procs \ {p} : Heeds(q, id)'
    <3>1. id \in wanted' <=> id \in wanted
      BY <1>3, <2>2, <2>6
    <3> QED BY <1>1, <1>3, <2>2, <2>3, <2>5, <2>6, <3>1, OthersSpared
  <2>7. ASSUME NEW id \in {u}, Unharmed(id)'
        PROVE  Whole(id)' /\ Mounted(id)' /\ \A q \in Procs \ {p} : Heeds(q, id)'
    <3>1. Unharmed(id)
      BY <1>1, <2>3, <2>7 DEF Unharmed
    <3>2. /\ dirs[d] = Bare(id) /\ id \notin wanted /\ \A m \in mounts : m[2] # id
          /\ \A e \in DirNames : dirs[e].id # id /\ (dirs[e].data = id => e = d)
          /\ \A q \in Procs \ {p} :
               /\ calls[q].vol.id = id => calls[q].step \notin {"chmod", "write"} \cup Working
               /\ ~(calls[q].sure /\ calls[q].key = id)
      BY <1>1, <2>1, <2>2, <2>7, <3>1, UnbornAlone
    <3>3. dirs'[d].id = id /\ dirs'[d].data = id
      BY <2>4, <2>7, <3>2 DEF Bare
    <3>4. \A e \in DirNames \ {d} : dirs'[e].id # id /\ dirs'[e].data # id
      BY <2>4, <3>2
    <3>5. Whole(id)' /\ Mounted(id)'
      BY <1>1, <1>3, <2>2, <2>7, <3>2, <3>3, <3>4 DEF Whole, Mounted
    <3>6. ASSUME NEW q \in Procs \ {p}
          PROVE  Heeds(q, id)'
      BY <2>5, <3>2 DEF Heeds, Finds, Working
    <3> QED BY <3>5, <3>6
  <2>8. VolumesTypeOK'
    BY <1>1, <1>3, <2>2, <2>3, <2>5 DEF VolumesInv, VolumesTypeOK, Moved
  <2>9. \A id \in Ids : Unharmed(id)' =>
          Whole(id)' /\ Mounted(id)' /\ \A q \in Procs \ {p} : Heeds(q, id)'
    BY <2>6, <2>7
  <2>10. wanted \subseteq wanted' /\ deleted \subseteq deleted'
    BY <1>1, <1>3
  <2> QED BY <1>1, <2>3, <2>5, <2>8, <2>9, <2>10, ChangeKeeps
<1> QED BY <1>2, <1>3 DEF WriteVolumeMetadata

---------------------------------------------------------------------------
(* What a lookup is for.                                                   *)

\* DeleteVolume removes its volume, or one whose place it has taken.
LEMMA RemoveDirKeeps ==
  ASSUME VolumesInv, NEW p \in Procs, RemoveDir(p)
  PROVE  VolumesInv'
<1>1. /\ Placed(p) /\ calls[p].step = "use" /\ begun' \in Nat /\ RemoveAll(p)
      /\ deleted' = deleted \cup {calls[p].vol.id} /\ deleted \subseteq Ids
      /\ UNCHANGED <<wanted, denied, mounts>>
  BY DEF RemoveDir, VolumesInv, VolumesTypeOK
<1>2. /\ dirs' \in [DirNames -> Dir] /\ \A d \in DirNames : Solid(d)'
      /\ harmed' \subseteq Ids /\ harmed \subseteq harmed' /\ Moved(p) /\ Fits(p)
      /\ \A id \in Ids : Unharmed(id)' /\ id # calls[p].vol.id =>
           Whole(id)' /\ Mounted(id)' /\ \A q \in Procs \ {p} : Heeds(q, id)'
  BY <1>1, RemovedSpares
<1>3. \A id \in Ids : Unharmed(id)' => id # calls[p].vol.id
  BY <1>1 DEF Unharmed
<1>4. VolumesTypeOK'
  <2>1. calls[p].vol.id \in Ids
    BY <1>1 DEF Placed, Working
  <2> QED BY <1>1, <1>2, <2>1 DEF VolumesInv, VolumesTypeOK, Moved
<1> QED BY <1>1, <1>2, <1>3, <1>4, ChangeKeeps

\* What is mounted is the volume that was resolved.
LEMMA AddMountKeeps ==
  ASSUME VolumesInv, NEW p \in Procs, AddMount(p)
  PROVE  VolumesInv'
<1>1. /\ Placed(p) /\ calls[p].step = "use" /\ begun' \in Nat /\ Done(p)
      /\ mounts' = mounts \cup {<<calls[p].dir, calls[p].vol.id>>}
      /\ UNCHANGED <<dirs, wanted, deleted, harmed, denied>>
  BY DEF AddMount, VolumesInv, VolumesTypeOK
<1>2. calls[p].dir \in DirNames /\ calls[p].vol.id \in Ids
  BY <1>1 DEF Placed, Working
<1>3. Moved(p) /\ Fits(p) /\ \A q \in Procs \ {p} : calls'[q] = calls[q]
  BY <1>1, Ends DEF Moved
<1>4. ASSUME NEW id \in Ids, Unharmed(id)'
      PROVE  Whole(id)' /\ Mounted(id)' /\ \A q \in Procs \ {p} : Heeds(q, id)'
  <2>1. Whole(id) /\ Mounted(id) /\ \A q \in Procs : Heeds(q, id)
    BY <1>1, <1>4 DEF VolumesInv, Unharmed
  <2>2. Whole(id)'
    BY <1>1, <2>1 DEF Whole
  <2>3. calls[p].vol.id = id =>
          id \in wanted /\ dirs[calls[p].dir].data = id /\ calls[p].dir # <<id, 1>>
    BY <1>1, <2>1 DEF Heeds, Finds, Working
  <2>4. ASSUME NEW m \in mounts', m[2] = id
        PROVE  id \in wanted /\ dirs[m[1]].data = id /\ m[1] # <<id, 1>>
    <3>1. CASE m \in mounts
      BY <2>1, <2>4, <3>1 DEF Mounted
    <3>2. CASE m = <<calls[p].dir, calls[p].vol.id>>
      BY <2>3, <2>4, <3>2
    <3> QED BY <1>1, <3>1, <3>2
  <2>5. Mounted(id)'
    BY <1>1, <2>4 DEF Mounted
  <2>6. ASSUME NEW q \in Procs \ {p}
        PROVE  Heeds(q, id)'
    BY <1>1, <1>3, <2>1 DEF Heeds, Finds, Search
  <2> QED BY <2>2, <2>5, <2>6
<1>5. VolumesTypeOK'
  BY <1>1, <1>2, <1>3 DEF VolumesInv, VolumesTypeOK, Moved
<1>6. \A d \in DirNames : Solid(d)'
  BY <1>1 DEF VolumesInv, Solid
<1> QED BY <1>1, <1>3, <1>4, <1>5, <1>6, ChangeKeeps

\* What was on disk stays.
LEMMA CrashKeeps ==
  ASSUME VolumesInv, Crash
  PROVE  VolumesInv'
<1>1. /\ calls' = [p \in Procs |-> Idle] /\ begun' = begun
      /\ UNCHANGED <<dirs, wanted, deleted, harmed, denied, mounts>>
  BY DEF Crash
<1>2. \A p \in Procs : calls'[p] = Idle
  BY <1>1
<1>3. Idle \in Call
  BY VolumesAssumption DEF Idle, Call, Steps, Nothing
<1>4. VolumesTypeOK'
  BY <1>1, <1>3 DEF VolumesInv, VolumesTypeOK
<1>5. \A d \in DirNames : Solid(d)'
  BY <1>1 DEF VolumesInv, Solid
<1>6. \A p \in Procs : Placed(p)' /\ \A id \in Ids : Heeds(p, id)'
  BY <1>2, IdleFits
<1>7. CreatorsApart'
  BY <1>2 DEF CreatorsApart, Idle
<1>8. ASSUME NEW id \in Ids, Unharmed(id)'
      PROVE  Whole(id)' /\ Mounted(id)'
  <2>1. Whole(id) /\ Mounted(id)
    BY <1>1, <1>8 DEF VolumesInv, Unharmed
  <2> QED BY <1>1, <2>1 DEF Whole, Mounted
<1>9. FoundById'
  BY <1>1, StillFound
<1> QED BY <1>4, <1>5, <1>6, <1>7, <1>8, <1>9 DEF VolumesInv

---------------------------------------------------------------------------
(* The theorems.                                                           *)

\* What older versions left is sound: one directory for every volume, named by its id
\* or by its name.
LEMMA VolumesInit == Init => VolumesInv
<1> SUFFICES ASSUME Init
             PROVE  VolumesInv
  OBVIOUS
<1>1. PICK place \in [LegacyIds -> DirNames] :
        /\ \A id \in LegacyIds : place[id] \in {<<id, 1>>, <<LegacyName[id], 1>>}
        /\ \A id, other \in LegacyIds : place[id] = place[other] => id = other
        /\ dirs = [d \in DirNames |->
             IF \E id \in LegacyIds : place[id] = d
             THEN LET id == CHOOSE i \in LegacyIds : place[i] = d
                  IN [meta |-> "older", id |-> id, name |-> LegacyName[id], data |-> id]
             ELSE NoDir]
  BY DEF Init
<1>2. ASSUME NEW id \in LegacyIds
      PROVE  /\ place[id] \in DirNames
             /\ dirs[place[id]] = [meta |-> "older", id |-> id, name |-> LegacyName[id], data |-> id]
             /\ dirs[place[id]].id = id /\ dirs[place[id]].data = id
  <2>1. place[id] \in DirNames /\ (CHOOSE i \in LegacyIds : place[i] = place[id]) = id
    BY <1>1
  <2>2. dirs[place[id]] = [meta |-> "older", id |-> id, name |-> LegacyName[id], data |-> id]
    BY <1>1, <2>1
  <2> QED BY <2>1, <2>2
<1>3. \A d \in DirNames : (\A id \in LegacyIds : place[id] # d) => dirs[d] = NoDir
  BY <1>1
<1>4. /\ calls = [p \in Procs |-> Idle] /\ begun = 0 /\ wanted = LegacyIds
      /\ deleted = {} /\ harmed = {} /\ denied = {} /\ mounts = {}
  BY DEF Init
<1>5. ASSUME NEW d \in DirNames
      PROVE  /\ Solid(d) /\ dirs[d] \in Dir
             /\ \A i \in Ids : dirs[d].data = i \/ dirs[d].id = i =>
                  i \in LegacyIds /\ d = place[i] /\ dirs[d].data = i
  <2>1. CASE \E id \in LegacyIds : place[id] = d
    <3>1. PICK id \in LegacyIds : place[id] = d
      BY <2>1
    <3>2. /\ dirs[d] = [meta |-> "older", id |-> id, name |-> LegacyName[id], data |-> id]
          /\ LegacyName[id] \in Names /\ id \in Ids
      BY <1>2, <3>1, VolumesAssumption DEF Ids
    <3>3. d[1] \notin Names => d[1] = id
      BY <1>1, <3>1, <3>2
    <3>4. /\ dirs[d].meta = "older" /\ dirs[d].id = id /\ dirs[d].name = LegacyName[id]
          /\ dirs[d].data = id
      BY <3>2
    <3>5. dirs[d] \in Dir
      BY <3>2 DEF Dir
    <3> QED BY <3>1, <3>2, <3>3, <3>4, <3>5 DEF Solid
  <2>2. CASE \A id \in LegacyIds : place[id] # d
    <3>1. dirs[d] = NoDir
      BY <1>3, <2>2
    <3>2. Solid(d) /\ NoDir \in Dir
      BY <3>1 DEF Solid, Dir, NoDir
    <3>3. NoDir.data = "none" /\ NoDir.id = "none"
      BY DEF NoDir
    <3> QED BY <3>1, <3>2, <3>3, NoneApart
  <2> QED BY <2>1, <2>2
<1>6. Idle \in Call
  BY VolumesAssumption DEF Idle, Call, Steps, Nothing
<1>7. VolumesTypeOK
  <2>1. dirs \in [DirNames -> Dir]
    BY <1>1, <1>5
  <2>2. calls \in [Procs -> Call]
    BY <1>4, <1>6
  <2> QED BY <1>4, <2>1, <2>2 DEF VolumesTypeOK, Ids
<1>8. ASSUME NEW id \in Ids
      PROVE  Whole(id) /\ Mounted(id)
  <2>1. Whole(id)
    <3>1. \A d, e \in DirNames : dirs[d].data = id /\ dirs[e].data = id => d = e
      <4>1. \A d \in DirNames : dirs[d].data = id => d = place[id]
        BY <1>5
      <4> QED BY <4>1
    <3>2. \A d \in DirNames : dirs[d].id = id => dirs[d].data = id /\ id \in wanted
      BY <1>4, <1>5
    <3>3. id \in wanted => \E d \in DirNames : dirs[d].id = id
      BY <1>2, <1>4
    <3> QED BY <3>1, <3>2, <3>3 DEF Whole
  <2> QED BY <1>4, <2>1 DEF Mounted
<1>9. ASSUME NEW p \in Procs
      PROVE  Placed(p) /\ \A id \in Ids : Heeds(p, id)
  <2>1. calls[p] = Idle
    BY <1>4
  <2>2. /\ Idle.step = "none" /\ Idle.kind = "idle" /\ ~Idle.first /\ ~Idle.sure
    BY DEF Idle
  <2>3. Placed(p)
    BY <2>1, <2>2 DEF Placed, Creating, Reading, Working
  <2> QED BY <2>1, <2>2, <2>3 DEF Heeds, Finds, Working
<1>10. CreatorsApart
  BY <1>4 DEF CreatorsApart, Idle
<1>11. FoundById
  BY <1>4 DEF FoundById
<1> QED BY <1>5, <1>7, <1>8, <1>9, <1>10, <1>11 DEF VolumesInv

\* Nothing changes.
LEMMA VolumesStutter ==
  ASSUME VolumesInv, UNCHANGED vars
  PROVE  VolumesInv'
<1>1. UNCHANGED <<dirs, calls, begun, wanted, deleted, harmed, denied, mounts>>
  BY DEF vars
<1>2. VolumesTypeOK' /\ CreatorsApart' /\ \A d \in DirNames : Solid(d)'
  BY <1>1 DEF VolumesInv, VolumesTypeOK, CreatorsApart, Solid
<1>3. \A p \in Procs : Placed(p)'
  BY <1>1 DEF VolumesInv, Placed, Target
<1>4. ASSUME NEW id \in Ids, Unharmed(id)'
      PROVE  Whole(id)' /\ Mounted(id)' /\ \A p \in Procs : Heeds(p, id)'
  <2>1. Whole(id) /\ Mounted(id) /\ \A p \in Procs : Heeds(p, id)
    BY <1>1, <1>4 DEF VolumesInv, Unharmed
  <2>2. Whole(id)' /\ Mounted(id)'
    BY <1>1, <2>1 DEF Whole, Mounted
  <2>3. \A p \in Procs : Heeds(p, id)'
    BY <1>1, <2>1 DEF Heeds, Finds, Search
  <2> QED BY <2>2, <2>3
<1>5. FoundById'
  BY <1>1, StillFound
<1> QED BY <1>2, <1>3, <1>4, <1>5 DEF VolumesInv

\* Every step keeps the invariant.
LEMMA VolumesStep == VolumesInv /\ [Next]_vars => VolumesInv'
<1> SUFFICES ASSUME VolumesInv, [Next]_vars
             PROVE  VolumesInv'
  OBVIOUS
<1>1. CASE UNCHANGED vars
  BY <1>1, VolumesStutter
<1>2. CASE Crash
  BY <1>2, CrashKeeps
<1>3. ASSUME NEW p \in Procs, Arrive(p)
      PROVE  VolumesInv'
  <2>1. ASSUME NEW n \in Names, CreateBegins(p, n)
        PROVE  VolumesInv'
    <3>1. /\ Begin(p, "create", n, "mkdir")
          /\ UNCHANGED <<dirs, wanted, deleted, harmed, denied, mounts>>
      BY <2>1 DEF CreateBegins
    <3> QED BY <3>1, BeginKeeps DEF Lookups
  <2>2. CASE ListBegins(p)
    <3>1. /\ Begin(p, "list", "none", "readdir")
          /\ UNCHANGED <<dirs, wanted, deleted, harmed, denied, mounts>>
      BY <2>2 DEF ListBegins
    <3> QED BY <3>1, BeginKeeps DEF Lookups
  <2>3. ASSUME NEW kind \in Lookups, NEW key \in Ids \cup Names, LookupBegins(p, kind, key)
        PROVE  VolumesInv'
    <3>1. /\ Begin(p, kind, key, IF Exists(<<key, 1>>) THEN "read" ELSE "readdir")
          /\ UNCHANGED <<dirs, wanted, deleted, harmed, denied, mounts>>
      BY <2>3 DEF LookupBegins
    <3>2. CASE Exists(<<key, 1>>)
      BY <3>1, <3>2, BeginKeeps DEF Lookups
    <3>3. CASE ~Exists(<<key, 1>>)
      BY <3>1, <3>3, BeginKeeps DEF Lookups, Exists
    <3> QED BY <3>2, <3>3
  <2> QED BY <1>3, <2>1, <2>2, <2>3 DEF Arrive, Lookups
<1>4. ASSUME NEW p \in Procs, CallStep(p)
      PROVE  VolumesInv'
  <2>1. CASE MakeDir(p) \/ Chmod(p) \/ WriteVolumeMetadata(p)
    BY <2>1, MakeDirKeeps, ChmodKeeps, WriteVolumeMetadataKeeps
  <2>2. CASE ReadDir(p) \/ NextEntry(p)
    BY <2>2, ReadDirKeeps, NextEntryKeeps
  <2>3. CASE ReadMetadata(p) \/ ReadOlderMetadata(p) \/ RewriteMetadata(p)
    BY <2>3, ReadMetadataKeeps, ReadOlderMetadataKeeps, RewriteMetadataKeeps
  <2>4. CASE ChooseTarget(p) \/ LstatTarget(p) \/ Rename(p)
    BY <2>4, ChooseTargetKeeps, LstatTargetKeeps, RenameKeeps
  <2>5. CASE RemoveDir(p) \/ AddMount(p)
    BY <2>5, RemoveDirKeeps, AddMountKeeps
  <2> QED BY <1>4, <2>1, <2>2, <2>3, <2>4, <2>5 DEF CallStep
<1> QED BY <1>1, <1>2, <1>3, <1>4 DEF Next

\* The invariant, without a condition on names, on the order of calls or on what a
\* rename meets: each volume's own history says whether it was harmed.
THEOREM VolumesCorrect == Spec => []VolumesInv
<1>1. Init => VolumesInv
  BY VolumesInit
<1>2. VolumesInv /\ [Next]_vars => VolumesInv'
  BY VolumesStep
<1> QED BY <1>1, <1>2, PTL DEF Spec

\* VolumesKept: a volume whose create was answered stays in exactly one directory until
\* a delete, a rename over it or a call that came too late takes it.
THEOREM VolumesAreKept == Spec => []VolumesKept
<1>1. VolumesInv => VolumesKept
  <2> SUFFICES ASSUME VolumesInv, NEW id \in wanted, Unharmed(id)
               PROVE  /\ Cardinality(Home(id)) = 1
                      /\ \A d \in DirNames : dirs[d].id = id => d \in Home(id)
    BY DEF VolumesKept
  <2>1. id \in Ids /\ Whole(id)
    BY DEF VolumesInv, VolumesTypeOK
  <2>2. PICK d \in DirNames : dirs[d].id = id /\ dirs[d].data = id
    BY <2>1 DEF Whole
  <2>3. Home(id) = {d}
    BY <2>1, <2>2 DEF Home, Whole
  <2>4. Cardinality(Home(id)) = 1
    BY <2>3, FS_Singleton
  <2> QED BY <2>1, <2>4 DEF Home, Whole
<1> QED BY <1>1, VolumesCorrect, PTL

\* FoundById: a lookup by id does not miss a volume that another call migrates
\* meanwhile.
THEOREM IdsAreFound == Spec => []FoundById
<1>1. VolumesInv => FoundById
  BY DEF VolumesInv
<1> QED BY <1>1, VolumesCorrect, PTL

\* MountedIsVolume: what is mounted is the directory of the volume.
THEOREM MountsAreVolumes == Spec => []MountedIsVolume
<1>1. VolumesInv => MountedIsVolume
  <2> SUFFICES ASSUME VolumesInv, NEW m \in mounts, Unharmed(m[2])
               PROVE  m[1] \in Home(m[2])
    BY DEF MountedIsVolume
  <2>1. m[1] \in DirNames /\ m[2] \in Ids
    BY DEF VolumesInv, VolumesTypeOK
  <2>2. m[2] \in wanted /\ dirs[m[1]].data = m[2]
    BY <2>1 DEF VolumesInv, Mounted
  <2> QED BY <2>1, <2>2, WholeDir DEF Home
<1> QED BY <1>1, VolumesCorrect, PTL

===========================================================================
