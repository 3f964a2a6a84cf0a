-------------------------- MODULE TemplatesProofs --------------------------
(***************************************************************************)
(* Theorems about templates.                                               *)
(*                                                                         *)
(* TemplateBuilds, for any finite set of requests, any templates and       *)
(* builds and any limit: what the templateBuildManager promises rests on   *)
(* one invariant, that its table is exactly the tasks that have not        *)
(* completed.  TemplateUploads: the second part of the module.             *)
(***************************************************************************)
EXTENDS TemplateBuilds, TemplateUploads, FiniteSetTheorems, TLAPS

---------------------------------------------------------------------------
(* The table of tasks.                                                     *)

\* A request that has found its template knows its key.
Keyed == \A r \in Requests : req[r].phase \in {"found"} \cup InFlight => req[r].key \in Keys

Tasks == {r \in Requests : req[r].phase \in InFlight}

\* templateBuildManager: active has the tasks in flight, wg counts them, no two
\* have one key, and after shutdown there is none.
Table ==
  /\ active = Tasks
  /\ wg = Cardinality(active)
  /\ Cardinality(active) <= MaxConcurrent
  /\ \A q, r \in active : req[q].key = req[r].key => q = r
  /\ stopping = "returned" => active = {}

BuildsInv == TypeOK /\ Keyed /\ Table

\* The tasks are finitely many.
LEMMA TasksFinite == IsFiniteSet(Tasks) /\ Cardinality(Tasks) \in Nat
<1>1. Tasks \subseteq Requests
  BY DEF Tasks
<1>2. IsFiniteSet(Tasks)
  BY <1>1, BuildsAssumption, FS_Subset
<1> QED BY <1>2, FS_CardinalityType

\* A step that neither starts nor ends a task, nor changes the key of one.
LEMMA SameTasks ==
  ASSUME Table, active' = active, wg' = wg, stopping' = stopping,
         \A r \in Requests : req'[r].phase \in InFlight <=> req[r].phase \in InFlight,
         \A r \in Requests : req[r].phase \in InFlight => req'[r].key = req[r].key
  PROVE  Table'
<1>1. Tasks' = Tasks
  BY DEF Tasks
<1>2. \A r \in active : req'[r].key = req[r].key
  BY DEF Table, Tasks
<1> QED BY <1>1, <1>2 DEF Table

---------------------------------------------------------------------------
(* Types.                                                                  *)

\* What is written to the management store has its type.
LEMMA UpsertType ==
  ASSUME TypeOK, NEW t \in Templates, NEW b \in Builds \cup {NoBuild}, NEW status \in Status,
         UpsertTemplate(t, b, status)
  PROVE  /\ templates' \in [Templates -> [build: Builds \cup {NoBuild}, status: Status,
                                          builds: [Builds -> Status]]]
         /\ deleted' \subseteq Templates
<1>1. [x \in Builds |-> IF x = b THEN status ELSE templates[t].builds[x]] \in [Builds -> Status]
  BY DEF TypeOK
<1> QED BY <1>1 DEF TypeOK, UpsertTemplate

\* A deleted template has its type.
LEMMA DeleteType ==
  ASSUME TypeOK, NEW t \in Templates, DeleteTemplate(t)
  PROVE  /\ templates' \in [Templates -> [build: Builds \cup {NoBuild}, status: Status,
                                          builds: [Builds -> Status]]]
         /\ deleted' \subseteq Templates
<1>1. NoTemplate \in [build: Builds \cup {NoBuild}, status: Status, builds: [Builds -> Status]]
  BY DEF NoTemplate, Status
<1> QED BY <1>1 DEF TypeOK, DeleteTemplate

Request == [phase: {"new", "found", "done"} \cup InFlight, kind: {"none"} \cup RequestKinds,
            key: Keys \cup {<<NoBuild, NoBuild>>}, build: Builds \cup {NoBuild},
            status: Status, cancelled: BOOLEAN]

\* A request that has not arrived, or is answered, has its type.
LEMMA BlankType == Blank("new") \in Request /\ Blank("done") \in Request
BY DEF Blank, Request, Status, RequestKinds

\* A request that is answered keeps the others' types and keys, and is no task.
LEMMA DoneType ==
  ASSUME TypeOK, Keyed, NEW r \in Requests, req' = Done(r)
  PROVE  /\ req' \in [Requests -> Request]
         /\ Keyed'
         /\ \A x \in Requests \ {r} : req'[x] = req[x]
         /\ req'[r].phase \notin InFlight
<1>1. req \in [Requests -> Request]
  BY DEF TypeOK, Request
<1>2. req' \in [Requests -> Request]
  BY <1>1, BlankType DEF Done
<1>3. \A x \in Requests \ {r} : req'[x] = req[x]
  BY <1>1 DEF Done
<1>4. req'[r].phase = "done"
  BY <1>1 DEF Done, Blank
<1>5. "done" \notin {"found"} \cup InFlight
  BY DEF InFlight
<1> QED BY <1>2, <1>3, <1>4, <1>5 DEF Keyed

---------------------------------------------------------------------------
(* The steps.                                                              *)

\* Templates is what UpsertTemplate and DeleteTemplate write; the rest of the types.
StoreTypes ==
  /\ images \subseteq Templates
  /\ templates \in [Templates -> [build: Builds \cup {NoBuild}, status: Status,
                                  builds: [Builds -> Status]]]
  /\ deleted \subseteq Templates

\* The invariant from its parts, for a step that answers a request that is no task.
LEMMA AnswerKeeps ==
  ASSUME BuildsInv, NEW r \in Requests, req[r].phase \notin InFlight, req' = Done(r),
         UNCHANGED <<active, wg, stopping>>, StoreTypes'
  PROVE  BuildsInv'
<1>1. /\ req' \in [Requests -> Request]
      /\ Keyed'
      /\ \A x \in Requests \ {r} : req'[x] = req[x]
      /\ req'[r].phase \notin InFlight
  BY DoneType DEF BuildsInv
<1>2. Table'
  BY <1>1, SameTasks DEF BuildsInv
<1>3. TypeOK'
  BY <1>1 DEF BuildsInv, TypeOK, StoreTypes, Request
<1> QED BY <1>1, <1>2, <1>3 DEF BuildsInv

\* The phases outside InFlight.
LEMMA Phases == "new" \notin InFlight /\ "found" \notin InFlight /\ "done" \notin InFlight
BY DEF InFlight

\* A new template.
LEMMA CreateKeeps ==
  ASSUME BuildsInv, NEW r \in Requests, NEW t \in Templates, NEW b \in Builds, Create(r, t, b)
  PROVE  BuildsInv'
<1>1. StoreTypes'
  BY UpsertType DEF BuildsInv, TypeOK, Create, StoreTypes, Status
<1> QED BY <1>1, AnswerKeeps, Phases DEF Create

\* A template found.
LEMMA FindKeeps ==
  ASSUME BuildsInv, NEW r \in Requests, NEW k \in Kinds, NEW t \in Templates,
         NEW b \in Builds \cup {NoBuild}, Find(r, k, t, b)
  PROVE  BuildsInv'
<1>1. <<t, b>> \in Keys /\ k \in RequestKinds
  BY BuildsAssumption DEF Keys
<1>2. templates[t].build \in Builds \cup {NoBuild} /\ templates[t].status \in Status /\ "ready" \in Status
  BY DEF BuildsInv, TypeOK, Status
<1>3. req \in [Requests -> Request]
  BY DEF BuildsInv, TypeOK, Request
<1>. DEFINE copy == Copy(k, t, b)
<1>4. copy \in Request /\ copy.phase = "found" /\ copy.key = <<t, b>>
  BY <1>1, <1>2 DEF Copy, Request
<1>. HIDE DEF copy
<1>5. req' = [req EXCEPT ![r] = copy]
  BY DEF Find, copy
<1>6. TypeOK'
  BY <1>3, <1>4, <1>5 DEF BuildsInv, TypeOK, Request, Find
<1>7. Keyed'
  BY <1>1, <1>3, <1>4, <1>5 DEF BuildsInv, Keyed
<1>8. req[r].phase \notin InFlight /\ req'[r].phase \notin InFlight
      /\ \A x \in Requests \ {r} : req'[x] = req[x]
  BY <1>3, <1>4, <1>5, Phases DEF Find
<1>9. Table'
  BY <1>8, SameTasks DEF BuildsInv, Find
<1> QED BY <1>6, <1>7, <1>9 DEF BuildsInv

\* The copy written back.
LEMMA WriteBackKeeps ==
  ASSUME BuildsInv, NEW r \in Requests, WriteBack(r)
  PROVE  BuildsInv'
<1>1. req[r].key \in Keys
  BY DEF BuildsInv, Keyed, WriteBack
<1>2. req[r].key[1] \in Templates /\ req[r].key[2] \in Builds \cup {NoBuild}
  BY <1>1 DEF Keys
<1>3. req[r].build \in Builds \cup {NoBuild} /\ req[r].status \in Status /\ "ready" \in Status
  BY DEF BuildsInv, TypeOK, Status
<1>4. StoreTypes'
  BY <1>2, <1>3, UpsertType DEF BuildsInv, TypeOK, WriteBack, StoreTypes
<1> QED BY <1>4, AnswerKeeps, Phases DEF WriteBack

\* A template deleted.
LEMMA DeleteKeeps ==
  ASSUME BuildsInv, NEW r \in Requests, Delete(r)
  PROVE  BuildsInv'
<1>1. req[r].key[1] \in Templates
  BY DEF BuildsInv, Keyed, Delete, Keys
<1>2. StoreTypes'
  BY <1>1, DeleteType DEF BuildsInv, TypeOK, Delete, StoreTypes
<1> QED BY <1>2, AnswerKeeps, Phases DEF Delete

\* A build whose files are missing.
LEMMA UploadMissingKeeps ==
  ASSUME BuildsInv, NEW r \in Requests, UploadMissing(r)
  PROVE  BuildsInv'
<1>1. StoreTypes'
  BY DEF BuildsInv, TypeOK, UploadMissing, StoreTypes
<1> QED BY <1>1, AnswerKeeps, Phases DEF UploadMissing

\* A task reserved, or its request refused.
LEMMA ReserveKeeps ==
  ASSUME BuildsInv, NEW r \in Requests, Reserve(r)
  PROVE  BuildsInv'
<1>1. StoreTypes'
  BY DEF BuildsInv, TypeOK, Reserve, StoreTypes
<1>2. CASE ~Reservable(req[r].key)
  BY <1>1, <1>2, AnswerKeeps, Phases DEF Reserve
<1>3. CASE Reservable(req[r].key)
  <2>1. req \in [Requests -> Request] /\ "reserved" \in InFlight
    BY DEF BuildsInv, TypeOK, Request, InFlight
  <2>2. /\ active' = active \cup {r} /\ wg' = wg + 1 /\ stopping' = stopping
        /\ req' = [req EXCEPT ![r].phase = "reserved"]
    BY <1>3 DEF Reserve
  <2>3. /\ req' \in [Requests -> Request]
        /\ req'[r].phase = "reserved"
        /\ \A x \in Requests : req'[x].key = req[x].key
        /\ \A x \in Requests \ {r} : req'[x] = req[x]
    BY <2>1, <2>2 DEF Request
  <2>4. r \notin active /\ Tasks' = Tasks \cup {r}
    BY <2>1, <2>3, Phases DEF BuildsInv, Table, Tasks, Reserve
  <2>5. Cardinality(active') = Cardinality(active) + 1 /\ Cardinality(active) \in Nat
    BY <2>2, <2>4, TasksFinite, FS_AddElement DEF BuildsInv, Table
  <2>6. stopping = "no" /\ Cardinality(active) < MaxConcurrent /\ \A x \in active : req[x].key # req[r].key
    BY <1>3 DEF Reservable
  <2>7. \A x, y \in active' : req'[x].key = req'[y].key => x = y
    BY <2>2, <2>3, <2>6 DEF BuildsInv, Table, Tasks
  <2>8. Table'
    BY <2>2, <2>4, <2>5, <2>6, <2>7, BuildsAssumption DEF BuildsInv, Table
  <2>9. Keyed'
    BY <2>3 DEF BuildsInv, Keyed, Reserve
  <2>10. TypeOK'
    BY <1>1, <2>2, <2>3 DEF BuildsInv, TypeOK, StoreTypes, Request
  <2> QED BY <2>8, <2>9, <2>10 DEF BuildsInv
<1> QED BY <1>2, <1>3

\* A step of a task that stays one: its request changes phase and status only.
LEMMA TaskKeeps ==
  ASSUME BuildsInv, NEW r \in Requests, req[r].phase \in InFlight,
         NEW phase \in InFlight, NEW status \in Status,
         req' = [req EXCEPT ![r].phase = phase, ![r].status = status],
         UNCHANGED <<active, wg, stopping>>, StoreTypes'
  PROVE  BuildsInv'
<1>1. req \in [Requests -> Request]
  BY DEF BuildsInv, TypeOK, Request
<1>2. req' \in [Requests -> Request]
  BY <1>1 DEF Request
<1>3. \A x \in Requests : req'[x].key = req[x].key /\ req'[x].phase \in {req[x].phase, phase}
  BY <1>1 DEF Request
<1>4. req'[r].phase = phase /\ \A x \in Requests \ {r} : req'[x] = req[x]
  BY <1>1 DEF Request
<1>5. Table'
  BY <1>3, <1>4, SameTasks DEF BuildsInv
<1>6. Keyed'
  BY <1>3, <1>4 DEF BuildsInv, Keyed
<1>7. TypeOK'
  BY <1>2 DEF BuildsInv, TypeOK, StoreTypes, Request
<1> QED BY <1>5, <1>6, <1>7 DEF BuildsInv

\* A request with its own status again is the same request.
LEMMA SameStatus ==
  ASSUME TypeOK, NEW r \in Requests, NEW phase
  PROVE  [req EXCEPT ![r].phase = phase] = [req EXCEPT ![r].phase = phase, ![r].status = req[r].status]
BY DEF TypeOK

\* The template and build a task is for.
LEMMA TaskKey ==
  ASSUME BuildsInv, NEW r \in Requests, req[r].phase \in InFlight
  PROVE  /\ req[r].key[1] \in Templates /\ req[r].key[2] \in Builds \cup {NoBuild}
         /\ req[r].status \in Status
<1>1. req[r].key \in Keys
  BY DEF BuildsInv, Keyed
<1> QED BY <1>1 DEF BuildsInv, TypeOK, Keys

\* The build recorded as building.
LEMMA StartBuildKeeps ==
  ASSUME BuildsInv, NEW r \in Requests, StartBuild(r)
  PROVE  BuildsInv'
<1>1. req[r].phase \in InFlight /\ "building" \in InFlight /\ "building" \in Status
  BY DEF StartBuild, InFlight, Status
<1>2. StoreTypes'
  BY <1>1, TaskKey, UpsertType DEF BuildsInv, TypeOK, StartBuild, StoreTypes
<1>3. req[r].status \in Status
  BY <1>1, TaskKey
<1>4. req' = [req EXCEPT ![r].phase = "building", ![r].status = req[r].status]
  <2>1. req' = [req EXCEPT ![r].phase = "building"]
    BY DEF StartBuild
  <2>2. TypeOK
    BY DEF BuildsInv
  <2> QED BY <2>1, <2>2, SameStatus
<1>5. UNCHANGED <<active, wg, stopping>>
  BY DEF StartBuild
<1> QED BY <1>1, <1>2, <1>3, <1>4, <1>5, TaskKeeps

\* The runtime's answer.
LEMMA BuildReturnsKeeps ==
  ASSUME BuildsInv, NEW r \in Requests, BuildReturns(r)
  PROVE  BuildsInv'
<1>1. req[r].phase \in InFlight /\ "saving" \in InFlight
  BY DEF BuildReturns, InFlight
<1>2. PICK outcome \in BuildOutcome(r) :
        req' = [req EXCEPT ![r].phase = "saving", ![r].status = outcome]
  BY DEF BuildReturns
<1>3. outcome \in Status
  BY <1>2 DEF BuildOutcome, Status
<1>4. StoreTypes'
  BY <1>1, TaskKey DEF BuildsInv, TypeOK, BuildReturns, StoreTypes
<1> QED BY <1>1, <1>2, <1>3, <1>4, TaskKeeps DEF BuildReturns

\* The outcome recorded.
LEMMA SaveOutcomeKeeps ==
  ASSUME BuildsInv, NEW r \in Requests, SaveOutcome(r)
  PROVE  BuildsInv'
<1>1. req[r].phase \in InFlight /\ "completing" \in InFlight
  BY DEF SaveOutcome, InFlight
<1>2. StoreTypes'
  BY <1>1, TaskKey, UpsertType DEF BuildsInv, TypeOK, SaveOutcome, StoreTypes
<1>3. req[r].status \in Status
  BY <1>1, TaskKey
<1>4. req' = [req EXCEPT ![r].phase = "completing", ![r].status = req[r].status]
  <2>1. req' = [req EXCEPT ![r].phase = "completing"]
    BY DEF SaveOutcome
  <2>2. TypeOK
    BY DEF BuildsInv
  <2> QED BY <2>1, <2>2, SameStatus
<1>5. UNCHANGED <<active, wg, stopping>>
  BY DEF SaveOutcome
<1> QED BY <1>1, <1>2, <1>3, <1>4, <1>5, TaskKeeps

\* The task leaves the table.
LEMMA CompleteKeeps ==
  ASSUME BuildsInv, NEW r \in Requests, Complete(r)
  PROVE  BuildsInv'
<1>1. /\ req' \in [Requests -> Request]
      /\ Keyed'
      /\ \A x \in Requests \ {r} : req'[x] = req[x]
      /\ req'[r].phase \notin InFlight
  BY DoneType DEF BuildsInv, Complete
<1>2. r \in Tasks
  BY DEF Complete, Tasks, InFlight
<1>3. Tasks' = Tasks \ {r}
  BY <1>1 DEF Tasks
<1>4. active' = active \ {r} /\ wg' = wg - 1 /\ stopping' = stopping
  BY DEF Complete
<1>5. Cardinality(active') = Cardinality(active) - 1 /\ Cardinality(active) \in Nat /\ Cardinality(active') \in Nat
  <2>1. Cardinality(Tasks \ {r}) = Cardinality(Tasks) - 1 /\ IsFiniteSet(Tasks \ {r})
    BY <1>2, TasksFinite, FS_RemoveElement
  <2>2. Cardinality(Tasks \ {r}) \in Nat
    BY <2>1, FS_CardinalityType
  <2> QED BY <1>4, <2>1, <2>2, TasksFinite DEF BuildsInv, Table
<1>6. \A x, y \in active' : req'[x].key = req'[y].key => x = y
  BY <1>1, <1>4 DEF BuildsInv, Table, Tasks
<1>7. Table'
  BY <1>3, <1>4, <1>5, <1>6, BuildsAssumption DEF BuildsInv, Table
<1>8. TypeOK'
  BY <1>1, <1>4, <1>5 DEF BuildsInv, TypeOK, Table, Complete, Request
<1> QED BY <1>1, <1>7, <1>8 DEF BuildsInv

\* A cancellation sets flags, and answers its own request.
LEMMA CancelKeeps ==
  ASSUME BuildsInv, NEW r \in Requests, CancelTeamBuilds(r)
  PROVE  BuildsInv'
<1>1. Done(r) \in [Requests -> Request] /\ req \in [Requests -> Request]
  BY BlankType DEF BuildsInv, TypeOK, Request, Done
<1>2. \A x \in Requests : req'[x] = IF x \in active THEN [req[x] EXCEPT !.cancelled = TRUE] ELSE Done(r)[x]
  BY DEF CancelTeamBuilds
<1>3. \A x \in active : /\ [req[x] EXCEPT !.cancelled = TRUE] \in Request
                        /\ req'[x].phase = req[x].phase /\ req'[x].key = req[x].key
  BY <1>1, <1>2 DEF BuildsInv, TypeOK, Request
<1>4. req' \in [Requests -> Request]
  BY <1>1, <1>3 DEF CancelTeamBuilds
<1>5. r \notin active /\ req'[r].phase = "done"
  BY <1>1, <1>2, Phases DEF BuildsInv, Table, Tasks, CancelTeamBuilds, Done, Blank
<1>6. \A x \in Requests \ {r} : req'[x].phase = req[x].phase /\ req'[x].key = req[x].key
  BY <1>1, <1>2, <1>3 DEF Done
<1>7. Table'
  BY <1>5, <1>6, SameTasks, Phases DEF BuildsInv, CancelTeamBuilds, CancelledActive
<1>8. Keyed'
  BY <1>5, <1>6, Phases DEF BuildsInv, Keyed
<1>9. TypeOK'
  BY <1>4 DEF BuildsInv, TypeOK, CancelTeamBuilds, CancelledActive, Request
<1> QED BY <1>7, <1>8, <1>9 DEF BuildsInv

\* Shutdown sets flags, and waits for the wait group.
LEMMA ShutdownKeeps ==
  ASSUME BuildsInv, ShutdownBegins \/ ShutdownReturns
  PROVE  BuildsInv'
<1>1. CASE ShutdownBegins
  <2>1. req \in [Requests -> Request]
    BY DEF BuildsInv, TypeOK, Request
  <2>2. req' \in [Requests -> Request]
    BY <1>1, <2>1 DEF ShutdownBegins, Request
  <2>3. \A x \in Requests : req'[x].phase = req[x].phase /\ req'[x].key = req[x].key
    BY <1>1, <2>1 DEF ShutdownBegins, Request
  <2>4. Tasks' = Tasks
    BY <2>3 DEF Tasks
  <2>5. Table'
    BY <1>1, <2>3, <2>4 DEF BuildsInv, Table, Tasks, ShutdownBegins
  <2>6. Keyed'
    BY <2>3 DEF BuildsInv, Keyed
  <2>7. TypeOK'
    BY <1>1, <2>2 DEF BuildsInv, TypeOK, ShutdownBegins, Request
  <2> QED BY <2>5, <2>6, <2>7 DEF BuildsInv
<1>2. CASE ShutdownReturns
  <2>1. active = {}
    BY <1>2, TasksFinite, FS_EmptySet DEF BuildsInv, Table, ShutdownReturns
  <2>2. Tasks' = Tasks
    BY <1>2 DEF Tasks, ShutdownReturns
  <2> QED BY <1>2, <2>1, <2>2 DEF BuildsInv, TypeOK, Keyed, Table, ShutdownReturns
<1> QED BY <1>1, <1>2

---------------------------------------------------------------------------
(* The theorems.                                                           *)

\* The invariant holds in the first state.
LEMMA InitInv == Init => BuildsInv
<1> SUFFICES ASSUME Init PROVE BuildsInv
  OBVIOUS
<1>1. req \in [Requests -> Request]
  BY BlankType DEF Init
<1>2. NoTemplate \in [build: Builds \cup {NoBuild}, status: Status, builds: [Builds -> Status]]
  BY DEF NoTemplate, Status
<1>3. TypeOK
  BY <1>1, <1>2 DEF Init, TypeOK, Request
<1>4. \A r \in Requests : req[r].phase = "new"
  BY DEF Init, Blank
<1>5. Keyed /\ Tasks = {}
  BY <1>4, Phases DEF Keyed, Tasks
<1>6. Cardinality({}) = 0
  BY FS_EmptySet
<1>7. Table
  BY <1>5, <1>6, BuildsAssumption DEF Table, Init
<1> QED BY <1>3, <1>5, <1>7 DEF BuildsInv

\* Every step keeps it.
LEMMA NextInv == BuildsInv /\ [Next]_vars => BuildsInv'
<1> SUFFICES ASSUME BuildsInv, [Next]_vars PROVE BuildsInv'
  OBVIOUS
<1>1. ASSUME NEW r \in Requests, Arrive(r) PROVE BuildsInv'
  BY <1>1, CreateKeeps, FindKeeps, CancelKeeps DEF Arrive
<1>2. ASSUME NEW r \in Requests, Proceed(r) PROVE BuildsInv'
  BY <1>2, WriteBackKeeps, DeleteKeeps, ReserveKeeps, UploadMissingKeeps, StartBuildKeeps,
     BuildReturnsKeeps, SaveOutcomeKeeps, CompleteKeeps DEF Proceed
<1>3. CASE UNCHANGED vars
  BY <1>3 DEF vars, BuildsInv, TypeOK, Keyed, Table, Tasks
<1> QED BY <1>1, <1>2, <1>3, ShutdownKeeps DEF Next

\* In every reachable state.
LEMMA Invariant == Spec => []BuildsInv
BY InitInv, NextInv, PTL DEF Spec

\* What handlers and goroutines write to the store, the table and the wait group has
\* its type; in particular the wait group is never told Done more often than Add.
THEOREM TypeCorrect == Spec => []TypeOK
<1>1. BuildsInv => TypeOK
  BY DEF BuildsInv
<1> QED BY <1>1, Invariant, PTL

\* reserve: the goroutines that really build never exceed maxConcurrent, whatever is
\* cancelled and however many starts race.
THEOREM CapacityKept == Spec => []WithinCapacity
<1>1. BuildsInv => WithinCapacity
  BY DEF BuildsInv, Table, Tasks, WithinCapacity
<1> QED BY <1>1, Invariant, PTL

\* reserve: a build of a template never runs twice at once.
THEOREM NeverTwice == Spec => []OneTaskPerBuild
<1>1. BuildsInv => OneTaskPerBuild
  BY DEF BuildsInv, Table, Tasks, OneTaskPerBuild
<1> QED BY <1>1, Invariant, PTL

\* shutdown: after it has returned no goroutine of a build is left.
THEOREM QuietAfter == Spec => []QuietAfterShutdown
<1>1. BuildsInv => QuietAfterShutdown
  BY DEF BuildsInv, Table, Tasks, QuietAfterShutdown
<1> QED BY <1>1, Invariant, PTL
---------------------------------------------------------------------------
(***************************************************************************)
(* Uploads, for any PUTs, tokens, keys, contents and builds.  Everything   *)
(* rests on one fact: a file is stored by a PUT that was accepted, with    *)
(* the content that was validated for its key, and nobody removes the file *)
(* of an accepted PUT that is stored.                                      *)
(***************************************************************************)

---------------------------------------------------------------------------
(* The invariant.                                                          *)

PutPhases == {"new", "reading", "validating", "committing", "accepted", "refused"}

UploadsTypeOK ==
  /\ clock \in 0 .. MaxTime
  /\ uploads \in [Tokens -> Upload]
  /\ files \in [FileKeys -> Puts \cup {NoPut}]
  /\ disk \in [Puts -> SUBSET Contents]
  /\ put \in [Puts -> [phase: PutPhases, tokens: SUBSET Tokens, keys: SUBSET FileKeys]]
  /\ held \in [Builders -> [path: Puts \cup {NoPut}, keys: SUBSET FileKeys]]

\* The content of p's file is valid and has the hash of k.
Good(p, k) == disk[p] # {} /\ disk[p] \subseteq Expected[k] \ Malformed

\* A PUT has a file only between its body and its outcome, and what it is about to
\* store is good for its key.
Temporaries ==
  \A p \in Puts :
    /\ put[p].phase \in {"new", "reading", "refused"} => disk[p] = {}
    /\ put[p].phase \in {"reading", "validating", "committing", "accepted"} =>
         (\E t \in Tokens : put[p].tokens = {t}) /\ (\E k \in FileKeys : put[p].keys = {k})
    /\ put[p].phase \in {"validating", "committing"} => disk[p] # {}
    /\ put[p].phase = "committing" => \A k \in put[p].keys : Good(p, k)
    /\ put[p].phase = "accepted" /\ disk[p] # {} => \E k \in FileKeys : files[k] = p

\* templateFiles has whole, valid files of accepted PUTs.
Stored ==
  \A k \in FileKeys : files[k] # NoPut => put[files[k]].phase = "accepted" /\ Good(files[k], k)

\* What a build start was given is still what the key has.
HeldIsStored ==
  \A b \in Builders : held[b].path # NoPut =>
    \E k \in FileKeys : held[b].keys = {k} /\ files[k] = held[b].path

\* The token of an accepted PUT is gone from templateUploads.
UsedIsGone ==
  \A p \in Puts : put[p].phase = "accepted" =>
    \A t \in put[p].tokens : uploads[t].known = "gone"

UploadsInv ==
  /\ UploadsTypeOK /\ Temporaries /\ Stored /\ HeldIsStored
  /\ UsedIsGone /\ TokenUsedOnce

---------------------------------------------------------------------------
(* What the helpers do to the tokens.                                      *)

\* Gone and Swept keep the type, and no token that is gone comes back.
LEMMA TokensGo ==
  ASSUME UploadsTypeOK, NEW t \in Tokens, uploads' \in {uploads, Gone(t), Swept(t)}
  PROVE  /\ uploads' \in [Tokens -> Upload]
         /\ \A u \in Tokens : uploads[u].known = "gone" => uploads'[u].known = "gone"
<1>1. Gone(t) \in [Tokens -> Upload]
  BY DEF UploadsTypeOK, Gone, Upload
<1>2. \A u \in Tokens : uploads[u].known = "gone" => Gone(t)[u].known = "gone"
  BY DEF UploadsTypeOK, Gone, Upload
<1>3. Swept(t) \in {uploads, Gone(t)}
  BY DEF Swept
<1> QED BY <1>1, <1>2, <1>3 DEF UploadsTypeOK

\* A token that is used up is gone.
LEMMA UsedUp ==
  ASSUME UploadsTypeOK, NEW t \in Tokens
  PROVE  Gone(t)[t].known = "gone"
BY DEF UploadsTypeOK, Gone, Upload

---------------------------------------------------------------------------
(* The steps.                                                              *)

\* A step of p that ends in a phase with nothing stored: it keeps the stored files
\* and leaves the other PUTs and their files alone.
LEMMA OwnStep ==
  ASSUME UploadsInv, NEW p \in Puts, NEW t \in Tokens,
         put[p].phase # "accepted",
         put' \in [Puts -> [phase: PutPhases, tokens: SUBSET Tokens, keys: SUBSET FileKeys]],
         \A q \in Puts \ {p} : put'[q] = put[q],
         put'[p].phase # "accepted",
         disk' \in [Puts -> SUBSET Contents],
         \A q \in Puts \ {p} : disk'[q] = disk[q],
         uploads' \in {uploads, Gone(t), Swept(t)},
         put'[p].phase \in {"new", "reading", "refused"} => disk'[p] = {},
         put'[p].phase \in {"reading", "validating", "committing"} =>
           (\E u \in Tokens : put'[p].tokens = {u}) /\ (\E k \in FileKeys : put'[p].keys = {k}),
         put'[p].phase \in {"validating", "committing"} => disk'[p] # {},
         put'[p].phase = "committing" =>
           \A k \in put'[p].keys : disk'[p] \subseteq Expected[k] \ Malformed,
         UNCHANGED <<clock, files, held>>
  PROVE  UploadsInv'
<1>1. \A k \in FileKeys : files[k] # p /\ files[k] \in Puts \cup {NoPut}
  BY UploadsAssumption DEF UploadsInv, UploadsTypeOK, Stored
<1>2. UploadsTypeOK'
  BY TokensGo DEF UploadsInv, UploadsTypeOK
<1>3. Temporaries'
  BY <1>1 DEF UploadsInv, Temporaries, Good
<1>4. Stored'
  BY <1>1 DEF UploadsInv, Stored, Good
<1>5. HeldIsStored'
  BY DEF UploadsInv, HeldIsStored
<1>6. UsedIsGone'
  BY TokensGo DEF UploadsInv, UsedIsGone, UploadsTypeOK
<1>7. TokenUsedOnce'
  BY DEF UploadsInv, TokenUsedOnce
<1> QED BY <1>2, <1>3, <1>4, <1>5, <1>6, <1>7 DEF UploadsInv

\* A new token.
LEMMA CreateUploadKeeps ==
  ASSUME UploadsInv, NEW t \in Tokens, NEW k \in FileKeys, CreateTemplateFileUpload(t, k)
  PROVE  UploadsInv'
<1>1. ExpiresAt \in 0 .. MaxTime + TokenLife
  BY UploadsAssumption DEF ExpiresAt, UploadsInv, UploadsTypeOK
<1>2. uploads' \in [Tokens -> Upload]
  BY <1>1 DEF CreateTemplateFileUpload, UploadsInv, UploadsTypeOK, Upload
<1>3. \A u \in Tokens : uploads[u].known = "gone" => uploads'[u] = uploads[u]
  BY DEF CreateTemplateFileUpload, UploadsInv, UploadsTypeOK
<1>4. UsedIsGone'
  BY <1>3 DEF CreateTemplateFileUpload, UploadsInv, UsedIsGone, UploadsTypeOK
<1> QED
  BY <1>2, <1>4 DEF CreateTemplateFileUpload, UploadsInv, UploadsTypeOK, Temporaries, Stored,
     HeldIsStored, TokenUsedOnce, Good

\* The first critical section.
LEMMA PutBeginsKeeps ==
  ASSUME UploadsInv, NEW p \in Puts, NEW t \in Tokens, NEW k \in FileKeys, PutBegins(p, t, k)
  PROVE  UploadsInv'
<1>1. disk[p] = {} /\ put[p].phase = "new"
  BY DEF PutBegins, UploadsInv, Temporaries
<1>2. put'[p].phase \in {"reading", "refused"}
      /\ (put'[p].phase = "reading" => put'[p].tokens = {t} /\ put'[p].keys = {k})
      /\ \A q \in Puts \ {p} : put'[q] = put[q]
  BY DEF PutBegins, UploadsInv, UploadsTypeOK
<1>3. put' \in [Puts -> [phase: PutPhases, tokens: SUBSET Tokens, keys: SUBSET FileKeys]]
  BY DEF PutBegins, UploadsInv, UploadsTypeOK, PutPhases
<1>4. uploads' \in {uploads, Gone(t), Swept(t)} /\ disk' = disk
  BY DEF PutBegins
<1>5. UNCHANGED <<clock, files, held>>
  BY DEF PutBegins
<1> QED
  BY <1>1, <1>2, <1>3, <1>4, <1>5, OwnStep DEF UploadsInv, UploadsTypeOK

\* A step that only moves a PUT to another phase.
LEMMA PhaseMoves ==
  ASSUME UploadsTypeOK, NEW p \in Puts, NEW phase \in PutPhases,
         put' = [put EXCEPT ![p].phase = phase]
  PROVE  /\ put' \in [Puts -> [phase: PutPhases, tokens: SUBSET Tokens, keys: SUBSET FileKeys]]
         /\ put'[p].phase = phase
         /\ put'[p].tokens = put[p].tokens
         /\ put'[p].keys = put[p].keys
         /\ \A q \in Puts \ {p} : put'[q] = put[q]
BY DEF UploadsTypeOK

\* The body.
LEMMA BodyReadKeeps ==
  ASSUME UploadsInv, NEW p \in Puts, BodyRead(p)
  PROVE  UploadsInv'
<1>1. put[p].phase = "reading" /\ disk[p] = {}
  BY DEF BodyRead, UploadsInv, Temporaries
<1>2. /\ \E u \in Tokens : put[p].tokens = {u}
      /\ \E k \in FileKeys : put[p].keys = {k}
  BY <1>1 DEF UploadsInv, Temporaries
<1>3. UNCHANGED <<clock, files, held>> /\ uploads' = uploads
  BY DEF BodyRead
<1>4. ASSUME NEW c \in Contents, disk' = [disk EXCEPT ![p] = {c}],
             put' = [put EXCEPT ![p].phase = "validating"]
      PROVE  UploadsInv'
  <2>1. /\ disk' \in [Puts -> SUBSET Contents]
        /\ \A q \in Puts \ {p} : disk'[q] = disk[q]
        /\ disk'[p] # {}
    BY <1>4 DEF UploadsInv, UploadsTypeOK
  <2>2. /\ put' \in [Puts -> [phase: PutPhases, tokens: SUBSET Tokens, keys: SUBSET FileKeys]]
        /\ put'[p].phase = "validating"
        /\ put'[p].tokens = put[p].tokens /\ put'[p].keys = put[p].keys
        /\ \A q \in Puts \ {p} : put'[q] = put[q]
    BY <1>4, PhaseMoves DEF UploadsInv, PutPhases
  <2> QED
    BY <1>1, <1>2, <1>3, <1>4, <2>1, <2>2, OwnStep
<1>5. ASSUME disk' = disk, put' = [put EXCEPT ![p].phase = "refused"]
      PROVE  UploadsInv'
  <2>1. disk \in [Puts -> SUBSET Contents]
    BY DEF UploadsInv, UploadsTypeOK
  <2>2. /\ put' \in [Puts -> [phase: PutPhases, tokens: SUBSET Tokens, keys: SUBSET FileKeys]]
        /\ put'[p].phase = "refused"
        /\ put'[p].tokens = put[p].tokens /\ put'[p].keys = put[p].keys
        /\ \A q \in Puts \ {p} : put'[q] = put[q]
    BY <1>5, PhaseMoves DEF UploadsInv, PutPhases
  <2> QED
    BY <1>1, <1>2, <1>3, <1>5, <2>1, <2>2, OwnStep
<1> QED
  BY <1>4, <1>5 DEF BodyRead

\* The validation.
LEMMA ValidateKeeps ==
  ASSUME UploadsInv, NEW p \in Puts, Validate(p)
  PROVE  UploadsInv'
<1>1. put[p].phase = "validating" /\ disk[p] # {}
  BY DEF Validate, UploadsInv, Temporaries
<1>2. PICK phase \in {"committing", "refused"} : put' = [put EXCEPT ![p].phase = phase]
  BY DEF Validate
<1>3. /\ put' \in [Puts -> [phase: PutPhases, tokens: SUBSET Tokens, keys: SUBSET FileKeys]]
      /\ put'[p].phase \in {"committing", "refused"}
      /\ put'[p].tokens = put[p].tokens /\ put'[p].keys = put[p].keys
      /\ \A q \in Puts \ {p} : put'[q] = put[q]
  BY <1>2, PhaseMoves DEF UploadsInv, PutPhases
<1>4. /\ disk' \in [Puts -> SUBSET Contents]
      /\ \A q \in Puts \ {p} : disk'[q] = disk[q]
      /\ put'[p].phase = "refused" => disk'[p] = {}
      /\ put'[p].phase = "committing" => disk'[p] # {}
  BY <1>1, <1>3 DEF Validate, Removed, UploadsInv, UploadsTypeOK
<1>5. put'[p].phase = "committing" =>
        \A k \in put'[p].keys : disk'[p] \subseteq Expected[k] \ Malformed
  BY <1>3 DEF Validate, HashMatches, ArchiveAccepted, UploadsInv, UploadsTypeOK
<1>6. UNCHANGED <<clock, files, held>> /\ uploads' = uploads
  BY DEF Validate
<1>7. \E u \in Tokens : put[p].tokens = {u}
  BY <1>1 DEF UploadsInv, Temporaries
<1>8. \E k \in FileKeys : put[p].keys = {k}
  BY <1>1 DEF UploadsInv, Temporaries
<1> QED
  BY <1>1, <1>2, <1>3, <1>4, <1>5, <1>6, <1>7, <1>8, OwnStep

\* The second critical section refuses the token.
LEMMA RefusedLateKeeps ==
  ASSUME UploadsInv, NEW p \in Puts, NEW t \in Tokens, RefusedLate(p, t)
  PROVE  UploadsInv'
<1>1. put[p].phase = "committing" /\ uploads' = Swept(t) /\ disk' = Removed(p)
      /\ put' = [put EXCEPT ![p].phase = "refused"] /\ UNCHANGED <<clock, files, held>>
  BY DEF RefusedLate
<1>2. /\ put' \in [Puts -> [phase: PutPhases, tokens: SUBSET Tokens, keys: SUBSET FileKeys]]
      /\ put'[p].phase = "refused"
      /\ \A q \in Puts \ {p} : put'[q] = put[q]
  BY <1>1, PhaseMoves DEF UploadsInv, PutPhases
<1>3. /\ disk' \in [Puts -> SUBSET Contents]
      /\ disk'[p] = {}
      /\ \A q \in Puts \ {p} : disk'[q] = disk[q]
  BY <1>1 DEF Removed, UploadsInv, UploadsTypeOK
<1> QED BY <1>1, <1>2, <1>3, OwnStep

\* A PUT is accepted: its token is used up, and the key has its file or had one
\* with the same content.
LEMMA AcceptKeeps ==
  ASSUME UploadsInv, NEW p \in Puts, NEW t \in Tokens, NEW k \in FileKeys,
         put[p].phase = "committing", put[p].tokens = {t}, put[p].keys = {k},
         StillValid(t, {k}), UNCHANGED <<clock, held>>,
         Duplicate(p, t, k) \/ Store(p, t, k)
  PROVE  UploadsInv'
<1>1. uploads' = Gone(t) /\ put' = [put EXCEPT ![p].phase = "accepted"]
  BY DEF Duplicate, Store
<1>2. /\ put' \in [Puts -> [phase: PutPhases, tokens: SUBSET Tokens, keys: SUBSET FileKeys]]
      /\ put'[p].phase = "accepted"
      /\ put'[p].tokens = {t} /\ put'[p].keys = {k}
      /\ \A q \in Puts \ {p} : put'[q] = put[q]
  BY <1>1, PhaseMoves DEF UploadsInv, PutPhases
<1>3. /\ uploads' \in [Tokens -> Upload]
      /\ \A u \in Tokens : uploads[u].known = "gone" => uploads'[u].known = "gone"
      /\ uploads'[t].known = "gone"
  BY <1>1, TokensGo, UsedUp DEF UploadsInv
<1>4. Good(p, k)
  BY DEF UploadsInv, Temporaries
<1>5. \A x \in FileKeys : files[x] # p /\ files[x] \in Puts \cup {NoPut}
  BY UploadsAssumption DEF UploadsInv, UploadsTypeOK, Stored
<1>6. /\ files' \in [FileKeys -> Puts \cup {NoPut}]
      /\ disk' \in [Puts -> SUBSET Contents]
      /\ \A q \in Puts \ {p} : disk'[q] = disk[q]
      /\ \A x \in FileKeys : files[x] # NoPut => files'[x] = files[x]
      /\ \A x \in FileKeys : files'[x] # files[x] => files'[x] = p /\ x = k /\ disk'[p] = disk[p]
      /\ disk'[p] # {} => files'[k] = p
  BY DEF Duplicate, Store, Removed, UploadsInv, UploadsTypeOK
<1>7. UploadsTypeOK'
  BY <1>2, <1>3, <1>6 DEF UploadsInv, UploadsTypeOK
<1>8. Temporaries'
  <2> SUFFICES ASSUME NEW q \in Puts
               PROVE  /\ put'[q].phase \in {"new", "reading", "refused"} => disk'[q] = {}
                      /\ put'[q].phase \in {"reading", "validating", "committing", "accepted"} =>
                           (\E u \in Tokens : put'[q].tokens = {u})
                           /\ (\E x \in FileKeys : put'[q].keys = {x})
                      /\ put'[q].phase \in {"validating", "committing"} => disk'[q] # {}
                      /\ put'[q].phase = "committing" =>
                           \A x \in put'[q].keys : Good(q, x)'
                      /\ put'[q].phase = "accepted" /\ disk'[q] # {} =>
                           \E x \in FileKeys : files'[x] = q
    BY DEF Temporaries
  <2>1. CASE q = p
    BY <2>1, <1>2, <1>6
  <2>2. CASE q # p
    <3>1. put'[q] = put[q] /\ disk'[q] = disk[q]
      BY <2>2, <1>2, <1>6
    <3>2. \A x \in FileKeys : files[x] = q => files'[x] = q
      BY <1>6, UploadsAssumption
    <3> QED BY <3>1, <3>2 DEF UploadsInv, Temporaries, Good
  <2> QED BY <2>1, <2>2
<1>9. Stored'
  BY <1>2, <1>4, <1>5, <1>6 DEF UploadsInv, Stored, Good
<1>10. HeldIsStored'
  BY <1>6 DEF UploadsInv, HeldIsStored
<1>11. \A q \in Puts : put[q].phase = "accepted" => put[q].tokens # {t}
  BY DEF UploadsInv, UsedIsGone, StillValid, Valid
<1>12. UsedIsGone'
  BY <1>2, <1>3 DEF UploadsInv, UsedIsGone, UploadsTypeOK
<1>13. TokenUsedOnce'
  BY <1>2, <1>11 DEF UploadsInv, TokenUsedOnce
<1> QED BY <1>7, <1>8, <1>9, <1>10, <1>12, <1>13 DEF UploadsInv

\* The second critical section.
LEMMA CommitKeeps ==
  ASSUME UploadsInv, NEW p \in Puts, NEW t \in Tokens, NEW k \in FileKeys, Commit(p, t, k)
  PROVE  UploadsInv'
<1>1. CASE Duplicate(p, t, k) \/ Store(p, t, k)
  BY <1>1, AcceptKeeps DEF Commit
<1>2. CASE Conflict(p, k)
  <2>1. put[p].phase = "committing" /\ uploads' = uploads /\ disk' = Removed(p)
        /\ put' = [put EXCEPT ![p].phase = "refused"] /\ UNCHANGED <<clock, files, held>>
    BY <1>2 DEF Commit, Conflict
  <2>2. /\ put' \in [Puts -> [phase: PutPhases, tokens: SUBSET Tokens, keys: SUBSET FileKeys]]
        /\ put'[p].phase = "refused"
        /\ \A q \in Puts \ {p} : put'[q] = put[q]
    BY <2>1, PhaseMoves DEF UploadsInv, PutPhases
  <2>3. /\ disk' \in [Puts -> SUBSET Contents]
        /\ disk'[p] = {}
        /\ \A q \in Puts \ {p} : disk'[q] = disk[q]
    BY <2>1 DEF Removed, UploadsInv, UploadsTypeOK
  <2> QED BY <2>1, <2>2, <2>3, OwnStep
<1> QED BY <1>1, <1>2 DEF Commit

\* A build start is given a file.
LEMMA TemplateFileKeeps ==
  ASSUME UploadsInv, NEW b \in Builders, NEW k \in FileKeys, TemplateFile(b, k)
  PROVE  UploadsInv'
<1>1. files[k] \in Puts \cup {NoPut}
  BY DEF UploadsInv, UploadsTypeOK
<1>2. held' \in [Builders -> [path: Puts \cup {NoPut}, keys: SUBSET FileKeys]]
      /\ held'[b].path = files[k] /\ held'[b].keys = {k}
      /\ \A c \in Builders \ {b} : held'[c] = held[c]
  BY <1>1 DEF TemplateFile, UploadsInv, UploadsTypeOK
<1>3. HeldIsStored'
  BY <1>2 DEF TemplateFile, UploadsInv, HeldIsStored
<1> QED
  BY <1>2, <1>3 DEF TemplateFile, UploadsInv, UploadsTypeOK, Temporaries, Stored,
     UsedIsGone, TokenUsedOnce, Good

\* Time only lets tokens expire.
LEMMA TickKeeps ==
  ASSUME UploadsInv, Tick
  PROVE  UploadsInv'
BY UploadsAssumption
   DEF Tick, UploadsInv, UploadsTypeOK, Temporaries, Stored, HeldIsStored, UsedIsGone,
       TokenUsedOnce, Good

\* The invariant holds at the start.
LEMMA InitUploadsInv == UploadsInit => UploadsInv
<1> SUFFICES ASSUME UploadsInit PROVE UploadsInv
  OBVIOUS
<1>1. UploadsTypeOK
  BY UploadsAssumption DEF UploadsInit, UploadsTypeOK, Upload, New, PutPhases
<1> QED
  BY <1>1 DEF UploadsInit, UploadsInv, Temporaries, Stored, HeldIsStored, UsedIsGone, TokenUsedOnce, New

\* Every step keeps it.
LEMMA StepKeeps == UploadsInv /\ [UploadsNext]_uploadsVars => UploadsInv'
<1> SUFFICES ASSUME UploadsInv, [UploadsNext]_uploadsVars PROVE UploadsInv'
  OBVIOUS
<1>1. CASE UNCHANGED uploadsVars
  BY <1>1 DEF uploadsVars, UploadsInv, UploadsTypeOK, Temporaries, Stored, HeldIsStored,
              UsedIsGone, TokenUsedOnce, Good
<1>2. CASE UploadsNext
  BY <1>2, TickKeeps, CreateUploadKeeps, PutBeginsKeeps, BodyReadKeeps, ValidateKeeps,
     RefusedLateKeeps, CommitKeeps, TemplateFileKeeps DEF UploadsNext
<1> QED BY <1>1, <1>2

---------------------------------------------------------------------------
(* Theorems.                                                               *)

\* Every reachable state is well typed and has the invariant.
THEOREM UploadsCorrect == UploadsSpec => []UploadsInv
BY InitUploadsInv, StepKeeps, PTL DEF UploadsSpec

\* A token is good for one accepted upload, however many PUTs use it at once.
THEOREM OneUploadPerToken == UploadsSpec => []TokenUsedOnce
<1>1. UploadsInv => TokenUsedOnce
  BY DEF UploadsInv
<1> QED BY <1>1, UploadsCorrect, PTL

\* What a build start was given stays whole, valid and of the hash it named.
THEOREM HeldStaysReadable == UploadsSpec => []HeldFileReadable
<1>1. UploadsInv => HeldFileReadable
  BY DEF UploadsInv, HeldFileReadable, HeldIsStored, Stored, Good
<1> QED BY <1>1, UploadsCorrect, PTL

\* No way out of StoreTemplateFileUploadReader leaves its temporary file behind.
THEOREM NothingStrays == UploadsSpec => []NoStrayFile
<1>1. UploadsInv => NoStrayFile
  BY DEF UploadsInv, UploadsTypeOK, Temporaries, NoStrayFile, PutPhases
<1> QED BY <1>1, UploadsCorrect, PTL

\* An accepted upload's content is what the key has, whoever stored it.
THEOREM AcceptedMeansStored == UploadsSpec => AcceptedIsStored
<1>1. UploadsInv /\ [UploadsNext]_uploadsVars =>
        [\A p \in Puts, k \in FileKeys :
           put'[p].phase = "accepted" /\ put[p].phase = "committing" /\ put[p].keys = {k}
             => files'[k] # NoPut /\ disk'[files'[k]] = disk[p]]_uploadsVars
  <2> SUFFICES ASSUME UploadsInv, UploadsNext, NEW p \in Puts, NEW k \in FileKeys,
                      put'[p].phase = "accepted", put[p].phase = "committing",
                      put[p].keys = {k}
               PROVE  files'[k] # NoPut /\ disk'[files'[k]] = disk[p]
    OBVIOUS
  <2>1. PICK t \in Tokens : Commit(p, t, k) /\ ~Conflict(p, k)
    <3>1. \A phase \in PutPhases, q \in Puts :
            put' = [put EXCEPT ![q].phase = phase] =>
              put'[q].phase = phase /\ (q # p => put'[p].phase = "committing")
      BY PhaseMoves DEF UploadsInv
    <3>2. put' # put
      OBVIOUS
    <3>3. \A q \in Puts : ~BodyRead(q) /\ ~Validate(q) /\ \A t \in Tokens : ~RefusedLate(q, t)
      BY <3>1 DEF BodyRead, Validate, RefusedLate, PutPhases
    <3>4. \A q \in Puts, t \in Tokens, x \in FileKeys : ~PutBegins(q, t, x)
      BY DEF PutBegins, UploadsInv, UploadsTypeOK
    <3>5. PICK q \in Puts, t \in Tokens, x \in FileKeys : Commit(q, t, x)
      BY <3>2, <3>3, <3>4 DEF UploadsNext, Tick, CreateTemplateFileUpload, TemplateFile
    <3>6. put' = [put EXCEPT ![q].phase = "refused"] \/ put' = [put EXCEPT ![q].phase = "accepted"]
      BY <3>5 DEF Commit, Duplicate, Conflict, Store
    <3>7. q = p /\ x = k
      BY <3>1, <3>5, <3>6 DEF Commit, PutPhases
    <3>8. ~Conflict(p, k)
      BY <3>1 DEF Conflict, PutPhases
    <3> QED BY <3>5, <3>7, <3>8
  <2>2. files[k] # p
    BY UploadsAssumption DEF UploadsInv, Stored
  <2>3. p # NoPut /\ files[k] \in Puts \cup {NoPut}
    BY UploadsAssumption DEF UploadsInv, UploadsTypeOK
  <2> QED
    BY <2>1, <2>2, <2>3
       DEF Commit, Duplicate, Store, SameContent, Removed, UploadsInv, UploadsTypeOK
<1> QED BY <1>1, UploadsCorrect, PTL DEF UploadsSpec, AcceptedIsStored
===========================================================================
