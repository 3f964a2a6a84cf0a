-------------------------- MODULE TemplateBuilds --------------------------
(***************************************************************************)
(* Template builds: the templateBuildManager with its active tasks, the    *)
(* templates of the GatewayManagementStore, and the handlers and build     *)
(* goroutines that read, build and write them.                             *)
(*                                                                         *)
(* A handler finds the template (a copy), changes the copy and writes it   *)
(* back with UpsertTemplate: the store's mutex covers each access, nothing *)
(* covers the pair.  Every member of Requests is one request, numbered in  *)
(* the order of arrival; the task of a v2 build start is known by its      *)
(* request.  The images the engine has for a template make it visible too: *)
(* findTemplate looks at the runtime's templates, then at the managed ones.*)
(***************************************************************************)
EXTENDS Integers, FiniteSets

CONSTANTS
  Requests,       \* the requests that ever arrive, as numbers
  Kinds,          \* what they may ask for
  Templates,      \* template ids
  Builds,         \* build ids, made by the gateway or named by a client
  NoBuild,        \* the build id of a template of which there is but an image
  MaxConcurrent   \* templateBuildManager.maxConcurrent

RequestKinds == {"create", "update", "rebuild", "markReady", "startV2", "delete", "cancel"}

ASSUME BuildsAssumption ==
  /\ Requests \subseteq Nat /\ IsFiniteSet(Requests)
  /\ Kinds \subseteq RequestKinds
  /\ NoBuild \notin Builds
  /\ MaxConcurrent \in Nat \ {0}

VARIABLES
  images,      \* the templates of which the engine has an image
  templates,   \* GatewayManagementStore.templates: current build and every build's status
  deleted,     \* GatewayManagementStore.deletedTemplates
  req,         \* the handlers, and the goroutines of the builds they started
  active,      \* templateBuildManager.active
  wg,          \* templateBuildManager.wg
  stopping     \* templateBuildManager.stopping, and whether shutdown has returned

vars == <<images, templates, deleted, req, active, wg, stopping>>

Status == {"none", "building", "ready", "error"}

NoTemplate == [build |-> NoBuild, status |-> "none", builds |-> [b \in Builds |-> "none"]]

Keys == Templates \X (Builds \cup {NoBuild})

\* The phases in which the task of a v2 build is in flight.
InFlight == {"reserved", "building", "saving", "completing"}

Blank(phase) == [phase |-> phase, kind |-> "none", key |-> <<NoBuild, NoBuild>>, build |-> NoBuild,
                 status |-> "none", cancelled |-> FALSE]

Init ==
  /\ images \in SUBSET Templates   \* those of an earlier process are still there
  /\ templates = [t \in Templates |-> NoTemplate]
  /\ deleted = {}
  /\ req = [r \in Requests |-> Blank("new")]
  /\ active = {}
  /\ wg = 0
  /\ stopping = "no"

\* A build id of which there is no trace: uuid.NewString.
Fresh(b) ==
  /\ \A t \in Templates : templates[t].builds[b] = "none"
  /\ \A r \in Requests : req[r].build # b /\ req[r].key[2] # b

Done(r) == [req EXCEPT ![r] = Blank("done")]

---------------------------------------------------------------------------
(* The management store.                                                   *)

\* The template as given becomes the current one, its build joins the builds the
\* store already has (that of an image is not among Builds), and the template is
\* no longer deleted.
UpsertTemplate(t, b, status) ==
  /\ templates' = [templates EXCEPT ![t] =
       [build |-> b, status |-> status,
        builds |-> [x \in Builds |-> IF x = b THEN status ELSE templates[t].builds[x]]]]
  /\ deleted' = deleted \ {t}

DeleteTemplate(t) ==
  /\ templates' = [templates EXCEPT ![t] = NoTemplate]
  /\ deleted' = deleted \cup {t}

\* findTemplate: a managed template or that of an image, if it is not deleted.
Managed(t) == templates[t].status # "none"
Visible(t) == t \notin deleted /\ (Managed(t) \/ t \in images)

---------------------------------------------------------------------------
(* The handlers.                                                           *)

\* create (v1 after its synchronous build, v2, v3): a new build, ready at once.
Create(r, t, b) ==
  /\ req[r].phase = "new" /\ "create" \in Kinds
  /\ Fresh(b)
  /\ UpsertTemplate(t, b, "ready")
  /\ images' \in {images, images \cup {t}}
  /\ req' = Done(r)
  /\ UNCHANGED <<active, wg, stopping>>

\* Every other handler starts with findTemplate and keeps the copy it got: an
\* update writes that copy back, the others only its key.  update also stands for
\* the tag requests, which write the copy back the same way.
Naming == {"rebuild", "markReady", "startV2"}   \* the kinds that name a build

Copy(kind, t, b) ==
  [phase |-> "found", kind |-> kind, key |-> <<t, b>>,
   build |-> IF kind = "update" THEN templates[t].build ELSE NoBuild,
   status |-> IF kind = "update" /\ Managed(t) THEN templates[t].status ELSE "ready",
   cancelled |-> FALSE]

Find(r, kind, t, b) ==
  /\ req[r].phase = "new" /\ kind \in Kinds \ {"create", "cancel"}
  /\ Visible(t)
  /\ IF kind \in Naming THEN b \in Builds ELSE b = NoBuild
  /\ kind = "rebuild" => Fresh(b)
  /\ req' = [req EXCEPT ![r] = Copy(kind, t, b)]
  /\ UNCHANGED <<images, templates, deleted, active, wg, stopping>>

\* update, rebuild and markReady write the changed copy, a rebuild after it has
\* made an image; a rebuild whose synchronous build fails writes nothing.
WriteBack(r) ==
  LET t == req[r].key[1] IN
  /\ req[r].phase = "found"
  /\ \/ req[r].kind = "update" /\ UpsertTemplate(t, req[r].build, req[r].status) /\ UNCHANGED images
     \/ req[r].kind = "markReady" /\ UpsertTemplate(t, req[r].key[2], "ready") /\ UNCHANGED images
     \/ req[r].kind = "rebuild" /\ UpsertTemplate(t, req[r].key[2], "ready") /\ images' = images \cup {t}
     \/ req[r].kind = "rebuild" /\ UNCHANGED <<images, templates, deleted>>
  /\ req' = Done(r)
  /\ UNCHANGED <<active, wg, stopping>>

Delete(r) ==
  LET t == req[r].key[1] IN
  /\ req[r].phase = "found" /\ req[r].kind = "delete"
  /\ DeleteTemplate(t)
  /\ req' = Done(r)
  /\ UNCHANGED <<images, active, wg, stopping>>

---------------------------------------------------------------------------
(* templateBuildManager and defaultStartTemplateBuildV2.                   *)

\* Mutation of Reservable: shutdown is not looked at.
ReservableWhileStopping(key) ==
  /\ \A r \in active : req[r].key # key
  /\ Cardinality(active) < MaxConcurrent

\* Mutation of Reservable: the limit is off by one.
ReservableOneMore(key) ==
  /\ stopping = "no"
  /\ \A r \in active : req[r].key # key
  /\ Cardinality(active) <= MaxConcurrent

\* Mutation of Reservable: a running build of the same key is not noticed.
ReservableTwice(key) == stopping = "no" /\ Cardinality(active) < MaxConcurrent

Reservable(key) ==
  /\ stopping = "no"
  /\ \A r \in active : req[r].key # key
  /\ Cardinality(active) < MaxConcurrent

\* reserve: the task is entered, or the request is answered 503, 409 or 429.
Reserve(r) ==
  /\ req[r].phase = "found" /\ req[r].kind = "startV2"
  /\ IF Reservable(req[r].key)
     THEN /\ active' = active \cup {r}
          /\ wg' = wg + 1
          /\ req' = [req EXCEPT ![r].phase = "reserved"]
     ELSE /\ req' = Done(r)
          /\ UNCHANGED <<active, wg>>
  /\ UNCHANGED <<images, templates, deleted, stopping>>

\* templateBuildFiles: a COPY step names a file that was not uploaded; 400.
UploadMissing(r) ==
  /\ req[r].phase = "found" /\ req[r].kind = "startV2"
  /\ req' = Done(r)
  /\ UNCHANGED <<images, templates, deleted, active, wg, stopping>>

\* The build is recorded as building, and goRun starts the goroutine.
StartBuild(r) ==
  /\ req[r].phase = "reserved"
  /\ UpsertTemplate(req[r].key[1], req[r].key[2], "building")
  /\ req' = [req EXCEPT ![r].phase = "building"]
  /\ UNCHANGED <<images, active, wg, stopping>>

\* StartTemplateBuildV2 of the runtime returns; a cancelled context is an error,
\* even when the image was made.
BuildOutcome(r) == IF req[r].cancelled THEN {"error"} ELSE {"ready", "error"}

BuildReturns(r) ==
  /\ req[r].phase = "building"
  /\ \E outcome \in BuildOutcome(r) :
       /\ req' = [req EXCEPT ![r].phase = "saving", ![r].status = outcome]
       /\ \/ images' = images \cup {req[r].key[1]}
          \/ outcome = "error" /\ UNCHANGED images
  /\ UNCHANGED <<templates, deleted, active, wg, stopping>>

\* isCurrent (only the task's own complete can change the answer), and the template
\* the build was started with is written back with the outcome.
SaveOutcome(r) ==
  /\ req[r].phase = "saving"
  /\ IF r \in active
     THEN UpsertTemplate(req[r].key[1], req[r].key[2], req[r].status)
     ELSE UNCHANGED <<templates, deleted>>
  /\ req' = [req EXCEPT ![r].phase = "completing"]
  /\ UNCHANGED <<images, active, wg, stopping>>

\* Mutation of Complete: the wait group is not told.
CompleteWithoutDone(r) ==
  /\ req[r].phase = "completing"
  /\ active' = active \ {r}
  /\ req' = Done(r)
  /\ UNCHANGED <<images, templates, deleted, wg, stopping>>

\* complete, deferred by goRun.
Complete(r) ==
  /\ req[r].phase = "completing"
  /\ active' = active \ {r}
  /\ wg' = wg - 1
  /\ req' = Done(r)
  /\ UNCHANGED <<images, templates, deleted, stopping>>

\* Mutation of CancelledActive: a cancelled task leaves the table at once.
CancelDropsTasks == {}

\* The tasks that stay active when all are cancelled.
CancelledActive == active

\* cancelTeamBuilds: every active task not yet cancelled is.
CancelTeamBuilds(r) ==
  /\ req[r].phase = "new" /\ "cancel" \in Kinds
  /\ req' = [x \in Requests |-> IF x \in active THEN [req[x] EXCEPT !.cancelled = TRUE] ELSE Done(r)[x]]
  /\ active' = CancelledActive
  /\ UNCHANGED <<images, templates, deleted, wg, stopping>>

\* shutdown: no more reservations, every task is cancelled ...
ShutdownBegins ==
  /\ stopping = "no"
  /\ stopping' = "draining"
  /\ req' = [x \in Requests |-> IF x \in active THEN [req[x] EXCEPT !.cancelled = TRUE] ELSE req[x]]
  /\ UNCHANGED <<images, templates, deleted, active, wg>>

\* ... and it returns nil when wg.Wait does.
ShutdownReturns ==
  /\ stopping = "draining"
  /\ wg = 0
  /\ stopping' = "returned"
  /\ UNCHANGED <<images, templates, deleted, req, active, wg>>

---------------------------------------------------------------------------

\* The next step of a handler or a build goroutine that is under way.
Proceed(r) ==
  \/ WriteBack(r) \/ Delete(r) \/ Reserve(r) \/ UploadMissing(r)
  \/ StartBuild(r) \/ BuildReturns(r) \/ SaveOutcome(r) \/ Complete(r)

Arrive(r) ==
  /\ \A q \in Requests : q < r => req[q].phase # "new"
  /\ \/ \E t \in Templates, b \in Builds : Create(r, t, b)
     \/ \E k \in Kinds, t \in Templates, b \in Builds \cup {NoBuild} : Find(r, k, t, b)
     \/ CancelTeamBuilds(r)

Next ==
  \/ \E r \in Requests : Arrive(r) \/ Proceed(r)
  \/ ShutdownBegins
  \/ ShutdownReturns

Spec == Init /\ [][Next]_vars

\* Handlers and goroutines run on, and a runtime's build ends or fails in the end.
Fairness == WF_vars(ShutdownReturns) /\ \A r \in Requests : WF_vars(Proceed(r))

FairSpec == Spec /\ Fairness

---------------------------------------------------------------------------
(* Properties.                                                             *)

\* What handlers and goroutines write has its type; the wait group is never told Done
\* more often than Add (sync.WaitGroup would panic).
TypeOK ==
  /\ images \subseteq Templates
  /\ templates \in [Templates -> [build: Builds \cup {NoBuild}, status: Status,
                                  builds: [Builds -> Status]]]
  /\ deleted \subseteq Templates
  /\ req \in [Requests -> [phase: {"new", "found", "done"} \cup InFlight,
                           kind: {"none"} \cup RequestKinds,
                           key: Keys \cup {<<NoBuild, NoBuild>>},
                           build: Builds \cup {NoBuild}, status: Status, cancelled: BOOLEAN]]
  /\ active \subseteq Requests
  /\ wg \in Nat
  /\ stopping \in {"no", "draining", "returned"}

\* Builds that really run, cancelled ones that have not returned included, never
\* exceed maxConcurrent: the table lets no task go before its goroutine ended.
WithinCapacity == Cardinality({r \in Requests : req[r].phase \in InFlight}) <= MaxConcurrent

\* Two goroutines never build the same build of the same template at once, so
\* their outcomes cannot overwrite each other.
OneTaskPerBuild ==
  \A q, r \in Requests :
    req[q].phase \in InFlight /\ req[r].phase \in InFlight /\ req[q].key = req[r].key => q = r

\* Once shutdown has returned nil, no build goroutine runs any more and none will
\* write to the store: reserve after the stop is refused under the same mutex.
QuietAfterShutdown == stopping = "returned" => \A r \in Requests : req[r].phase \notin InFlight

\* The outcome of every build that was started is recorded, whatever is cancelled,
\* deleted or written in between: who polls sees it leave building.  (An update that
\* read the template before may write building back afterwards.)
BuildSettles ==
  \A r \in Requests, t \in Templates, b \in Builds :
    req[r].phase = "building" /\ req[r].key = <<t, b>> ~> templates[t].builds[b] # "building"

\* shutdown, once begun, returns: it cancels what runs and lets nothing new in.
ShutdownEnds == stopping = "draining" ~> stopping = "returned"
===========================================================================
