------------------------- MODULE DockerContainers -------------------------
(***************************************************************************)
(* The Docker backend's sandboxes: DockerRuntime's calls, made of requests *)
(* to the engine each of which may fail before or after it took effect;    *)
(* the clean-up of a failed create; commits, which go on in the engine     *)
(* when the gateway has let the sandbox or its own life go; the labels a   *)
(* container has from its request and from its image; the end of the       *)
(* process, and RestoreSandboxes from containers and labels.               *)
(*                                                                         *)
(* calls[s] is the call under way on sandbox s: the gateway makes one at a *)
(* time (lifecycleMu), except commits.  Volumes are in DockerVolumes.      *)
(***************************************************************************)
EXTENDS Naturals

CONSTANTS
  Sandboxes,
  ExternalChanges  \* what an operator does to containers: "stop", "start", "remove"

ASSUME ContainersAssumption == ExternalChanges \subseteq {"stop", "start", "remove"}

VARIABLES
  ctrs,      \* the container of each sandbox: state, labels, the program's progress
  calls,     \* the call under way
  answers,   \* how the last call ended, or "pending"
  commits,   \* the commit under way in the engine: "idle", "paused it", "as it was"
  phase,     \* the gateway process: "up", "down", "restoring"
  todo,      \* the containers RestoreSandboxes has listed and not looked at
  known,     \* the gateway's records: their policy and metadata
  promised,  \* history: the record of a create that was answered
  dropped,   \* history: the gateway found the container dead
  unlabelled, \* history: the image's labels could not be read
  met        \* history: the states of the sandbox since the call under way began

dvars == <<ctrs, calls, answers, commits, phase, todo, known, promised, dropped, unlabelled, met>>

\* What the templates' images hold: a ready command, and the metadata label that a
\* snapshot has from the sandbox it was made of.
Images == [ready : BOOLEAN, meta : {"none", "theirs"}]

Records == [policy : {"kill", "pause"}, meta : {"none", "own"}]

NoRecord == [policy |-> "none", meta |-> "none"]

\* ready: "none" without a ready command, else whether it would succeed.
NoCtr == [state |-> "absent", labels |-> NoRecord, ready |-> "none"]

Idle == [kind |-> "idle", step |-> "none", record |-> NoRecord,
         image |-> [ready |-> FALSE, meta |-> "none"], saw |-> "nothing"]

\* dockerSandboxState, and what InspectSandbox makes of it.
dockerSandboxState(state) ==
  CASE state = "absent" -> "none"
    [] state \in {"created", "exited"} -> "dead"
    [] OTHER -> state

Init ==
  /\ ctrs = [s \in Sandboxes |-> NoCtr]
  /\ calls = [s \in Sandboxes |-> Idle]
  /\ answers = [s \in Sandboxes |-> "none"]
  /\ commits = [s \in Sandboxes |-> "idle"]
  /\ phase = "up"
  /\ todo = {}
  /\ known = [s \in Sandboxes |-> NoRecord]
  /\ promised = [s \in Sandboxes |-> NoRecord]
  /\ dropped = {}
  /\ unlabelled = {}
  /\ met = [s \in Sandboxes |-> {}]

---------------------------------------------------------------------------
(* Steps of a call.                                                        *)

At(s, step) == calls[s].step = step

Goto(s, step) ==
  /\ calls' = [calls EXCEPT ![s].step = step]
  /\ UNCHANGED answers

Return(s, answer) ==
  /\ calls' = [calls EXCEPT ![s] = Idle]
  /\ answers' = [answers EXCEPT ![s] = answer]

SetState(s, state) == ctrs' = [ctrs EXCEPT ![s].state = state]

\* A request that failed: nothing happened, or it did and the answer was lost.
Late(effect) == UNCHANGED ctrs \/ effect

---------------------------------------------------------------------------
(* CreateSandbox.                                                          *)

CreateBegins(s, record, image) ==
  /\ phase = "up"
  /\ calls[s] = Idle /\ answers[s] = "none" /\ ctrs[s] = NoCtr
  /\ calls' = [calls EXCEPT ![s] =
       [kind |-> "create", step |-> "image", record |-> record, image |-> image, saw |-> "nothing"]]
  /\ answers' = [answers EXCEPT ![s] = "pending"]
  /\ UNCHANGED <<ctrs, commits, phase, todo, known, promised, dropped, unlabelled>>

\* The template is looked up among the listed ones, or is an image reference.
ResolveTemplateImage(s) ==
  /\ At(s, "image")
  /\ Goto(s, "platform") \/ Return(s, "error")
  /\ UNCHANGED <<ctrs, commits, phase, todo, known, promised, dropped, unlabelled>>

\* The configured platform, or the image's, chooses the envd binary, which must be there.
SelectPlatform(s) ==
  /\ At(s, "platform")
  /\ Goto(s, "labels") \/ Return(s, "error")
  /\ UNCHANGED <<ctrs, commits, phase, todo, known, promised, dropped, unlabelled>>

\* The labels with the template's start and ready command.  That they cannot be read
\* is only logged: the sandbox is made without either.
ImageLabels(s) ==
  /\ At(s, "labels")
  /\ \/ Goto(s, "ports") /\ UNCHANGED unlabelled
     \/ Goto(s, "ports") /\ unlabelled' = unlabelled \cup {s}
  /\ UNCHANGED <<ctrs, commits, phase, todo, known, promised, dropped>>

\* The ports of the image and of the configuration, each bound to one of the host's.
PublishedContainerPorts(s) ==
  /\ At(s, "ports")
  /\ Goto(s, "create") \/ Return(s, "error")
  /\ UNCHANGED <<ctrs, commits, phase, todo, known, promised, dropped, unlabelled>>

\* Mutation of ContainerLabels: the image's labels win.
ImageLabelsWin(record, image) ==
  [record EXCEPT !.meta = IF image.meta # "none" THEN image.meta ELSE record.meta]

\* dockerSandboxLabels leaves out what the request has not; the engine adds the
\* labels of the image that the request does not set.
ContainerLabels(record, image) ==
  [record EXCEPT !.meta = IF record.meta = "none" THEN image.meta ELSE record.meta]

\* Until the engine has answered there is no clean-up.
ContainerCreate(s) ==
  /\ At(s, "create")
  /\ LET made == ctrs' = [ctrs EXCEPT ![s] =
           [state |-> "created", ready |-> IF calls[s].image.ready THEN "no" ELSE "none",
            labels |-> ContainerLabels(calls[s].record, calls[s].image)]]
     IN \/ made /\ (Goto(s, "start") \/ Return(s, "error"))
        \/ UNCHANGED ctrs /\ Return(s, "error")
  /\ UNCHANGED <<commits, phase, todo, known, promised, dropped, unlabelled>>

ContainerStart(s) ==
  /\ At(s, "start")
  /\ ctrs[s].state \in {"created", "exited", "running"}
  /\ SetState(s, "running")
  /\ Goto(s, "info")
  /\ UNCHANGED <<commits, phase, todo, known, promised, dropped, unlabelled>>

\* Mutation of Bound: a container that is there has an address.
BoundAnyway(ctr) == ctr.state # "absent"

\* The engine binds envd's port while the container runs, paused or not.
Bound(ctr) == ctr.state \in {"running", "paused"}

\* inspectRuntimeInfo asks for the port binding, not for the state.
InspectRuntimeInfo(s) ==
  /\ At(s, "info")
  /\ Bound(ctrs[s])
  /\ IF calls[s].kind = "create" THEN Goto(s, "health") ELSE Return(s, "ok")
  /\ UNCHANGED <<ctrs, commits, phase, todo, known, promised, dropped, unlabelled>>

\* The gateway stores the record it asked for.
Created(s) ==
  /\ Return(s, "ok")
  /\ known' = [known EXCEPT ![s] = calls[s].record]
  /\ promised' = [promised EXCEPT ![s] = calls[s].record]

WaitHealthy(s) ==
  /\ At(s, "health")
  /\ ctrs[s].state = "running"
  /\ IF calls[s].image.ready /\ s \notin unlabelled
     THEN Goto(s, "ready") /\ UNCHANGED <<known, promised>>
     ELSE Created(s)
  /\ UNCHANGED <<ctrs, commits, phase, todo, dropped, unlabelled>>

\* Mutation of ReadyCommandSucceeds: its exit code is not looked at.
ReadyCommandRuns(ctr) == ctr.state = "running"

\* The template's ready command runs in the container and exits with 0.
ReadyCommandSucceeds(ctr) == ctr.state = "running" /\ ctr.ready = "yes"

\* Any other outcome of the command is tried again.
WaitReadyCommand(s) ==
  /\ At(s, "ready")
  /\ ReadyCommandSucceeds(ctrs[s])
  /\ Created(s)
  /\ UNCHANGED <<ctrs, commits, phase, todo, dropped, unlabelled>>

\* A failing start may have started the container.
LateStart(s) == At(s, "start") /\ ctrs[s].state = "created" /\ SetState(s, "running")

ProvisioningSteps == {"start", "info", "health", "ready"}

\* A step after ContainerCreate fails, or runs out of time.
ProvisionFails(s) ==
  /\ calls[s].kind = "create" /\ calls[s].step \in ProvisioningSteps
  /\ Late(LateStart(s))
  /\ Goto(s, "cleanup")
  /\ UNCHANGED <<commits, phase, todo, known, promised, dropped, unlabelled>>

\* removeContainer with a context of its own; its error is not looked at.
RemoveContainer(s) ==
  /\ At(s, "cleanup")
  /\ ctrs' = [ctrs EXCEPT ![s] = NoCtr] \/ UNCHANGED ctrs
  /\ Return(s, "error")
  /\ UNCHANGED <<commits, phase, todo, known, promised, dropped, unlabelled>>

---------------------------------------------------------------------------
(* The calls on a sandbox the gateway knows.                               *)

CallBegins(s, kind) ==
  /\ phase = "up"
  /\ known[s] # NoRecord
  /\ calls[s] = Idle
  /\ calls' = [calls EXCEPT ![s] = [Idle EXCEPT !.kind = kind, !.step = "first"]]
  /\ answers' = [answers EXCEPT ![s] = "pending"]
  /\ UNCHANGED <<ctrs, commits, phase, todo, known, promised, dropped, unlabelled>>

\* InspectSandbox takes the state from a first request and the addresses from a
\* second, whose failure it passes over.
InspectSandbox(s) ==
  /\ At(s, "first") /\ calls[s].kind = "inspect"
  /\ \/ Return(s, "error")
     \/ /\ calls' = [calls EXCEPT ![s].step = "second", ![s].saw = dockerSandboxState(ctrs[s].state)]
        /\ UNCHANGED answers
  /\ UNCHANGED <<ctrs, commits, phase, todo, known, promised, dropped, unlabelled>>

\* A container that is neither paused nor running is reported as missing.
InspectAnswers(s) ==
  /\ At(s, "second")
  /\ IF calls[s].saw \in {"none", "dead"}
     THEN /\ Return(s, "missing")
          /\ known' = [known EXCEPT ![s] = NoRecord]
          /\ dropped' = dropped \cup {s}
     ELSE Return(s, calls[s].saw) /\ UNCHANGED <<known, dropped>>
  /\ UNCHANGED <<ctrs, commits, phase, todo, promised, unlabelled>>

\* A forced removal kills first; not found is success.
DeleteSandbox(s) ==
  /\ At(s, "first") /\ calls[s].kind = "delete"
  /\ \/ /\ ctrs' = [ctrs EXCEPT ![s] = NoCtr]
        /\ Return(s, "ok")
        /\ known' = [known EXCEPT ![s] = NoRecord]
     \/ /\ \/ Late(ctrs' = [ctrs EXCEPT ![s] = NoCtr])
           \/ ctrs[s] # NoCtr /\ SetState(s, "exited")
        /\ Return(s, "error")
        /\ UNCHANGED known
  /\ UNCHANGED <<commits, phase, todo, promised, dropped, unlabelled>>

\* The engine's conflict, of a paused container or of one that does not run, is success.
PauseSandbox(s) ==
  /\ At(s, "first") /\ calls[s].kind = "pause"
  /\ \/ ctrs[s].state = "running" /\ SetState(s, "paused") /\ Return(s, "ok")
     \/ ctrs[s].state \in {"paused", "created", "exited"} /\ UNCHANGED ctrs /\ Return(s, "ok")
     \/ /\ Late(ctrs[s].state = "running" /\ SetState(s, "paused"))
        /\ Return(s, "error")
  /\ UNCHANGED <<commits, phase, todo, known, promised, dropped, unlabelled>>

\* The conflict, of a container that is not paused, is passed over.
ResumeSandbox(s) ==
  /\ At(s, "first") /\ calls[s].kind = "resume"
  /\ ctrs[s] # NoCtr
  /\ IF ctrs[s].state = "paused" THEN SetState(s, "running") ELSE UNCHANGED ctrs
  /\ calls' = [calls EXCEPT ![s].step = "info"]
  /\ UNCHANGED <<answers, commits, phase, todo, known, promised, dropped, unlabelled>>

\* The unpausing fails, perhaps late, or inspectRuntimeInfo does after it.
ResumeFails(s) ==
  /\ calls[s].kind = "resume"
  /\ Late(At(s, "first") /\ ctrs[s].state = "paused" /\ SetState(s, "running"))
  /\ Return(s, "error")
  /\ UNCHANGED <<commits, phase, todo, known, promised, dropped, unlabelled>>

---------------------------------------------------------------------------
(* Commits: CreateSandboxSnapshot has left lifecycleMu, and the engine     *)
(* finishes what it has begun.                                             *)

CommitBegins(s) ==
  /\ phase = "up" /\ known[s] # NoRecord
  /\ commits[s] = "idle"
  /\ ctrs[s] # NoCtr
  /\ IF ctrs[s].state = "running"
     THEN SetState(s, "paused") /\ commits' = [commits EXCEPT ![s] = "paused it"]
     ELSE UNCHANGED ctrs /\ commits' = [commits EXCEPT ![s] = "as it was"]
  /\ UNCHANGED <<calls, answers, phase, todo, known, promised, dropped, unlabelled>>

\* Done, failed or given up: the engine unpauses what it has paused.
CommitEnds(s) ==
  /\ commits[s] # "idle"
  /\ IF commits[s] = "paused it" /\ ctrs[s].state = "paused"
     THEN SetState(s, "running")
     ELSE UNCHANGED ctrs
  /\ commits' = [commits EXCEPT ![s] = "idle"]
  /\ UNCHANGED <<calls, answers, phase, todo, known, promised, dropped, unlabelled>>

---------------------------------------------------------------------------
(* The end of the process, and RestoreSandboxes.                           *)

ProcessDies ==
  /\ phase # "down"
  /\ phase' = "down"
  /\ calls' = [s \in Sandboxes |-> Idle]
  /\ known' = [s \in Sandboxes |-> NoRecord]
  /\ todo' = {}
  /\ UNCHANGED <<ctrs, answers, commits, promised, dropped, unlabelled>>

\* ContainerList of all containers with the managed and the sandbox id label.
RestoreBegins ==
  /\ phase = "down"
  /\ phase' = "restoring"
  /\ todo' = {s \in Sandboxes : ctrs[s] # NoCtr}
  /\ UNCHANGED <<ctrs, calls, answers, commits, known, promised, dropped, unlabelled>>

\* What the labels say; a policy that is missing has a default.
RestoredRecord(ctr) ==
  [policy |-> IF ctr.labels.policy = "none" THEN "kill" ELSE ctr.labels.policy,
   meta |-> ctr.labels.meta]

\* restoreSandboxRecord: a container that neither runs nor is paused is left out.
RestoreOne(s) ==
  /\ phase = "restoring"
  /\ s \in todo
  /\ todo' = todo \ {s}
  /\ IF Bound(ctrs[s])
     THEN known' = [known EXCEPT ![s] = RestoredRecord(ctrs[s])] /\ dropped' = dropped \ {s}
     ELSE UNCHANGED known /\ dropped' = dropped \cup {s}
  /\ UNCHANGED <<ctrs, calls, answers, commits, phase, promised, unlabelled>>

\* Any error, a container that has lost its port since it was listed included, ends
\* the start.
RestoreFails ==
  /\ phase = "restoring"
  /\ todo # {}
  /\ phase' = "down"
  /\ todo' = {}
  /\ known' = [s \in Sandboxes |-> NoRecord]
  /\ UNCHANGED <<ctrs, calls, answers, commits, promised, dropped, unlabelled>>

RestoreEnds ==
  /\ phase = "restoring"
  /\ todo = {}
  /\ phase' = "up"
  /\ UNCHANGED <<ctrs, calls, answers, commits, todo, known, promised, dropped, unlabelled>>

\* The template's program has come up in the container.
ProgramReady(s) ==
  /\ ctrs[s].state = "running" /\ ctrs[s].ready = "no"
  /\ ctrs' = [ctrs EXCEPT ![s].ready = "yes"]
  /\ UNCHANGED <<calls, answers, commits, phase, todo, known, promised, dropped, unlabelled>>

ExternalChange(s) ==
  /\ \/ "stop" \in ExternalChanges /\ Bound(ctrs[s]) /\ SetState(s, "exited")
     \/ "start" \in ExternalChanges /\ ctrs[s].state \in {"created", "exited"} /\ SetState(s, "running")
     \/ "remove" \in ExternalChanges /\ ctrs[s] # NoCtr /\ ctrs' = [ctrs EXCEPT ![s] = NoCtr]
  /\ UNCHANGED <<calls, answers, commits, phase, todo, known, promised, dropped, unlabelled>>

---------------------------------------------------------------------------
(* The specification.                                                      *)

Arrive(s) ==
  \/ \E record \in Records, image \in Images : CreateBegins(s, record, image)
  \/ \E kind \in {"inspect", "pause", "resume", "delete"} : CallBegins(s, kind)
  \/ CommitBegins(s)

CallStep(s) ==
  \/ ResolveTemplateImage(s) \/ SelectPlatform(s) \/ ImageLabels(s) \/ PublishedContainerPorts(s)
  \/ ContainerCreate(s) \/ ContainerStart(s) \/ InspectRuntimeInfo(s)
  \/ WaitHealthy(s) \/ WaitReadyCommand(s) \/ ProvisionFails(s) \/ RemoveContainer(s)
  \/ InspectSandbox(s) \/ InspectAnswers(s) \/ DeleteSandbox(s)
  \/ PauseSandbox(s) \/ ResumeSandbox(s) \/ ResumeFails(s)

Step ==
  \/ ProcessDies \/ RestoreBegins \/ RestoreFails \/ RestoreEnds
  \/ \E s \in Sandboxes :
       Arrive(s) \/ CallStep(s) \/ CommitEnds(s) \/ RestoreOne(s) \/ ProgramReady(s) \/ ExternalChange(s)

Meets ==
  met' = [s \in Sandboxes |->
    IF calls'[s] = Idle THEN {} ELSE met[s] \cup {dockerSandboxState(ctrs'[s].state)}]

Next == Step /\ Meets

Spec == Init /\ [][Next]_dvars

---------------------------------------------------------------------------
(* Properties.                                                             *)

\* The refinement mapping.
State(s) == dockerSandboxState(ctrs[s].state)

rtBar == [s \in Sandboxes |-> State(s)]

callBar == [s \in Sandboxes |-> calls[s].kind]

\* A request that fails has had its effect by then, or has none.
owedBar == [s \in Sandboxes |-> {}]

Runtime == INSTANCE RuntimeContract WITH
  rt <- rtBar, call <- callBar, seen <- met, owed <- owedBar, answer <- answers,
  Interference <- {"paused", "running"} \cup
                  (IF "stop" \in ExternalChanges THEN {"dead"} ELSE {}) \cup
                  (IF "remove" \in ExternalChanges THEN {"none"} ELSE {})

\* DockerRuntime keeps the contract of a runtime that SandboxLifecycle builds on,
\* although it takes conflicts for successes, asks for the state and the address of a
\* container one after the other, and shares the container with commits.
ImplementsRuntime == Runtime!CSpec

\* RestoreSandboxes: whatever was under way when the process died, every sandbox
\* whose create was answered is known to the next process, unless it was dead when it
\* was looked at, with its timeout policy and, if it was given any, its metadata: a
\* snapshot's labels in the image it was made from do not decide.
RestoredAsCreated ==
  \A s \in Sandboxes :
    phase = "up" /\ promised[s] # NoRecord /\ Bound(ctrs[s]) =>
      IF known[s] = NoRecord THEN s \in dropped
      ELSE /\ known[s].policy = promised[s].policy
           /\ promised[s].meta # "none" => known[s].meta = promised[s].meta

\* waitReadyCommand: a sandbox whose create was answered has passed its template's
\* ready command, unless the template's labels could not be read.
AnsweredIsReady ==
  \A s \in Sandboxes : promised[s] # NoRecord /\ ctrs[s].ready = "no" => s \in unlabelled
===========================================================================
