----------------------- MODULE DockerContainersProofs -----------------------
(***************************************************************************)
(* The Docker backend, for any number of sandboxes: a restart knows what   *)
(* was created and as it was created, an answered create has passed its    *)
(* ready command, and the calls keep RuntimeContract.                      *)
(***************************************************************************)
EXTENDS DockerContainers, TLAPS

---------------------------------------------------------------------------
(* The invariant.                                                          *)

Labels == [policy: {"none", "kill", "pause"}, meta: {"none", "own", "theirs"}]

Ctr == [state: {"absent", "created", "running", "paused", "exited"}, labels: Labels,
        ready: {"none", "no", "yes"}]

Steps == {"none", "first", "second", "image", "platform", "labels", "ports", "create",
          "start", "info", "health", "ready", "cleanup"}

States == {"none", "dead", "running", "paused"}

CallRecord == [kind: {"idle", "create", "inspect", "delete", "pause", "resume"}, step: Steps,
               record: Records \cup {NoRecord}, image: Images, saw: States \cup {"nothing"}]

Answers == {"none", "pending", "ok", "error", "missing", "running", "paused"}

DockerTypeOK ==
  /\ ctrs \in [Sandboxes -> Ctr]
  /\ calls \in [Sandboxes -> CallRecord]
  /\ answers \in [Sandboxes -> Answers]
  /\ commits \in [Sandboxes -> {"idle", "paused it", "as it was"}]
  /\ phase \in {"up", "down", "restoring"}
  /\ todo \subseteq Sandboxes
  /\ known \in [Sandboxes -> Labels]
  /\ promised \in [Sandboxes -> Records \cup {NoRecord}]
  /\ dropped \subseteq Sandboxes /\ unlabelled \subseteq Sandboxes
  /\ met \in [Sandboxes -> SUBSET States]

Before == {"image", "platform", "labels", "ports", "create"}

\* The call is where the code can be.
Placed(s) ==
  /\ calls[s].kind = "idle" => calls[s] = Idle
  /\ calls[s].kind = "create" =>
       calls[s].step \in Before \cup ProvisioningSteps \cup {"cleanup"} /\ calls[s].record \in Records
  /\ calls[s].kind = "resume" => calls[s].step \in {"first", "info"}
  /\ calls[s].kind = "inspect" => calls[s].step \in {"first", "second"}
  /\ calls[s].kind \in {"delete", "pause"} => calls[s].step = "first"
  /\ phase # "up" => calls[s] = Idle

\* met is the history of the call under way.
Witnessed(s) ==
  /\ calls[s] = Idle => met[s] = {}
  /\ calls[s] # Idle => State(s) \in met[s]
  /\ calls[s].step = "second" => calls[s].saw \in met[s]
  /\ calls[s].kind = "resume" /\ calls[s].step = "info" /\ ctrs[s].state = "paused" =>
       "running" \in met[s]

\* A record holds what was promised.
Agrees(record, promise) ==
  /\ record.policy = promise.policy
  /\ promise.meta # "none" => record.meta = promise.meta

\* Who has been promised something, and what is known of it.
Kept(s) ==
  /\ ctrs[s].state = "absent" => ctrs[s] = NoCtr
  /\ answers[s] = "none" =>
       calls[s] = Idle /\ ctrs[s] = NoCtr /\ promised[s] = NoRecord /\ known[s] = NoRecord
  /\ calls[s].kind = "create" => promised[s] = NoRecord /\ known[s] = NoRecord
  /\ promised[s] # NoRecord /\ known[s] # NoRecord => Agrees(known[s], promised[s])
  /\ promised[s] # NoRecord /\ ctrs[s] # NoCtr => Agrees(ctrs[s].labels, promised[s])
  /\ promised[s] # NoRecord /\ known[s] = NoRecord /\ ctrs[s] # NoCtr =>
       \/ phase = "down"
       \/ phase = "restoring" /\ s \in todo
       \/ s \in dropped

\* What the container of a create is like.
Made(s) ==
  /\ calls[s].kind = "create" /\ calls[s].step \in ProvisioningSteps /\ ctrs[s] # NoCtr =>
       /\ ctrs[s].labels = ContainerLabels(calls[s].record, calls[s].image)
       /\ ~calls[s].image.ready => ctrs[s].ready # "no"
  /\ promised[s] # NoRecord /\ ctrs[s].ready = "no" => s \in unlabelled

Local(s) == Placed(s) /\ Witnessed(s) /\ Kept(s) /\ Made(s)

DockerInv ==
  /\ DockerTypeOK
  /\ \A s \in Sandboxes : Local(s)

---------------------------------------------------------------------------
(* What a step of a call does with the call and the container.             *)

\* A call that returns is idle again and leaves its answer.
LEMMA Returns ==
  ASSUME DockerTypeOK, NEW s \in Sandboxes, NEW a \in Answers, Return(s, a)
  PROVE  /\ calls' \in [Sandboxes -> CallRecord] /\ answers' \in [Sandboxes -> Answers]
         /\ calls'[s] = Idle /\ answers'[s] = a
         /\ \A t \in Sandboxes \ {s} : calls'[t] = calls[t] /\ answers'[t] = answers[t]
<1>1. Idle \in CallRecord
  BY DEF Idle, CallRecord, Steps, Images
<1> QED BY <1>1 DEF DockerTypeOK, Return

\* Only the place in the call's code changes.
Places(s, step) ==
  /\ calls' \in [Sandboxes -> CallRecord] /\ UNCHANGED answers
  /\ calls'[s].step = step
  /\ calls'[s].kind = calls[s].kind /\ calls'[s].record = calls[s].record
  /\ calls'[s].image = calls[s].image /\ calls'[s].saw = calls[s].saw
  /\ \A t \in Sandboxes \ {s} : calls'[t] = calls[t]

\* A call that goes on changes its step and nothing else.
LEMMA Goes ==
  ASSUME DockerTypeOK, NEW s \in Sandboxes, NEW step \in Steps,
         calls' = [calls EXCEPT ![s].step = step], UNCHANGED answers
  PROVE  Places(s, step)
<1> DEFINE c == [calls[s] EXCEPT !.step = step]
<1>1. /\ c \in CallRecord /\ c.step = step
      /\ c.kind = calls[s].kind /\ c.record = calls[s].record
      /\ c.image = calls[s].image /\ c.saw = calls[s].saw
  BY DEF DockerTypeOK, CallRecord
<1>2. calls' = [calls EXCEPT ![s] = c]
  BY DEF DockerTypeOK
<1> HIDE DEF c
<1> QED BY <1>1, <1>2 DEF DockerTypeOK, Places

\* A request leaves the container as it was made, but for its state.
Touches(s) ==
  /\ ctrs' \in [Sandboxes -> Ctr]
  /\ \A t \in Sandboxes \ {s} : ctrs'[t] = ctrs[t]
  /\ \/ ctrs'[s] = NoCtr
     \/ /\ ctrs[s] # NoCtr /\ ctrs'[s].state # "absent"
        /\ ctrs'[s].labels = ctrs[s].labels
        /\ ctrs'[s].ready = ctrs[s].ready \/ ctrs'[s].ready = "yes"

\* A step that leaves the containers alone keeps their labels.
LEMMA Leaves ==
  ASSUME DockerInv, NEW s \in Sandboxes, UNCHANGED ctrs
  PROVE  Touches(s)
BY DEF Touches, DockerInv, DockerTypeOK, Local, Kept

\* So does one that changes the state of a container,
LEMMA SetsState ==
  ASSUME DockerTypeOK, NEW s \in Sandboxes, ctrs[s] # NoCtr,
         NEW state \in {"created", "running", "paused", "exited"}, SetState(s, state)
  PROVE  Touches(s) /\ ctrs'[s].state = state
<1> DEFINE c == [ctrs[s] EXCEPT !.state = state]
<1>1. c \in Ctr /\ c.state = state /\ c.labels = ctrs[s].labels /\ c.ready = ctrs[s].ready
  BY DEF DockerTypeOK, Ctr
<1>2. ctrs' = [ctrs EXCEPT ![s] = c]
  BY DEF SetState, DockerTypeOK
<1> HIDE DEF c
<1> QED BY <1>1, <1>2 DEF DockerTypeOK, Touches

\* ... and one that removes it.
LEMMA Removes ==
  ASSUME DockerTypeOK, NEW s \in Sandboxes, ctrs' = [ctrs EXCEPT ![s] = NoCtr]
  PROVE  Touches(s) /\ ctrs'[s] = NoCtr /\ ctrs'[s].state = "absent"
<1>1. NoCtr \in Ctr /\ NoCtr.state = "absent"
  BY DEF NoCtr, Ctr, Labels, NoRecord
<1> QED BY <1>1 DEF DockerTypeOK, Touches

\* A container with a state is one.
LEMMA Real ==
  ASSUME NEW s \in Sandboxes, ctrs[s].state # "absent"
  PROVE  ctrs[s] # NoCtr
BY DEF NoCtr

---------------------------------------------------------------------------
(* A step of s keeps the invariant.                                        *)

\* What belongs to the other sandboxes stays as it is.
Frame(s) ==
  /\ \A t \in Sandboxes \ {s} :
       /\ ctrs'[t] = ctrs[t] /\ calls'[t] = calls[t] /\ answers'[t] = answers[t]
       /\ known'[t] = known[t] /\ promised'[t] = promised[t]
       /\ t \in dropped' <=> t \in dropped
       /\ t \in unlabelled' <=> t \in unlabelled
       /\ t \in todo' <=> t \in todo
  /\ UNCHANGED phase

\* The types of what a step changes.
Typed ==
  /\ ctrs' \in [Sandboxes -> Ctr] /\ calls' \in [Sandboxes -> CallRecord]
  /\ answers' \in [Sandboxes -> Answers]
  /\ commits' \in [Sandboxes -> {"idle", "paused it", "as it was"}]
  /\ phase' \in {"up", "down", "restoring"} /\ todo' \subseteq Sandboxes
  /\ known' \in [Sandboxes -> Labels] /\ promised' \in [Sandboxes -> Records \cup {NoRecord}]
  /\ dropped' \subseteq Sandboxes /\ unlabelled' \subseteq Sandboxes

\* A step is well typed if its own part is; the states a call has met are bookkeeping.
LEMMA MeetsIsTyped ==
  ASSUME DockerTypeOK, Typed, Meets
  PROVE  /\ DockerTypeOK'
         /\ \A s \in Sandboxes : met'[s] = IF calls'[s] = Idle THEN {} ELSE met[s] \cup {State(s)'}
<1>1. \A s \in Sandboxes : State(s)' \in States
  BY DEF State, dockerSandboxState, Typed, Ctr, States
<1>2. \A s \in Sandboxes : met'[s] = IF calls'[s] = Idle THEN {} ELSE met[s] \cup {State(s)'}
  BY DEF Meets, State
<1>3. met' \in [Sandboxes -> SUBSET States]
  BY <1>1 DEF Meets, State, DockerTypeOK
<1> QED BY <1>2, <1>3 DEF DockerTypeOK, Typed

\* A step of one sandbox keeps the invariant if it keeps it for that sandbox.
LEMMA OwnStep ==
  ASSUME DockerInv, NEW s \in Sandboxes, Typed, Frame(s), Meets, Local(s)'
  PROVE  DockerInv'
<1>1. /\ DockerTypeOK'
      /\ \A t \in Sandboxes : met'[t] = IF calls'[t] = Idle THEN {} ELSE met[t] \cup {State(t)'}
  BY MeetsIsTyped DEF DockerInv
<1>2. ASSUME NEW t \in Sandboxes \ {s}
      PROVE  Local(t)'
  <2>1. Local(t)
    BY DEF DockerInv
  <2>2. State(t)' = State(t)
    BY DEF Frame, State
  <2>3. met'[t] = met[t]
    <3>1. met'[t] = IF calls[t] = Idle THEN {} ELSE met[t] \cup {State(t)}
      BY <1>1, <2>2 DEF Frame
    <3>2. calls[t] = Idle => met[t] = {}
      BY <2>1 DEF Local, Witnessed
    <3>3. calls[t] # Idle => met[t] \cup {State(t)} = met[t]
      BY <2>1 DEF Local, Witnessed
    <3> QED BY <3>1, <3>2, <3>3
  <2> QED BY <2>1, <2>2, <2>3 DEF Frame, Local, Placed, Witnessed, Kept, Made
<1> QED BY <1>1, <1>2 DEF DockerInv

\* The steps that neither make a container nor promise a sandbox.
LEMMA StepKeeps ==
  ASSUME DockerInv, NEW s \in Sandboxes, Meets, Typed, Frame(s), Touches(s), UNCHANGED todo,
         Placed(s)',
         answers'[s] = "none" => answers[s] = "none" /\ calls'[s] = calls[s],
         calls'[s].step = "second" => calls'[s].saw \in met[s] \cup {State(s)'},
         calls'[s].kind = "resume" /\ calls'[s].step = "info" /\ ctrs'[s].state = "paused" =>
           /\ calls[s].kind = "resume" /\ calls[s].step = "info"
           /\ ctrs[s].state \in {"running", "paused"},
         calls'[s].kind = "create" =>
           /\ calls[s].kind = "create" /\ known'[s] = NoRecord
           /\ calls'[s].record = calls[s].record /\ calls'[s].image = calls[s].image
           /\ calls'[s].step \in ProvisioningSteps => calls[s].step \in ProvisioningSteps,
         promised'[s] = promised[s],
         known'[s] \in {known[s], NoRecord},
         known'[s] = NoRecord /\ known[s] # NoRecord => ctrs'[s] = NoCtr \/ s \in dropped',
         s \in dropped => s \in dropped',
         s \in unlabelled => s \in unlabelled'
  PROVE  DockerInv'
<1>1. \A t \in Sandboxes : met'[t] = IF calls'[t] = Idle THEN {} ELSE met[t] \cup {State(t)'}
  BY MeetsIsTyped DEF DockerInv
<1>2. Local(s) /\ NoCtr.state = "absent" /\ NoCtr.ready = "none"
  BY DEF DockerInv, NoCtr
<1>3. Witnessed(s)'
  <2>1. calls'[s].step = "second" => calls'[s] # Idle
    BY DEF Idle
  <2>2. calls'[s].kind = "resume" => calls'[s] # Idle
    BY DEF Idle
  <2>3. calls'[s].kind = "resume" /\ calls'[s].step = "info" /\ ctrs'[s].state = "paused" =>
          "running" \in met[s]
    BY <1>2, <2>2 DEF Local, Witnessed, State, dockerSandboxState, Idle
  <2> QED BY <1>1, <2>1, <2>2, <2>3 DEF Witnessed
<1>4. Kept(s)'
  BY <1>2 DEF Local, Kept, Touches, Frame
<1>5. Made(s)'
  BY <1>2 DEF Local, Made, Touches
<1> QED BY <1>3, <1>4, <1>5, OwnStep DEF Local

\* A create or a resume goes on.
LEMMA GoKeeps ==
  ASSUME DockerInv, NEW s \in Sandboxes, Meets, Touches(s), calls[s].kind = "create",
         NEW step \in Before \cup ProvisioningSteps \cup {"cleanup"}, Places(s, step),
         step \in ProvisioningSteps => calls[s].step \in ProvisioningSteps,
         UNCHANGED <<commits, phase, todo, known, promised, dropped>>,
         unlabelled' \in {unlabelled, unlabelled \cup {s}}
  PROVE  DockerInv'
<1>1. DockerTypeOK /\ Local(s) /\ answers[s] # "none" /\ known[s] = NoRecord
  BY DEF DockerInv, Local, Kept, Idle
<1>2. Typed /\ Frame(s)
  BY <1>1 DEF Typed, Frame, DockerTypeOK, Touches, Places
<1>3. Placed(s)'
  BY <1>1 DEF Local, Placed, Places, Idle
<1> QED BY <1>1, <1>2, <1>3, StepKeeps DEF Places, Before, ProvisioningSteps

\* A call that returns.  It forgets the sandbox when it is gone or dead.
LEMMA ReturnKeeps ==
  ASSUME DockerInv, NEW s \in Sandboxes, Meets, Touches(s), calls[s] # Idle,
         NEW a \in Answers \ {"none"}, Return(s, a),
         UNCHANGED <<commits, phase, todo, promised, unlabelled>>,
         dropped' \in {dropped, dropped \cup {s}},
         \/ UNCHANGED known
         \/ known' = [known EXCEPT ![s] = NoRecord] /\ (ctrs'[s] = NoCtr \/ s \in dropped')
  PROVE  DockerInv'
<1>1. DockerTypeOK
  BY DEF DockerInv
<1>2. /\ calls' \in [Sandboxes -> CallRecord] /\ answers' \in [Sandboxes -> Answers]
      /\ calls'[s] = Idle /\ answers'[s] = a
      /\ \A t \in Sandboxes \ {s} : calls'[t] = calls[t] /\ answers'[t] = answers[t]
  BY <1>1, Returns
<1>3. NoRecord \in Labels
  BY DEF NoRecord, Labels
<1>4. Typed /\ Frame(s)
  BY <1>1, <1>2, <1>3 DEF Typed, Frame, DockerTypeOK, Touches
<1>5. Placed(s)' /\ calls'[s].kind = "idle" /\ calls'[s].step = "none"
  BY <1>2 DEF Placed, Idle
<1>6. known'[s] \in {known[s], NoRecord}
      /\ (known'[s] = NoRecord /\ known[s] # NoRecord => ctrs'[s] = NoCtr \/ s \in dropped')
  BY <1>1 DEF DockerTypeOK
<1> QED BY <1>2, <1>4, <1>5, <1>6, StepKeeps

---------------------------------------------------------------------------
(* CreateSandbox.                                                          *)

\* The steps that only a create takes.
LEMMA Creating ==
  ASSUME DockerInv, NEW s \in Sandboxes,
         \/ calls[s].kind = "create"
         \/ calls[s].step \in Before \cup {"start", "health", "ready", "cleanup"}
  PROVE  /\ DockerTypeOK /\ Local(s) /\ calls[s].kind = "create" /\ calls[s] # Idle
         /\ calls[s].record \in Records /\ calls[s].image \in Images
<1>1. DockerTypeOK /\ Local(s)
  BY DEF DockerInv
<1>2. calls[s] \in CallRecord /\ Placed(s)
  BY <1>1 DEF DockerTypeOK, Local
<1>3. calls[s].kind \in {"idle", "create", "inspect", "delete", "pause", "resume"}
      /\ calls[s].image \in Images
  BY <1>2 DEF CallRecord
<1>4. calls[s].kind = "idle" => calls[s].step = "none"
  BY <1>2 DEF Placed, Idle
<1>5. calls[s].kind = "create" /\ calls[s].record \in Records
  BY <1>2, <1>3, <1>4 DEF Placed, Before
<1>6. calls[s] # Idle
  BY <1>5 DEF Idle
<1> QED BY <1>1, <1>3, <1>5, <1>6

\* The steps of a create before its container.
LEMMA CreateStarts ==
  ASSUME DockerInv, NEW s \in Sandboxes, Meets,
         \/ ResolveTemplateImage(s) \/ SelectPlatform(s) \/ ImageLabels(s) \/ PublishedContainerPorts(s)
  PROVE  DockerInv'
<1>1. /\ DockerTypeOK /\ calls[s].kind = "create" /\ calls[s] # Idle
      /\ calls[s].step \in {"image", "platform", "labels", "ports"}
  <2>1. calls[s].step \in {"image", "platform", "labels", "ports"}
    BY DEF At, ResolveTemplateImage, SelectPlatform, ImageLabels, PublishedContainerPorts
  <2> QED BY <2>1, Creating DEF Before
<1>2. Touches(s)
  BY Leaves DEF ResolveTemplateImage, SelectPlatform, ImageLabels, PublishedContainerPorts
<1>3. CASE Return(s, "error") /\ UNCHANGED unlabelled
  BY <1>1, <1>2, <1>3, ReturnKeeps
     DEF Answers, ResolveTemplateImage, SelectPlatform, ImageLabels, PublishedContainerPorts
<1>4. ASSUME NEW step \in {"platform", "labels", "ports", "create"}, Goto(s, step),
             unlabelled' \in {unlabelled, unlabelled \cup {s}}
      PROVE  DockerInv'
  <2>1. Places(s, step)
    BY <1>1, <1>4, Goes DEF Goto, Steps
  <2> QED BY <1>1, <1>2, <1>4, <2>1, GoKeeps
          DEF Before, ProvisioningSteps, ResolveTemplateImage, SelectPlatform, ImageLabels,
              PublishedContainerPorts
<1> QED BY <1>3, <1>4 DEF ResolveTemplateImage, SelectPlatform, ImageLabels, PublishedContainerPorts

\* ContainerCreate writes the labels from the record it was asked for.
LEMMA ContainerCreateKeeps ==
  ASSUME DockerInv, NEW s \in Sandboxes, Meets, ContainerCreate(s)
  PROVE  DockerInv'
<1> DEFINE c == [state |-> "created", ready |-> IF calls[s].image.ready THEN "no" ELSE "none",
                 labels |-> ContainerLabels(calls[s].record, calls[s].image)]
           made == ctrs' = [ctrs EXCEPT ![s] = c]
<1>1. /\ DockerTypeOK /\ Local(s) /\ calls[s].kind = "create" /\ calls[s] # Idle
      /\ calls[s].step = "create" /\ calls[s].record \in Records
      /\ calls[s].image \in Images
  BY Creating DEF At, ContainerCreate, Before
<1>2. /\ promised[s] = NoRecord /\ known[s] = NoRecord /\ answers[s] # "none"
      /\ UNCHANGED <<commits, phase, todo, known, promised, dropped, unlabelled>>
  BY <1>1 DEF Local, Kept, ContainerCreate
<1>3. c \in Ctr /\ c # NoCtr /\ c.state = "created"
      /\ c.labels = ContainerLabels(calls[s].record, calls[s].image)
      /\ (~calls[s].image.ready => c.ready # "no")
  BY <1>1 DEF Ctr, NoCtr, Labels, ContainerLabels, Records, DockerTypeOK, CallRecord, Images
<1>4. CASE UNCHANGED ctrs /\ Return(s, "error")
  BY <1>1, <1>2, <1>4, Leaves, ReturnKeeps DEF Answers
<1>5. CASE made /\ (Goto(s, "start") \/ Return(s, "error"))
  <2> HIDE DEF c
  <2>1. /\ ctrs' \in [Sandboxes -> Ctr] /\ ctrs'[s] = c
        /\ \A t \in Sandboxes \ {s} : ctrs'[t] = ctrs[t]
    BY <1>1, <1>3, <1>5 DEF DockerTypeOK
  <2>2. \/ Places(s, "start")
        \/ /\ calls' \in [Sandboxes -> CallRecord] /\ answers' \in [Sandboxes -> Answers]
           /\ calls'[s] = Idle /\ answers'[s] = "error"
           /\ \A t \in Sandboxes \ {s} : calls'[t] = calls[t] /\ answers'[t] = answers[t]
    BY <1>1, <1>5, Returns, Goes DEF Steps, Answers, Goto
  <2>3. Typed /\ Frame(s)
    BY <1>1, <1>2, <2>1, <2>2 DEF Typed, Frame, DockerTypeOK, Places
  <2>4. \A t \in Sandboxes : met'[t] = IF calls'[t] = Idle THEN {} ELSE met[t] \cup {State(t)'}
    BY <2>3, MeetsIsTyped DEF DockerInv
  <2>5. Placed(s)'
    BY <1>1, <1>2, <2>2 DEF Local, Placed, Places, Idle, ProvisioningSteps
  <2>6. Witnessed(s)'
    <3>1. calls'[s] = Idle \/ (calls'[s].kind = "create" /\ calls'[s].step = "start")
      BY <1>1, <2>2 DEF Places
    <3>2. calls'[s].step # "second" /\ calls'[s].kind # "resume"
      BY <3>1 DEF Idle
    <3>3. met'[s] = IF calls'[s] = Idle THEN {} ELSE met[s] \cup {State(s)'}
      BY <2>4
    <3> QED BY <3>2, <3>3 DEF Witnessed
  <2>7. Kept(s)'
    BY <1>1, <1>2, <1>3, <2>1, <2>2 DEF Kept, Places
  <2>8. Made(s)'
    BY <1>1, <1>2, <1>3, <2>1, <2>2 DEF Made, Places, Idle
  <2> QED BY <2>3, <2>5, <2>6, <2>7, <2>8, OwnStep DEF Local
<1> QED BY <1>4, <1>5 DEF ContainerCreate

\* The requests that provision a container, while there is still something to do.
LEMMA ProvisionKeeps ==
  ASSUME DockerInv, NEW s \in Sandboxes, Meets, calls[s].kind = "create",
         \/ ContainerStart(s) \/ InspectRuntimeInfo(s) \/ ProvisionFails(s)
         \/ WaitHealthy(s) /\ ~Created(s)
  PROVE  DockerInv'
<1>1. DockerTypeOK /\ calls[s].step \in ProvisioningSteps
  BY DEF DockerInv, At, ContainerStart, InspectRuntimeInfo, ProvisionFails, WaitHealthy, ProvisioningSteps
<1>2. Touches(s)
  BY <1>1, Leaves, SetsState, Real
     DEF ContainerStart, InspectRuntimeInfo, ProvisionFails, WaitHealthy, Late, LateStart
<1>3. PICK step \in {"info", "health", "ready", "cleanup"} : Goto(s, step)
  BY DEF ContainerStart, InspectRuntimeInfo, ProvisionFails, WaitHealthy
<1>4. Places(s, step)
  BY <1>1, <1>3, Goes DEF Goto, Steps
<1>5. UNCHANGED <<commits, phase, todo, known, promised, dropped, unlabelled>>
  BY DEF ContainerStart, InspectRuntimeInfo, ProvisionFails, WaitHealthy
<1> QED BY <1>1, <1>2, <1>4, <1>5, GoKeeps DEF ProvisioningSteps

\* What a create has been asked for is what its container says.
LEMMA LabelsAgree ==
  ASSUME NEW record \in Records, NEW image \in Images
  PROVE  Agrees(ContainerLabels(record, image), record)
BY DEF Agrees, ContainerLabels, Records, Images

\* A create that is done has waited for its program; the gateway knows what it asked for.
LEMMA CreatedKeeps ==
  ASSUME DockerInv, NEW s \in Sandboxes, Meets, WaitHealthy(s) \/ WaitReadyCommand(s), Created(s)
  PROVE  DockerInv'
<1> DEFINE record == calls[s].record
<1>1. /\ DockerTypeOK /\ Local(s) /\ calls[s].kind = "create" /\ calls[s].step \in ProvisioningSteps
      /\ record \in Records /\ calls[s].image \in Images /\ UNCHANGED ctrs /\ ctrs[s] # NoCtr
  <2>1. calls[s].step \in {"health", "ready"} /\ UNCHANGED ctrs /\ ctrs[s].state = "running"
    BY DEF At, WaitHealthy, WaitReadyCommand, ReadyCommandSucceeds
  <2> QED BY <2>1, Real, Creating DEF ProvisioningSteps
<1>2. ctrs[s].ready # "no" \/ s \in unlabelled
  <2>1. ~calls[s].image.ready => ctrs[s].ready # "no"
    BY <1>1 DEF Local, Made
  <2>2. CASE WaitHealthy(s)
    <3>1. ~(calls[s].image.ready /\ s \notin unlabelled)
      <4>1. SUFFICES ASSUME Goto(s, "ready")
                     PROVE  FALSE
        BY <2>2 DEF WaitHealthy
      <4>2. calls'[s].step = "ready"
        BY <1>1, <4>1, Goes DEF Goto, Steps, Places
      <4>3. calls'[s].step = "none"
        BY <1>1, Returns DEF Created, Answers, Idle
      <4> QED BY <4>2, <4>3
    <3> QED BY <2>1, <3>1
  <2>3. CASE WaitReadyCommand(s)
    BY <2>3 DEF WaitReadyCommand, ReadyCommandSucceeds
  <2> QED BY <2>2, <2>3
<1>3. UNCHANGED <<commits, phase, todo, dropped, unlabelled>>
  BY DEF WaitHealthy, WaitReadyCommand
<1>4. /\ calls' \in [Sandboxes -> CallRecord] /\ answers' \in [Sandboxes -> Answers]
      /\ calls'[s] = Idle /\ answers'[s] = "ok"
      /\ \A t \in Sandboxes \ {s} : calls'[t] = calls[t] /\ answers'[t] = answers[t]
  BY <1>1, Returns DEF Created, Answers
<1>5. record \in Labels
  BY <1>1 DEF Records, Labels
<1>6. /\ known' \in [Sandboxes -> Labels] /\ promised' \in [Sandboxes -> Records \cup {NoRecord}]
      /\ known'[s] = record /\ promised'[s] = record
      /\ \A t \in Sandboxes \ {s} : known'[t] = known[t] /\ promised'[t] = promised[t]
  BY <1>1, <1>5 DEF Created, DockerTypeOK
<1>7. Typed /\ Frame(s)
  BY <1>1, <1>3, <1>4, <1>6 DEF Typed, Frame, DockerTypeOK
<1>8. met'[s] = {}
  BY <1>4, <1>7, MeetsIsTyped DEF DockerInv
<1>9. Placed(s)' /\ Witnessed(s)'
  BY <1>4, <1>8 DEF Placed, Witnessed, Idle
<1>10. Agrees(ctrs[s].labels, record) /\ Agrees(record, record)
  BY <1>1, LabelsAgree DEF Local, Made, Agrees
<1>11. Kept(s)'
  <2>1. record # NoRecord
    BY <1>1 DEF Records, NoRecord
  <2> QED BY <1>1, <1>4, <1>6, <1>10, <2>1 DEF Kept, Idle, Local
<1>12. Made(s)'
  BY <1>1, <1>2, <1>3, <1>4 DEF Made, Idle
<1> QED BY <1>7, <1>9, <1>11, <1>12, OwnStep DEF Local

\* The cleanup of a create removes its container, or leaves it.
LEMMA RemoveContainerKeeps ==
  ASSUME DockerInv, NEW s \in Sandboxes, Meets, RemoveContainer(s)
  PROVE  DockerInv'
<1>1. Touches(s)
  BY Leaves, Removes DEF DockerInv, RemoveContainer
<1>2. calls[s] # Idle
  BY DEF RemoveContainer, At, Idle
<1> QED BY <1>1, <1>2, ReturnKeeps DEF RemoveContainer, Answers

---------------------------------------------------------------------------
(* The calls on a sandbox the gateway knows, commits and the world.        *)

\* inspectRuntimeInfo is the end of a resume.
LEMMA ResumeEndsKeeps ==
  ASSUME DockerInv, NEW s \in Sandboxes, Meets, calls[s].kind # "create", InspectRuntimeInfo(s)
  PROVE  DockerInv'
<1>1. Touches(s) /\ Return(s, "ok") /\ calls[s] # Idle
  BY Leaves DEF InspectRuntimeInfo, At, Idle
<1> QED BY <1>1, ReturnKeeps DEF InspectRuntimeInfo, Answers

\* A call that goes on without a change of the gateway's records, or does nothing here.
LEMMA CallGoesOn ==
  ASSUME DockerInv, NEW s \in Sandboxes, Meets, Touches(s),
         calls' \in [Sandboxes -> CallRecord], UNCHANGED answers,
         \A t \in Sandboxes \ {s} : calls'[t] = calls[t],
         commits' \in [Sandboxes -> {"idle", "paused it", "as it was"}],
         UNCHANGED <<phase, todo, known, promised, dropped, unlabelled>>,
         \/ calls'[s] = calls[s] /\ (ctrs'[s].state = "paused" => ctrs[s].state \in {"running", "paused"})
         \/ /\ calls'[s].kind = "inspect" /\ calls[s].kind = "inspect"
            /\ calls'[s].step = "second" /\ calls'[s].saw = State(s)'
         \/ /\ calls'[s].kind = "resume" /\ calls[s].kind = "resume"
            /\ calls'[s].step = "info" /\ ctrs'[s].state # "paused"
  PROVE  DockerInv'
<1>1. /\ DockerTypeOK /\ Placed(s) /\ Witnessed(s)
      /\ calls[s].kind = "create" => known[s] = NoRecord
      /\ answers[s] = "none" => calls[s] = Idle
      /\ Idle.kind = "idle"
  BY DEF DockerInv, Local, Kept, Idle
<1>2. Typed /\ Frame(s)
  BY <1>1 DEF Typed, Frame, DockerTypeOK, Touches
<1>3. CASE calls'[s] = calls[s] /\ (ctrs'[s].state = "paused" => ctrs[s].state \in {"running", "paused"})
  <2>1. Placed(s)'
    BY <1>1, <1>3 DEF Placed
  <2>2. calls'[s].step = "second" => calls'[s].saw \in met[s] \cup {State(s)'}
    BY <1>1, <1>3 DEF Witnessed
  <2> QED BY <1>1, <1>2, <1>3, <2>1, <2>2, StepKeeps
<1>4. CASE /\ calls'[s].kind = "inspect" /\ calls[s].kind = "inspect"
           /\ calls'[s].step = "second" /\ calls'[s].saw = State(s)'
  <2>1. Placed(s)'
    BY <1>1, <1>2, <1>4 DEF Placed, Frame
  <2>2. answers[s] # "none"
    BY <1>1, <1>4
  <2> QED BY <1>1, <1>2, <1>4, <2>1, <2>2, StepKeeps
<1>5. CASE /\ calls'[s].kind = "resume" /\ calls[s].kind = "resume"
           /\ calls'[s].step = "info" /\ ctrs'[s].state # "paused"
  <2>1. Placed(s)'
    BY <1>1, <1>2, <1>5 DEF Placed, Frame
  <2>2. answers[s] # "none"
    BY <1>1, <1>5
  <2> QED BY <1>1, <1>2, <1>5, <2>1, <2>2, StepKeeps
<1> QED BY <1>3, <1>4, <1>5

\* InspectSandbox looks at the container.
LEMMA InspectSandboxKeeps ==
  ASSUME DockerInv, NEW s \in Sandboxes, Meets, InspectSandbox(s)
  PROVE  DockerInv'
<1>1. DockerTypeOK /\ Touches(s) /\ calls[s] # Idle
  BY Leaves DEF DockerInv, InspectSandbox, At, Idle
<1>2. CASE Return(s, "error")
  BY <1>1, <1>2, ReturnKeeps DEF InspectSandbox, Answers
<1>3. CASE /\ calls' = [calls EXCEPT ![s].step = "second", ![s].saw = dockerSandboxState(ctrs[s].state)]
           /\ UNCHANGED answers
  <2> DEFINE c == [calls[s] EXCEPT !.step = "second", !.saw = State(s)]
  <2>1. State(s) \in States
    BY <1>1 DEF State, dockerSandboxState, DockerTypeOK, Ctr, States
  <2>2. c \in CallRecord /\ c.kind = calls[s].kind /\ c.step = "second" /\ c.saw = State(s)
    BY <1>1, <2>1 DEF DockerTypeOK, CallRecord, Steps
  <2>3. calls' = [calls EXCEPT ![s] = c]
    BY <1>1, <1>3 DEF DockerTypeOK, State
  <2> HIDE DEF c
  <2>4. /\ calls' \in [Sandboxes -> CallRecord] /\ calls'[s] = c
        /\ \A t \in Sandboxes \ {s} : calls'[t] = calls[t]
    BY <1>1, <2>2, <2>3 DEF DockerTypeOK
  <2>5. State(s)' = State(s) /\ commits' \in [Sandboxes -> {"idle", "paused it", "as it was"}]
    BY <1>1 DEF InspectSandbox, State, DockerTypeOK
  <2> QED BY <1>1, <1>3, <2>2, <2>4, <2>5, CallGoesOn DEF InspectSandbox
<1> QED BY <1>2, <1>3 DEF InspectSandbox

\* ... and answers with a state it has met.
LEMMA InspectAnswersKeeps ==
  ASSUME DockerInv, NEW s \in Sandboxes, Meets, InspectAnswers(s)
  PROVE  DockerInv'
<1>1. /\ DockerTypeOK /\ Touches(s) /\ calls[s] # Idle /\ calls[s].step = "second"
      /\ met[s] \subseteq States
  <2>1. DockerTypeOK /\ Touches(s)
    BY Leaves DEF DockerInv, InspectAnswers
  <2>2. calls[s] # Idle /\ calls[s].step = "second"
    BY DEF InspectAnswers, At, Idle
  <2> QED BY <2>1, <2>2 DEF DockerTypeOK
<1>2. calls[s].saw \in States
  BY <1>1 DEF DockerInv, Local, Witnessed
<1>3. CASE calls[s].saw \in {"none", "dead"}
  BY <1>1, <1>3, ReturnKeeps DEF InspectAnswers, Answers
<1>4. CASE calls[s].saw \notin {"none", "dead"}
  <2>1. calls[s].saw \in Answers \ {"none"}
    BY <1>2, <1>4 DEF States, Answers
  <2> QED BY <1>1, <1>4, <2>1, ReturnKeeps DEF InspectAnswers
<1> QED BY <1>3, <1>4

\* A delete removes the container and what the gateway knows, or neither.
LEMMA DeleteSandboxKeeps ==
  ASSUME DockerInv, NEW s \in Sandboxes, Meets, DeleteSandbox(s)
  PROVE  DockerInv'
<1>1. DockerTypeOK /\ calls[s] # Idle
  BY DEF DockerInv, DeleteSandbox, At, Idle
<1>2. CASE /\ ctrs' = [ctrs EXCEPT ![s] = NoCtr]
           /\ Return(s, "ok") /\ known' = [known EXCEPT ![s] = NoRecord]
  <2>1. Touches(s) /\ ctrs'[s] = NoCtr
    BY <1>1, <1>2, Removes
  <2> QED BY <1>1, <1>2, <2>1, ReturnKeeps DEF DeleteSandbox, Answers
<1>3. CASE /\ \/ Late(ctrs' = [ctrs EXCEPT ![s] = NoCtr])
              \/ ctrs[s] # NoCtr /\ SetState(s, "exited")
           /\ Return(s, "error") /\ UNCHANGED known
  <2>1. Touches(s)
    BY <1>1, <1>3, Leaves, Removes, SetsState DEF Late
  <2> QED BY <1>1, <1>3, <2>1, ReturnKeeps DEF DeleteSandbox, Answers
<1> QED BY <1>2, <1>3 DEF DeleteSandbox

\* A pause changes the state and no label.
LEMMA PauseSandboxKeeps ==
  ASSUME DockerInv, NEW s \in Sandboxes, Meets, PauseSandbox(s)
  PROVE  DockerInv'
<1>1. DockerTypeOK /\ calls[s] # Idle
  BY DEF DockerInv, PauseSandbox, At, Idle
<1>2. Touches(s)
  BY <1>1, Leaves, SetsState, Real DEF PauseSandbox, Late
<1>3. \E a \in {"ok", "error"} : Return(s, a)
  BY DEF PauseSandbox
<1> QED BY <1>1, <1>2, <1>3, ReturnKeeps DEF PauseSandbox, Answers

\* So does a resume,
LEMMA ResumeSandboxKeeps ==
  ASSUME DockerInv, NEW s \in Sandboxes, Meets, ResumeSandbox(s)
  PROVE  DockerInv'
<1>1. DockerTypeOK /\ calls[s].kind = "resume"
  BY DEF DockerInv, ResumeSandbox
<1>2. Touches(s) /\ ctrs'[s].state # "paused"
  BY <1>1, Leaves, SetsState DEF ResumeSandbox
<1>3. Places(s, "info")
  BY <1>1, Goes DEF ResumeSandbox, Steps
<1>4. commits' \in [Sandboxes -> {"idle", "paused it", "as it was"}]
  BY <1>1 DEF ResumeSandbox, DockerTypeOK
<1> QED BY <1>1, <1>2, <1>3, <1>4, CallGoesOn DEF ResumeSandbox, Places

\* ... and one that fails.
LEMMA ResumeFailsKeeps ==
  ASSUME DockerInv, NEW s \in Sandboxes, Meets, ResumeFails(s)
  PROVE  DockerInv'
<1>1. DockerTypeOK /\ calls[s] # Idle
  BY DEF DockerInv, ResumeFails, Idle
<1>2. Touches(s)
  BY <1>1, Leaves, SetsState, Real DEF ResumeFails, Late
<1> QED BY <1>1, <1>2, ReturnKeeps DEF ResumeFails, Answers

\* What is done to a container while its call, if there is one, waits.
LEMMA BehindKeeps ==
  ASSUME DockerInv, NEW s \in Sandboxes, Meets,
         CommitBegins(s) \/ CommitEnds(s) \/ ProgramReady(s) \/ ExternalChange(s)
  PROVE  DockerInv'
<1>1. /\ DockerTypeOK /\ UNCHANGED <<calls, answers, phase, todo, known, promised, dropped, unlabelled>>
      /\ commits' \in [Sandboxes -> {"idle", "paused it", "as it was"}]
  BY DEF DockerInv, DockerTypeOK, CommitBegins, CommitEnds, ProgramReady, ExternalChange
<1>2. /\ Touches(s)
      /\ ctrs'[s].state = "paused" => ctrs[s].state \in {"running", "paused"}
  <2>1. CASE UNCHANGED ctrs
    BY <2>1, Leaves
  <2>2. CASE /\ ctrs[s] # NoCtr
             /\ \/ ctrs[s].state = "running" /\ SetState(s, "paused")
                \/ SetState(s, "running") \/ SetState(s, "exited")
    BY <1>1, <2>2, SetsState
  <2>3. CASE ctrs' = [ctrs EXCEPT ![s] = NoCtr]
    BY <1>1, <2>3, Removes
  <2>4. CASE ProgramReady(s)
    <3> DEFINE c == [ctrs[s] EXCEPT !.ready = "yes"]
    <3>1. /\ c \in Ctr /\ c.state = ctrs[s].state /\ c.labels = ctrs[s].labels /\ c.ready = "yes"
      BY <1>1 DEF DockerTypeOK, Ctr
    <3>2. ctrs' = [ctrs EXCEPT ![s] = c] /\ ctrs[s].state = "running"
      BY <1>1, <2>4 DEF ProgramReady, DockerTypeOK
    <3> HIDE DEF c
    <3> QED BY <1>1, <3>1, <3>2, Real DEF DockerTypeOK, Touches
  <2> QED BY <2>1, <2>2, <2>3, <2>4, Real DEF CommitBegins, CommitEnds, ExternalChange, Bound
<1> QED BY <1>1, <1>2, CallGoesOn DEF DockerTypeOK

---------------------------------------------------------------------------
(* A call that begins; the end of the process; RestoreSandboxes.           *)

\* A call that begins is at its first step.
LEMMA Begun ==
  ASSUME DockerTypeOK, NEW s \in Sandboxes, CallBegins(s, "inspect") \/ CallBegins(s, "pause")
         \/ CallBegins(s, "resume") \/ CallBegins(s, "delete")
  PROVE  /\ calls' \in [Sandboxes -> CallRecord]
         /\ calls'[s].kind \in {"inspect", "pause", "resume", "delete"} /\ calls'[s].step = "first"
         /\ \A t \in Sandboxes \ {s} : calls'[t] = calls[t]
<1>1. PICK kind \in {"inspect", "pause", "resume", "delete"} : CallBegins(s, kind)
  OBVIOUS
<1> DEFINE c == [Idle EXCEPT !.kind = kind, !.step = "first"]
<1>2. c \in CallRecord /\ c.kind = kind /\ c.step = "first"
  BY DEF Idle, CallRecord, Steps, Images
<1>3. calls' = [calls EXCEPT ![s] = c]
  BY <1>1 DEF CallBegins
<1> HIDE DEF c
<1> QED BY <1>2, <1>3 DEF DockerTypeOK

\* A call on a known sandbox begins without an effect.
LEMMA CallBeginsKeeps ==
  ASSUME DockerInv, NEW s \in Sandboxes, Meets,
         NEW kind \in {"inspect", "pause", "resume", "delete"}, CallBegins(s, kind)
  PROVE  DockerInv'
<1>1. /\ DockerTypeOK /\ calls[s] = Idle /\ phase = "up" /\ UNCHANGED ctrs
      /\ UNCHANGED <<commits, phase, todo, known, promised, dropped, unlabelled>>
      /\ answers' = [answers EXCEPT ![s] = "pending"]
  BY DEF DockerInv, CallBegins
<1>2. /\ calls' \in [Sandboxes -> CallRecord]
      /\ calls'[s].kind \in {"inspect", "pause", "resume", "delete"} /\ calls'[s].step = "first"
      /\ \A t \in Sandboxes \ {s} : calls'[t] = calls[t]
  BY <1>1, Begun
<1>3. Typed /\ Frame(s) /\ answers'[s] = "pending"
  BY <1>1, <1>2 DEF Typed, Frame, DockerTypeOK, Answers
<1>4. Placed(s)' /\ Touches(s)
  BY <1>1, <1>2, Leaves DEF Placed
<1> QED BY <1>1, <1>2, <1>3, <1>4, StepKeeps

\* So does a create, with the record it was asked for.
LEMMA CreateBeginsKeeps ==
  ASSUME DockerInv, NEW s \in Sandboxes, Meets, NEW record \in Records, NEW image \in Images,
         CreateBegins(s, record, image)
  PROVE  DockerInv'
<1> DEFINE c == [kind |-> "create", step |-> "image", record |-> record, image |-> image, saw |-> "nothing"]
<1>1. /\ DockerTypeOK /\ Local(s) /\ answers[s] = "none" /\ ctrs[s] = NoCtr /\ phase = "up"
      /\ UNCHANGED <<ctrs, commits, phase, todo, known, promised, dropped, unlabelled>>
      /\ calls' = [calls EXCEPT ![s] = c] /\ answers' = [answers EXCEPT ![s] = "pending"]
  BY DEF DockerInv, CreateBegins
<1>2. c \in CallRecord /\ c.kind = "create" /\ c.step = "image" /\ c.record \in Records
  BY DEF CallRecord, Steps
<1> HIDE DEF c
<1>3. /\ calls' \in [Sandboxes -> CallRecord] /\ answers' \in [Sandboxes -> Answers]
      /\ calls'[s] = c /\ answers'[s] = "pending"
      /\ \A t \in Sandboxes \ {s} : calls'[t] = calls[t] /\ answers'[t] = answers[t]
  BY <1>1, <1>2 DEF DockerTypeOK, Answers
<1>4. Typed /\ Frame(s)
  BY <1>1, <1>3 DEF Typed, Frame, DockerTypeOK
<1>5. met'[s] = IF calls'[s] = Idle THEN {} ELSE met[s] \cup {State(s)'}
  BY <1>4, MeetsIsTyped DEF DockerInv
<1>6. c # Idle
  BY <1>2 DEF Idle
<1>7. Placed(s)' /\ Witnessed(s)'
  BY <1>1, <1>2, <1>3, <1>5, <1>6 DEF Placed, Witnessed, Before
<1>8. Kept(s)' /\ Made(s)'
  BY <1>1, <1>2, <1>3, <1>6 DEF Local, Kept, Made, ProvisioningSteps
<1> QED BY <1>4, <1>7, <1>8, OwnStep DEF Local

\* With the process every call ends.
LEMMA Alone ==
  ASSUME DockerInv, Meets, Typed, UNCHANGED <<ctrs, answers, promised, unlabelled>>,
         \A s \in Sandboxes : calls'[s] = Idle,
         \A s \in Sandboxes :
           /\ answers[s] = "none" => known'[s] = NoRecord
           /\ promised[s] # NoRecord /\ known'[s] # NoRecord => Agrees(known'[s], promised[s])
           /\ promised[s] # NoRecord /\ known'[s] = NoRecord /\ ctrs[s] # NoCtr =>
                \/ phase' = "down"
                \/ phase' = "restoring" /\ s \in todo'
                \/ s \in dropped'
  PROVE  DockerInv'
<1>1. /\ DockerTypeOK'
      /\ \A s \in Sandboxes : met'[s] = IF calls'[s] = Idle THEN {} ELSE met[s] \cup {State(s)'}
  BY MeetsIsTyped DEF DockerInv
<1>2. ASSUME NEW s \in Sandboxes
      PROVE  Local(s)'
  <2>1. Local(s) /\ met'[s] = {} /\ Idle.kind = "idle" /\ Idle.step = "none"
    BY <1>1 DEF DockerInv, Idle
  <2>2. Placed(s)' /\ Witnessed(s)'
    BY <2>1 DEF Placed, Witnessed
  <2> QED BY <2>1, <2>2 DEF Local, Kept, Made
<1> QED BY <1>1, <1>2 DEF DockerInv

\* Death and start forget what the gateway knew, and no label.
LEMMA RestartKeeps ==
  ASSUME DockerInv, Meets, ProcessDies \/ RestoreBegins \/ RestoreFails \/ RestoreEnds
  PROVE  DockerInv'
<1>1. /\ DockerTypeOK /\ UNCHANGED <<ctrs, answers, commits, promised, dropped, unlabelled>>
      /\ NoRecord \in Labels /\ Idle \in CallRecord
  BY DEF DockerInv, ProcessDies, RestoreBegins, RestoreFails, RestoreEnds, NoRecord, Labels, Idle,
         CallRecord, Steps, Images
<1>2. Typed
  BY <1>1 DEF Typed, DockerTypeOK, ProcessDies, RestoreBegins, RestoreFails, RestoreEnds
<1>3. \A s \in Sandboxes : phase # "up" => calls[s] = Idle
  BY DEF DockerInv, Local, Placed
<1>4. \A s \in Sandboxes : calls'[s] = Idle
  BY <1>3 DEF ProcessDies, RestoreBegins, RestoreFails, RestoreEnds
<1>5. ASSUME NEW s \in Sandboxes
      PROVE  /\ answers[s] = "none" => known'[s] = NoRecord
             /\ promised[s] # NoRecord /\ known'[s] # NoRecord => Agrees(known'[s], promised[s])
             /\ promised[s] # NoRecord /\ known'[s] = NoRecord /\ ctrs[s] # NoCtr =>
                  \/ phase' = "down"
                  \/ phase' = "restoring" /\ s \in todo'
                  \/ s \in dropped'
  <2>1. Kept(s)
    BY DEF DockerInv, Local
  <2> QED BY <1>1, <2>1 DEF Kept, ProcessDies, RestoreBegins, RestoreFails, RestoreEnds
<1> QED BY <1>1, <1>2, <1>4, <1>5, Alone

\* Restore reads a record back from the labels, or leaves the container out.
LEMMA RestoreOneKeeps ==
  ASSUME DockerInv, NEW s \in Sandboxes, Meets, RestoreOne(s)
  PROVE  DockerInv'
<1>1. /\ DockerTypeOK /\ s \in todo /\ phase = "restoring" /\ todo' = todo \ {s}
      /\ UNCHANGED <<ctrs, calls, answers, commits, phase, promised, unlabelled>>
  BY DEF DockerInv, RestoreOne
<1>2. \A t \in Sandboxes : calls'[t] = Idle
  BY <1>1 DEF DockerInv, Local, Placed
<1>3. Kept(s)
  BY DEF DockerInv, Local
<1>4. /\ RestoredRecord(ctrs[s]) \in Labels /\ RestoredRecord(ctrs[s]) # NoRecord
      /\ promised[s] # NoRecord /\ Agrees(ctrs[s].labels, promised[s]) =>
           Agrees(RestoredRecord(ctrs[s]), promised[s])
  BY <1>1 DEF RestoredRecord, Labels, NoRecord, Agrees, DockerTypeOK, Ctr, Records
<1>5. Bound(ctrs[s]) => ctrs[s] # NoCtr
  BY DEF Bound, NoCtr
<1>6. /\ known' \in [Sandboxes -> Labels] /\ dropped' \subseteq Sandboxes
      /\ known'[s] = IF Bound(ctrs[s]) THEN RestoredRecord(ctrs[s]) ELSE known[s]
      /\ ~Bound(ctrs[s]) => s \in dropped'
      /\ \A t \in Sandboxes \ {s} : known'[t] = known[t] /\ (t \in dropped' <=> t \in dropped)
  BY <1>1, <1>4 DEF RestoreOne, DockerTypeOK
<1>7. Typed
  BY <1>1, <1>6 DEF Typed, DockerTypeOK
<1>8. ASSUME NEW t \in Sandboxes
      PROVE  /\ answers[t] = "none" => known'[t] = NoRecord
             /\ promised[t] # NoRecord /\ known'[t] # NoRecord => Agrees(known'[t], promised[t])
             /\ promised[t] # NoRecord /\ known'[t] = NoRecord /\ ctrs[t] # NoCtr =>
                  \/ phase' = "down"
                  \/ phase' = "restoring" /\ t \in todo'
                  \/ t \in dropped'
  <2>1. CASE t = s
    BY <1>1, <1>3, <1>4, <1>5, <1>6, <2>1 DEF Kept
  <2>2. CASE t # s
    <3>1. Kept(t)
      BY DEF DockerInv, Local
    <3> QED BY <1>1, <1>6, <2>2, <3>1 DEF Kept
  <2> QED BY <2>1, <2>2
<1> QED BY <1>1, <1>2, <1>7, <1>8, Alone

---------------------------------------------------------------------------
(* The invariant of the specification.                                     *)

\* Init establishes the invariant.
LEMMA DockerStarts ==
  ASSUME Init
  PROVE  DockerInv
<1>1. NoCtr \in Ctr /\ Idle \in CallRecord /\ NoRecord \in Labels
  BY DEF NoCtr, Ctr, Labels, NoRecord, Idle, CallRecord, Steps, Images
<1>2. DockerTypeOK
  BY <1>1 DEF Init, DockerTypeOK, Answers
<1>3. /\ Idle.kind = "idle" /\ Idle.step = "none" /\ NoCtr.state = "absent"
  BY DEF Idle, NoCtr
<1>4. ASSUME NEW s \in Sandboxes
      PROVE  Local(s)
  <2>1. /\ ctrs[s] = NoCtr /\ calls[s] = Idle /\ answers[s] = "none" /\ met[s] = {}
        /\ known[s] = NoRecord /\ promised[s] = NoRecord
    BY DEF Init
  <2> QED BY <1>3, <2>1 DEF Local, Placed, Witnessed, Kept, Made, Init
<1> QED BY <1>2, <1>4 DEF DockerInv

\* Every step keeps it.
LEMMA DockerKeeps ==
  ASSUME DockerInv, [Next]_dvars
  PROVE  DockerInv'
<1>1. CASE UNCHANGED dvars
  BY <1>1 DEF dvars, DockerInv, DockerTypeOK, Local, Placed, Witnessed, Kept, Made, State
<1>2. ASSUME Step, Meets
      PROVE  DockerInv'
  <2>1. CASE ProcessDies \/ RestoreBegins \/ RestoreFails \/ RestoreEnds
    BY <1>2, <2>1, RestartKeeps
  <2>2. ASSUME NEW s \in Sandboxes, Arrive(s)
        PROVE  DockerInv'
    BY <1>2, <2>2, CreateBeginsKeeps, CallBeginsKeeps, BehindKeeps DEF Arrive
  <2>3. ASSUME NEW s \in Sandboxes, CallStep(s)
        PROVE  DockerInv'
    <3>1. CASE ContainerStart(s) \/ ProvisionFails(s) \/ WaitHealthy(s) \/ WaitReadyCommand(s)
      <4>1. calls[s].kind = "create"
        BY <3>1, Creating DEF ContainerStart, ProvisionFails, WaitHealthy, WaitReadyCommand, At
      <4> QED BY <1>2, <3>1, <4>1, ProvisionKeeps, CreatedKeeps DEF WaitReadyCommand
    <3>2. CASE InspectRuntimeInfo(s)
      BY <1>2, <3>2, ProvisionKeeps, ResumeEndsKeeps
    <3> QED BY <1>2, <2>3, <3>1, <3>2, CreateStarts, ContainerCreateKeeps, RemoveContainerKeeps,
            InspectSandboxKeeps, InspectAnswersKeeps, DeleteSandboxKeeps, PauseSandboxKeeps,
            ResumeSandboxKeeps, ResumeFailsKeeps DEF CallStep
  <2>4. ASSUME NEW s \in Sandboxes, CommitEnds(s) \/ RestoreOne(s) \/ ProgramReady(s) \/ ExternalChange(s)
        PROVE  DockerInv'
    BY <1>2, <2>4, BehindKeeps, RestoreOneKeeps
  <2> QED BY <1>2, <2>1, <2>2, <2>3, <2>4 DEF Step
<1> QED BY <1>1, <1>2 DEF Next

\* The gateway's records, the containers with their labels and what was promised fit
\* together, in every state and whenever the process died.
THEOREM DockerCorrect == Spec => []DockerInv
<1>1. Init => DockerInv
  BY DockerStarts
<1>2. DockerInv /\ [Next]_dvars => DockerInv'
  BY DockerKeeps
<1> QED BY <1>1, <1>2, PTL DEF Spec

\* RestoreSandboxes: every sandbox whose create was answered is known after a restart as it
\* was created, unless it was dead when it was looked at.
THEOREM RestartKnowsThem == Spec => []RestoredAsCreated
<1>1. DockerInv => RestoredAsCreated
  <2>1. SUFFICES ASSUME DockerInv, NEW s \in Sandboxes,
                        phase = "up", promised[s] # NoRecord, Bound(ctrs[s])
                 PROVE  IF known[s] = NoRecord THEN s \in dropped
                        ELSE /\ known[s].policy = promised[s].policy
                             /\ promised[s].meta # "none" => known[s].meta = promised[s].meta
    BY DEF RestoredAsCreated
  <2>2. Kept(s) /\ ctrs[s] # NoCtr
    BY <2>1 DEF DockerInv, Local, Bound, NoCtr
  <2> QED BY <2>1, <2>2 DEF Kept, Agrees
<1> QED BY <1>1, DockerCorrect, PTL

\* waitReadyCommand: an answered create has passed its template's ready command, unless the
\* template's labels could not be read.
THEOREM AnsweredAreReady == Spec => []AnsweredIsReady
<1>1. DockerInv => AnsweredIsReady
  BY DEF DockerInv, Local, Made, AnsweredIsReady
<1> QED BY <1>1, DockerCorrect, PTL

---------------------------------------------------------------------------
(* How a step of the contract is recognised.                               *)

\* Only the container and the call of s may have changed, and met has taken note.
OnlyOf(s) ==
  /\ DockerInv /\ DockerInv' /\ Meets
  /\ \A t \in Sandboxes \ {s} : ctrs'[t] = ctrs[t] /\ calls'[t] = calls[t] /\ answers'[t] = answers[t]

\* met is what the contract lets a call see.
LEMMA Sees ==
  ASSUME NEW s \in Sandboxes, OnlyOf(s)
  PROVE  /\ Runtime!Sees(s)
         /\ rtBar' = [rtBar EXCEPT ![s] = State(s)'] /\ rtBar[s] = State(s) /\ rtBar'[s] = State(s)'
         /\ callBar' = [callBar EXCEPT ![s] = calls'[s].kind] /\ callBar[s] = calls[s].kind
         /\ callBar'[s] = calls'[s].kind
         /\ answers' = [answers EXCEPT ![s] = answers'[s]]
<1>1. \A t \in Sandboxes : met'[t] = IF calls'[t] = Idle THEN {} ELSE met[t] \cup {State(t)'}
  BY DEF OnlyOf, Meets, State
<1>2. ASSUME NEW t \in Sandboxes \ {s}
      PROVE  met'[t] = met[t] /\ State(t)' = State(t)
  <2>1. State(t)' = State(t)
    BY DEF OnlyOf, State
  <2>2. met'[t] = IF calls[t] = Idle THEN {} ELSE met[t] \cup {State(t)}
    BY <1>1, <2>1 DEF OnlyOf
  <2>3. calls[t] = Idle => met[t] = {}
    BY DEF OnlyOf, DockerInv, Local, Witnessed
  <2>4. calls[t] # Idle => met[t] \cup {State(t)} = met[t]
    BY DEF OnlyOf, DockerInv, Local, Witnessed
  <2> QED BY <2>1, <2>2, <2>3, <2>4
<1>3. met \in [Sandboxes -> SUBSET States] /\ met' \in [Sandboxes -> SUBSET States]
      /\ answers \in [Sandboxes -> Answers] /\ answers' \in [Sandboxes -> Answers]
  BY DEF OnlyOf, DockerInv, DockerTypeOK
<1>4. met' = [met EXCEPT ![s] = met'[s]]
  BY <1>2, <1>3
<1>5. answers' = [answers EXCEPT ![s] = answers'[s]]
  BY <1>3 DEF OnlyOf
<1>6. /\ rtBar' = [rtBar EXCEPT ![s] = State(s)'] /\ rtBar[s] = State(s) /\ rtBar'[s] = State(s)'
  BY <1>2 DEF rtBar
<1>7. /\ callBar' = [callBar EXCEPT ![s] = calls'[s].kind] /\ callBar[s] = calls[s].kind
      /\ callBar'[s] = calls'[s].kind
  BY DEF callBar, OnlyOf
<1>8. calls'[s] = Idle <=> calls'[s].kind = "idle"
  <2>1. Placed(s)' /\ Idle.kind = "idle"
    BY DEF OnlyOf, DockerInv, Local, Idle
  <2> QED BY <2>1 DEF Placed
<1>9. Runtime!Sees(s)
  <2>1. CASE calls'[s].kind = "idle"
    BY <1>1, <1>4, <1>7, <1>8, <2>1 DEF Runtime!Sees
  <2>2. CASE calls'[s].kind # "idle"
    <3>1. met'[s] \in SUBSET (met[s] \cup {rtBar[s], rtBar'[s]})
      BY <1>1, <1>6, <1>8, <2>2
    <3> QED BY <1>4, <1>7, <2>2, <3>1 DEF Runtime!Sees
  <2> QED BY <2>1, <2>2
<1> QED BY <1>5, <1>6, <1>7, <1>9

\* No request is left behind.
LEMMA OwesNothing ==
  ASSUME NEW s \in Sandboxes, NEW more
  PROVE  Runtime!Owes(s, more) /\ owedBar' = owedBar
<1>1. owedBar' = owedBar /\ owedBar' = [owedBar EXCEPT ![s] = {}]
  BY DEF owedBar
<1> QED BY <1>1 DEF Runtime!Owes

\* A step within a call that has only an effect the call may have is one of the contract.
LEMMA Effects ==
  ASSUME NEW s \in Sandboxes, OnlyOf(s), calls[s].kind # "idle", calls'[s].kind = calls[s].kind,
         answers'[s] = answers[s],
         State(s)' = State(s) \/ State(s)' \in Runtime!Reach(calls[s].kind)
  PROVE  Runtime!CNext
<1>1. rtBar' \in {rtBar} \cup {[rtBar EXCEPT ![s] = st] : st \in Runtime!Reach(callBar[s])}
  BY Sees DEF rtBar
<1>2. callBar' = callBar /\ answers' = answers
  <2>1. answers \in [Sandboxes -> Answers]
    BY DEF OnlyOf, DockerInv, DockerTypeOK
  <2>2. answers' = [answers EXCEPT ![s] = answers[s]]
    BY Sees
  <2> QED BY <2>1, <2>2, Sees DEF callBar
<1>3. Runtime!Effect(s)
  BY <1>1, <1>2, Sees, OwesNothing DEF Runtime!Effect
<1> QED BY <1>3 DEF Runtime!CNext

\* So is the end of a call whose answer is true of a state it has met,
LEMMA Finishes ==
  ASSUME NEW s \in Sandboxes, OnlyOf(s), calls[s].kind # "idle", calls'[s].kind = "idle",
         NEW st \in met[s] \cup {State(s)'}, answers'[s] \in Runtime!Truthful(calls[s].kind, st),
         State(s)' = State(s) \/ State(s)' \in Runtime!Reach(calls[s].kind)
  PROVE  Runtime!CNext
<1>1. rtBar' \in {rtBar} \cup {[rtBar EXCEPT ![s] = x] : x \in Runtime!Reach(callBar[s])}
  BY Sees DEF rtBar
<1>2. answers' \in {[answers EXCEPT ![s] = a] : a \in Runtime!Truthful(callBar[s], st)}
  BY Sees
<1>3. st \in met[s] \cup {rtBar'[s]}
  BY Sees
<1>4. Runtime!Finish(s)
  BY <1>1, <1>2, <1>3, Sees, OwesNothing DEF Runtime!Finish
<1> QED BY <1>4 DEF Runtime!CNext

\* ... and its begin.
LEMMA Begins ==
  ASSUME NEW s \in Sandboxes, OnlyOf(s), UNCHANGED ctrs, NEW k \in Runtime!Calls,
         calls[s].kind = "idle", calls'[s].kind = k, answers'[s] = "pending"
  PROVE  Runtime!CNext
<1>1. rtBar' = rtBar
  BY DEF rtBar, State
<1>2. Runtime!Begin(s, k)
  BY <1>1, Sees, OwesNothing DEF Runtime!Begin
<1> QED BY <1>2 DEF Runtime!CNext

\* What others do to a container.
LEMMA Interferes ==
  ASSUME NEW s \in Sandboxes, OnlyOf(s), UNCHANGED <<calls, answers>>, State(s) # "none",
         State(s)' \in {"paused", "running"} \cup
           (IF "stop" \in ExternalChanges THEN {"dead"} ELSE {}) \cup
           (IF "remove" \in ExternalChanges THEN {"none"} ELSE {})
  PROVE  Runtime!CNext
<1>1. callBar' = callBar
  BY DEF callBar
<1>2. Runtime!External(s)
  BY <1>1, Sees, OwesNothing DEF Runtime!External
<1> QED BY <1>2 DEF Runtime!CNext

\* Nothing that the gateway could see.
LEMMA Stutters ==
  ASSUME DockerInv, Meets, UNCHANGED <<calls, answers>>, \A s \in Sandboxes : State(s)' = State(s)
  PROVE  UNCHANGED Runtime!cvars
<1>1. ASSUME NEW t \in Sandboxes
      PROVE  met'[t] = met[t]
  <2>1. met'[t] = IF calls[t] = Idle THEN {} ELSE met[t] \cup {State(t)}
    BY DEF Meets, State
  <2>2. calls[t] = Idle => met[t] = {}
    BY DEF DockerInv, Local, Witnessed
  <2>3. calls[t] # Idle => met[t] \cup {State(t)} = met[t]
    BY DEF DockerInv, Local, Witnessed
  <2> QED BY <2>1, <2>2, <2>3
<1>2. met' = met
  BY <1>1 DEF DockerInv, DockerTypeOK, Meets
<1>3. rtBar' = rtBar /\ callBar' = callBar
  BY DEF rtBar, callBar
<1>4. owedBar' = owedBar
  BY DEF owedBar
<1> QED BY <1>2, <1>3, <1>4 DEF Runtime!cvars

---------------------------------------------------------------------------
(* Every step is one of the contract.                                      *)

\* The container of no other sandbox changes.
Others(s) == \A t \in Sandboxes \ {s} : ctrs'[t] = ctrs[t]

\* A call that goes on implements the contract if its effect may be.
LEMMA GoImplements ==
  ASSUME DockerInv, DockerInv', Meets, NEW s \in Sandboxes, Others(s),
         NEW step \in Steps, Places(s, step), calls[s].kind # "idle",
         State(s)' = State(s) \/ State(s)' \in Runtime!Reach(calls[s].kind)
  PROVE  Runtime!CNext
<1>1. OnlyOf(s)
  BY DEF OnlyOf, Others, Places
<1> QED BY <1>1, Effects DEF Places

\* A call that returns does if its answer is true as well.
LEMMA ReturnImplements ==
  ASSUME DockerInv, DockerInv', Meets, NEW s \in Sandboxes, Others(s),
         NEW a \in Answers, Return(s, a), calls[s].kind # "idle",
         NEW st \in met[s] \cup {State(s)'}, a \in Runtime!Truthful(calls[s].kind, st),
         State(s)' = State(s) \/ State(s)' \in Runtime!Reach(calls[s].kind)
  PROVE  Runtime!CNext
<1>1. /\ calls'[s] = Idle /\ answers'[s] = a
      /\ \A t \in Sandboxes \ {s} : calls'[t] = calls[t] /\ answers'[t] = answers[t]
  BY Returns DEF DockerInv
<1>2. OnlyOf(s) /\ calls'[s].kind = "idle"
  BY <1>1 DEF OnlyOf, Others, Idle
<1> QED BY <1>1, <1>2, Finishes

\* An error always is.
LEMMA ErrorImplements ==
  ASSUME DockerInv, DockerInv', Meets, NEW s \in Sandboxes, Others(s),
         Return(s, "error"), calls[s].kind \in Runtime!Calls,
         State(s)' = State(s) \/ State(s)' \in Runtime!Reach(calls[s].kind)
  PROVE  Runtime!CNext
<1>1. "error" \in Runtime!Truthful(calls[s].kind, State(s)')
  BY DEF Runtime!Truthful
<1> QED BY <1>1, ReturnImplements DEF Answers, Runtime!Calls

\* A step that leaves the containers alone leaves every sandbox its state.
LEMMA Same ==
  ASSUME NEW s \in Sandboxes, UNCHANGED ctrs
  PROVE  Others(s) /\ State(s)' = State(s)
BY DEF Others, State

\* A container that changes its state changes that of one sandbox,
LEMMA Moved ==
  ASSUME DockerInv, NEW s \in Sandboxes, ctrs[s] # NoCtr,
         NEW state \in {"created", "running", "paused", "exited"}, SetState(s, state)
  PROVE  Others(s) /\ State(s)' = dockerSandboxState(state)
BY SetsState DEF DockerInv, Others, Touches, State

\* ... and one that is removed ends it.
LEMMA Gone ==
  ASSUME DockerInv, NEW s \in Sandboxes, ctrs' = [ctrs EXCEPT ![s] = NoCtr]
  PROVE  Others(s) /\ State(s)' = "none"
BY Removes DEF DockerInv, Others, Touches, State, dockerSandboxState

\* A create may take the sandbox anywhere.
LEMMA CreateReaches ==
  ASSUME DockerInv', NEW s \in Sandboxes
  PROVE  State(s)' \in Runtime!Reach("create")
<1>1. ctrs'[s] \in Ctr
  BY DEF DockerInv, DockerTypeOK
<1>2. ctrs'[s].state \in {"absent", "created", "running", "paused", "exited"}
  BY <1>1 DEF Ctr
<1> QED BY <1>2 DEF State, dockerSandboxState, Runtime!Reach

\* A create that goes on or fails may have any effect on its own sandbox.
LEMMA CreateImplements ==
  ASSUME DockerInv, DockerInv', Meets, NEW s \in Sandboxes, Others(s), calls[s].kind = "create",
         Return(s, "error") \/ \E step \in Steps : Goto(s, step)
  PROVE  Runtime!CNext
<1>1. State(s)' \in Runtime!Reach(calls[s].kind) /\ calls[s].kind \in Runtime!Calls
  BY CreateReaches DEF Runtime!Calls
<1>2. ASSUME NEW step \in Steps, Goto(s, step)
      PROVE  Places(s, step)
  BY <1>2, Goes DEF Goto, DockerInv
<1> QED BY <1>1, <1>2, GoImplements, ErrorImplements

\* So every step of a create but its success implements the contract.
LEMMA CreateStepImplements ==
  ASSUME DockerInv, DockerInv', Meets, NEW s \in Sandboxes, calls[s].kind = "create",
         \/ ResolveTemplateImage(s) \/ SelectPlatform(s) \/ ImageLabels(s) \/ PublishedContainerPorts(s)
         \/ ContainerCreate(s) \/ ContainerStart(s) \/ InspectRuntimeInfo(s) \/ ProvisionFails(s)
         \/ RemoveContainer(s) \/ (WaitHealthy(s) /\ ~Created(s))
  PROVE  Runtime!CNext
<1>1. Return(s, "error") \/ \E step \in Steps : Goto(s, step)
  <2>1. CASE ResolveTemplateImage(s) \/ SelectPlatform(s) \/ ImageLabels(s) \/ PublishedContainerPorts(s)
    BY <2>1 DEF ResolveTemplateImage, SelectPlatform, ImageLabels, PublishedContainerPorts, Steps
  <2>2. CASE ContainerCreate(s) \/ ContainerStart(s) \/ InspectRuntimeInfo(s)
    BY <2>2 DEF ContainerCreate, ContainerStart, InspectRuntimeInfo, Steps
  <2>3. CASE ProvisionFails(s) \/ RemoveContainer(s) \/ (WaitHealthy(s) /\ ~Created(s))
    BY <2>3 DEF ProvisionFails, RemoveContainer, WaitHealthy, Steps
  <2> QED BY <2>1, <2>2, <2>3
<1>2. Others(s)
  <2>1. CASE ContainerCreate(s)
    BY <2>1 DEF ContainerCreate, Others, DockerInv, DockerTypeOK
  <2>2. CASE ContainerStart(s) \/ ProvisionFails(s) \/ RemoveContainer(s)
    BY <2>2, Same, Moved, Gone, Real DEF ContainerStart, ProvisionFails, RemoveContainer, Late, LateStart
  <2>3. CASE \/ ResolveTemplateImage(s) \/ SelectPlatform(s) \/ ImageLabels(s) \/ PublishedContainerPorts(s)
             \/ InspectRuntimeInfo(s) \/ WaitHealthy(s)
    BY <2>3, Same DEF ResolveTemplateImage, SelectPlatform, ImageLabels, PublishedContainerPorts,
                      InspectRuntimeInfo, WaitHealthy
  <2> QED BY <2>1, <2>2, <2>3
<1> QED BY <1>1, <1>2, CreateImplements

\* A create succeeds with a container that runs.
LEMMA CreatedImplements ==
  ASSUME DockerInv, DockerInv', Meets, NEW s \in Sandboxes, WaitHealthy(s) \/ WaitReadyCommand(s), Created(s)
  PROVE  Runtime!CNext
<1>1. UNCHANGED ctrs /\ ctrs[s].state = "running" /\ calls[s].step \in {"health", "ready"}
  BY DEF WaitHealthy, WaitReadyCommand, ReadyCommandSucceeds, At
<1>2. calls[s].kind = "create" /\ State(s)' = "running" /\ Others(s) /\ State(s)' = State(s)
  BY <1>1, Creating, Same DEF State, dockerSandboxState
<1>3. "ok" \in Runtime!Truthful(calls[s].kind, State(s)')
  BY <1>2 DEF Runtime!Truthful
<1> QED BY <1>2, <1>3, ReturnImplements DEF Created, Answers

\* The answer of a resume goes by the port binding: the container has run since the call
\* began, though it may be paused again.
LEMMA ResumeEndsImplements ==
  ASSUME DockerInv, DockerInv', Meets, NEW s \in Sandboxes, calls[s].kind # "create", InspectRuntimeInfo(s)
  PROVE  Runtime!CNext
<1>1. /\ UNCHANGED ctrs /\ Bound(ctrs[s]) /\ calls[s].step = "info" /\ Return(s, "ok")
      /\ Placed(s) /\ Witnessed(s) /\ calls[s] \in CallRecord
  BY DEF InspectRuntimeInfo, At, DockerInv, DockerTypeOK, Local
<1>2. calls[s].kind = "resume"
  BY <1>1 DEF Placed, CallRecord, Idle
<1>3. "running" \in met[s]
  BY <1>1, <1>2 DEF Witnessed, Bound, State, dockerSandboxState, Idle
<1>4. "ok" \in Runtime!Truthful(calls[s].kind, "running")
  BY <1>2 DEF Runtime!Truthful
<1> QED BY <1>1, <1>2, <1>3, <1>4, Same, ReturnImplements DEF Answers

\* An inspection answers with a state it has met.
LEMMA InspectSandboxImplements ==
  ASSUME DockerInv, DockerInv', Meets, NEW s \in Sandboxes, InspectSandbox(s)
  PROVE  Runtime!CNext
<1>1. calls[s].kind = "inspect" /\ Others(s) /\ State(s)' = State(s)
  BY Same DEF InspectSandbox
<1>2. CASE Return(s, "error")
  BY <1>1, <1>2, ErrorImplements DEF Runtime!Calls
<1>3. CASE /\ calls' = [calls EXCEPT ![s].step = "second", ![s].saw = dockerSandboxState(ctrs[s].state)]
           /\ UNCHANGED answers
  <2>1. /\ calls'[s].kind = calls[s].kind
        /\ \A t \in Sandboxes \ {s} : calls'[t] = calls[t]
    BY <1>3 DEF DockerInv, DockerTypeOK, CallRecord
  <2>2. OnlyOf(s)
    BY <1>1, <1>3, <2>1 DEF OnlyOf, Others
  <2> QED BY <1>1, <1>3, <2>1, <2>2, Effects
<1> QED BY <1>2, <1>3 DEF InspectSandbox

\* The answer is the state at the first request, which the call has met.
LEMMA InspectAnswersImplements ==
  ASSUME DockerInv, DockerInv', Meets, NEW s \in Sandboxes, InspectAnswers(s)
  PROVE  Runtime!CNext
<1> DEFINE saw == calls[s].saw
           a == IF saw \in {"none", "dead"} THEN "missing" ELSE saw
<1>1. /\ calls[s].step = "second" /\ Others(s) /\ State(s)' = State(s) /\ Return(s, a)
      /\ Placed(s) /\ Witnessed(s) /\ calls[s] \in CallRecord /\ met[s] \subseteq States
  BY Same DEF InspectAnswers, At, DockerInv, DockerTypeOK, Local
<1>2. calls[s].kind = "inspect"
  BY <1>1 DEF Placed, CallRecord, Idle, Before, ProvisioningSteps
<1>3. saw \in met[s] /\ saw \in States
  BY <1>1 DEF Witnessed
<1>4. a \in Answers /\ a \in Runtime!Truthful(calls[s].kind, saw)
  BY <1>2, <1>3 DEF Answers, States, Runtime!Truthful
<1> HIDE DEF a
<1> QED BY <1>1, <1>2, <1>3, <1>4, ReturnImplements

\* A delete answers ok only when the container is gone.
LEMMA DeleteSandboxImplements ==
  ASSUME DockerInv, DockerInv', Meets, NEW s \in Sandboxes, DeleteSandbox(s)
  PROVE  Runtime!CNext
<1>1. calls[s].kind = "delete" /\ calls[s].kind \in Runtime!Calls
      /\ {"none", "dead"} \subseteq Runtime!Reach(calls[s].kind)
      /\ "ok" \in Runtime!Truthful(calls[s].kind, "none")
  BY DEF DeleteSandbox, Runtime!Calls, Runtime!Reach, Runtime!Truthful
<1>2. CASE ctrs' = [ctrs EXCEPT ![s] = NoCtr] /\ Return(s, "ok")
  BY <1>1, <1>2, Gone, ReturnImplements DEF Answers
<1>3. CASE /\ \/ Late(ctrs' = [ctrs EXCEPT ![s] = NoCtr])
              \/ ctrs[s] # NoCtr /\ SetState(s, "exited")
           /\ Return(s, "error")
  <2>1. Others(s) /\ State(s)' \in {State(s), "none", "dead"}
    BY <1>3, Same, Gone, Moved DEF Late, dockerSandboxState
  <2> QED BY <1>1, <1>3, <2>1, ErrorImplements
<1> QED BY <1>2, <1>3 DEF DeleteSandbox

\* A pause answers ok for what does not run; a conflict is success.
LEMMA PauseSandboxImplements ==
  ASSUME DockerInv, DockerInv', Meets, NEW s \in Sandboxes, PauseSandbox(s)
  PROVE  Runtime!CNext
<1>1. calls[s].kind = "pause" /\ calls[s].kind \in Runtime!Calls
      /\ "paused" \in Runtime!Reach(calls[s].kind)
      /\ \A st \in {"paused", "dead"} : "ok" \in Runtime!Truthful(calls[s].kind, st)
  BY DEF PauseSandbox, Runtime!Calls, Runtime!Reach, Runtime!Truthful
<1>2. CASE ctrs[s].state = "running" /\ SetState(s, "paused") /\ Return(s, "ok")
  <2>1. Others(s) /\ State(s)' = "paused"
    BY <1>2, Moved, Real DEF dockerSandboxState
  <2> QED BY <1>1, <1>2, <2>1, ReturnImplements DEF Answers
<1>3. CASE ctrs[s].state \in {"paused", "created", "exited"} /\ UNCHANGED ctrs /\ Return(s, "ok")
  <2>1. Others(s) /\ State(s)' = State(s) /\ State(s) \in {"paused", "dead"}
    BY <1>3, Same DEF State, dockerSandboxState
  <2> QED BY <1>1, <1>3, <2>1, ReturnImplements DEF Answers
<1>4. CASE /\ Late(ctrs[s].state = "running" /\ SetState(s, "paused"))
           /\ Return(s, "error")
  <2>1. Others(s) /\ State(s)' \in {State(s), "paused"}
    BY <1>4, Same, Moved, Real DEF Late, dockerSandboxState
  <2> QED BY <1>1, <1>4, <2>1, ErrorImplements
<1> QED BY <1>2, <1>3, <1>4 DEF PauseSandbox

\* A resume answers ok for what it has met running.
LEMMA ResumeImplements ==
  ASSUME DockerInv, DockerInv', Meets, NEW s \in Sandboxes, ResumeSandbox(s) \/ ResumeFails(s)
  PROVE  Runtime!CNext
<1>1. calls[s].kind = "resume" /\ calls[s].kind \in Runtime!Calls
      /\ "running" \in Runtime!Reach(calls[s].kind)
  BY DEF ResumeSandbox, ResumeFails, Runtime!Calls, Runtime!Reach
<1>2. Others(s) /\ State(s)' \in {State(s), "running"}
  BY Same, Moved, Real DEF ResumeSandbox, ResumeFails, Late, dockerSandboxState
<1>3. Return(s, "error") \/ Places(s, "info")
  BY Goes DEF ResumeSandbox, ResumeFails, Steps, DockerInv
<1> QED BY <1>1, <1>2, <1>3, GoImplements, ErrorImplements DEF Steps

\* Commits, programs and operators do what the contract lets the world do.
LEMMA BehindImplements ==
  ASSUME DockerInv, DockerInv', Meets, NEW s \in Sandboxes,
         CommitBegins(s) \/ CommitEnds(s) \/ ProgramReady(s) \/ ExternalChange(s)
  PROVE  Runtime!CNext \/ UNCHANGED Runtime!cvars
<1>1. UNCHANGED <<calls, answers>>
  BY DEF CommitBegins, CommitEnds, ProgramReady, ExternalChange
<1>2. CASE UNCHANGED ctrs
  BY <1>1, <1>2, Same, Stutters
<1>3. CASE ProgramReady(s)
  <2>1. \A t \in Sandboxes : ctrs'[t].state = ctrs[t].state
    <3>1. ctrs \in [Sandboxes -> Ctr]
      BY DEF DockerInv, DockerTypeOK
    <3>2. ctrs' = [ctrs EXCEPT ![s].ready = "yes"]
      BY <1>3 DEF ProgramReady
    <3> QED BY <3>1, <3>2 DEF Ctr
  <2> QED BY <1>1, <2>1, Stutters DEF State
<1>4. CASE /\ ctrs[s].state # "absent"
           /\ \/ SetState(s, "paused") \/ SetState(s, "running")
              \/ SetState(s, "exited") /\ "stop" \in ExternalChanges
              \/ ctrs' = [ctrs EXCEPT ![s] = NoCtr] /\ "remove" \in ExternalChanges
  <2>1. /\ Others(s)
        /\ \/ State(s)' \in {"paused", "running"}
           \/ State(s)' = "dead" /\ "stop" \in ExternalChanges
           \/ State(s)' = "none" /\ "remove" \in ExternalChanges
    BY <1>4, Moved, Gone, Real DEF dockerSandboxState
  <2>2. State(s) # "none"
    BY <1>4 DEF State, dockerSandboxState, DockerInv, DockerTypeOK, Ctr
  <2>3. OnlyOf(s)
    BY <1>1, <2>1 DEF OnlyOf, Others
  <2> QED BY <1>1, <2>1, <2>2, <2>3, Interferes
<1>5. ctrs[s] # NoCtr => ctrs[s].state # "absent"
  BY DEF DockerInv, Local, Kept
<1> QED BY <1>2, <1>3, <1>4, <1>5 DEF CommitBegins, CommitEnds, ExternalChange, Bound

\* A call of the gateway is a call of the contract.
LEMMA ArriveImplements ==
  ASSUME DockerInv, DockerInv', Meets, NEW s \in Sandboxes, Arrive(s), ~CommitBegins(s)
  PROVE  Runtime!CNext
<1>1. /\ UNCHANGED ctrs /\ calls[s] = Idle /\ answers' = [answers EXCEPT ![s] = "pending"]
      /\ \E c : calls' = [calls EXCEPT ![s] = c]
  BY DEF Arrive, CreateBegins, CallBegins
<1>2. calls'[s].kind \in Runtime!Calls
  <2>1. ASSUME NEW record \in Records, NEW image \in Images, CreateBegins(s, record, image)
        PROVE  calls'[s].kind = "create"
    BY <2>1 DEF CreateBegins, DockerInv, DockerTypeOK
  <2>2. ASSUME NEW kind \in {"inspect", "pause", "resume", "delete"}, CallBegins(s, kind)
        PROVE  calls'[s].kind \in {"inspect", "pause", "resume", "delete"}
    BY <2>2, Begun DEF DockerInv
  <2> QED BY <2>1, <2>2 DEF Arrive, Runtime!Calls
<1>3. OnlyOf(s) /\ answers'[s] = "pending" /\ calls[s].kind = "idle"
  <2>1. calls \in [Sandboxes -> CallRecord] /\ answers \in [Sandboxes -> Answers]
    BY DEF DockerInv, DockerTypeOK
  <2>2. answers'[s] = "pending" /\ \A t \in Sandboxes \ {s} : answers'[t] = answers[t]
    BY <1>1, <2>1
  <2>3. \A t \in Sandboxes \ {s} : calls'[t] = calls[t]
    <3>1. PICK c : calls' = [calls EXCEPT ![s] = c]
      BY <1>1
    <3> QED BY <2>1, <3>1
  <2>4. calls[s].kind = "idle"
    BY <1>1 DEF Idle
  <2>5. OnlyOf(s)
    BY <1>1, <2>2, <2>3 DEF OnlyOf
  <2> QED BY <2>2, <2>4, <2>5
<1> QED BY <1>1, <1>2, <1>3, Begins

\* Every step is one of the contract, or a stutter.
LEMMA StepImplements ==
  ASSUME DockerInv, DockerInv', [Next]_dvars
  PROVE  [Runtime!CNext]_Runtime!cvars
<1>1. CASE UNCHANGED dvars
  BY <1>1 DEF dvars, Runtime!cvars, rtBar, callBar, owedBar, State
<1>2. ASSUME Step, Meets
      PROVE  Runtime!CNext \/ UNCHANGED Runtime!cvars
  <2>1. CASE ProcessDies
    <3>1. /\ callBar' = [s \in Sandboxes |-> "idle"] /\ met' = [s \in Sandboxes |-> {}]
          /\ rtBar' = rtBar /\ answers' = answers
      BY <1>2, <2>1 DEF ProcessDies, Meets, callBar, rtBar, State, Idle
    <3>2. /\ owedBar' \in [Sandboxes -> SUBSET Runtime!States]
          /\ \A s \in Sandboxes : owedBar'[s] = {}
      BY DEF owedBar
    <3> QED BY <3>1, <3>2 DEF Runtime!Crash, Runtime!CNext
  <2>2. CASE RestoreBegins \/ RestoreFails \/ RestoreEnds
    BY <1>2, <2>2, Same, Stutters DEF RestoreBegins, RestoreFails, RestoreEnds
  <2>3. ASSUME NEW s \in Sandboxes, RestoreOne(s)
        PROVE  UNCHANGED Runtime!cvars
    BY <1>2, <2>3, Same, Stutters DEF RestoreOne
  <2>4. ASSUME NEW s \in Sandboxes, CallStep(s)
        PROVE  Runtime!CNext
    <3>1. CASE \/ ResolveTemplateImage(s) \/ SelectPlatform(s) \/ ImageLabels(s) \/ PublishedContainerPorts(s)
               \/ ContainerCreate(s) \/ ContainerStart(s) \/ ProvisionFails(s) \/ RemoveContainer(s)
               \/ WaitHealthy(s) \/ WaitReadyCommand(s)
      <4>1. \/ calls[s].kind = "create"
            \/ calls[s].step \in Before \cup {"start", "health", "ready", "cleanup"}
        BY <3>1 DEF ResolveTemplateImage, SelectPlatform, ImageLabels, PublishedContainerPorts,
             ContainerCreate, ContainerStart, ProvisionFails, RemoveContainer, WaitHealthy,
             WaitReadyCommand, At, Before
      <4>2. calls[s].kind = "create"
        BY <4>1, Creating
      <4> QED BY <1>2, <3>1, <4>2, CreateStepImplements, CreatedImplements DEF WaitReadyCommand
    <3>2. CASE InspectRuntimeInfo(s)
      BY <1>2, <3>2, CreateStepImplements, ResumeEndsImplements
    <3> QED BY <1>2, <2>4, <3>1, <3>2, InspectSandboxImplements, InspectAnswersImplements,
            DeleteSandboxImplements, PauseSandboxImplements, ResumeImplements DEF CallStep
  <2>5. ASSUME NEW s \in Sandboxes,
               Arrive(s) \/ CommitEnds(s) \/ ProgramReady(s) \/ ExternalChange(s)
        PROVE  Runtime!CNext \/ UNCHANGED Runtime!cvars
    BY <1>2, <2>5, ArriveImplements, BehindImplements
  <2> QED BY <1>2, <2>1, <2>2, <2>3, <2>4, <2>5 DEF Step
<1> QED BY <1>1, <1>2 DEF Next

\* DockerRuntime keeps the contract of a runtime, whatever an operator does to containers
\* and whenever commits pause and unpause them.
THEOREM DockerImplementsRuntime == Spec => ImplementsRuntime
<1>1. Init => Runtime!CInit
  BY DEF Init, Runtime!CInit, rtBar, callBar, owedBar, State, dockerSandboxState, NoCtr, Idle
<1>2. DockerInv /\ DockerInv' /\ [Next]_dvars => [Runtime!CNext]_Runtime!cvars
  BY StepImplements
<1> QED BY <1>1, <1>2, DockerCorrect, PTL DEF Spec, ImplementsRuntime, Runtime!CSpec
=============================================================================
