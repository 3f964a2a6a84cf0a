---------------------- MODULE OrbstackMachinesProofs ----------------------
(***************************************************************************)
(* The OrbStack backend, for any number of sandboxes and of writes: a      *)
(* restart knows what was created and as it was created, a snapshot that   *)
(* was answered is never an older one of its name, and the calls keep      *)
(* RuntimeContract.                                                        *)
(***************************************************************************)
EXTENDS OrbstackMachines, TLAPS

---------------------------------------------------------------------------
(* The invariant.                                                          *)

VM == [state: {"absent", "stopped", "running"}, policy: {"none", "kill", "pause"}]

ResumeSteps == {"start", "wait state", "wait address", "health"}

Steps == {"none", "resolve", "clone", "cleanup", "inspect", "delete", "stop", "confirm"}
         \cup ProvisioningSteps

CallRecord == [kind: {"idle", "create", "inspect", "delete", "pause", "resume"}, step: Steps,
               policy: {"none", "kill", "pause"}, n: 0..7]

SnapRecord == [step: {"idle", "delete", "clone"}, named: BOOLEAN, since: Nat,
               answer: {"none", "ok", "error"}]

Answers == {"none", "pending", "ok", "error", "missing", "running", "paused"}

MachinesTypeOK ==
  /\ vms \in [Sandboxes -> VM] /\ disk \in [Sandboxes -> Nat]
  /\ calls \in [Sandboxes -> CallRecord] /\ answers \in [Sandboxes -> Answers]
  /\ snaps \in [Sandboxes -> Nat] /\ snapCalls \in [Sandboxes -> SnapRecord]
  /\ phase \in {"up", "down", "restoring"} /\ todo \subseteq Sandboxes
  /\ known \in [Sandboxes -> {"none", "kill", "pause"}]
  /\ promised \in [Sandboxes -> {"none", "kill", "pause"}]
  /\ unread \subseteq Sandboxes

\* The call is where the code can be.
Placed(s) ==
  /\ calls[s].kind = "idle" => calls[s] = Idle
  /\ calls[s].kind = "create" =>
       /\ calls[s].step \in {"resolve", "clone", "cleanup"} \cup ProvisioningSteps
       /\ calls[s].policy # "none" /\ calls[s].n # 0
  /\ calls[s].kind = "resume" => calls[s].step \in ResumeSteps
  /\ calls[s].kind = "pause" => calls[s].step \in {"inspect", "stop", "confirm"}
  /\ calls[s].kind = "inspect" => calls[s].step = "inspect"
  /\ calls[s].kind = "delete" => calls[s].step = "delete"
  /\ phase # "up" => calls[s] = Idle

\* The create has written the metadata file.
Written(call) ==
  \/ call.step \in {"wait address", "health"}
  \/ call.step = "configure" /\ call.n \in 5..7

Configured(s) ==
  calls[s].kind = "create" /\ Written(calls[s]) /\ vms[s] # NoVM => vms[s].policy = calls[s].policy

\* Who has been promised something, and what is known of it.
Kept(s) ==
  /\ vms[s].state = "absent" => vms[s] = NoVM
  /\ answers[s] = "none" =>
       calls[s] = Idle /\ vms[s] = NoVM /\ promised[s] = "none" /\ known[s] = "none"
  /\ calls[s].kind = "create" => promised[s] = "none" /\ known[s] = "none"
  /\ promised[s] # "none" /\ known[s] # "none" => known[s] = promised[s] \/ s \in unread
  /\ promised[s] # "none" /\ vms[s] # NoVM => vms[s].policy = promised[s]
  /\ promised[s] # "none" /\ known[s] = "none" /\ vms[s] # NoVM =>
       phase = "down" \/ (phase = "restoring" /\ s \in todo)

\* A snapshot under way has no answer yet, and the disk only moves on.
Fresh(s) ==
  /\ snapCalls[s].step # "idle" => snapCalls[s].answer = "none"
  /\ snapCalls[s].since <= disk[s]
  /\ snapCalls[s].answer = "ok" /\ snapCalls[s].named => snaps[s] >= snapCalls[s].since

\* The disk of a machine has been written at least once: 0 is the absent snapshot.
Local(s) == Placed(s) /\ Configured(s) /\ Kept(s) /\ Fresh(s) /\ disk[s] > 0

MachinesInv ==
  /\ MachinesTypeOK
  /\ \A s \in Sandboxes : Local(s)

---------------------------------------------------------------------------
(* What a step of a call does with the call and the machine.               *)

\* The metadata is the fourth of the seven configuration steps.
LEMMA Scripts ==
  /\ Len(ConfigureSteps) = 7
  /\ \A n \in 1..7 : ConfigureSteps[n] = "metadata" <=> n = 4
<1>1. Len(ConfigureSteps) = 7
  BY DEF ConfigureSteps
<1>2. ASSUME NEW n \in 1..7
      PROVE  ConfigureSteps[n] = "metadata" <=> n = 4
  <2>1. /\ ConfigureSteps[1] = "dirs" /\ ConfigureSteps[2] = "envd binary"
        /\ ConfigureSteps[3] = "envd service" /\ ConfigureSteps[4] = "metadata"
        /\ ConfigureSteps[5] = "volume links" /\ ConfigureSteps[6] = "wants link"
        /\ ConfigureSteps[7] = "restart envd"
    BY DEF ConfigureSteps
  <2>2. n \in {1, 2, 3, 4, 5, 6, 7}
    OBVIOUS
  <2> QED BY <2>1, <2>2
<1> QED BY <1>1, <1>2

\* What the proofs need of the numbers of these steps.
LEMMA Numbers ==
  /\ \A n : n = 1 => n \in 0..7 /\ n # 0 /\ n \notin 5..7
  /\ \A n \in 1..7 : n # 0 /\ (n \in 5..7 \/ n = 4 \/ n + 1 \notin 5..7)
                  /\ (n # 7 => n + 1 \in 0..7 /\ n + 1 # 0)
  /\ \A n \in 0..7 : n # 0 => n \in 1..7
OBVIOUS

\* What of calls and answers belongs to the other sandboxes stays.
CallsOf(s) ==
  /\ calls' \in [Sandboxes -> CallRecord] /\ answers' \in [Sandboxes -> Answers]
  /\ \A t \in Sandboxes \ {s} : calls'[t] = calls[t] /\ answers'[t] = answers[t]

\* A call that returns is idle again and leaves its answer.
LEMMA Returns ==
  ASSUME MachinesTypeOK, NEW s \in Sandboxes, NEW a \in Answers, Return(s, a)
  PROVE  CallsOf(s) /\ calls'[s] = Idle /\ answers'[s] = a
<1>1. Idle \in CallRecord
  BY DEF Idle, CallRecord, Steps
<1> QED BY <1>1 DEF MachinesTypeOK, Return, CallsOf

\* A call that goes on is at the begin of its next step.
LEMMA Goes ==
  ASSUME MachinesTypeOK, NEW s \in Sandboxes, NEW step \in Steps, Goto(s, step)
  PROVE  /\ CallsOf(s) /\ UNCHANGED answers
         /\ calls'[s].step = step /\ calls'[s].n = 1
         /\ calls'[s].kind = calls[s].kind /\ calls'[s].policy = calls[s].policy
<1> DEFINE b == [calls[s] EXCEPT !.step = step]
           c == [b EXCEPT !.n = 1]
<1>1. /\ c \in CallRecord /\ c.step = step /\ c.n = 1
      /\ c.kind = calls[s].kind /\ c.policy = calls[s].policy
  <2>1. calls[s] \in CallRecord
    BY DEF MachinesTypeOK
  <2>2. b \in CallRecord /\ b.step = step /\ b.kind = calls[s].kind /\ b.policy = calls[s].policy
    BY <2>1 DEF CallRecord
  <2> HIDE DEF b
  <2>3. 1 \in 0..7
    OBVIOUS
  <2> QED BY <2>2, <2>3 DEF CallRecord
<1>2. calls' = [calls EXCEPT ![s] = c] /\ UNCHANGED answers
  BY DEF MachinesTypeOK, Goto
<1> HIDE DEF c
<1> QED BY <1>1, <1>2 DEF MachinesTypeOK, CallsOf

\* A request leaves the file in the machine as it is, or a create writes it.
Touches(s) ==
  /\ vms' \in [Sandboxes -> VM]
  /\ \A t \in Sandboxes \ {s} : vms'[t] = vms[t]
  /\ \/ vms'[s] = NoVM
     \/ /\ vms[s] # NoVM /\ vms'[s].state # "absent"
        /\ \/ vms'[s].policy = vms[s].policy
           \/ calls[s].kind = "create" /\ vms'[s].policy = calls[s].policy

\* A step that leaves the machines alone keeps their metadata.
LEMMA Leaves ==
  ASSUME MachinesInv, NEW s \in Sandboxes, UNCHANGED vms
  PROVE  Touches(s)
BY DEF Touches, MachinesInv, MachinesTypeOK, Local, Kept

\* So does one that changes the state of a machine,
LEMMA SetsState ==
  ASSUME MachinesTypeOK, NEW s \in Sandboxes, vms[s] # NoVM,
         NEW state \in {"stopped", "running"}, SetState(s, state)
  PROVE  Touches(s) /\ vms'[s].state = state
<1> DEFINE c == [vms[s] EXCEPT !.state = state]
<1>1. c \in VM /\ c.state = state /\ c.policy = vms[s].policy
  BY DEF MachinesTypeOK, VM
<1>2. vms' = [vms EXCEPT ![s] = c]
  BY DEF SetState, MachinesTypeOK
<1> HIDE DEF c
<1> QED BY <1>1, <1>2 DEF MachinesTypeOK, Touches

\* ... and one that removes it.
LEMMA Removes ==
  ASSUME MachinesTypeOK, NEW s \in Sandboxes, vms' = [vms EXCEPT ![s] = NoVM]
  PROVE  Touches(s) /\ vms'[s] = NoVM /\ vms'[s].state = "absent"
<1>1. NoVM \in VM /\ NoVM.state = "absent"
  BY DEF NoVM, VM
<1> QED BY <1>1 DEF MachinesTypeOK, Touches

\* A machine with a state is one.
LEMMA Real ==
  ASSUME NEW s \in Sandboxes, vms[s].state # "absent"
  PROVE  vms[s] # NoVM
BY DEF NoVM

\* A script of configureMachine runs: the fourth writes the file.
LEMMA Writes ==
  ASSUME MachinesInv, NEW s \in Sandboxes, calls[s].kind = "create", vms[s].state = "running",
         WriteMetadata(s)
  PROVE  /\ Touches(s) /\ vms'[s].state = vms[s].state
         /\ calls[s].n = 4 => vms'[s].policy = calls[s].policy
<1>1. calls[s] \in CallRecord /\ calls[s].n \in 1..7
  BY DEF MachinesInv, MachinesTypeOK, CallRecord, Local, Placed
<1>2. CASE calls[s].n = 4
  <2> DEFINE c == [vms[s] EXCEPT !.policy = calls[s].policy]
  <2>1. c \in VM /\ c.state = vms[s].state /\ c.policy = calls[s].policy
    BY <1>1 DEF MachinesInv, MachinesTypeOK, VM, CallRecord
  <2>2. vms' = [vms EXCEPT ![s] = c]
    BY <1>1, <1>2, Scripts DEF WriteMetadata, MachinesInv, MachinesTypeOK
  <2> HIDE DEF c
  <2> QED BY <2>1, <2>2, Real DEF MachinesInv, MachinesTypeOK, Touches
<1>3. CASE calls[s].n # 4
  BY <1>1, <1>3, Scripts, Leaves DEF WriteMetadata
<1> QED BY <1>2, <1>3

---------------------------------------------------------------------------
(* A step of s keeps the invariant.                                        *)

\* What belongs to the other sandboxes stays as it is.
Frame(s) ==
  /\ \A t \in Sandboxes \ {s} :
       /\ vms'[t] = vms[t] /\ calls'[t] = calls[t] /\ answers'[t] = answers[t]
       /\ disk'[t] = disk[t] /\ snaps'[t] = snaps[t] /\ snapCalls'[t] = snapCalls[t]
       /\ known'[t] = known[t] /\ promised'[t] = promised[t]
       /\ t \in unread' <=> t \in unread
       /\ t \in todo' <=> t \in todo
  /\ UNCHANGED phase

\* A step of one sandbox keeps the invariant if it keeps it for that sandbox.
LEMMA OwnStep ==
  ASSUME MachinesInv, NEW s \in Sandboxes, MachinesTypeOK', Frame(s), Local(s)'
  PROVE  MachinesInv'
<1>1. ASSUME NEW t \in Sandboxes \ {s}
      PROVE  Local(t)'
  <2>1. Local(t)
    BY DEF MachinesInv
  <2> QED BY <2>1 DEF Frame, Local, Placed, Configured, Kept, Fresh
<1> QED BY <1>1 DEF MachinesInv

\* What the steps of a call, and an operator, leave alone.
Apart == UNCHANGED <<disk, snaps, snapCalls, phase, todo, unread>>

\* A step of a call keeps the invariant if it leaves the metadata of a promised sandbox
\* alone and forgets only a machine that is gone.
LEMMA StepKeeps ==
  ASSUME MachinesInv, NEW s \in Sandboxes, Touches(s), CallsOf(s), Apart, UNCHANGED promised,
         known' \in [Sandboxes -> {"none", "kill", "pause"}],
         \A t \in Sandboxes \ {s} : known'[t] = known[t],
         Placed(s)',
         answers'[s] = "none" => answers[s] = "none" /\ calls'[s] = calls[s],
         calls'[s].kind = "create" =>
           /\ calls[s].kind = "create" /\ known'[s] = "none"
           /\ calls'[s].policy = calls[s].policy
           /\ Written(calls'[s]) => Written(calls[s]) \/ vms'[s].policy = calls[s].policy,
         known'[s] \in {known[s], "none"},
         known'[s] = "none" /\ known[s] # "none" => vms'[s] = NoVM
  PROVE  MachinesInv'
<1>1. Local(s) /\ NoVM.state = "absent"
  BY DEF MachinesInv, NoVM
<1>2. MachinesTypeOK'
  BY DEF MachinesInv, MachinesTypeOK, Touches, CallsOf, Apart
<1>3. Frame(s)
  BY DEF Frame, Touches, CallsOf, Apart
<1>4. Configured(s)'
  BY <1>1 DEF Local, Configured, Touches, Written
<1>5. Kept(s)'
  BY <1>1 DEF Local, Kept, Touches, Apart
<1>6. Fresh(s)' /\ disk'[s] > 0
  BY <1>1 DEF Local, Fresh, Apart
<1> QED BY <1>2, <1>3, <1>4, <1>5, <1>6, OwnStep DEF Local

\* Where a call is says which call it is.
LEMMA Kinds ==
  ASSUME MachinesInv, NEW s \in Sandboxes
  PROVE  /\ calls[s].step \in {"resolve", "clone", "prepare", "configure", "cleanup"} =>
              calls[s].kind = "create"
         /\ calls[s].step \in ResumeSteps => calls[s].kind \in {"create", "resume"}
         /\ calls[s].step = "delete" => calls[s].kind = "delete"
         /\ calls[s].step \in {"stop", "confirm"} => calls[s].kind = "pause"
<1>1. calls[s] \in CallRecord /\ Placed(s) /\ Idle.step = "none"
  BY DEF MachinesInv, MachinesTypeOK, Local, Idle
<1> QED BY <1>1 DEF CallRecord, Placed, ResumeSteps, ProvisioningSteps

\* A call that goes on keeps the invariant,
LEMMA GoKeeps ==
  ASSUME MachinesInv, NEW s \in Sandboxes, Touches(s), Apart, UNCHANGED <<known, promised>>,
         NEW step \in Steps, Goto(s, step),
         \/ /\ calls[s].kind = "create" /\ step \in {"clone", "cleanup"} \cup ProvisioningSteps
            /\ step \in {"wait address", "health"} => Written(calls[s])
         \/ calls[s].kind = "resume" /\ step \in ResumeSteps
         \/ calls[s].kind = "pause" /\ step \in {"stop", "confirm"}
  PROVE  MachinesInv'
<1>1. /\ CallsOf(s) /\ UNCHANGED answers
      /\ calls'[s].step = step /\ calls'[s].n = 1
      /\ calls'[s].kind = calls[s].kind /\ calls'[s].policy = calls[s].policy
  BY Goes DEF MachinesInv
<1>2. Placed(s) /\ Kept(s) /\ Idle.kind = "idle"
  BY DEF MachinesInv, Local, Idle
<1>3. phase' = "up"
  BY <1>2, MachinesInv DEF Placed, Apart, MachinesInv, MachinesTypeOK
<1>0. calls'[s].n # 0 /\ calls'[s].n \notin 5..7
  BY <1>1, Numbers
<1>4. Placed(s)'
  BY <1>0, <1>1, <1>2, <1>3 DEF Placed
<1>5. answers[s] # "none"
  BY <1>2 DEF Kept
<1>6. calls'[s].kind = "create" => known[s] = "none" /\ (Written(calls'[s]) => Written(calls[s]))
  <2>1. calls'[s].kind = "create" => known[s] = "none"
    BY <1>1, <1>2 DEF Kept
  <2>2. Written(calls'[s]) => calls'[s].step \in {"wait address", "health"}
    BY <1>0 DEF Written
  <2> QED BY <1>1, <2>1, <2>2
<1>7. known' \in [Sandboxes -> {"none", "kill", "pause"}]
  BY DEF MachinesInv, MachinesTypeOK
<1> QED BY <1>1, <1>4, <1>5, <1>6, <1>7, StepKeeps

\* ... and so does one that returns, if it forgets only what is gone.
LEMMA ReturnKeeps ==
  ASSUME MachinesInv, NEW s \in Sandboxes, Touches(s), Apart, UNCHANGED promised,
         NEW a \in Answers \ {"none"}, Return(s, a),
         UNCHANGED known \/ (known' = [known EXCEPT ![s] = "none"] /\ vms'[s] = NoVM)
  PROVE  MachinesInv'
<1>1. CallsOf(s) /\ calls'[s] = Idle /\ answers'[s] = a
  BY Returns DEF MachinesInv
<1>2. Placed(s)' /\ Idle.kind = "idle"
  BY <1>1 DEF Placed, Idle
<1>3. /\ known' \in [Sandboxes -> {"none", "kill", "pause"}]
      /\ \A t \in Sandboxes \ {s} : known'[t] = known[t]
      /\ known'[s] \in {known[s], "none"}
      /\ known'[s] = "none" /\ known[s] # "none" => vms'[s] = NoVM
  BY DEF MachinesInv, MachinesTypeOK
<1> QED BY <1>1, <1>2, <1>3, StepKeeps

\* Nothing happens to the call.
LEMMA StillKeeps ==
  ASSUME MachinesInv, NEW s \in Sandboxes, Touches(s), Apart, UNCHANGED <<calls, answers, known, promised>>
  PROVE  MachinesInv'
<1>1. CallsOf(s) /\ known' \in [Sandboxes -> {"none", "kill", "pause"}]
  BY DEF MachinesInv, MachinesTypeOK, CallsOf
<1>2. Placed(s) /\ Kept(s)
  BY DEF MachinesInv, Local
<1>3. Placed(s)'
  BY <1>2 DEF Placed, Apart
<1>4. calls'[s].kind = "create" => known[s] = "none" /\ calls'[s] = calls[s]
  BY <1>2 DEF Kept
<1> QED BY <1>1, <1>3, <1>4, StepKeeps

---------------------------------------------------------------------------
(* The actions of a call.                                                  *)

\* The steps before the configuration, of a create or of a resume.
LEMMA FirstStepsKeep ==
  ASSUME MachinesInv, NEW s \in Sandboxes,
         ResolveTemplate(s) \/ PrepareMachine(s) \/ StartVM(s) \/ WaitForMachineState(s)
  PROVE  MachinesInv'
<1>1. Apart /\ UNCHANGED <<known, promised>>
  BY DEF ResolveTemplate, PrepareMachine, StartVM, WaitForMachineState, Apart
<1>2. CASE ResolveTemplate(s)
  BY <1>1, <1>2, Kinds, Leaves, GoKeeps, ReturnKeeps DEF ResolveTemplate, At, Steps, Answers
<1>3. CASE PrepareMachine(s)
  BY <1>1, <1>3, Kinds, Leaves, GoKeeps DEF PrepareMachine, At, Steps, ProvisioningSteps
<1>4. CASE StartVM(s)
  <2>1. Touches(s) /\ calls[s].kind \in {"create", "resume"} /\ Goto(s, "wait state")
    BY <1>4, Kinds, SetsState DEF StartVM, At, ResumeSteps, MachinesInv
  <2> QED BY <1>1, <2>1, GoKeeps DEF Steps, ProvisioningSteps, ResumeSteps
<1>5. CASE WaitForMachineState(s)
  <2>1. Touches(s) /\ calls[s].kind \in {"create", "resume"}
    BY <1>5, Kinds, Leaves DEF WaitForMachineState, At, ResumeSteps
  <2>2. CASE calls[s].kind = "create"
    BY <1>1, <1>5, <2>1, <2>2, GoKeeps DEF WaitForMachineState, Steps, ProvisioningSteps
  <2>3. CASE calls[s].kind = "resume"
    BY <1>1, <1>5, <2>1, <2>3, GoKeeps DEF WaitForMachineState, Steps, ProvisioningSteps, ResumeSteps
  <2> QED BY <2>1, <2>2, <2>3
<1> QED BY <1>2, <1>3, <1>4, <1>5

\* Nothing has been promised of a machine that is being cloned.
LEMMA CloneVMKeeps ==
  ASSUME MachinesInv, NEW s \in Sandboxes, CloneVM(s)
  PROVE  MachinesInv'
<1> DEFINE vm == [state |-> "stopped", policy |-> "none"]
<1>1. Apart /\ UNCHANGED <<known, promised>>
  BY DEF CloneVM, Apart
<1>2. calls[s].kind = "create" /\ Local(s)
  BY Kinds DEF CloneVM, At, MachinesInv
<1>3. promised[s] = "none" /\ known[s] = "none" /\ phase = "up" /\ Idle.kind = "idle" /\ answers[s] # "none"
  BY <1>2 DEF Local, Kept, Placed, Idle, MachinesInv, MachinesTypeOK
<1>4. CASE vms' = [vms EXCEPT ![s] = vm] /\ (Goto(s, "prepare") \/ Return(s, "error"))
  <2>1. vm \in VM /\ vm.state = "stopped"
    BY DEF VM
  <2> HIDE DEF vm
  <2>2. vms' \in [Sandboxes -> VM] /\ vms'[s] = vm /\ \A t \in Sandboxes \ {s} : vms'[t] = vms[t]
    BY <1>4, <2>1 DEF MachinesInv, MachinesTypeOK
  <2>3. /\ CallsOf(s) /\ answers'[s] # "none"
        /\ \/ /\ calls'[s].step = "prepare" /\ calls'[s].n = 1 /\ calls'[s].kind = "create"
              /\ calls'[s].policy = calls[s].policy
           \/ calls'[s] = Idle
    BY <1>2, <1>3, <1>4, Goes, Returns DEF MachinesInv, Steps, ProvisioningSteps, Answers
  <2>4. MachinesTypeOK'
    BY <1>1, <2>2, <2>3 DEF Apart, CallsOf, MachinesInv, MachinesTypeOK
  <2>5. Frame(s)
    BY <1>1, <2>2, <2>3 DEF Apart, CallsOf, Frame
  <2>6. Placed(s)' /\ Configured(s)'
    <3>1. Placed(s) /\ phase' = "up" /\ Idle.step = "none"
      BY <1>1, <1>2, <1>3 DEF Apart, Local, Idle
    <3>2. Placed(s)'
      BY <1>2, <1>3, <2>3, <3>1, Numbers DEF Placed, ProvisioningSteps
    <3>3. ~Written(calls'[s])
      BY <2>3, <3>1 DEF Written
    <3> QED BY <3>2, <3>3 DEF Configured
  <2>7. Kept(s)'
    BY <1>1, <1>3, <2>1, <2>2, <2>3 DEF Kept
  <2>8. Fresh(s)' /\ disk'[s] > 0
    BY <1>1, <1>2 DEF Apart, Local, Fresh
  <2> QED BY <2>4, <2>5, <2>6, <2>7, <2>8, OwnStep DEF Local
<1>5. CASE Return(s, "error") /\ UNCHANGED vms
  BY <1>1, <1>5, Leaves, ReturnKeeps DEF Answers
<1> QED BY <1>4, <1>5 DEF CloneVM

\* The configuration writes the metadata with the policy asked for; a retry starts it
\* again.
LEMMA ConfigureKeeps ==
  ASSUME MachinesInv, NEW s \in Sandboxes, ConfigureMachine(s) \/ RetrySSH(s)
  PROVE  MachinesInv'
<1>1. Apart /\ UNCHANGED <<known, promised>> /\ vms[s].state = "running" /\ calls[s].step = "configure"
  BY DEF ConfigureMachine, RetrySSH, Apart, At
<1>2. calls[s].kind = "create" /\ calls[s] \in CallRecord /\ calls[s].n \in 1..7 /\ Local(s)
  BY <1>1, Kinds DEF MachinesInv, MachinesTypeOK, CallRecord, Local, Placed
<1>3. Touches(s) /\ (calls[s].n = 4 => vms'[s].policy = calls[s].policy)
  BY <1>1, <1>2, Writes DEF ConfigureMachine, RetrySSH
<1>4. CASE RetrySSH(s)
  BY <1>1, <1>3, <1>4, StillKeeps DEF RetrySSH
<1>5. CASE ConfigureMachine(s) /\ calls[s].n = 7
  <2>1. Goto(s, "wait address") /\ Written(calls[s])
    <3>1. calls[s].n \in 5..7 /\ calls[s].n = Len(ConfigureSteps)
      BY <1>5, Scripts
    <3> QED BY <1>1, <1>5, <3>1 DEF ConfigureMachine, Written
  <2> QED BY <1>1, <1>2, <1>3, <2>1, GoKeeps DEF Steps, ProvisioningSteps
<1>6. CASE ConfigureMachine(s) /\ calls[s].n # 7
  <2> DEFINE next == calls[s].n + 1
             c == [calls[s] EXCEPT !.n = next]
  <2>0. next \in 0..7 /\ next # 0 /\ (calls[s].n \in 5..7 \/ calls[s].n = 4 \/ next \notin 5..7)
    BY <1>2, <1>6, Numbers
  <2>2. calls' = [calls EXCEPT ![s] = c] /\ UNCHANGED answers
    <3>1. calls[s].n # Len(ConfigureSteps)
      BY <1>6, Scripts
    <3>2. calls' = [calls EXCEPT ![s].n = next] /\ UNCHANGED answers
      BY <1>6, <3>1 DEF ConfigureMachine
    <3> HIDE DEF next
    <3> QED BY <3>2 DEF MachinesInv, MachinesTypeOK
  <2> HIDE DEF next
  <2>1. /\ c \in CallRecord /\ c.n = next
        /\ c.step = "configure" /\ c.kind = "create" /\ c.policy = calls[s].policy
    BY <1>1, <1>2, <2>0 DEF CallRecord
  <2> HIDE DEF c
  <2>3. CallsOf(s) /\ calls'[s] = c
    BY <2>1, <2>2 DEF CallsOf, MachinesInv, MachinesTypeOK
  <2>4. phase' = "up" /\ known[s] = "none" /\ answers[s] # "none"
    BY <1>1, <1>2 DEF Apart, Local, Placed, Kept, Idle
  <2>5. Placed(s)'
    BY <1>2, <2>0, <2>1, <2>3, <2>4 DEF Placed, ProvisioningSteps, Local
  <2>6. Written(c) => Written(calls[s]) \/ vms'[s].policy = calls[s].policy
    BY <1>1, <1>2, <1>3, <2>0, <2>1 DEF Written
  <2>7. known' \in [Sandboxes -> {"none", "kill", "pause"}]
    BY <1>1 DEF MachinesInv, MachinesTypeOK
  <2> QED BY <1>1, <1>2, <1>3, <2>1, <2>2, <2>3, <2>4, <2>5, <2>6, <2>7, StepKeeps
<1> QED BY <1>4, <1>5, <1>6

\* A create that succeeds has written it.
LEMMA LastStepsKeep ==
  ASSUME MachinesInv, NEW s \in Sandboxes, WaitForMachineAddress(s) \/ Healthy(s)
  PROVE  MachinesInv'
<1>1. Apart /\ UNCHANGED vms /\ Touches(s) /\ vms[s].state = "running"
  BY Leaves DEF WaitForMachineAddress, Healthy, Apart
<1>2. Local(s) /\ calls[s] \in CallRecord
  BY DEF MachinesInv, MachinesTypeOK
<1>3. calls[s].kind \in {"create", "resume"} /\ Written(calls[s]) /\ vms[s] # NoVM
  BY <1>1, Kinds, Real DEF WaitForMachineAddress, Healthy, At, ResumeSteps, Written
<1>4. CASE WaitForMachineAddress(s)
  <2>1. Goto(s, "health") /\ UNCHANGED <<known, promised>>
    BY <1>4 DEF WaitForMachineAddress
  <2> QED BY <1>1, <1>3, <2>1, GoKeeps DEF Steps, ProvisioningSteps, ResumeSteps
<1>5. CASE Healthy(s) /\ calls[s].kind # "create"
  BY <1>1, <1>5, ReturnKeeps DEF Healthy, Answers
<1>6. CASE Healthy(s) /\ calls[s].kind = "create"
  <2>1. /\ known' = [known EXCEPT ![s] = calls[s].policy]
        /\ promised' = [promised EXCEPT ![s] = calls[s].policy]
        /\ vms[s].policy = calls[s].policy
    BY <1>2, <1>3, <1>6 DEF Healthy, Local, Configured
  <2>2. CallsOf(s) /\ calls'[s] = Idle /\ answers'[s] = "ok"
    BY <1>6, Returns DEF Healthy, MachinesInv, Answers
  <2>3. calls[s].policy \in {"kill", "pause"}
    BY <1>2, <1>6 DEF CallRecord, Local, Placed
  <2>4. /\ known' \in [Sandboxes -> {"none", "kill", "pause"}]
        /\ promised' \in [Sandboxes -> {"none", "kill", "pause"}]
        /\ known'[s] = calls[s].policy /\ promised'[s] = calls[s].policy
        /\ \A t \in Sandboxes \ {s} : known'[t] = known[t] /\ promised'[t] = promised[t]
    BY <2>1, <2>3 DEF MachinesInv, MachinesTypeOK
  <2>5. MachinesTypeOK'
    BY <1>1, <2>2, <2>4 DEF MachinesInv, MachinesTypeOK, CallsOf, Apart
  <2>6. Frame(s)
    BY <1>1, <2>2, <2>4 DEF Frame, CallsOf, Apart
  <2>7. Placed(s)' /\ Configured(s)' /\ Idle.kind = "idle"
    BY <2>2 DEF Placed, Configured, Idle
  <2>8. Kept(s)'
    BY <1>1, <1>2, <2>1, <2>2, <2>3, <2>4, <2>7 DEF Kept, Local
  <2>9. Fresh(s)' /\ disk'[s] > 0
    BY <1>1, <1>2 DEF Fresh, Local, Apart
  <2> QED BY <2>5, <2>6, <2>7, <2>8, <2>9, OwnStep DEF Local
<1> QED BY <1>3, <1>4, <1>5, <1>6

\* What a failing step may still have done.
LEMMA Lates ==
  ASSUME MachinesInv, NEW s \in Sandboxes, LateStep(s)
  PROVE  Touches(s) /\ vms'[s].state \in {vms[s].state, "running"}
<1>1. CASE UNCHANGED vms
  BY <1>1, Leaves
<1>2. CASE vms[s] # NoVM /\ SetState(s, "running")
  BY <1>2, SetsState DEF MachinesInv
<1>3. CASE At(s, "configure") /\ vms[s].state = "running" /\ WriteMetadata(s)
  BY <1>3, Kinds, Writes DEF At
<1> QED BY <1>1, <1>2, <1>3 DEF LateStep

\* One that fails cleans up, and nobody was promised its machine.
LEMMA FailuresKeep ==
  ASSUME MachinesInv, NEW s \in Sandboxes, ProvisionFails(s) \/ CleanupMachine(s) \/ ResumeFails(s)
  PROVE  MachinesInv'
<1>1. Apart /\ UNCHANGED <<known, promised>>
  BY DEF ProvisionFails, CleanupMachine, ResumeFails, Apart
<1>2. Touches(s)
  BY Lates, Leaves, Removes DEF ProvisionFails, CleanupMachine, ResumeFails, MachinesInv
<1>3. CASE ProvisionFails(s)
  BY <1>1, <1>2, <1>3, GoKeeps DEF ProvisionFails, Steps
<1>4. CASE CleanupMachine(s) \/ ResumeFails(s)
  BY <1>1, <1>2, <1>4, ReturnKeeps DEF CleanupMachine, ResumeFails, Answers
<1> QED BY <1>3, <1>4

\* An inspection or a delete forgets only a machine that is gone.
LEMMA AnswersKeep ==
  ASSUME MachinesInv, NEW s \in Sandboxes, InspectSandbox(s) \/ DeleteSandbox(s)
  PROVE  MachinesInv'
<1>1. Apart /\ UNCHANGED promised
  BY DEF InspectSandbox, DeleteSandbox, Apart
<1>2. CASE InspectSandbox(s)
  <2>1. Touches(s) /\ UNCHANGED vms
    BY <1>2, Leaves DEF InspectSandbox
  <2>2. sandboxStateFromVMState(vms[s].state) \in {"none", "paused", "running"}
    BY DEF sandboxStateFromVMState
  <2>3. Answers \ {"none"} = {"pending", "ok", "error", "missing", "running", "paused"}
    BY DEF Answers
  <2>4. vms[s] # NoVM => sandboxStateFromVMState(vms[s].state) # "none"
    BY DEF sandboxStateFromVMState, MachinesInv, Local, Kept
  <2>5. CASE Return(s, "error") /\ UNCHANGED known
    BY <1>1, <2>1, <2>3, <2>5, ReturnKeeps
  <2>6. CASE vms[s] = NoVM /\ Return(s, "missing") /\ known' = [known EXCEPT ![s] = "none"]
    BY <1>1, <2>1, <2>3, <2>6, ReturnKeeps
  <2>7. CASE vms[s] # NoVM /\ Return(s, sandboxStateFromVMState(vms[s].state)) /\ UNCHANGED known
    BY <1>1, <2>1, <2>2, <2>3, <2>4, <2>7, ReturnKeeps
  <2> QED BY <1>2, <2>5, <2>6, <2>7 DEF InspectSandbox
<1>3. CASE DeleteSandbox(s)
  <2>1. Touches(s)
    BY <1>3, Leaves, Removes DEF DeleteSandbox, Late, MachinesInv
  <2>2. vms' = [vms EXCEPT ![s] = NoVM] => vms'[s] = NoVM
    BY Removes DEF MachinesInv
  <2> QED BY <1>1, <1>3, <2>1, <2>2, ReturnKeeps DEF DeleteSandbox, Answers
<1> QED BY <1>2, <1>3

\* A pause stops the machine and keeps its metadata.
LEMMA PauseKeeps ==
  ASSUME MachinesInv, NEW s \in Sandboxes, PauseInspects(s) \/ StopVM(s) \/ PauseConfirms(s)
  PROVE  MachinesInv'
<1>1. Apart /\ UNCHANGED <<known, promised>> /\ calls[s].kind = "pause"
  BY Kinds DEF PauseInspects, StopVM, PauseConfirms, Apart, At
<1>2. Touches(s)
  BY Leaves, SetsState DEF PauseInspects, StopVM, PauseConfirms, Late, MachinesInv
<1>3. \/ Return(s, "error") \/ Return(s, "ok") \/ Goto(s, "stop") \/ Goto(s, "confirm")
  BY DEF PauseInspects, StopVM, PauseConfirms
<1> QED BY <1>1, <1>2, <1>3, GoKeeps, ReturnKeeps DEF Steps, Answers

\* So does what an operator does.
LEMMA ExternalKeeps ==
  ASSUME MachinesInv, NEW s \in Sandboxes, ExternalChange(s)
  PROVE  MachinesInv'
<1>1. Apart /\ UNCHANGED <<calls, answers, known, promised>>
  BY DEF ExternalChange, Apart
<1>2. Touches(s)
  BY SetsState, Removes, Real DEF ExternalChange, MachinesInv
<1> QED BY <1>1, <1>2, StillKeeps

---------------------------------------------------------------------------
(* The beginning of a call.                                                *)

\* A call begins at the step that its kind begins with.
LEMMA BeginKeeps ==
  ASSUME MachinesInv, NEW s \in Sandboxes, NEW c \in CallRecord, c.kind # "idle",
         phase = "up", calls[s] = Idle,
         calls' = [calls EXCEPT ![s] = c], answers' = [answers EXCEPT ![s] = "pending"],
         UNCHANGED <<vms, disk, snaps, snapCalls, phase, todo, known, promised, unread>>,
         \/ c.kind = "create" /\ c.step = "resolve" /\ c.policy # "none" /\ c.n # 0 /\ answers[s] = "none"
         \/ c.kind = "resume" /\ c.step = "start"
         \/ c.kind \in {"inspect", "pause"} /\ c.step = "inspect"
         \/ c.kind = "delete" /\ c.step = "delete"
  PROVE  MachinesInv'
<1>1. CallsOf(s) /\ calls'[s] = c /\ answers'[s] = "pending"
  BY DEF CallsOf, MachinesInv, MachinesTypeOK, Answers
<1>2. MachinesTypeOK' /\ Frame(s)
  BY <1>1 DEF CallsOf, MachinesInv, MachinesTypeOK, Frame
<1>3. Local(s)
  BY DEF MachinesInv
<1>4. Placed(s)' /\ Configured(s)'
  <2>1. Idle.kind = "idle"
    BY DEF Idle
  <2>2. Placed(s)'
    BY <1>1, <2>1 DEF Placed, ResumeSteps
  <2> QED BY <1>1, <2>2 DEF Configured, Written
<1>5. Kept(s)'
  BY <1>1, <1>3 DEF Kept, Local
<1>6. Fresh(s)' /\ disk'[s] > 0
  BY <1>3 DEF Fresh, Local
<1> QED BY <1>2, <1>4, <1>5, <1>6, OwnStep DEF Local

\* So do the calls on a known sandbox,
LEMMA CallBeginsKeeps ==
  ASSUME MachinesInv, NEW s \in Sandboxes,
         \/ CallBegins(s, "inspect", "inspect") \/ CallBegins(s, "pause", "inspect")
         \/ CallBegins(s, "delete", "delete") \/ CallBegins(s, "resume", "start")
  PROVE  MachinesInv'
<1>1. PICK kind \in {"inspect", "pause", "delete", "resume"}, step \in {"inspect", "delete", "start"} :
        /\ CallBegins(s, kind, step)
        /\ kind = "resume" => step = "start"
        /\ kind \in {"inspect", "pause"} => step = "inspect"
        /\ kind = "delete" => step = "delete"
  OBVIOUS
<1> DEFINE c == [kind |-> kind, step |-> step, policy |-> "none", n |-> 1]
<1>2. c \in CallRecord /\ c.kind = kind /\ c.step = step
  BY Numbers DEF CallRecord, Steps, ProvisioningSteps
<1>3. /\ phase = "up" /\ calls[s] = Idle /\ calls' = [calls EXCEPT ![s] = c]
      /\ answers' = [answers EXCEPT ![s] = "pending"]
      /\ UNCHANGED <<vms, disk, snaps, snapCalls, phase, todo, known, promised, unread>>
  BY <1>1 DEF CallBegins
<1> HIDE DEF c
<1> QED BY <1>1, <1>2, <1>3, BeginKeeps

\* ... and a create, with the policy asked for.
LEMMA CreateBeginsKeeps ==
  ASSUME MachinesInv, NEW s \in Sandboxes, NEW policy \in Policies, CreateBegins(s, policy)
  PROVE  MachinesInv'
<1> DEFINE c == [kind |-> "create", step |-> "resolve", policy |-> policy, n |-> 1]
<1>1. c \in CallRecord /\ c.kind = "create" /\ c.step = "resolve" /\ c.policy = policy /\ c.n # 0
  BY Numbers DEF CallRecord, Steps, Policies
<1>2. /\ phase = "up" /\ calls[s] = Idle /\ answers[s] = "none" /\ calls' = [calls EXCEPT ![s] = c]
      /\ answers' = [answers EXCEPT ![s] = "pending"]
      /\ UNCHANGED <<vms, disk, snaps, snapCalls, phase, todo, known, promised, unread>>
  BY DEF CreateBegins
<1>3. policy # "none"
  BY DEF Policies
<1> HIDE DEF c
<1> QED BY <1>1, <1>2, <1>3, BeginKeeps

---------------------------------------------------------------------------
(* Snapshots, and the disk they are made of.                               *)

\* A step of a snapshot of s keeps the invariant if the snapshot stays fresh.
LEMMA SnapKeeps ==
  ASSUME MachinesInv, NEW s \in Sandboxes,
         UNCHANGED <<vms, calls, answers, phase, todo, known, promised, unread>>,
         disk' \in [Sandboxes -> Nat], snaps' \in [Sandboxes -> Nat],
         snapCalls' \in [Sandboxes -> SnapRecord],
         \A t \in Sandboxes \ {s} : disk'[t] = disk[t] /\ snaps'[t] = snaps[t] /\ snapCalls'[t] = snapCalls[t],
         Fresh(s)', disk'[s] > 0
  PROVE  MachinesInv'
<1>1. MachinesTypeOK' /\ Frame(s)
  BY DEF MachinesInv, MachinesTypeOK, Frame
<1>2. Placed(s)' /\ Configured(s)' /\ Kept(s)'
  BY DEF MachinesInv, Local, Placed, Configured, Kept
<1> QED BY <1>1, <1>2, OwnStep DEF Local

\* A snapshot begins with the disk as it is.
LEMMA SnapshotBeginsKeeps ==
  ASSUME MachinesInv, NEW s \in Sandboxes, NEW named \in BOOLEAN, SnapshotBegins(s, named)
  PROVE  MachinesInv'
<1> DEFINE c == [step |-> IF named THEN "delete" ELSE "clone", named |-> named, since |-> disk[s],
                 answer |-> "none"]
<1>1. disk[s] \in Nat /\ disk[s] > 0
  BY DEF MachinesInv, MachinesTypeOK, Local
<1>2. c \in SnapRecord /\ c.answer = "none" /\ c.since = disk[s]
  BY <1>1 DEF SnapRecord
<1>3. snapCalls' = [snapCalls EXCEPT ![s] = c]
  BY DEF SnapshotBegins
<1> HIDE DEF c
<1>4. /\ snapCalls' \in [Sandboxes -> SnapRecord] /\ snapCalls'[s] = c
      /\ \A t \in Sandboxes \ {s} : snapCalls'[t] = snapCalls[t]
  BY <1>2, <1>3 DEF MachinesInv, MachinesTypeOK
<1>5. UNCHANGED <<vms, disk, calls, answers, snaps, phase, todo, known, promised, unread>>
  BY DEF SnapshotBegins
<1>6. Fresh(s)'
  BY <1>1, <1>2, <1>4, <1>5 DEF Fresh
<1> QED BY <1>1, <1>4, <1>5, <1>6, SnapKeeps DEF MachinesInv, MachinesTypeOK

\* What becomes of the record of a snapshot that goes on.
LEMMA SnapGoes ==
  ASSUME MachinesInv, NEW s \in Sandboxes, NEW step \in {"idle", "clone"}, NEW a \in {"none", "ok", "error"},
         snapCalls' = [snapCalls EXCEPT ![s].step = step, ![s].answer = a]
  PROVE  /\ snapCalls' \in [Sandboxes -> SnapRecord]
         /\ \A t \in Sandboxes \ {s} : snapCalls'[t] = snapCalls[t]
         /\ snapCalls'[s].step = step /\ snapCalls'[s].answer = a
         /\ snapCalls'[s].since = snapCalls[s].since /\ snapCalls'[s].named = snapCalls[s].named
<1> DEFINE b == [snapCalls[s] EXCEPT !.step = step]
           c == [b EXCEPT !.answer = a]
<1>1. snapCalls \in [Sandboxes -> SnapRecord]
  BY DEF MachinesInv, MachinesTypeOK
<1>2. b \in SnapRecord /\ b.step = step /\ b.since = snapCalls[s].since /\ b.named = snapCalls[s].named
  BY <1>1 DEF SnapRecord
<1>3. snapCalls' = [snapCalls EXCEPT ![s] = c]
  BY <1>1
<1> HIDE DEF b
<1>4. /\ c \in SnapRecord /\ c.step = step /\ c.answer = a
      /\ c.since = snapCalls[s].since /\ c.named = snapCalls[s].named
  BY <1>2 DEF SnapRecord
<1> HIDE DEF c
<1> QED BY <1>1, <1>3, <1>4

\* The old snapshot of that name is removed first,
LEMMA SnapshotDeletesOldKeeps ==
  ASSUME MachinesInv, NEW s \in Sandboxes, SnapshotDeletesOld(s)
  PROVE  MachinesInv'
<1>1. /\ snapCalls \in [Sandboxes -> SnapRecord] /\ snaps \in [Sandboxes -> Nat]
      /\ disk \in [Sandboxes -> Nat] /\ Fresh(s) /\ disk[s] > 0
  BY DEF MachinesInv, MachinesTypeOK, Local
<1>2. /\ snapCalls' = [snapCalls EXCEPT ![s].step = "clone"]
      /\ UNCHANGED <<vms, disk, calls, answers, phase, todo, known, promised, unread>>
      /\ snapCalls[s].step = "delete"
  BY DEF SnapshotDeletesOld
<1>3. snapCalls[s].answer = "none" /\ snapCalls[s].since <= disk[s]
  BY <1>1, <1>2 DEF Fresh
<1> DEFINE c == [snapCalls[s] EXCEPT !.step = "clone"]
<1>4. c \in SnapRecord /\ c.step = "clone" /\ c.answer = "none" /\ c.since = snapCalls[s].since
  BY <1>1, <1>3 DEF SnapRecord
<1>5. snapCalls' = [snapCalls EXCEPT ![s] = c]
  BY <1>1, <1>2
<1> HIDE DEF c
<1>6. /\ snapCalls' \in [Sandboxes -> SnapRecord] /\ snapCalls'[s] = c
      /\ \A t \in Sandboxes \ {s} : snapCalls'[t] = snapCalls[t]
  BY <1>1, <1>4, <1>5
<1>7. snaps' \in [Sandboxes -> Nat] /\ \A t \in Sandboxes \ {s} : snaps'[t] = snaps[t]
  BY <1>1 DEF SnapshotDeletesOld
<1>8. Fresh(s)'
  BY <1>2, <1>3, <1>4, <1>6 DEF Fresh
<1> QED BY <1>1, <1>2, <1>6, <1>7, <1>8, SnapKeeps

\* ... and the clone is of the disk at that moment.
LEMMA SnapshotClonesKeeps ==
  ASSUME MachinesInv, NEW s \in Sandboxes, SnapshotClones(s)
  PROVE  MachinesInv'
<1>1. /\ snapCalls \in [Sandboxes -> SnapRecord] /\ snaps \in [Sandboxes -> Nat]
      /\ disk \in [Sandboxes -> Nat] /\ Fresh(s) /\ disk[s] > 0
  BY DEF MachinesInv, MachinesTypeOK, Local
<1>2. UNCHANGED <<vms, disk, calls, answers, phase, todo, known, promised, unread>>
  BY DEF SnapshotClones
<1>3. PICK a \in {"ok", "error"} : snapCalls' = [snapCalls EXCEPT ![s].step = "idle", ![s].answer = a]
  BY DEF SnapshotClones
<1>4. /\ snapCalls' \in [Sandboxes -> SnapRecord]
      /\ \A t \in Sandboxes \ {s} : snapCalls'[t] = snapCalls[t]
      /\ snapCalls'[s].step = "idle" /\ snapCalls'[s].answer = a
      /\ snapCalls'[s].since = snapCalls[s].since /\ snapCalls'[s].named = snapCalls[s].named
  BY <1>3, SnapGoes
<1>5. snaps' \in [Sandboxes -> Nat] /\ \A t \in Sandboxes \ {s} : snaps'[t] = snaps[t]
  BY <1>1 DEF SnapshotClones, Clones
\* The name was free: what is there now is what the disk is.
<1>6. a = "ok" /\ snapCalls[s].named => snaps'[s] = disk[s]
  <2>1. SUFFICES ASSUME a = "ok", snapCalls[s].named
                 PROVE  snaps'[s] = disk[s]
    OBVIOUS
  <2>2. snapCalls' # [snapCalls EXCEPT ![s].step = "idle", ![s].answer = "error"]
    <3>1. SUFFICES ASSUME snapCalls' = [snapCalls EXCEPT ![s].step = "idle", ![s].answer = "error"]
                   PROVE  FALSE
      OBVIOUS
    <3>2. snapCalls'[s].answer = "error"
      BY <3>1, SnapGoes
    <3> QED BY <1>4, <2>1, <3>2
  <2>3. Clonable(s) /\ Clones(s)
    BY <2>2 DEF SnapshotClones
  <2> QED BY <1>1, <2>1, <2>3 DEF Clonable, Clones
<1>7. Fresh(s)'
  BY <1>1, <1>2, <1>4, <1>5, <1>6 DEF Fresh
<1> QED BY <1>1, <1>2, <1>4, <1>5, <1>7, SnapKeeps

\* The disk only moves on.
LEMMA DiskWrittenKeeps ==
  ASSUME MachinesInv, NEW s \in Sandboxes, DiskWritten(s)
  PROVE  MachinesInv'
<1>1. /\ snapCalls \in [Sandboxes -> SnapRecord] /\ snaps \in [Sandboxes -> Nat]
      /\ disk \in [Sandboxes -> Nat] /\ Fresh(s) /\ disk[s] > 0
  BY DEF MachinesInv, MachinesTypeOK, Local
<1>2. /\ disk' = [disk EXCEPT ![s] = disk[s] + 1]
      /\ UNCHANGED <<vms, calls, answers, snaps, snapCalls, phase, todo, known, promised, unread>>
  BY DEF DiskWritten
<1>3. disk[s] + 1 \in Nat /\ snapCalls[s].since \in Nat
  BY <1>1 DEF SnapRecord
<1>4. /\ disk' \in [Sandboxes -> Nat] /\ disk'[s] = disk[s] + 1
      /\ \A t \in Sandboxes \ {s} : disk'[t] = disk[t]
  BY <1>1, <1>2, <1>3
<1>5. Fresh(s)' /\ disk'[s] > 0
  BY <1>1, <1>2, <1>3, <1>4 DEF Fresh
<1> QED BY <1>1, <1>2, <1>4, <1>5, SnapKeeps

---------------------------------------------------------------------------
(* The end of the process and RestoreSandboxes.                            *)

\* With no call under way all is said by what is known and what is left to look at.
LEMMA RestartKeeps ==
  ASSUME MachinesInv, ProcessDies \/ RestoreBegins \/ RestoreFails \/ RestoreEnds
  PROVE  MachinesInv'
<1>1. /\ MachinesTypeOK /\ UNCHANGED <<vms, disk, answers, snaps, promised, unread>>
      /\ Idle \in CallRecord /\ NoSnap \in SnapRecord
      /\ NoSnap.step = "idle" /\ NoSnap.answer = "none" /\ NoSnap.since = 0
      /\ Idle.kind = "idle"
  BY DEF MachinesInv, ProcessDies, RestoreBegins, RestoreFails, RestoreEnds, Idle, CallRecord, Steps,
         NoSnap, SnapRecord
<1>2. MachinesTypeOK'
  BY <1>1 DEF MachinesTypeOK, ProcessDies, RestoreBegins, RestoreFails, RestoreEnds
<1>3. ASSUME NEW s \in Sandboxes
      PROVE  Local(s)'
  <2>1. Local(s) /\ disk[s] \in Nat
    BY <1>1 DEF MachinesInv, MachinesTypeOK
  <2>2. calls'[s] = Idle /\ (snapCalls'[s] = snapCalls[s] \/ snapCalls'[s] = NoSnap)
    BY <2>1 DEF ProcessDies, RestoreBegins, RestoreFails, RestoreEnds, Local, Placed
  <2>3. Placed(s)' /\ Configured(s)'
    BY <1>1, <2>2 DEF Placed, Configured
  <2>4. /\ answers[s] = "none" => known'[s] = "none"
        /\ promised[s] # "none" /\ known'[s] # "none" => known'[s] = promised[s] \/ s \in unread
        /\ promised[s] # "none" /\ known'[s] = "none" /\ vms[s] # NoVM =>
             phase' = "down" \/ (phase' = "restoring" /\ s \in todo')
    BY <2>1 DEF Local, Kept, ProcessDies, RestoreBegins, RestoreFails, RestoreEnds
  <2>5. Kept(s)'
    BY <1>1, <2>1, <2>2, <2>4 DEF Local, Kept
  <2>6. Fresh(s)' /\ disk'[s] > 0
    <3>1. CASE snapCalls'[s] = snapCalls[s]
      BY <1>1, <2>1, <3>1 DEF Local, Fresh
    <3>2. CASE snapCalls'[s] = NoSnap
      BY <1>1, <2>1, <3>2 DEF Local, Fresh
    <3> QED BY <2>2, <3>1, <3>2
  <2> QED BY <2>3, <2>5, <2>6 DEF Local
<1> QED BY <1>2, <1>3 DEF MachinesInv

\* Restore reads the policy from the metadata, or records that it could not.
LEMMA RestoreOneKeeps ==
  ASSUME MachinesInv, NEW s \in Sandboxes, RestoreOne(s)
  PROVE  MachinesInv'
<1>1. /\ MachinesTypeOK /\ s \in todo /\ phase = "restoring" /\ todo' = todo \ {s}
      /\ UNCHANGED <<vms, disk, calls, answers, snaps, snapCalls, phase, promised>>
      /\ Local(s)
  BY DEF MachinesInv, RestoreOne
<1>2. RestoredPolicy(vms[s]) \in {"kill", "pause"}
  BY <1>1 DEF RestoredPolicy, MachinesTypeOK, VM
<1>3. vms[s].state = "stopped" => vms[s] # NoVM
  BY Real
<1>4. /\ known' \in [Sandboxes -> {"none", "kill", "pause"}] /\ unread' \subseteq Sandboxes
      /\ \A t \in Sandboxes \ {s} : known'[t] = known[t] /\ (t \in unread' <=> t \in unread)
      /\ \/ vms[s] = NoVM /\ known'[s] = known[s] /\ unread' = unread
         \/ vms[s] # NoVM /\ known'[s] = RestoredPolicy(vms[s])
         \/ vms[s] # NoVM /\ known'[s] = "kill" /\ s \in unread'
  BY <1>1, <1>2, <1>3 DEF RestoreOne, MachinesTypeOK
<1>5. MachinesTypeOK' /\ Frame(s)
  BY <1>1, <1>4 DEF MachinesTypeOK, Frame
<1>6. Placed(s)' /\ Configured(s)'
  BY <1>1 DEF Local, Placed, Configured
<1>7. promised[s] # "none" /\ vms[s] # NoVM => RestoredPolicy(vms[s]) = promised[s]
  BY <1>1 DEF Local, Kept, RestoredPolicy
<1>8. calls[s].kind # "create"
  BY <1>1 DEF Local, Placed, Idle
<1>9. Kept(s)'
  BY <1>1, <1>2, <1>4, <1>7, <1>8 DEF Local, Kept
<1>10. Fresh(s)' /\ disk'[s] > 0
  BY <1>1 DEF Local, Fresh
<1> QED BY <1>5, <1>6, <1>9, <1>10, OwnStep DEF Local

---------------------------------------------------------------------------
(* The invariant of the specification.                                     *)

\* Init establishes the invariant.
LEMMA MachinesStart ==
  ASSUME Init
  PROVE  MachinesInv
<1>1. /\ NoVM \in VM /\ Idle \in CallRecord /\ NoSnap \in SnapRecord
      /\ NoVM.state = "absent" /\ Idle.kind = "idle"
      /\ NoSnap.step = "idle" /\ NoSnap.answer = "none" /\ NoSnap.since = 0
  BY DEF NoVM, VM, Idle, CallRecord, Steps, NoSnap, SnapRecord
<1>2. MachinesTypeOK
  BY <1>1 DEF Init, MachinesTypeOK, Answers
<1>3. ASSUME NEW s \in Sandboxes
      PROVE  Local(s)
  <2>1. /\ vms[s] = NoVM /\ calls[s] = Idle /\ answers[s] = "none" /\ disk[s] = 1
        /\ snapCalls[s] = NoSnap /\ known[s] = "none" /\ promised[s] = "none" /\ phase = "up"
    BY DEF Init
  <2> QED BY <1>1, <2>1 DEF Local, Placed, Configured, Kept, Fresh
<1> QED BY <1>2, <1>3 DEF MachinesInv

\* Every step keeps it.
LEMMA MachinesKeep ==
  ASSUME MachinesInv, [Next]_mvars
  PROVE  MachinesInv'
<1>1. CASE UNCHANGED mvars
  BY <1>1 DEF mvars, MachinesInv, MachinesTypeOK, Local, Placed, Configured, Kept, Fresh
<1>2. CASE ProcessDies \/ RestoreBegins \/ RestoreFails \/ RestoreEnds
  BY <1>2, RestartKeeps
<1>3. ASSUME NEW s \in Sandboxes, Arrive(s)
      PROVE  MachinesInv'
  BY <1>3, CreateBeginsKeeps, CallBeginsKeeps, SnapshotBeginsKeeps DEF Arrive
<1>4. ASSUME NEW s \in Sandboxes, CallStep(s)
      PROVE  MachinesInv'
  BY <1>4, FirstStepsKeep, CloneVMKeeps, ConfigureKeeps, LastStepsKeep, FailuresKeep, AnswersKeep,
     PauseKeeps, SnapshotDeletesOldKeeps, SnapshotClonesKeeps DEF CallStep
<1>5. ASSUME NEW s \in Sandboxes, RestoreOne(s) \/ DiskWritten(s) \/ ExternalChange(s)
      PROVE  MachinesInv'
  BY <1>5, RestoreOneKeeps, DiskWrittenKeeps, ExternalKeeps
<1> QED BY <1>1, <1>2, <1>3, <1>4, <1>5 DEF Next

\* The gateway's records, the machines with their metadata files and what was promised fit
\* together, in every state and whenever the process died.
THEOREM MachinesCorrect == Spec => []MachinesInv
<1>1. Init => MachinesInv
  BY MachinesStart
<1>2. MachinesInv /\ [Next]_mvars => MachinesInv'
  BY MachinesKeep
<1> QED BY <1>1, <1>2, PTL DEF Spec

\* RestoreSandboxes: every sandbox whose create was answered and whose machine is there is
\* known after a restart, with its timeout policy unless its file could not be read.
THEOREM RestartKnowsMachines == Spec => []RestoredAsCreated
<1>1. MachinesInv => RestoredAsCreated
  BY DEF MachinesInv, Local, Kept, RestoredAsCreated
<1> QED BY <1>1, MachinesCorrect, PTL

\* CreateSandboxSnapshot: a snapshot that was answered is not an older one of its name.
THEOREM SnapshotsAreFresh == Spec => []SnapshotIsFresh
<1>1. MachinesInv => SnapshotIsFresh
  BY DEF MachinesInv, Local, Fresh, SnapshotIsFresh
<1> QED BY <1>1, MachinesCorrect, PTL

---------------------------------------------------------------------------
(* How a step of the contract is recognised.                               *)

\* The machine of no other sandbox changes.
Others(s) == \A t \in Sandboxes \ {s} : vms'[t] = vms[t]

\* Only the machine and the call of s may have changed.
OnlyOf(s) == MachinesInv /\ Others(s) /\ CallsOf(s)

\* What a step of one sandbox is under the refinement mapping.
LEMMA Sees ==
  ASSUME NEW s \in Sandboxes, OnlyOf(s)
  PROVE  /\ Runtime!Sees(s)
         /\ rtBar' = [rtBar EXCEPT ![s] = State(s)'] /\ rtBar[s] = State(s) /\ rtBar'[s] = State(s)'
         /\ callBar' = [callBar EXCEPT ![s] = calls'[s].kind] /\ callBar[s] = calls[s].kind
         /\ callBar'[s] = calls'[s].kind
         /\ answers' = [answers EXCEPT ![s] = answers'[s]]
<1>2. \A t \in Sandboxes \ {s} : State(t)' = State(t)
  BY DEF State, OnlyOf, Others
<1>3. rtBar' = [rtBar EXCEPT ![s] = State(s)'] /\ rtBar[s] = State(s) /\ rtBar'[s] = State(s)'
  BY <1>2 DEF rtBar
<1>4. /\ callBar' = [callBar EXCEPT ![s] = calls'[s].kind] /\ callBar[s] = calls[s].kind
      /\ callBar'[s] = calls'[s].kind
  BY DEF callBar, OnlyOf, CallsOf
<1>5. answers' = [answers EXCEPT ![s] = answers'[s]]
  BY DEF OnlyOf, CallsOf, MachinesInv, MachinesTypeOK
<1>6. Runtime!Sees(s)
  <2>1. seenBar' = [seenBar EXCEPT ![s] = {}]
    BY DEF seenBar
  <2>2. {} \in SUBSET (seenBar[s] \cup {rtBar[s], rtBar'[s]})
    OBVIOUS
  <2> QED BY <2>1, <2>2 DEF Runtime!Sees
<1> QED BY <1>3, <1>4, <1>5, <1>6

\* Nothing is owed, before or after.
LEMMA OwesNothing ==
  ASSUME NEW s \in Sandboxes, NEW S
  PROVE  Runtime!Owes(s, S) /\ owedBar' = owedBar
<1>1. owedBar' = [owedBar EXCEPT ![s] = {}]
  BY DEF owedBar
<1> QED BY <1>1 DEF Runtime!Owes, owedBar

\* The call goes on.
LEMMA Effects ==
  ASSUME NEW s \in Sandboxes, OnlyOf(s),
         calls[s].kind # "idle", calls'[s].kind = calls[s].kind, answers'[s] = answers[s],
         State(s)' = State(s) \/ State(s)' \in Runtime!Reach(calls[s].kind)
  PROVE  Runtime!CNext
<1>1. rtBar' \in {rtBar} \cup {[rtBar EXCEPT ![s] = st] : st \in Runtime!Reach(callBar[s])}
  BY Sees DEF rtBar
<1>2. callBar' = callBar /\ answers' = answers
  <2>1. answers \in [Sandboxes -> Answers]
    BY DEF OnlyOf, MachinesInv, MachinesTypeOK
  <2>2. answers' = [answers EXCEPT ![s] = answers[s]]
    BY Sees
  <2> QED BY <2>1, <2>2, Sees DEF callBar
<1>3. Runtime!Effect(s)
  BY <1>1, <1>2, Sees, OwesNothing DEF Runtime!Effect
<1> QED BY <1>3 DEF Runtime!CNext

\* The call ends, with what is true of the machine now.
LEMMA Finishes ==
  ASSUME NEW s \in Sandboxes, OnlyOf(s),
         calls[s].kind # "idle", calls'[s].kind = "idle",
         answers'[s] \in Runtime!Truthful(calls[s].kind, State(s)'),
         State(s)' = State(s) \/ State(s)' \in Runtime!Reach(calls[s].kind)
  PROVE  Runtime!CNext
<1>1. rtBar' \in {rtBar} \cup {[rtBar EXCEPT ![s] = x] : x \in Runtime!Reach(callBar[s])}
  BY Sees DEF rtBar
<1>2. answers' \in {[answers EXCEPT ![s] = a] : a \in Runtime!Truthful(callBar[s], rtBar'[s])}
  BY Sees
<1>3. Runtime!Finish(s)
  BY <1>1, <1>2, Sees, OwesNothing DEF Runtime!Finish
<1> QED BY <1>3 DEF Runtime!CNext

\* Nothing that the gateway could see.
LEMMA Stutters ==
  ASSUME UNCHANGED <<vms, calls, answers>>
  PROVE  UNCHANGED Runtime!cvars
BY DEF Runtime!cvars, rtBar, callBar, seenBar, owedBar, State

---------------------------------------------------------------------------
(* Every step is one of the contract.                                      *)

\* A call that goes on implements the contract if its effect may be.
LEMMA GoImplements ==
  ASSUME MachinesInv, NEW s \in Sandboxes, Others(s), NEW step \in Steps, Goto(s, step),
         calls[s].kind # "idle",
         State(s)' = State(s) \/ State(s)' \in Runtime!Reach(calls[s].kind)
  PROVE  Runtime!CNext
<1>1. CallsOf(s) /\ UNCHANGED answers /\ calls'[s].kind = calls[s].kind
  BY Goes DEF MachinesInv
<1> QED BY <1>1, Effects DEF OnlyOf

\* A call that returns does if its answer is true as well.
LEMMA ReturnImplements ==
  ASSUME MachinesInv, NEW s \in Sandboxes, Others(s), NEW a \in Answers, Return(s, a),
         calls[s].kind # "idle", a \in Runtime!Truthful(calls[s].kind, State(s)'),
         State(s)' = State(s) \/ State(s)' \in Runtime!Reach(calls[s].kind)
  PROVE  Runtime!CNext
<1>1. CallsOf(s) /\ calls'[s] = Idle /\ answers'[s] = a
  BY Returns DEF MachinesInv
<1>2. calls'[s].kind = "idle"
  BY <1>1 DEF Idle
<1> QED BY <1>1, <1>2, Finishes DEF OnlyOf

\* An error always is.
LEMMA ErrorImplements ==
  ASSUME MachinesInv, NEW s \in Sandboxes, Others(s), Return(s, "error"),
         calls[s].kind \in Runtime!Calls,
         State(s)' = State(s) \/ State(s)' \in Runtime!Reach(calls[s].kind)
  PROVE  Runtime!CNext
<1>1. "error" \in Runtime!Truthful(calls[s].kind, State(s)')
  BY DEF Runtime!Truthful
<1> QED BY <1>1, ReturnImplements DEF Answers, Runtime!Calls

\* A create may take the sandbox anywhere.
LEMMA CreateReaches ==
  ASSUME NEW s \in Sandboxes
  PROVE  State(s)' \in Runtime!Reach("create")
BY DEF State, sandboxStateFromVMState, Runtime!Reach

\* Every step of a create but its success implements the contract.
LEMMA ProvisionImplements ==
  ASSUME MachinesInv, NEW s \in Sandboxes,
         \/ ResolveTemplate(s) \/ CloneVM(s) \/ PrepareMachine(s) \/ StartVM(s)
         \/ WaitForMachineState(s) \/ WaitForMachineAddress(s)
         \/ ProvisionFails(s) \/ CleanupMachine(s)
  PROVE  Runtime!CNext
<1>1. calls[s].kind = "create" \/ (calls[s].kind = "resume" /\ ~CloneVM(s))
  BY Kinds DEF ResolveTemplate, CloneVM, PrepareMachine, StartVM, WaitForMachineState,
     WaitForMachineAddress, ProvisionFails, CleanupMachine, At, ResumeSteps
<1>2. Return(s, "error") \/ \E step \in Steps : Goto(s, step)
  BY DEF ResolveTemplate, CloneVM, PrepareMachine, StartVM, WaitForMachineState,
     WaitForMachineAddress, ProvisionFails, CleanupMachine, Steps, ProvisioningSteps
<1>3. Others(s)
  <2>1. Touches(s) => Others(s)
    BY DEF Touches, Others
  <2>2. CloneVM(s) => Others(s)
    BY DEF CloneVM, Others, MachinesInv, MachinesTypeOK
  <2> QED BY <2>1, <2>2, Leaves, SetsState, Removes, Lates DEF ResolveTemplate, PrepareMachine, StartVM, WaitForMachineState,
     WaitForMachineAddress, ProvisionFails, CleanupMachine, MachinesInv
<1>4. State(s)' = State(s) \/ State(s)' \in Runtime!Reach(calls[s].kind)
  <2>1. CASE calls[s].kind = "create"
    BY <2>1, CreateReaches
  <2>2. CASE calls[s].kind = "resume"
    <3>1. State(s)' \in {State(s), "running"}
      <4>1. ~ProvisionFails(s) /\ ~ResolveTemplate(s) /\ ~PrepareMachine(s) /\ ~CleanupMachine(s)
        BY <2>2, Kinds DEF ProvisionFails, ResolveTemplate, PrepareMachine, CleanupMachine, At
      <4>2. UNCHANGED vms \/ vms'[s].state = "running"
        BY <1>1, <2>2, <4>1, SetsState DEF StartVM, WaitForMachineState, WaitForMachineAddress, MachinesInv
      <4> QED BY <4>2 DEF State, sandboxStateFromVMState
    <3> QED BY <2>2, <3>1 DEF Runtime!Reach
  <2> QED BY <1>1, <2>1, <2>2
<1> QED BY <1>1, <1>2, <1>3, <1>4, GoImplements, ErrorImplements DEF Runtime!Calls

\* A script changes nothing that the contract speaks of.
LEMMA ConfigureImplements ==
  ASSUME MachinesInv, NEW s \in Sandboxes, ConfigureMachine(s) \/ RetrySSH(s)
  PROVE  Runtime!CNext
<1>1. calls[s].kind = "create" /\ calls[s] \in CallRecord
  BY Kinds DEF ConfigureMachine, RetrySSH, At, MachinesInv, MachinesTypeOK
<1>2. Others(s) /\ State(s)' = State(s)
  BY <1>1, Writes DEF ConfigureMachine, RetrySSH, State, Touches, Others
<1>3. CASE \E step \in Steps : Goto(s, step)
  BY <1>1, <1>2, <1>3, GoImplements
<1>4. CASE UNCHANGED <<calls, answers>>
  <2>1. CallsOf(s)
    BY <1>4 DEF CallsOf, MachinesInv, MachinesTypeOK
  <2> QED BY <1>1, <1>2, <1>4, <2>1, Effects DEF OnlyOf
<1>5. CASE calls' = [calls EXCEPT ![s].n = calls[s].n + 1] /\ calls[s].n # 7 /\ UNCHANGED answers
  <2> DEFINE next == calls[s].n + 1
             c == [calls[s] EXCEPT !.n = next]
  <2>1. next \in 0..7
    <3>1. calls[s].n \in 1..7
      BY <1>1, Numbers DEF MachinesInv, Local, Placed, CallRecord
    <3> QED BY <1>5, <3>1, Numbers
  <2>2. calls' = [calls EXCEPT ![s] = c]
    <3>1. calls' = [calls EXCEPT ![s].n = next]
      BY <1>5
    <3> HIDE DEF next
    <3> QED BY <3>1 DEF MachinesInv, MachinesTypeOK
  <2> HIDE DEF next
  <2>3. c \in CallRecord /\ c.kind = calls[s].kind
    BY <1>1, <2>1 DEF CallRecord
  <2> HIDE DEF c
  <2>4. CallsOf(s) /\ calls'[s] = c
    BY <1>5, <2>2, <2>3 DEF CallsOf, MachinesInv, MachinesTypeOK
  <2> QED BY <1>1, <1>2, <1>5, <2>3, <2>4, Effects DEF OnlyOf
<1> QED BY <1>3, <1>4, <1>5, Scripts DEF ConfigureMachine, RetrySSH, Steps, ProvisioningSteps

\* A create or a resume succeeds with a machine that runs.
LEMMA HealthyImplements ==
  ASSUME MachinesInv, NEW s \in Sandboxes, Healthy(s)
  PROVE  Runtime!CNext
<1>1. /\ UNCHANGED vms /\ vms[s].state = "running" /\ Return(s, "ok")
      /\ calls[s].kind \in {"create", "resume"}
  BY Kinds DEF Healthy, At, ResumeSteps
<1>2. State(s)' = State(s) /\ State(s)' = "running" /\ Others(s)
  BY <1>1 DEF State, sandboxStateFromVMState, Others
<1>3. "ok" \in Runtime!Truthful(calls[s].kind, State(s)')
  BY <1>1, <1>2 DEF Runtime!Truthful
<1> QED BY <1>1, <1>2, <1>3, ReturnImplements DEF Answers

\* An inspection answers with the state it has seen.
LEMMA InspectImplements ==
  ASSUME MachinesInv, NEW s \in Sandboxes, InspectSandbox(s)
  PROVE  Runtime!CNext
<1>1. calls[s].kind = "inspect" /\ Others(s) /\ State(s)' = State(s)
  BY DEF InspectSandbox, Others, State
<1>2. vms[s] = NoVM => State(s) = "none"
  BY DEF State, sandboxStateFromVMState, NoVM
<1>3. vms[s] # NoVM => State(s) \in {"paused", "running"}
  BY DEF State, sandboxStateFromVMState, MachinesInv, Local, Kept
<1>4. /\ vms[s] = NoVM => "missing" \in Runtime!Truthful(calls[s].kind, State(s)')
      /\ vms[s] # NoVM => State(s) \in Runtime!Truthful(calls[s].kind, State(s)')
  BY <1>1, <1>2, <1>3 DEF Runtime!Truthful
<1>5. CASE Return(s, "error")
  BY <1>1, <1>5, ErrorImplements DEF Runtime!Calls
<1>6. CASE vms[s] = NoVM /\ Return(s, "missing")
  BY <1>1, <1>4, <1>6, ReturnImplements DEF Answers
<1>7. CASE vms[s] # NoVM /\ Return(s, State(s))
  BY <1>1, <1>3, <1>4, <1>7, ReturnImplements DEF Answers
<1> QED BY <1>5, <1>6, <1>7 DEF InspectSandbox, State

\* A delete answers ok only when the machine is gone.
LEMMA DeleteImplements ==
  ASSUME MachinesInv, NEW s \in Sandboxes, DeleteSandbox(s)
  PROVE  Runtime!CNext
<1>1. calls[s].kind = "delete" /\ "none" \in Runtime!Reach(calls[s].kind)
  BY Kinds DEF DeleteSandbox, At, Runtime!Reach
<1>2. CASE UNCHANGED vms
  <2>1. Others(s) /\ State(s)' = State(s)
    BY <1>2 DEF Others, State
  <2>2. CASE Return(s, "error")
    BY <1>1, <2>1, <2>2, ErrorImplements DEF Runtime!Calls
  <2>3. CASE Return(s, "ok") /\ vms' = [vms EXCEPT ![s] = NoVM]
    <3>1. State(s)' = "none"
      BY <2>3, Removes DEF State, sandboxStateFromVMState, MachinesInv
    <3>2. "ok" \in Runtime!Truthful(calls[s].kind, State(s)')
      BY <1>1, <3>1 DEF Runtime!Truthful
    <3> QED BY <1>1, <2>1, <2>3, <3>2, ReturnImplements DEF Answers
  <2> QED BY <2>2, <2>3 DEF DeleteSandbox
<1>3. CASE vms' = [vms EXCEPT ![s] = NoVM]
  <2>1. Others(s) /\ State(s)' = "none"
    BY <1>3, Removes DEF Others, Touches, State, sandboxStateFromVMState, MachinesInv
  <2>2. "ok" \in Runtime!Truthful(calls[s].kind, State(s)')
    BY <1>1, <2>1 DEF Runtime!Truthful
  <2> QED BY <1>1, <2>1, <2>2, ErrorImplements, ReturnImplements DEF DeleteSandbox, Runtime!Calls, Answers
<1> QED BY <1>2, <1>3 DEF DeleteSandbox, Late

\* Whatever became of the stop, the answer is what the last look found.
LEMMA PauseImplements ==
  ASSUME MachinesInv, NEW s \in Sandboxes, PauseInspects(s) \/ StopVM(s) \/ PauseConfirms(s)
  PROVE  Runtime!CNext
<1>1. calls[s].kind = "pause" /\ "paused" \in Runtime!Reach(calls[s].kind)
      /\ "ok" \in Runtime!Truthful(calls[s].kind, "paused")
  BY Kinds DEF PauseInspects, StopVM, PauseConfirms, At, Runtime!Reach, Runtime!Truthful
<1>2. CASE UNCHANGED vms
  <2>1. Others(s) /\ State(s)' = State(s)
    BY <1>2 DEF Others, State
  <2>2. CASE Return(s, "error") \/ Goto(s, "stop") \/ Goto(s, "confirm")
    BY <1>1, <2>1, <2>2, ErrorImplements, GoImplements DEF Runtime!Calls, Steps
  <2>3. CASE Return(s, "ok") /\ vms[s].state = "stopped"
    <3>1. State(s)' = "paused"
      BY <1>2, <2>3 DEF State, sandboxStateFromVMState
    <3> QED BY <1>1, <2>1, <2>3, <3>1, ReturnImplements DEF Answers
  <2>4. CASE Return(s, "ok") /\ Confirmed(vms[s])
    <3>1. State(s)' = "paused"
      BY <2>1, <2>4 DEF State, Confirmed
    <3> QED BY <1>1, <2>1, <2>4, <3>1, ReturnImplements DEF Answers
  <2>5. CASE Return(s, "ok") /\ vms[s] # NoVM /\ SetState(s, "stopped")
    <3>1. State(s)' = "paused"
      BY <2>5, SetsState DEF State, sandboxStateFromVMState, MachinesInv
    <3> QED BY <1>1, <2>1, <2>5, <3>1, ReturnImplements DEF Answers
  <2> QED BY <2>2, <2>3, <2>4, <2>5 DEF PauseInspects, StopVM, PauseConfirms
<1>3. CASE StopVM(s) /\ vms[s] # NoVM /\ SetState(s, "stopped")
  <2>1. Others(s) /\ State(s)' = "paused"
    BY <1>3, SetsState DEF Others, Touches, State, sandboxStateFromVMState, MachinesInv
  <2> QED BY <1>1, <1>3, <2>1, GoImplements, ReturnImplements DEF StopVM, Answers, Steps
<1> QED BY <1>2, <1>3 DEF PauseInspects, StopVM, PauseConfirms, Late

\* A resume that fails may have started the machine.
LEMMA ResumeFailsImplements ==
  ASSUME MachinesInv, NEW s \in Sandboxes, ResumeFails(s)
  PROVE  Runtime!CNext
<1>1. calls[s].kind = "resume" /\ "running" \in Runtime!Reach(calls[s].kind) /\ Return(s, "error")
  BY DEF ResumeFails, Runtime!Reach
<1>2. Touches(s) /\ vms'[s].state \in {vms[s].state, "running"}
  BY Lates DEF ResumeFails
<1>3. Others(s) /\ State(s)' \in {State(s), "running"}
  BY <1>2 DEF Others, Touches, State, sandboxStateFromVMState
<1> QED BY <1>1, <1>3, ErrorImplements DEF Runtime!Calls

\* An operator does what the contract lets the world do.
LEMMA ExternalImplements ==
  ASSUME MachinesInv, NEW s \in Sandboxes, ExternalChange(s)
  PROVE  Runtime!CNext
<1>1. UNCHANGED <<calls, answers>> /\ CallsOf(s)
  BY DEF ExternalChange, CallsOf, MachinesInv, MachinesTypeOK
<1>2. vms[s] # NoVM /\ vms[s].state # "absent"
  BY Real DEF ExternalChange, MachinesInv, Local, Kept
<1>3. State(s) # "none"
  BY <1>2 DEF State, sandboxStateFromVMState
<1>4. /\ Others(s)
      /\ \/ State(s)' = "paused" /\ "stop" \in ExternalChanges
         \/ State(s)' = "none" /\ "remove" \in ExternalChanges
         \/ State(s)' = "running" /\ "start" \in ExternalChanges
  BY <1>2, SetsState, Removes DEF ExternalChange, Others, Touches, State, sandboxStateFromVMState, MachinesInv
<1>5. callBar' = callBar /\ OnlyOf(s)
  BY <1>1, <1>4 DEF callBar, OnlyOf
<1>6. Runtime!External(s)
  BY <1>1, <1>3, <1>4, <1>5, Sees, OwesNothing DEF Runtime!External
<1> QED BY <1>6 DEF Runtime!CNext

\* A call that begins is a call of the contract.
LEMMA BeginImplements ==
  ASSUME MachinesInv, NEW s \in Sandboxes, NEW c \in CallRecord, c.kind \in Runtime!Calls,
         UNCHANGED vms, calls[s] = Idle,
         calls' = [calls EXCEPT ![s] = c], answers' = [answers EXCEPT ![s] = "pending"]
  PROVE  Runtime!CNext
<1>1. CallsOf(s) /\ calls'[s] = c /\ answers'[s] = "pending" /\ calls[s].kind = "idle"
  BY DEF CallsOf, MachinesInv, MachinesTypeOK, Answers, Idle
<1>2. OnlyOf(s) /\ rtBar' = rtBar
  BY <1>1 DEF OnlyOf, Others, rtBar, State
<1>3. Runtime!Begin(s, c.kind)
  BY <1>1, <1>2, Sees, OwesNothing DEF Runtime!Begin
<1> QED BY <1>3 DEF Runtime!CNext

\* Every call of the gateway begins so.
LEMMA ArriveImplements ==
  ASSUME MachinesInv, NEW s \in Sandboxes, Arrive(s), \A named \in BOOLEAN : ~SnapshotBegins(s, named)
  PROVE  Runtime!CNext
<1>1. ASSUME NEW policy \in Policies, CreateBegins(s, policy)
      PROVE  Runtime!CNext
  <2> DEFINE c == [kind |-> "create", step |-> "resolve", policy |-> policy, n |-> 1]
  <2>1. c \in CallRecord /\ c.kind \in Runtime!Calls
    BY Numbers DEF CallRecord, Steps, Policies, Runtime!Calls
  <2>2. /\ UNCHANGED vms /\ calls[s] = Idle
        /\ calls' = [calls EXCEPT ![s] = c] /\ answers' = [answers EXCEPT ![s] = "pending"]
    BY <1>1 DEF CreateBegins
  <2> HIDE DEF c
  <2> QED BY <2>1, <2>2, BeginImplements
<1>2. ASSUME NEW kind \in {"inspect", "pause", "delete", "resume"},
             NEW step \in {"inspect", "delete", "start"}, CallBegins(s, kind, step)
      PROVE  Runtime!CNext
  <2> DEFINE c == [kind |-> kind, step |-> step, policy |-> "none", n |-> 1]
  <2>1. c \in CallRecord /\ c.kind \in Runtime!Calls
    BY Numbers DEF CallRecord, Steps, ProvisioningSteps, Runtime!Calls
  <2>2. /\ UNCHANGED vms /\ calls[s] = Idle
        /\ calls' = [calls EXCEPT ![s] = c] /\ answers' = [answers EXCEPT ![s] = "pending"]
    BY <1>2 DEF CallBegins
  <2> HIDE DEF c
  <2> QED BY <2>1, <2>2, BeginImplements
<1> QED BY <1>1, <1>2 DEF Arrive

\* Every step is one of the contract, or a stutter.
LEMMA StepImplements ==
  ASSUME MachinesInv, [Next]_mvars
  PROVE  [Runtime!CNext]_Runtime!cvars
<1>1. CASE UNCHANGED mvars
  BY <1>1, Stutters DEF mvars
<1>2. CASE ProcessDies
  <2>1. /\ callBar' = [s \in Sandboxes |-> "idle"] /\ seenBar' = [s \in Sandboxes |-> {}]
        /\ rtBar' = rtBar /\ answers' = answers
        /\ owedBar' \in [Sandboxes -> SUBSET Runtime!States] /\ \A s \in Sandboxes : owedBar'[s] = {}
    BY <1>2 DEF ProcessDies, callBar, seenBar, owedBar, rtBar, State, Idle
  <2> QED BY <2>1 DEF Runtime!Crash, Runtime!CNext
<1>3. CASE RestoreBegins \/ RestoreFails \/ RestoreEnds
  BY <1>3, Stutters DEF RestoreBegins, RestoreFails, RestoreEnds
<1>4. ASSUME NEW s \in Sandboxes,
             \/ SnapshotDeletesOld(s) \/ SnapshotClones(s) \/ RestoreOne(s) \/ DiskWritten(s)
             \/ \E named \in BOOLEAN : SnapshotBegins(s, named)
      PROVE  UNCHANGED Runtime!cvars
  BY <1>4, Stutters DEF SnapshotDeletesOld, SnapshotClones, RestoreOne, DiskWritten, SnapshotBegins
<1>5. ASSUME NEW s \in Sandboxes, Arrive(s)
      PROVE  [Runtime!CNext]_Runtime!cvars
  BY <1>4, <1>5, ArriveImplements
<1>6. ASSUME NEW s \in Sandboxes, CallStep(s)
      PROVE  [Runtime!CNext]_Runtime!cvars
  BY <1>4, <1>6, ProvisionImplements, ConfigureImplements, HealthyImplements, InspectImplements,
     DeleteImplements, PauseImplements, ResumeFailsImplements DEF CallStep
<1> QED BY <1>1, <1>2, <1>3, <1>4, <1>5, <1>6, ExternalImplements DEF Next

\* OrbstackRuntime keeps the contract of a runtime, whatever an operator does to machines
\* and whatever requests fail after they took effect.
THEOREM OrbstackImplementsRuntime == Spec => ImplementsRuntime
<1>1. Init => Runtime!CInit
  BY DEF Init, Runtime!CInit, rtBar, callBar, seenBar, owedBar, State, sandboxStateFromVMState, NoVM, Idle
<1>2. MachinesInv /\ [Next]_mvars => [Runtime!CNext]_Runtime!cvars
  BY StepImplements
<1> QED BY <1>1, <1>2, MachinesCorrect, PTL DEF Spec, ImplementsRuntime, Runtime!CSpec
=============================================================================
