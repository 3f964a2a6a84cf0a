------------------------- MODULE OrbstackMachines -------------------------
(***************************************************************************)
(* The OrbStack backend's sandboxes: OrbstackRuntime's calls, made of the  *)
(* VMClient's requests to OrbStack and of scripts run over ssh, each of    *)
(* which may fail before or after it took effect; the clean-up of a failed *)
(* create; snapshots (clones of the machine); the end of the process, and  *)
(* RestoreSandboxes from the machines and the metadata files in them.      *)
(*                                                                         *)
(* calls[s] is the call under way on sandbox s: the gateway makes one at a *)
(* time (lifecycleMu), except snapshots, which have snapCalls[s].          *)
(***************************************************************************)
EXTENDS Naturals, Sequences

CONSTANTS
  Sandboxes,
  ExternalChanges,  \* what an operator does to machines: "stop", "remove", "start"
  HostView,         \* are the files of a stopped machine visible on the host
  MaxWrites         \* bound: how often a sandbox changes its disk

ASSUME MachinesAssumption ==
  /\ ExternalChanges \subseteq {"stop", "remove", "start"}
  /\ HostView \in BOOLEAN
  /\ MaxWrites \in Nat

VARIABLES
  vms,        \* the machine of each sandbox: state, and the metadata file's OnTimeout
  disk,       \* the version of the machine's disk
  calls,      \* the call under way
  answers,    \* how the last call ended, or "pending"
  snaps,      \* the named snapshot machine: the version of its disk, 0 if absent
  snapCalls,  \* CreateSandboxSnapshot under way
  phase,      \* the gateway process: "up", "down", "restoring"
  todo,       \* the machines RestoreSandboxes has listed and not looked at
  known,      \* the gateway's records: their OnTimeout
  promised,   \* history: the OnTimeout of a create that was answered
  unread      \* history: the metadata file could not be read

mvars == <<vms, disk, calls, answers, snaps, snapCalls, phase, todo, known,
           promised, unread>>

Policies == {"kill", "pause"}

NoVM == [state |-> "absent", policy |-> "none"]

Idle == [kind |-> "idle", step |-> "none", policy |-> "none", n |-> 0]

NoSnap == [step |-> "idle", named |-> FALSE, since |-> 0, answer |-> "none"]

\* configureMachine, in its order; each is a script over ssh.
ConfigureSteps ==
  <<"dirs", "envd binary", "envd service", "metadata", "volume links", "wants link", "restart envd">>

\* sandboxStateFromVMState.
sandboxStateFromVMState(state) ==
  CASE state = "absent" -> "none"
    [] state = "stopped" -> "paused"
    [] OTHER -> "running"

Init ==
  /\ vms = [s \in Sandboxes |-> NoVM]
  /\ disk = [s \in Sandboxes |-> 1]
  /\ calls = [s \in Sandboxes |-> Idle]
  /\ answers = [s \in Sandboxes |-> "none"]
  /\ snaps = [s \in Sandboxes |-> 0]
  /\ snapCalls = [s \in Sandboxes |-> NoSnap]
  /\ phase = "up"
  /\ todo = {}
  /\ known = [s \in Sandboxes |-> "none"]
  /\ promised = [s \in Sandboxes |-> "none"]
  /\ unread = {}

---------------------------------------------------------------------------
(* Steps of a call.                                                        *)

At(s, step) == calls[s].step = step

Goto(s, step) ==
  /\ calls' = [calls EXCEPT ![s].step = step, ![s].n = 1]
  /\ UNCHANGED answers

Return(s, answer) ==
  /\ calls' = [calls EXCEPT ![s] = Idle]
  /\ answers' = [answers EXCEPT ![s] = answer]

SetState(s, state) == vms' = [vms EXCEPT ![s].state = state]

\* A request that failed: nothing happened, or it did and the answer was lost.
Late(effect) == UNCHANGED vms \/ effect

---------------------------------------------------------------------------
(* CreateSandbox.                                                          *)

CreateBegins(s, policy) ==
  /\ phase = "up"
  /\ calls[s] = Idle /\ answers[s] = "none" /\ vms[s] = NoVM
  /\ calls' = [calls EXCEPT ![s] = [kind |-> "create", step |-> "resolve", policy |-> policy, n |-> 1]]
  /\ answers' = [answers EXCEPT ![s] = "pending"]
  /\ UNCHANGED <<vms, disk, snaps, snapCalls, phase, todo, known, promised, unread>>

\* resolveTemplate and resolveVolumeMounts: nothing has been made yet.
ResolveTemplate(s) ==
  /\ At(s, "resolve")
  /\ Goto(s, "clone") \/ Return(s, "error")
  /\ UNCHANGED <<vms, disk, snaps, snapCalls, phase, todo, known, promised, unread>>

\* Until CloneVM has succeeded there is no clean-up.
CloneVM(s) ==
  /\ At(s, "clone")
  /\ \/ /\ vms' = [vms EXCEPT ![s] = [state |-> "stopped", policy |-> "none"]]
        /\ Goto(s, "prepare") \/ Return(s, "error")
     \/ Return(s, "error") /\ UNCHANGED vms
  /\ UNCHANGED <<disk, snaps, snapCalls, phase, todo, known, promised, unread>>

\* prepareMachine: SetMachineOption and AddMachineMount rewrite the machine's config.
PrepareMachine(s) ==
  /\ At(s, "prepare")
  /\ vms[s] # NoVM
  /\ Goto(s, "start")
  /\ UNCHANGED <<vms, disk, snaps, snapCalls, phase, todo, known, promised, unread>>

StartVM(s) ==
  /\ At(s, "start")
  /\ vms[s] # NoVM
  /\ SetState(s, "running")
  /\ Goto(s, "wait state")
  /\ UNCHANGED <<disk, snaps, snapCalls, phase, todo, known, promised, unread>>

\* waitForMachineState: a missing machine is waited for like a stopped one.
WaitForMachineState(s) ==
  /\ At(s, "wait state")
  /\ vms[s].state = "running"
  /\ Goto(s, IF calls[s].kind = "create" THEN "configure" ELSE "wait address")
  /\ UNCHANGED <<vms, disk, snaps, snapCalls, phase, todo, known, promised, unread>>

\* The metadata file is complete or absent: it is installed from a temporary file.
WriteMetadata(s) ==
  IF ConfigureSteps[calls[s].n] = "metadata"
  THEN vms' = [vms EXCEPT ![s].policy = calls[s].policy]
  ELSE UNCHANGED vms

\* One script of configureMachine succeeds.
ConfigureMachine(s) ==
  /\ At(s, "configure")
  /\ vms[s].state = "running"
  /\ WriteMetadata(s)
  /\ IF calls[s].n = Len(ConfigureSteps)
     THEN Goto(s, "wait address")
     ELSE calls' = [calls EXCEPT ![s].n = calls[s].n + 1] /\ UNCHANGED answers
  /\ UNCHANGED <<disk, snaps, snapCalls, phase, todo, known, promised, unread>>

\* The connection is lost, perhaps after the script has run: runMachineShell runs
\* the whole script again.
RetrySSH(s) ==
  /\ At(s, "configure")
  /\ vms[s].state = "running"
  /\ WriteMetadata(s)
  /\ UNCHANGED <<disk, calls, answers, snaps, snapCalls, phase, todo, known, promised, unread>>

WaitForMachineAddress(s) ==
  /\ At(s, "wait address")
  /\ vms[s].state = "running"
  /\ Goto(s, "health")
  /\ UNCHANGED <<vms, disk, snaps, snapCalls, phase, todo, known, promised, unread>>

\* envd answers: the call succeeds, and the gateway stores the record.
Healthy(s) ==
  /\ At(s, "health")
  /\ vms[s].state = "running"
  /\ Return(s, "ok")
  /\ IF calls[s].kind = "create"
     THEN /\ known' = [known EXCEPT ![s] = calls[s].policy]
          /\ promised' = [promised EXCEPT ![s] = calls[s].policy]
     ELSE UNCHANGED <<known, promised>>
  /\ UNCHANGED <<vms, disk, snaps, snapCalls, phase, todo, unread>>

\* What a failing step of a create or a resume may still have done.
LateStep(s) ==
  \/ UNCHANGED vms
  \/ At(s, "start") /\ vms[s] # NoVM /\ SetState(s, "running")
  \/ At(s, "configure") /\ vms[s].state = "running" /\ WriteMetadata(s)

ProvisioningSteps == {"prepare", "start", "wait state", "configure", "wait address", "health"}

\* Any step after the clone fails, or runs out of time: cleanupMachine.
ProvisionFails(s) ==
  /\ calls[s].kind = "create" /\ calls[s].step \in ProvisioningSteps
  /\ LateStep(s)
  /\ Goto(s, "cleanup")
  /\ UNCHANGED <<disk, snaps, snapCalls, phase, todo, known, promised, unread>>

\* DeleteVM with a context of its own; its error is only logged.
CleanupMachine(s) ==
  /\ At(s, "cleanup")
  /\ vms' = [vms EXCEPT ![s] = NoVM] \/ UNCHANGED vms
  /\ Return(s, "error")
  /\ UNCHANGED <<disk, snaps, snapCalls, phase, todo, known, promised, unread>>

---------------------------------------------------------------------------
(* The calls on a sandbox the gateway knows.                               *)

CallBegins(s, kind, step) ==
  /\ phase = "up"
  /\ known[s] # "none"
  /\ calls[s] = Idle
  /\ calls' = [calls EXCEPT ![s] = [kind |-> kind, step |-> step, policy |-> "none", n |-> 1]]
  /\ answers' = [answers EXCEPT ![s] = "pending"]
  /\ UNCHANGED <<vms, disk, snaps, snapCalls, phase, todo, known, promised, unread>>

\* GetVMInfo is one request; a machine that is not found is no error.
InspectSandbox(s) ==
  /\ At(s, "inspect") /\ calls[s].kind = "inspect"
  /\ \/ Return(s, "error") /\ UNCHANGED known
     \/ vms[s] = NoVM /\ Return(s, "missing") /\ known' = [known EXCEPT ![s] = "none"]
     \/ vms[s] # NoVM /\ Return(s, sandboxStateFromVMState(vms[s].state)) /\ UNCHANGED known
  /\ UNCHANGED <<vms, disk, snaps, snapCalls, phase, todo, promised, unread>>

\* DeleteVM: not found is success.
DeleteSandbox(s) ==
  /\ At(s, "delete")
  /\ \/ /\ vms' = [vms EXCEPT ![s] = NoVM]
        /\ Return(s, "ok")
        /\ known' = [known EXCEPT ![s] = "none"]
     \/ /\ Late(vms' = [vms EXCEPT ![s] = NoVM])
        /\ Return(s, "error")
        /\ UNCHANGED known
  /\ UNCHANGED <<disk, snaps, snapCalls, phase, todo, promised, unread>>

\* PauseSandbox looks first: missing is an error, paused is done.
PauseInspects(s) ==
  /\ At(s, "inspect") /\ calls[s].kind = "pause"
  /\ \/ Return(s, "error")
     \/ vms[s].state = "stopped" /\ Return(s, "ok")
     \/ vms[s].state = "running" /\ Goto(s, "stop")
  /\ UNCHANGED <<vms, disk, snaps, snapCalls, phase, todo, known, promised, unread>>

StopVM(s) ==
  /\ At(s, "stop")
  /\ \/ vms[s] # NoVM /\ SetState(s, "stopped") /\ Return(s, "ok")
     \/ Late(vms[s] # NoVM /\ SetState(s, "stopped")) /\ Goto(s, "confirm")
  /\ UNCHANGED <<disk, snaps, snapCalls, phase, todo, known, promised, unread>>

\* Mutation of Confirmed: a machine that exists is taken for a stopped one.
ConfirmedIfPresent(vm) == vm.state # "absent"

Confirmed(vm) == sandboxStateFromVMState(vm.state) = "paused"

\* The stop failed: the machine may be stopped all the same.
PauseConfirms(s) ==
  /\ At(s, "confirm")
  /\ \/ Confirmed(vms[s]) /\ Return(s, "ok")
     \/ Return(s, "error")
  /\ UNCHANGED <<vms, disk, snaps, snapCalls, phase, todo, known, promised, unread>>

\* ResumeSandbox has no clean-up: a machine it started goes on running.
ResumeFails(s) ==
  /\ calls[s].kind = "resume"
  /\ LateStep(s)
  /\ Return(s, "error")
  /\ UNCHANGED <<disk, snaps, snapCalls, phase, todo, known, promised, unread>>

---------------------------------------------------------------------------
(* Snapshots.  The request has left lifecycleMu.                           *)

\* An anonymous snapshot has a name of its own (the second it is made in).
SnapshotBegins(s, named) ==
  /\ phase = "up"
  /\ known[s] # "none"
  /\ snapCalls[s].step = "idle"
  /\ snapCalls' = [snapCalls EXCEPT ![s] =
       [step |-> IF named THEN "delete" ELSE "clone", named |-> named, since |-> disk[s], answer |-> "none"]]
  /\ UNCHANGED <<vms, disk, calls, answers, snaps, phase, todo, known, promised, unread>>

\* The snapshot of the same name is deleted; the outcome is not looked at.
SnapshotDeletesOld(s) ==
  /\ snapCalls[s].step = "delete"
  /\ snaps' \in {snaps, [snaps EXCEPT ![s] = 0]}
  /\ snapCalls' = [snapCalls EXCEPT ![s].step = "clone"]
  /\ UNCHANGED <<vms, disk, calls, answers, phase, todo, known, promised, unread>>

\* Mutation of Clonable: OrbStack's refusal of an existing name is not an error.
ClonableOnto(s) == vms[s] # NoVM

\* A clone needs its source and a name that is free.
Clonable(s) == vms[s] # NoVM /\ (snapCalls[s].named => snaps[s] = 0)

\* A name that is taken stays with its machine.
Clones(s) ==
  IF snapCalls[s].named /\ snaps[s] = 0
  THEN snaps' = [snaps EXCEPT ![s] = disk[s]]
  ELSE UNCHANGED snaps

\* A clone that fails may have been made.
SnapshotClones(s) ==
  /\ snapCalls[s].step = "clone"
  /\ \/ /\ Clonable(s) /\ Clones(s)
        /\ snapCalls' = [snapCalls EXCEPT ![s].step = "idle", ![s].answer = "ok"]
     \/ /\ UNCHANGED snaps \/ (Clonable(s) /\ Clones(s))
        /\ snapCalls' = [snapCalls EXCEPT ![s].step = "idle", ![s].answer = "error"]
  /\ UNCHANGED <<vms, disk, calls, answers, phase, todo, known, promised, unread>>

\* The program in the sandbox writes.
DiskWritten(s) ==
  /\ vms[s].state = "running"
  /\ disk[s] <= MaxWrites
  /\ disk' = [disk EXCEPT ![s] = disk[s] + 1]
  /\ UNCHANGED <<vms, calls, answers, snaps, snapCalls, phase, todo, known, promised, unread>>

---------------------------------------------------------------------------
(* The end of the process, and RestoreSandboxes.                           *)

ProcessDies ==
  /\ phase # "down"
  /\ phase' = "down"
  /\ calls' = [s \in Sandboxes |-> Idle]
  /\ snapCalls' = [s \in Sandboxes |-> NoSnap]
  /\ known' = [s \in Sandboxes |-> "none"]
  /\ todo' = {}
  /\ UNCHANGED <<vms, disk, answers, snaps, promised, unread>>

\* ListVMs, the machines with the sandbox prefix and not the snapshot prefix.
RestoreBegins ==
  /\ phase = "down"
  /\ phase' = "restoring"
  /\ todo' = {s \in Sandboxes : vms[s] # NoVM}
  /\ UNCHANGED <<vms, disk, calls, answers, snaps, snapCalls, known, promised, unread>>

\* Mutation of RestoredPolicy: the default, whatever the file says.
RestoredByDefault(vm) == "kill"

\* An absent file means default values.
RestoredPolicy(vm) == IF vm.policy = "none" THEN "kill" ELSE vm.policy

\* GetVMInfo and readSandboxMetadata of one machine.  Of a stopped machine the host
\* may see no file; when ssh fails as well that looks like an absent file.
RestoreOne(s) ==
  /\ phase = "restoring"
  /\ s \in todo
  /\ todo' = todo \ {s}
  /\ \/ vms[s] = NoVM /\ UNCHANGED <<known, unread>>
     \/ /\ vms[s] # NoVM
        /\ known' = [known EXCEPT ![s] = RestoredPolicy(vms[s])]
        /\ unread' = unread \ {s}
     \/ /\ vms[s].state = "stopped" /\ ~HostView
        /\ known' = [known EXCEPT ![s] = "kill"]
        /\ unread' = unread \cup {s}
  /\ UNCHANGED <<vms, disk, calls, answers, snaps, snapCalls, phase, promised>>

\* Any other error ends the start.
RestoreFails ==
  /\ phase = "restoring"
  /\ todo # {}
  /\ phase' = "down"
  /\ todo' = {}
  /\ known' = [s \in Sandboxes |-> "none"]
  /\ UNCHANGED <<vms, disk, calls, answers, snaps, snapCalls, promised, unread>>

RestoreEnds ==
  /\ phase = "restoring"
  /\ todo = {}
  /\ phase' = "up"
  /\ UNCHANGED <<vms, disk, calls, answers, snaps, snapCalls, todo, known, promised, unread>>

\* An operator stops, removes or starts the machine.
ExternalChange(s) ==
  /\ \/ "stop" \in ExternalChanges /\ vms[s].state = "running" /\ SetState(s, "stopped")
     \/ "remove" \in ExternalChanges /\ vms[s] # NoVM /\ vms' = [vms EXCEPT ![s] = NoVM]
     \/ "start" \in ExternalChanges /\ vms[s].state = "stopped" /\ SetState(s, "running")
  /\ UNCHANGED <<disk, calls, answers, snaps, snapCalls, phase, todo, known, promised, unread>>

---------------------------------------------------------------------------
(* The specification.                                                      *)

Arrive(s) ==
  \/ \E p \in Policies : CreateBegins(s, p)
  \/ CallBegins(s, "inspect", "inspect") \/ CallBegins(s, "pause", "inspect")
  \/ CallBegins(s, "delete", "delete") \/ CallBegins(s, "resume", "start")
  \/ \E named \in BOOLEAN : SnapshotBegins(s, named)

CallStep(s) ==
  \/ ResolveTemplate(s) \/ CloneVM(s) \/ PrepareMachine(s) \/ StartVM(s)
  \/ WaitForMachineState(s) \/ ConfigureMachine(s) \/ RetrySSH(s)
  \/ WaitForMachineAddress(s) \/ Healthy(s) \/ ProvisionFails(s) \/ CleanupMachine(s)
  \/ InspectSandbox(s) \/ DeleteSandbox(s)
  \/ PauseInspects(s) \/ StopVM(s) \/ PauseConfirms(s) \/ ResumeFails(s)
  \/ SnapshotDeletesOld(s) \/ SnapshotClones(s)

Next ==
  \/ ProcessDies \/ RestoreBegins \/ RestoreFails \/ RestoreEnds
  \/ \E s \in Sandboxes :
       Arrive(s) \/ CallStep(s) \/ RestoreOne(s) \/ DiskWritten(s) \/ ExternalChange(s)

Spec == Init /\ [][Next]_mvars

---------------------------------------------------------------------------
(* Properties.                                                             *)

\* The refinement mapping: a call goes by what it finds as it answers.
State(s) == sandboxStateFromVMState(vms[s].state)

rtBar == [s \in Sandboxes |-> State(s)]

callBar == [s \in Sandboxes |-> calls[s].kind]

seenBar == [s \in Sandboxes |-> {}]

\* A request that fails has had its effect by then, or has none.
owedBar == [s \in Sandboxes |-> {}]

Runtime == INSTANCE RuntimeContract WITH
  rt <- rtBar, call <- callBar, seen <- seenBar, owed <- owedBar, answer <- answers,
  Interference <- (IF "stop" \in ExternalChanges THEN {"paused"} ELSE {}) \cup
                  (IF "remove" \in ExternalChanges THEN {"none"} ELSE {}) \cup
                  (IF "start" \in ExternalChanges THEN {"running"} ELSE {})

\* OrbstackRuntime keeps the contract of a runtime that SandboxLifecycle builds on:
\* its calls, made of many requests, move a machine only where they should, and
\* what they answer is true when they answer it ("PauseSandbox remains idempotent"
\* although the answer of a stop may be lost).
ImplementsRuntime == Runtime!CSpec

\* RestoreSandboxes: whatever the calls under way when the process died, every
\* sandbox whose create was answered and whose machine exists is known to the next
\* process, with the timeout policy it was created with if its file can be read.
RestoredAsCreated ==
  \A s \in Sandboxes :
    phase = "up" /\ promised[s] # "none" /\ vms[s] # NoVM
      => known[s] = promised[s] \/ (known[s] # "none" /\ s \in unread)

\* CreateSandboxSnapshot deletes the old snapshot of that name and clones: when it
\* answers, the snapshot has what the sandbox had written before the request, and
\* is not an older one of the same name.
SnapshotIsFresh ==
  \A s \in Sandboxes :
    snapCalls[s].answer = "ok" /\ snapCalls[s].named => snaps[s] >= snapCalls[s].since
===========================================================================
