-------------------------- MODULE AppleContainers --------------------------
(***************************************************************************)
(* The Apple Container backend's sandboxes: AppleContainerRuntime's calls, *)
(* made of XPC requests that may fail, or be given up when they have run   *)
(* out of time, to take effect later; the lock file that keeps creates and *)
(* resumes apart, in all processes, but not from what is still to come;    *)
(* the host port of envd, found free before the container is made; the     *)
(* attempts of a create and its clean-up; the retries of an inspection;    *)
(* the end of the process, and RestoreSandboxes from the labels.           *)
(*                                                                         *)
(* The XPC client waits for one request at a time (XPCClient.mu), so that  *)
(* each request is a step.  xpc_bridge_send only stops waiting when the    *)
(* time is up, and a process that dies leaves its request behind: the      *)
(* service, a process of its own, carries it out or not.  A not_found      *)
(* that goes away when startEnvd retries leaves no trace and is no step.   *)
(***************************************************************************)
EXTENDS Naturals

CONSTANTS
  Sandboxes,
  Ports,            \* host ports
  NoPort,           \* no port
  Policies,         \* OnTimeout
  MaxAttempts,      \* maxAppleEnvdPortAttempts
  InspectAttempts,  \* appleContainerInspectRetryAttempts
  EmptyLists,       \* how often in a row a list may lack an existing container
  ExternalChanges,  \* what an operator does to containers: "stop", "remove", "start"
  Slots,            \* bounds the requests given up that are still to come
  Free              \* the value of the lock nobody holds

ASSUME ContainersAssumption ==
  /\ MaxAttempts \in Nat \ {0} /\ InspectAttempts \in Nat \ {0}
  /\ EmptyLists \in 0 .. InspectAttempts - 1
  /\ ExternalChanges \subseteq {"stop", "remove", "start"}
  /\ Free \notin Sandboxes /\ NoPort \notin Ports

VARIABLES
  containers,  \* the container of each sandbox: status, published port, label, envd;
               \* history: whether what runs was started by no call
  lock,        \* the flock of e2b-applecontainer-operation.lock
  calls,       \* the call under way; lifecycleMu allows one per sandbox
  answers,     \* how the last call ended, or "pending"
  phase,       \* the gateway process: "up", "down"
  known,       \* the gateway's records: port and OnTimeout
  promised,    \* history: whose create was answered with success
  late,        \* the requests nobody waits for any more, which may yet take effect
  leaked,      \* history: a ContainerCreate was given up, or a clean-up failed
  missed       \* history: a restore did not see the container, or saw it stopping

history == <<promised, leaked, missed>>
avars == <<containers, lock, calls, answers, phase, known, late, history>>

NoContainer == [status |-> "absent", port |-> NoPort, policy |-> "none", envd |-> FALSE, stray |-> FALSE]

Unknown == [port |-> NoPort, policy |-> "none"]

Idle == [kind |-> "idle", step |-> "none", policy |-> "none", port |-> NoPort, n |-> 0, last |-> FALSE]

\* e2bStateFromAppleStatus; other statuses than these two have no state.
e2bStateFromAppleStatus(status) ==
  CASE status = "running" -> "running"
    [] status = "stopped" -> "paused"
    [] OTHER -> "unclear"

Init ==
  /\ containers = [s \in Sandboxes |-> NoContainer]
  /\ lock = Free
  /\ calls = [s \in Sandboxes |-> Idle]
  /\ answers = [s \in Sandboxes |-> "none"]
  /\ phase = "up"
  /\ known = [s \in Sandboxes |-> Unknown]
  /\ late = {}
  /\ promised = {} /\ leaked = {} /\ missed = {}

Exists(s) == containers[s].status # "absent"

\* A published port is bound while the container has a machine.
Binds(s, port) == containers[s].port = port /\ containers[s].status \in {"running", "stopping"}

Bound(port) == \E s \in Sandboxes : Binds(s, port)

\* Whoever has the port answers a GET /health.
Answering(port) == \E s \in Sandboxes : Binds(s, port) /\ containers[s].envd

---------------------------------------------------------------------------
(* Steps of a call.                                                        *)

At(s, step) == calls[s].step = step

Goto(s, step) ==
  /\ calls' = [calls EXCEPT ![s].step = step]
  /\ UNCHANGED <<lock, answers>>

\* The deferred release of the lock is part of the return.
Return(s, answer) ==
  /\ calls' = [calls EXCEPT ![s] = Idle]
  /\ answers' = [answers EXCEPT ![s] = answer]
  /\ lock' = IF lock = s THEN Free ELSE lock

\* What a request may still do once nobody waits for it.
Request(slot, s, kind) ==
  [slot |-> slot, of |-> s, kind |-> kind,
   port |-> IF kind = "create" THEN calls[s].port ELSE NoPort,
   policy |-> IF kind = "create" THEN calls[s].policy ELSE "none"]

GivesUp(s, kind) ==
  \E slot \in Slots : /\ \A r \in late : r.slot # slot
                     /\ late' = late \cup {Request(slot, s, kind)}

\* A request that failed: the service has answered with an error, or not in time.
Fails(s, kind) == UNCHANGED late \/ GivesUp(s, kind)

\* The container is gone, or the request failed and is only logged; then the next
\* attempt, or the error.
CleanupThen(s, last) ==
  /\ calls' = [calls EXCEPT ![s].step = "cleanup", ![s].last = last \/ calls[s].n = MaxAttempts]
  /\ UNCHANGED <<lock, answers>>

cleanupContainer(s) ==
  /\ At(s, "cleanup")
  /\ \/ containers' = [containers EXCEPT ![s] = NoContainer] /\ leaked' = leaked \ {s} /\ UNCHANGED late
     \/ /\ UNCHANGED containers /\ leaked' = IF Exists(s) THEN leaked \cup {s} ELSE leaked
        /\ Fails(s, "delete")
  /\ IF calls[s].last
     THEN Return(s, "error")
     ELSE /\ calls' = [calls EXCEPT ![s].step = "pick", ![s].n = @ + 1]
          /\ UNCHANGED <<lock, answers>>
  /\ UNCHANGED <<phase, known, promised, missed>>

---------------------------------------------------------------------------
(* The operation lock.                                                     *)

\* Mutation of Lockable: the lock is tried and its outcome not looked at.
LockableAnyway(s) == TRUE

Lockable(s) == lock = Free

\* It is polled until it is free or the request's context ends.
acquireAppleContainerOperationLock(s) ==
  /\ At(s, "lock")
  /\ \/ /\ Lockable(s)
        /\ lock' = s
        /\ calls' = [calls EXCEPT ![s].step = IF calls[s].kind = "create" THEN "resolve" ELSE "bootstrap"]
        /\ UNCHANGED answers
     \/ Return(s, "error")
  /\ UNCHANGED <<containers, phase, known, late, history>>

---------------------------------------------------------------------------
(* CreateSandbox.                                                          *)

CreateBegins(s, policy) ==
  /\ phase = "up"
  /\ calls[s] = Idle /\ answers[s] = "none" /\ ~Exists(s)
  /\ calls' = [calls EXCEPT ![s] = [Idle EXCEPT !.kind = "create", !.step = "lock", !.policy = policy, !.n = 1]]
  /\ answers' = [answers EXCEPT ![s] = "pending"]
  /\ UNCHANGED <<containers, lock, phase, known, late, history>>

\* The image, then the volumes (by inspection, else from the list), then the network,
\* if the sandbox is to have one: requests that make nothing, and may fail.
ResolveImage(s) ==
  /\ At(s, "resolve")
  /\ Goto(s, "pick") \/ Return(s, "error")
  /\ UNCHANGED <<containers, phase, known, late, history>>

\* The port is bound and freed again at once.
findFreePort(s) ==
  /\ At(s, "pick")
  /\ \/ \E port \in Ports :
          /\ ~Bound(port)
          /\ calls' = [calls EXCEPT ![s].step = "create", ![s].port = port]
          /\ UNCHANGED <<lock, answers>>
     \/ Return(s, "error")
  /\ UNCHANGED <<containers, phase, known, late, history>>

\* ContainerCreate makes the container.
Made(s, port, policy) ==
  containers' = [containers EXCEPT ![s] = [NoContainer EXCEPT !.status = "stopped", !.port = port, !.policy = policy]]

ContainerCreate(s) ==
  /\ At(s, "create")
  /\ ~Exists(s)
  /\ Made(s, calls[s].port, calls[s].policy)
  /\ Goto(s, "bootstrap")
  /\ UNCHANGED <<phase, known, late, history>>

\* The service says that the port is taken: clean up and try another, but for the
\* last attempt, which like any other error returns without a clean-up.
ContainerCreateFails(s) ==
  /\ At(s, "create")
  /\ \/ calls[s].n < MaxAttempts /\ CleanupThen(s, FALSE) /\ UNCHANGED <<late, leaked>>
     \/ Return(s, "error") /\ UNCHANGED <<late, leaked>>
     \/ Return(s, "error") /\ GivesUp(s, "create") /\ leaked' = leaked \cup {s}
  /\ UNCHANGED <<containers, phase, known, promised, missed>>

\* The container gets its machine and its port; the init process is not yet started.
Booted(s, stray) ==
  containers' = [containers EXCEPT ![s].status = "running", ![s].envd = FALSE, ![s].stray = stray]

Bootable(s) == containers[s].status = "stopped" /\ ~Bound(containers[s].port)

ContainerBootstrap(s) ==
  /\ At(s, "bootstrap")
  /\ Bootable(s)
  /\ Booted(s, FALSE)
  /\ Goto(s, "envd")
  /\ UNCHANGED <<phase, known, late, history>>

\* Four requests: start init, copy envd, create its process, start it.  Until the last
\* has had its effect a failure of one is like a failure of any other.
EnvdStarted(s) == containers' = [containers EXCEPT ![s].envd = TRUE]

startEnvd(s) ==
  /\ At(s, "envd")
  /\ containers[s].status = "running"
  /\ EnvdStarted(s)
  /\ Goto(s, "health")
  /\ UNCHANGED <<phase, known, late, history>>

RecordOf(s) == [port |-> calls[s].port, policy |-> calls[s].policy]

\* healthCheck asks at the port the call has in hand.
healthCheck(s) ==
  /\ At(s, "health")
  /\ Answering(calls[s].port)
  /\ Return(s, "ok")
  /\ IF calls[s].kind = "create"
     THEN /\ known' = [known EXCEPT ![s] = RecordOf(s)]
          /\ promised' = promised \cup {s}
     ELSE UNCHANGED <<known, promised>>
  /\ UNCHANGED <<containers, phase, late, leaked, missed>>

\* A bootstrap, one of the requests of startEnvd, or the health check fails.
StepFails(s) ==
  \/ At(s, "bootstrap") /\ Fails(s, "bootstrap")
  \/ At(s, "envd") /\ Fails(s, "envd")
  \/ At(s, "health") /\ UNCHANGED late

\* Mutation of ProvisionFails: the last check returns without the clean-up.
UnhealthyIsLeft(s) ==
  /\ calls[s].kind = "create"
  /\ StepFails(s)
  /\ IF At(s, "health") THEN Return(s, "error") ELSE CleanupThen(s, TRUE)
  /\ UNCHANGED <<containers, phase, known, history>>

\* A step after ContainerCreate fails: clean up, and try again if startEnvd was
\* answered with not_found.
ProvisionFails(s) ==
  /\ calls[s].kind = "create"
  /\ \/ StepFails(s) /\ CleanupThen(s, TRUE)
     \/ At(s, "envd") /\ CleanupThen(s, FALSE) /\ UNCHANGED late
  /\ UNCHANGED <<containers, phase, known, history>>

---------------------------------------------------------------------------
(* The calls on a sandbox the gateway knows.                               *)

CallBegins(s, kind) ==
  /\ phase = "up"
  /\ known[s] # Unknown
  /\ calls[s] = Idle
  /\ calls' = [calls EXCEPT ![s] = [Idle EXCEPT !.kind = kind, !.step = "request", !.port = known[s].port, !.n = 1]]
  /\ answers' = [answers EXCEPT ![s] = "pending"]
  /\ UNCHANGED <<containers, lock, phase, known, late, history>>

Asked(s, kind) == At(s, "request") /\ calls[s].kind = kind

\* Mutation of Exhausted: one list is believed.
ExhaustedAtOnce(n) == TRUE

Exhausted(n) == n = InspectAttempts

\* inspectContainerSnapshot: a list that is empty is asked for again.
InspectSandbox(s) ==
  /\ Asked(s, "inspect")
  /\ \/ Exists(s) /\ Return(s, e2bStateFromAppleStatus(containers[s].status)) /\ UNCHANGED known
     \/ /\ ~Exists(s) \/ calls[s].n <= EmptyLists
        /\ IF Exhausted(calls[s].n)
           THEN Return(s, "missing") /\ known' = [known EXCEPT ![s] = Unknown]
           ELSE /\ calls' = [calls EXCEPT ![s].n = @ + 1]
                /\ UNCHANGED <<lock, answers, known>>
     \/ Return(s, "error") /\ UNCHANGED known
  /\ UNCHANGED <<containers, phase, late, history>>

\* ContainerDelete with force; not_found is success.
DeleteSandbox(s) ==
  /\ Asked(s, "delete")
  /\ \/ /\ containers' = [containers EXCEPT ![s] = NoContainer]
        /\ Return(s, "ok")
        /\ known' = [known EXCEPT ![s] = Unknown]
        /\ UNCHANGED late
     \/ /\ Fails(s, "delete")
        /\ Return(s, "error")
        /\ UNCHANGED <<containers, known>>
  /\ UNCHANGED <<phase, history>>

Stopped(s) == containers' = [containers EXCEPT ![s].status = "stopped", ![s].envd = FALSE, ![s].stray = FALSE]
Stopping(s) == containers' = [containers EXCEPT ![s].status = "stopping", ![s].envd = FALSE]

\* ContainerStop; a container that is stopped already is success.
PauseSandbox(s) ==
  /\ Asked(s, "pause")
  /\ \/ Exists(s) /\ Stopped(s) /\ Return(s, "ok") /\ UNCHANGED late
     \/ Fails(s, "stop") /\ Return(s, "error") /\ UNCHANGED containers
  /\ UNCHANGED <<phase, known, history>>

\* ResumeSandbox looks first, without the lock: a running container is only asked
\* for its health.
ResumeInspects(s) ==
  /\ Asked(s, "resume")
  /\ \/ containers[s].status = "running" /\ Goto(s, "health")
     \/ containers[s].status \in {"stopped", "stopping"} /\ Goto(s, "lock")
     \/ Return(s, "error")
  /\ UNCHANGED <<containers, phase, known, late, history>>

\* There is no clean-up: a container it started goes on running.
ResumeFails(s) ==
  /\ calls[s].kind = "resume"
  /\ StepFails(s)
  /\ Return(s, "error")
  /\ UNCHANGED <<containers, phase, known, history>>

---------------------------------------------------------------------------
(* The rest of the world.                                                  *)

\* The request a call waits for, if it is one that changes something.
InHand(s) ==
  CASE calls[s].step \in {"create", "bootstrap", "envd"} -> {calls[s].step}
    [] At(s, "cleanup") \/ Asked(s, "delete") -> {"delete"}
    [] Asked(s, "pause") -> {"stop"}
    [] OTHER -> {}

\* The kernel frees the lock of a process that has ended; the service goes on with
\* the one request it has been sent.
ProcessDies ==
  /\ phase = "up"
  /\ phase' = "down"
  /\ calls' = [s \in Sandboxes |-> Idle]
  /\ lock' = Free
  /\ known' = [s \in Sandboxes |-> Unknown]
  /\ \/ UNCHANGED <<late, leaked>>
     \/ \E s \in Sandboxes : \E kind \in InHand(s) :
          /\ GivesUp(s, kind)
          /\ leaked' = IF kind = "create" THEN leaked \cup {s} ELSE leaked
  /\ UNCHANGED <<containers, answers, promised, missed>>

\* The published port, and the label of the timeout policy.
RestoredRecord(s) == [port |-> containers[s].port, policy |-> containers[s].policy]

\* RestoreSandboxes: one list of the managed containers, believed as it is;
\* containers in a state that is none of a sandbox are left out.
RestoreSandboxes ==
  LET unclear == {s \in Sandboxes : containers[s].status = "stopping"} IN
  /\ phase = "down"
  /\ phase' = "up"
  /\ \E absent \in IF EmptyLists = 0 THEN {{}} ELSE {{}} \cup {{s} : s \in Sandboxes} :
       /\ known' = [s \in Sandboxes |->
            IF Exists(s) /\ s \notin absent \cup unclear THEN RestoredRecord(s) ELSE Unknown]
       /\ missed' = {s \in (absent \cup unclear) \ promised : Exists(s)}
  /\ UNCHANGED <<containers, lock, calls, answers, late, promised, leaked>>

\* The service carries out a request that nobody waits for, if it still can.
CarriesOut(r) ==
  LET s == r.of IN
  \/ r.kind = "create" /\ ~Exists(s) /\ Made(s, r.port, r.policy)
  \/ r.kind = "bootstrap" /\ Bootable(s) /\ Booted(s, TRUE)
  \/ r.kind = "envd" /\ containers[s].status = "running" /\ EnvdStarted(s)
  \/ r.kind = "stop" /\ containers[s].status = "running" /\ (Stopping(s) \/ Stopped(s))
  \/ r.kind = "delete" /\ containers' = [containers EXCEPT ![s] = NoContainer]

LateRequestEnds ==
  /\ \E r \in late :
       /\ late' = late \ {r}
       /\ CarriesOut(r) \/ UNCHANGED containers
  /\ UNCHANGED <<lock, calls, answers, phase, known, history>>

\* A stop that has begun ends.
StopEnds(s) ==
  /\ containers[s].status = "stopping"
  /\ Stopped(s)
  /\ UNCHANGED <<lock, calls, answers, phase, known, late, history>>

\* An operator stops, removes or starts the container; the lock is not the operator's.
ExternalChange(s) ==
  /\ \/ "stop" \in ExternalChanges /\ containers[s].status = "running" /\ Stopped(s)
     \/ "remove" \in ExternalChanges /\ Exists(s) /\ containers' = [containers EXCEPT ![s] = NoContainer]
     \/ "start" \in ExternalChanges /\ Bootable(s) /\ Booted(s, TRUE)
  /\ UNCHANGED <<lock, calls, answers, phase, known, late, history>>

---------------------------------------------------------------------------
(* The specification.                                                      *)

Arrive(s) ==
  \/ \E policy \in Policies : CreateBegins(s, policy)
  \/ \E kind \in {"inspect", "delete", "pause", "resume"} : CallBegins(s, kind)

CallStep(s) ==
  \/ acquireAppleContainerOperationLock(s)
  \/ ResolveImage(s) \/ findFreePort(s)
  \/ ContainerCreate(s) \/ ContainerCreateFails(s) \/ ContainerBootstrap(s)
  \/ startEnvd(s) \/ healthCheck(s) \/ ProvisionFails(s) \/ cleanupContainer(s)
  \/ InspectSandbox(s) \/ DeleteSandbox(s) \/ PauseSandbox(s)
  \/ ResumeInspects(s) \/ ResumeFails(s)

Next ==
  \/ ProcessDies \/ RestoreSandboxes \/ LateRequestEnds
  \/ \E s \in Sandboxes : Arrive(s) \/ CallStep(s) \/ StopEnds(s) \/ ExternalChange(s)

Spec == Init /\ [][Next]_avars

---------------------------------------------------------------------------
(* Properties.                                                             *)

\* The refinement mapping.  A container that is stopping still runs; what has no state
\* tells the gateway nothing.
State(s) ==
  IF Exists(s) THEN IF containers[s].status = "stopped" THEN "paused" ELSE "running" ELSE "none"

rtBar == [s \in Sandboxes |-> State(s)]

callBar == [s \in Sandboxes |-> calls[s].kind]

\* A call that asks for the container's health has met it running.
seenBar == [s \in Sandboxes |-> IF At(s, "health") THEN {"running"} ELSE {}]

Target(kind) ==
  CASE kind \in {"create", "stop"} -> {"paused"}
    [] kind = "bootstrap" -> {"running"}
    [] kind = "delete" -> {"none"}
    [] OTHER -> {}

owedBar == [s \in Sandboxes |->
  (UNION {Target(r.kind) : r \in {q \in late : q.of = s}})
    \cup (IF containers[s].status = "stopping" THEN {"paused"} ELSE {})]

Told(answer) == IF answer = "unclear" THEN "error" ELSE answer

answerBar == [s \in Sandboxes |-> Told(answers[s])]

Runtime == INSTANCE RuntimeContract WITH
  rt <- rtBar, call <- callBar, seen <- seenBar, owed <- owedBar, answer <- answerBar,
  Interference <- (IF "stop" \in ExternalChanges THEN {"paused"} ELSE {})
    \cup (IF "remove" \in ExternalChanges THEN {"none"} ELSE {})
    \cup (IF "start" \in ExternalChanges THEN {"running"} ELSE {})

\* AppleContainerRuntime keeps the contract of a runtime that SandboxLifecycle builds
\* on, although lists lack containers that exist (inspectContainerSnapshot), requests
\* are carried out after their calls have ended (xpc_bridge_send), and the health of a
\* sandbox is asked for at a port.
ImplementsRuntime == Runtime!CSpec

\* cleanupContainer: a create that failed, after whichever of its attempts, leaves no
\* container behind, unless its ContainerCreate was given up or a clean-up failed (or a
\* restart in between missed it).
FailedCreateLeavesNothing ==
  \A s \in Sandboxes :
    calls[s] = Idle /\ phase = "up" /\ known[s] = Unknown /\ answers[s] = "error"
      /\ s \notin promised /\ Exists(s) => s \in leaked \cup missed

\* acquireAppleContainerOperationLock: between findFreePort and the bootstrap no other
\* call takes the port, neither a create nor a resume of a sandbox that had it; only a
\* container that no call has started may: by a bootstrap that was given up, or by an
\* operator.
NoPortTakenMeanwhile ==
  \A s \in Sandboxes :
    calls[s].kind = "create" /\ calls[s].step \in {"create", "bootstrap"} =>
      \A t \in Sandboxes \ {s} : Binds(t, calls[s].port) => containers[t].stray
===========================================================================
