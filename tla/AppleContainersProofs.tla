----------------------- MODULE AppleContainersProofs -----------------------
(***************************************************************************)
(* The Apple Container backend, for any sandboxes, ports and numbers of    *)
(* attempts: no call takes the port of a create, a failed create leaves    *)
(* nothing behind, and the calls keep RuntimeContract, although requests   *)
(* may be carried out after the calls that sent them.                      *)
(***************************************************************************)
EXTENDS AppleContainers, TLAPS

---------------------------------------------------------------------------
(* The invariant.                                                          *)

Container == [status: {"absent", "stopped", "running", "stopping"}, port: Ports \cup {NoPort},
              policy: Policies \cup {"none"}, envd: BOOLEAN, stray: BOOLEAN]

Record == [port: Ports \cup {NoPort}, policy: Policies \cup {"none"}]

Steps == {"none", "request", "lock", "resolve", "pick", "create",
          "bootstrap", "envd", "health", "cleanup"}

CallRecord == [kind: {"idle", "create", "inspect", "delete", "pause", "resume"}, step: Steps,
               policy: Policies \cup {"none"}, port: Ports \cup {NoPort}, n: Nat, last: BOOLEAN]

Answers == {"none", "pending", "ok", "error", "missing", "running", "paused", "unclear"}

Kinds == {"create", "bootstrap", "envd", "stop", "delete"}

Requests == [slot: Slots, of: Sandboxes, kind: Kinds,
             port: Ports \cup {NoPort}, policy: Policies \cup {"none"}]

AppleTypeOK ==
  /\ containers \in [Sandboxes -> Container]
  /\ lock \in Sandboxes \cup {Free}
  /\ calls \in [Sandboxes -> CallRecord]
  /\ answers \in [Sandboxes -> Answers]
  /\ phase \in {"up", "down"}
  /\ known \in [Sandboxes -> Record]
  /\ late \subseteq Requests
  /\ promised \subseteq Sandboxes /\ leaked \subseteq Sandboxes /\ missed \subseteq Sandboxes

\* The steps of a create from the bootstrap to its return, and those before.
Making == {"bootstrap", "envd", "health"}
Before == {"lock", "resolve", "pick", "create"}

\* The call is where the code can be.
Placed(s) ==
  /\ calls[s].kind = "idle" => calls[s] = Idle
  /\ calls[s].kind = "create" => calls[s].step \in Before \cup Making \cup {"cleanup"}
  /\ calls[s].kind = "resume" => calls[s].step \in {"request", "lock"} \cup Making
  /\ calls[s].kind \in {"inspect", "delete", "pause"} => calls[s].step = "request"
  /\ phase = "down" => calls[s].kind = "idle"
  /\ calls[s].kind # "idle" => answers[s] # "none"
  /\ calls[s].kind \notin {"idle", "create"} => known[s] # Unknown

\* Who works on a port has the lock.
Locked(s) ==
  (\/ calls[s].step \in {"resolve", "pick", "create", "bootstrap", "envd", "cleanup"}
   \/ calls[s].step = "health" /\ calls[s].kind = "create") => lock = s

\* A container is made with a port, also late.
Ported(s) ==
  /\ Exists(s) => containers[s].port \in Ports
  /\ calls[s].step = "create" => calls[s].port \in Ports
  /\ \A r \in late : r.of = s /\ r.kind = "create" => r.port \in Ports

LateCreate(s) == \E r \in late : r.of = s /\ r.kind = "create"

\* What a failed create has left, or may still leave, is on record.
Left(s) ==
  /\ LateCreate(s) => s \in leaked /\ calls[s].kind # "create" /\ answers[s] # "none"
  /\ calls[s].kind = "create" /\ calls[s].step \in Before /\ Exists(s) => s \in leaked
  /\ calls[s].kind = "idle" /\ phase = "up" /\ known[s] = Unknown /\ answers[s] = "error"
       /\ s \notin promised /\ Exists(s) => s \in leaked \cup missed

Local(s) == Placed(s) /\ Locked(s) /\ Ported(s) /\ Left(s)

AppleInv ==
  /\ AppleTypeOK
  /\ \A s \in Sandboxes : Local(s)
  /\ NoPortTakenMeanwhile

\* The step of a call tells its kind.
LEMMA KindOf ==
  ASSUME AppleInv, NEW s \in Sandboxes
  PROVE  /\ calls[s].step \in {"resolve", "pick", "create", "cleanup"} => calls[s].kind = "create"
         /\ calls[s].step \in {"lock", "bootstrap", "envd", "health"} => calls[s].kind \in {"create", "resume"}
         /\ calls[s].step = "request" => calls[s].kind \in {"inspect", "delete", "pause", "resume"}
         /\ calls[s].step = "none" <=> calls[s].kind = "idle"
<1>1. calls[s] \in CallRecord /\ Placed(s) /\ Idle.step = "none" /\ Idle.kind = "idle"
  BY DEF AppleInv, AppleTypeOK, Local, Idle
<1> QED BY <1>1 DEF Placed, Before, Making, CallRecord

---------------------------------------------------------------------------
(* A step of s keeps it.                                                   *)

\* The container has a machine, and its port.
HasPort(s) == containers[s].status \in {"running", "stopping"}

\* A request has its effect on the container of s.
Works(s) ==
  /\ containers' \in [Sandboxes -> Container]
  /\ \A t \in Sandboxes \ {s} : containers'[t] = containers[t]

\* It gets a port only by the bootstrap of a call, or as a stray.
Kept(s) ==
  /\ Works(s)
  /\ Exists(s)' => containers'[s].port \in Ports
  /\ HasPort(s)' => \/ containers'[s].stray \/ calls[s].step = "bootstrap"
                    \/ HasPort(s) /\ ~containers[s].stray /\ containers'[s].port = containers[s].port

\* Requests of s are given up, or end.
Lates(s) ==
  /\ late' \subseteq Requests
  /\ \A r \in late \cup late' : r.of # s => r \in late /\ r \in late'

\* What belongs to the other sandboxes stays as it is.
Frame(s) ==
  /\ \A t \in Sandboxes \ {s} :
       /\ calls'[t] = calls[t] /\ answers'[t] = answers[t] /\ known'[t] = known[t]
       /\ (t \in leaked' <=> t \in leaked) /\ (t \in promised' <=> t \in promised)
  /\ UNCHANGED <<phase, missed>>

\* The step gets a port only by the bootstrap, with the lock, and picks a port only
\* when nobody has it.
LEMMA OwnStep ==
  ASSUME AppleInv, NEW s \in Sandboxes, AppleTypeOK', Kept(s), Lates(s), Frame(s), Local(s)',
         lock' = lock \/ lock = s \/ (lock = Free /\ lock' = s),
         calls'[s].kind = "create" /\ calls'[s].step \in {"create", "bootstrap"} =>
           \/ calls[s].kind = "create" /\ calls[s].step \in {"create", "bootstrap"}
              /\ calls'[s].port = calls[s].port
           \/ ~Bound(calls'[s].port)
  PROVE  AppleInv'
<1>1. ASSUME NEW t \in Sandboxes \ {s}
      PROVE  Local(t)'
  <2>1. /\ Local(t) /\ containers'[t] = containers[t] /\ calls'[t] = calls[t]
        /\ answers'[t] = answers[t] /\ known'[t] = known[t]
        /\ (t \in leaked' <=> t \in leaked) /\ (t \in promised' <=> t \in promised)
        /\ UNCHANGED <<phase, missed>>
    BY DEF AppleInv, Kept, Works, Frame
  <2>2. \A r \in late \cup late' : r.of = t => r \in late /\ r \in late'
    BY DEF Lates
  <2>3. Exists(t)' <=> Exists(t)
    BY <2>1 DEF Exists
  <2>4. Placed(t)' /\ Ported(t)'
    BY <2>1, <2>2, <2>3 DEF Local, Placed, Ported
  <2>5. Locked(t)'
    <3>1. lock = t => lock' = t
      BY ContainersAssumption
    <3> QED BY <2>1, <3>1 DEF Local, Locked
  <2>6. Left(t)'
    <3>1. LateCreate(t)' <=> LateCreate(t)
      BY <2>2 DEF LateCreate
    <3> QED BY <2>1, <2>3, <3>1 DEF Local, Left
  <2> QED BY <2>4, <2>5, <2>6 DEF Local
<1>2. ASSUME NEW t \in Sandboxes \ {s}, calls'[s].kind = "create",
             calls'[s].step \in {"create", "bootstrap"}, HasPort(t)' /\ containers'[t].port = calls'[s].port
      PROVE  containers'[t].stray
  <2>1. containers'[t] = containers[t]
    BY DEF Kept, Works
  <2> QED BY <1>2, <2>1 DEF AppleInv, NoPortTakenMeanwhile, Bound, Binds, HasPort
<1>3. ASSUME NEW t \in Sandboxes \ {s}, calls'[t].kind = "create",
             calls'[t].step \in {"create", "bootstrap"}, HasPort(s)' /\ containers'[s].port = calls'[t].port
      PROVE  containers'[s].stray
  <2>1. calls'[t] = calls[t]
    BY DEF Frame
  <2>2. lock = t
    BY <1>3, <2>1 DEF AppleInv, Local, Locked
  <2>3. calls[s].step # "bootstrap"
    BY <2>2 DEF AppleInv, Local, Locked
  <2>4. SUFFICES ASSUME ~containers'[s].stray
                 PROVE  FALSE
    OBVIOUS
  <2>5. HasPort(s) /\ ~containers[s].stray /\ containers'[s].port = containers[s].port
    BY <1>3, <2>3, <2>4 DEF Kept
  <2> QED BY <1>3, <2>1, <2>5 DEF AppleInv, NoPortTakenMeanwhile, Binds, HasPort
<1>4. ASSUME NEW t \in Sandboxes \ {s}, NEW u \in Sandboxes \ {s, t}, calls'[t].kind = "create",
             calls'[t].step \in {"create", "bootstrap"}, HasPort(u)' /\ containers'[u].port = calls'[t].port
      PROVE  containers'[u].stray
  <2>1. calls'[t] = calls[t] /\ containers'[u] = containers[u]
    BY DEF Frame, Kept, Works
  <2> QED BY <1>4, <2>1 DEF AppleInv, NoPortTakenMeanwhile, Binds, HasPort
<1>5. NoPortTakenMeanwhile'
  <2>1. \A t, u \in Sandboxes :
          t # u /\ calls'[t].kind = "create" /\ calls'[t].step \in {"create", "bootstrap"}
            /\ HasPort(u)' /\ containers'[u].port = calls'[t].port => containers'[u].stray
    BY <1>2, <1>3, <1>4
  <2> QED BY <2>1 DEF NoPortTakenMeanwhile, Binds, HasPort
<1>6. \A t \in Sandboxes : Local(t)'
  BY <1>1
<1> QED BY <1>5, <1>6 DEF AppleInv

---------------------------------------------------------------------------
(* What a step of a call does with the call and the lock.                  *)

\* A call that returns is idle again, leaves its answer and gives up only its own lock.
LEMMA Returns ==
  ASSUME AppleTypeOK, NEW s \in Sandboxes, NEW a \in Answers, Return(s, a)
  PROVE  /\ calls' \in [Sandboxes -> CallRecord] /\ answers' \in [Sandboxes -> Answers]
         /\ lock' \in Sandboxes \cup {Free}
         /\ calls'[s] = Idle /\ answers'[s] = a
         /\ \A t \in Sandboxes \ {s} : calls'[t] = calls[t] /\ answers'[t] = answers[t]
         /\ lock' = lock \/ lock = s
BY DEF AppleTypeOK, Return, Idle, CallRecord, Steps

\* A call that goes on changes its step and nothing else.
LEMMA Goes ==
  ASSUME AppleTypeOK, NEW s \in Sandboxes, NEW step \in Steps, Goto(s, step)
  PROVE  /\ calls' \in [Sandboxes -> CallRecord] /\ UNCHANGED <<answers, lock>>
         /\ calls'[s].kind = calls[s].kind /\ calls'[s].step = step /\ calls'[s].port = calls[s].port
         /\ \A t \in Sandboxes \ {s} : calls'[t] = calls[t]
<1> DEFINE c == [calls[s] EXCEPT !.step = step]
<1>1. c \in CallRecord /\ c.kind = calls[s].kind /\ c.step = step /\ c.port = calls[s].port
  BY DEF AppleTypeOK, CallRecord
<1>2. calls' = [calls EXCEPT ![s] = c]
  BY DEF Goto, AppleTypeOK
<1> QED BY <1>1, <1>2 DEF AppleTypeOK, Goto

\* So does one that turns to its cleanup.
LEMMA CleansUp ==
  ASSUME AppleTypeOK, NEW s \in Sandboxes, NEW last \in BOOLEAN, CleanupThen(s, last)
  PROVE  /\ calls' \in [Sandboxes -> CallRecord] /\ UNCHANGED <<answers, lock>>
         /\ calls'[s].kind = calls[s].kind /\ calls'[s].step = "cleanup" /\ calls'[s].port = calls[s].port
         /\ \A t \in Sandboxes \ {s} : calls'[t] = calls[t]
<1> DEFINE c == [calls[s] EXCEPT !.step = "cleanup", !.last = last \/ calls[s].n = MaxAttempts]
<1>1. calls' = [calls EXCEPT ![s] = c]
  BY DEF CleanupThen, AppleTypeOK
<1>2. c \in CallRecord
  BY DEF AppleTypeOK, CallRecord, Steps
<1> QED BY <1>1, <1>2 DEF AppleTypeOK, CleanupThen, CallRecord

\* A request that failed may be one more that nobody waits for.
LEMMA GivesUpOne ==
  ASSUME AppleTypeOK, NEW s \in Sandboxes, NEW kind \in Kinds, Fails(s, kind)
  PROVE  /\ Lates(s) /\ late \subseteq late'
         /\ \A r \in late' \ late :
              r.of = s /\ r.kind = kind /\ (kind = "create" => r.port = calls[s].port)
<1>1. CASE UNCHANGED late
  BY <1>1 DEF Lates, AppleTypeOK
<1>2. ASSUME NEW slot \in Slots, late' = late \cup {Request(slot, s, kind)}
      PROVE  /\ Lates(s) /\ late \subseteq late'
             /\ \A r \in late' \ late :
                  r.of = s /\ r.kind = kind /\ (kind = "create" => r.port = calls[s].port)
  <2> DEFINE q == Request(slot, s, kind)
  <2>1. q \in Requests /\ q.of = s /\ q.kind = kind /\ (kind = "create" => q.port = calls[s].port)
    BY DEF Request, Requests, AppleTypeOK, CallRecord
  <2> HIDE DEF q
  <2> QED BY <1>2, <2>1 DEF Lates, AppleTypeOK, q
<1> QED BY <1>1, <1>2 DEF Fails, GivesUp

---------------------------------------------------------------------------
(* What a request does to the container.                                   *)

\* A container that is replaced is the only one to change.
LEMMA Sets ==
  ASSUME AppleTypeOK, NEW s \in Sandboxes, NEW c \in Container, containers' = [containers EXCEPT ![s] = c]
  PROVE  Works(s) /\ containers'[s] = c
BY DEF AppleTypeOK, Works

\* So is one that is removed,
LEMMA Removes ==
  ASSUME AppleTypeOK, NEW s \in Sandboxes, containers' = [containers EXCEPT ![s] = NoContainer]
  PROVE  Kept(s) /\ containers'[s].status = "absent"
<1>1. NoContainer \in Container /\ NoContainer.status = "absent"
  BY DEF NoContainer, Container
<1> QED BY <1>1, Sets DEF Kept, Exists, HasPort

\* ... one that is made, stopped and on the port picked for it,
LEMMA Makes ==
  ASSUME AppleTypeOK, NEW s \in Sandboxes, NEW port \in Ports, NEW policy \in Policies \cup {"none"},
         Made(s, port, policy)
  PROVE  Kept(s) /\ containers'[s].status = "stopped"
<1> DEFINE c == [NoContainer EXCEPT !.status = "stopped", !.port = port, !.policy = policy]
<1>1. c \in Container /\ c.status = "stopped" /\ c.port = port
  BY DEF Container, NoContainer
<1>2. containers' = [containers EXCEPT ![s] = c]
  BY DEF Made
<1> HIDE DEF c
<1> QED BY <1>1, <1>2, Sets DEF Kept, Exists, HasPort

\* ... one that gets its machine,
LEMMA Boots ==
  ASSUME AppleTypeOK, NEW s \in Sandboxes, Ported(s), NEW stray \in BOOLEAN, Booted(s, stray), Bootable(s),
         stray \/ calls[s].step = "bootstrap"
  PROVE  Kept(s) /\ containers'[s].status = "running"
<1> DEFINE c == [containers[s] EXCEPT !.status = "running", !.envd = FALSE, !.stray = stray]
<1>1. c \in Container /\ c.status = "running" /\ c.port = containers[s].port /\ c.stray = stray
  BY DEF Container, AppleTypeOK
<1>2. containers' = [containers EXCEPT ![s] = c]
  BY DEF Booted, AppleTypeOK
<1>3. containers[s].port \in Ports
  BY DEF Ported, Bootable, Exists
<1> HIDE DEF c
<1> QED BY <1>1, <1>2, <1>3, Sets DEF Kept, Exists, HasPort

\* ... one whose envd is started,
LEMMA Starts ==
  ASSUME AppleTypeOK, NEW s \in Sandboxes, Ported(s), EnvdStarted(s)
  PROVE  Kept(s) /\ containers'[s].status = containers[s].status
<1> DEFINE c == [containers[s] EXCEPT !.envd = TRUE]
<1>1. c \in Container /\ c.status = containers[s].status /\ c.port = containers[s].port
      /\ c.stray = containers[s].stray
  BY DEF Container, AppleTypeOK
<1>2. containers' = [containers EXCEPT ![s] = c]
  BY DEF EnvdStarted, AppleTypeOK
<1> HIDE DEF c
<1>3. Works(s) /\ containers'[s] = c
  BY <1>1, <1>2, Sets
<1>4. c.stray \in BOOLEAN
  BY <1>1 DEF Container
<1> QED BY <1>1, <1>3, <1>4 DEF Kept, Exists, HasPort, Ported

\* ... and one that stops, or begins to.
LEMMA Stops ==
  ASSUME AppleTypeOK, NEW s \in Sandboxes, Ported(s), Exists(s),
         \/ Stopped(s)
         \/ Stopping(s) /\ HasPort(s)
  PROVE  /\ Kept(s) /\ Exists(s)'
         /\ Stopped(s) => containers'[s].status = "stopped"
         /\ Stopping(s) => containers'[s].status = "stopping"
<1>1. ASSUME Stopped(s)
      PROVE  Kept(s) /\ containers'[s].status = "stopped"
  <2> DEFINE c == [containers[s] EXCEPT !.status = "stopped", !.envd = FALSE, !.stray = FALSE]
  <2>1. c \in Container /\ c.status = "stopped" /\ c.port = containers[s].port
    BY DEF Container, AppleTypeOK
  <2>2. containers' = [containers EXCEPT ![s] = c]
    BY <1>1 DEF Stopped, AppleTypeOK
  <2> HIDE DEF c
  <2> QED BY <2>1, <2>2, Sets DEF Kept, Exists, HasPort, Ported
<1>2. ASSUME Stopping(s)
      PROVE  /\ Works(s) /\ containers'[s].status = "stopping"
             /\ containers'[s].port = containers[s].port /\ containers'[s].stray = containers[s].stray
  <2> DEFINE c == [containers[s] EXCEPT !.status = "stopping", !.envd = FALSE]
  <2>1. c \in Container /\ c.status = "stopping" /\ c.port = containers[s].port
        /\ c.stray = containers[s].stray
    BY DEF Container, AppleTypeOK
  <2>2. containers' = [containers EXCEPT ![s] = c]
    BY <1>2 DEF Stopping, AppleTypeOK
  <2> HIDE DEF c
  <2> QED BY <2>1, <2>2, Sets
<1>3. ASSUME Stopping(s), HasPort(s)
      PROVE  Kept(s)
  <2>1. containers[s].stray \in BOOLEAN
    BY DEF AppleTypeOK, Container
  <2> QED BY <1>2, <1>3, <2>1 DEF Kept, Exists, HasPort, Ported
<1> QED BY <1>1, <1>2, <1>3 DEF Exists

\* A step that leaves the containers alone.
LEMMA Stays ==
  ASSUME AppleTypeOK, NEW s \in Sandboxes, Ported(s), UNCHANGED containers
  PROVE  Kept(s) /\ (Exists(s)' <=> Exists(s))
<1>1. containers[s].stray \in BOOLEAN
  BY DEF AppleTypeOK, Container
<1> QED BY <1>1 DEF AppleTypeOK, Kept, Works, Exists, HasPort, Ported

---------------------------------------------------------------------------
(* What a step of a call needs, to keep the invariant.                     *)

\* A call that returns may leave a ContainerCreate to come, and a create that failed what
\* it has made, if that is on record.
LEMMA ReturnKeeps ==
  ASSUME AppleInv, NEW s \in Sandboxes, calls[s].kind # "idle", Kept(s), Lates(s),
         NEW a \in Answers \ {"none"}, Return(s, a),
         UNCHANGED <<phase, missed>>,
         known' \in [Sandboxes -> Record], promised' \subseteq Sandboxes, leaked' \subseteq Sandboxes,
         \A t \in Sandboxes \ {s} : /\ known'[t] = known[t]
                                    /\ (t \in leaked' <=> t \in leaked)
                                    /\ (t \in promised' <=> t \in promised),
         \A r \in late' \ late : r.kind = "create" => r.port \in Ports /\ s \in leaked',
         s \in leaked \ leaked' => calls[s].kind = "create",
         known'[s] = Unknown /\ a = "error" /\ Exists(s)' => s \in leaked'
  PROVE  AppleInv'
<1>1. AppleTypeOK /\ Local(s)
  BY DEF AppleInv
<1>2. /\ calls' \in [Sandboxes -> CallRecord] /\ answers' \in [Sandboxes -> Answers]
      /\ lock' \in Sandboxes \cup {Free}
      /\ calls'[s] = Idle /\ answers'[s] = a
      /\ \A t \in Sandboxes \ {s} : calls'[t] = calls[t] /\ answers'[t] = answers[t]
      /\ lock' = lock \/ lock = s
  BY <1>1, Returns
<1>3. AppleTypeOK'
  BY <1>1, <1>2 DEF AppleTypeOK, Kept, Works, Lates
<1>4. Frame(s)
  BY <1>2 DEF Frame
<1>5. calls'[s].kind = "idle" /\ calls'[s].step = "none"
  BY <1>2 DEF Idle
<1>6. Placed(s)' /\ Locked(s)'
  BY <1>1, <1>2, <1>5 DEF Placed, Locked, Local
<1>7. Ported(s)'
  BY <1>1, <1>5 DEF Ported, Local, Kept
<1>8. Left(s)'
  <2>1. LateCreate(s)' => s \in leaked'
    BY <1>1 DEF LateCreate, Left, Local
  <2> QED BY <1>2, <1>5, <2>1 DEF Left, Before
<1>9. Local(s)'
  BY <1>6, <1>7, <1>8 DEF Local
<1> QED BY <1>2, <1>3, <1>4, <1>5, <1>9, OwnStep

\* A call that goes on may leave other requests to come.
LEMMA GoOnKeeps ==
  ASSUME AppleInv, NEW s \in Sandboxes, calls[s].kind \in {"create", "resume", "inspect"},
         Kept(s), Lates(s),
         UNCHANGED <<phase, known, promised, missed, answers>>,
         leaked' \subseteq Sandboxes, \A t \in Sandboxes \ {s} : t \in leaked' <=> t \in leaked,
         calls' \in [Sandboxes -> CallRecord], calls'[s].kind = calls[s].kind,
         \A t \in Sandboxes \ {s} : calls'[t] = calls[t],
         lock' = lock \/ (lock = Free /\ lock' = s),
         Placed(s)', Locked(s)',
         \A r \in late' \ late : r.kind # "create",
         s \in leaked \ leaked' => calls[s].kind = "create",
         calls[s].kind = "create" /\ calls'[s].step \in Before /\ Exists(s)' => s \in leaked',
         calls'[s].step = "create" => calls'[s].port \in Ports,
         calls'[s].kind = "create" /\ calls'[s].step \in {"create", "bootstrap"} =>
           \/ calls[s].step \in {"create", "bootstrap"} /\ calls'[s].port = calls[s].port
           \/ ~Bound(calls'[s].port)
  PROVE  AppleInv'
<1>1. AppleTypeOK /\ Local(s)
  BY DEF AppleInv
<1>2. AppleTypeOK'
  BY <1>1 DEF AppleTypeOK, Kept, Works, Lates
<1>3. Frame(s)
  BY DEF Frame
<1>4. Ported(s)'
  BY <1>1 DEF Ported, Local, Kept
<1>5. Left(s)'
  <2>1. LateCreate(s)' => LateCreate(s)
    BY DEF LateCreate
  <2> QED BY <1>1, <2>1 DEF Left, Local
<1>6. Local(s)'
  BY <1>4, <1>5 DEF Local
<1> QED BY <1>2, <1>3, <1>6, OwnStep

\* The requests to come stay as they are.
LEMMA Nothing ==
  ASSUME AppleTypeOK, NEW s \in Sandboxes, UNCHANGED late
  PROVE  Lates(s) /\ late' \ late = {}
BY DEF AppleTypeOK, Lates

\* What is known of a create, wherever it is.
LEMMA OfCreate ==
  ASSUME AppleInv, NEW s \in Sandboxes, calls[s].kind = "create"
  PROVE  /\ AppleTypeOK /\ Local(s) /\ Ported(s)
         /\ calls[s].step \in Before /\ Exists(s) => s \in leaked
         /\ calls[s].step # "lock" => lock = s
<1>1. AppleTypeOK /\ Local(s)
  BY DEF AppleInv
<1> QED BY <1>1 DEF Local, Left, Placed, Locked, Before, Making

---------------------------------------------------------------------------
(* The operation lock, and the steps of a create before its container.     *)

\* Until the container is made a create returns empty-handed, or with what an earlier
\* attempt has left; a resume returns as it came.
LEMMA EarlyReturns ==
  ASSUME AppleInv, NEW s \in Sandboxes, calls[s].kind \in {"create", "resume", "inspect"},
         calls[s].kind = "create" => calls[s].step \in Before,
         Return(s, "error"), UNCHANGED <<containers, phase, known, late, promised, leaked, missed>>
  PROVE  AppleInv'
<1>1. AppleTypeOK /\ Local(s)
  BY DEF AppleInv
<1>2. /\ Kept(s) /\ (Exists(s)' <=> Exists(s))
      /\ Lates(s) /\ late' \ late = {}
  BY <1>1, Stays, Nothing DEF Local
<1>3. known[s] = Unknown /\ Exists(s) => s \in leaked
  BY <1>1 DEF Local, Left, Placed
<1> QED BY <1>1, <1>2, <1>3, ReturnKeeps DEF AppleTypeOK, Answers

\* A call that gets the operation lock changes no container.
LEMMA acquireKeeps ==
  ASSUME AppleInv, NEW s \in Sandboxes, acquireAppleContainerOperationLock(s)
  PROVE  AppleInv'
<1>1. /\ AppleTypeOK /\ Local(s) /\ calls[s].step = "lock" /\ calls[s].kind \in {"create", "resume"}
      /\ UNCHANGED <<containers, phase, known, late, promised, leaked, missed>>
  BY KindOf DEF AppleInv, acquireAppleContainerOperationLock, At, history
<1>2. CASE Return(s, "error")
  BY <1>1, <1>2, EarlyReturns DEF Before
<1>3. CASE ~Return(s, "error")
  <2> DEFINE c == [calls[s] EXCEPT !.step = IF calls[s].kind = "create" THEN "resolve" ELSE "bootstrap"]
  <2>1. lock = Free /\ lock' = s /\ calls' = [calls EXCEPT ![s] = c] /\ answers' = answers
    BY <1>1, <1>3 DEF acquireAppleContainerOperationLock, Lockable, AppleTypeOK
  <2>2. c \in CallRecord
    BY <1>1 DEF AppleTypeOK, CallRecord, Steps
  <2>3. /\ calls' \in [Sandboxes -> CallRecord] /\ calls'[s] = c
        /\ \A t \in Sandboxes \ {s} : calls'[t] = calls[t]
    BY <1>1, <2>1, <2>2 DEF AppleTypeOK
  <2>4. /\ calls'[s].kind = calls[s].kind /\ calls'[s].port = calls[s].port
        /\ calls'[s].step = IF calls[s].kind = "create" THEN "resolve" ELSE "bootstrap"
    BY <1>1, <2>3 DEF AppleTypeOK, CallRecord
  <2>5. Placed(s)' /\ Locked(s)'
    BY <1>1, <2>1, <2>4 DEF Placed, Locked, Local, Before, Making
  <2>6. /\ Kept(s) /\ (Exists(s)' <=> Exists(s))
        /\ Lates(s) /\ late' \ late = {}
    BY <1>1, Stays, Nothing DEF Local
  <2>7. calls[s].kind = "create" /\ Exists(s) => s \in leaked
    BY <1>1, OfCreate DEF Before
  <2> QED BY <1>1, <2>1, <2>3, <2>4, <2>5, <2>6, <2>7, GoOnKeeps DEF AppleTypeOK
<1> QED BY <1>2, <1>3

\* The images, volumes and networks a create asks for move the call and nothing else.
LEMMA ResolveImageKeeps ==
  ASSUME AppleInv, NEW s \in Sandboxes, ResolveImage(s)
  PROVE  AppleInv'
<1>1. /\ AppleTypeOK /\ Local(s) /\ calls[s].kind = "create" /\ calls[s].step = "resolve"
      /\ UNCHANGED <<containers, phase, known, late, promised, leaked, missed>>
  BY KindOf DEF AppleInv, ResolveImage, At, history
<1>2. CASE Return(s, "error")
  BY <1>1, <1>2, EarlyReturns DEF Before
<1>3. CASE Goto(s, "pick")
  <2>1. /\ calls' \in [Sandboxes -> CallRecord] /\ UNCHANGED <<answers, lock>>
        /\ calls'[s].kind = "create" /\ calls'[s].step = "pick"
        /\ \A t \in Sandboxes \ {s} : calls'[t] = calls[t]
    BY <1>1, <1>3, Goes DEF Steps
  <2>2. lock = s /\ (Exists(s) => s \in leaked)
    BY <1>1, OfCreate DEF Before
  <2>3. Placed(s)' /\ Locked(s)'
    BY <1>1, <2>1, <2>2 DEF Placed, Locked, Local, Before
  <2>4. /\ Kept(s) /\ (Exists(s)' <=> Exists(s))
        /\ Lates(s) /\ late' \ late = {}
    BY <1>1, Stays, Nothing DEF Local
  <2> QED BY <1>1, <2>1, <2>2, <2>3, <2>4, GoOnKeeps DEF AppleTypeOK
<1> QED BY <1>2, <1>3 DEF ResolveImage

\* The port a create picks is one that nobody binds.
LEMMA findFreePortKeeps ==
  ASSUME AppleInv, NEW s \in Sandboxes, findFreePort(s)
  PROVE  AppleInv'
<1>1. /\ AppleTypeOK /\ Local(s) /\ calls[s].kind = "create" /\ calls[s].step = "pick"
      /\ UNCHANGED <<containers, phase, known, late, promised, leaked, missed>>
  BY KindOf DEF AppleInv, findFreePort, At, history
<1>2. CASE Return(s, "error")
  BY <1>1, <1>2, EarlyReturns DEF Before
<1>3. ASSUME NEW port \in Ports, ~Bound(port), UNCHANGED <<lock, answers>>,
             calls' = [calls EXCEPT ![s].step = "create", ![s].port = port]
      PROVE  AppleInv'
  <2> DEFINE c == [calls[s] EXCEPT !.step = "create", !.port = port]
  <2>1. calls' = [calls EXCEPT ![s] = c] /\ c \in CallRecord
    BY <1>1, <1>3 DEF AppleTypeOK, CallRecord, Steps
  <2>2. /\ calls' \in [Sandboxes -> CallRecord]
        /\ calls'[s].kind = "create" /\ calls'[s].step = "create" /\ calls'[s].port = port
        /\ \A t \in Sandboxes \ {s} : calls'[t] = calls[t]
    BY <1>1, <2>1 DEF AppleTypeOK, CallRecord
  <2>3. lock = s /\ (Exists(s) => s \in leaked)
    BY <1>1, OfCreate DEF Before
  <2>4. Placed(s)' /\ Locked(s)'
    BY <1>1, <1>3, <2>2, <2>3 DEF Placed, Locked, Local, Before
  <2>5. /\ Kept(s) /\ (Exists(s)' <=> Exists(s))
        /\ Lates(s) /\ late' \ late = {}
    BY <1>1, Stays, Nothing DEF Local
  <2> QED BY <1>1, <1>3, <2>2, <2>3, <2>4, <2>5, GoOnKeeps DEF AppleTypeOK
<1> QED BY <1>2, <1>3 DEF findFreePort

---------------------------------------------------------------------------
(* The container of a create, and of a resume.                             *)

\* The container gets the port and the policy that the call has in hand.
LEMMA ContainerCreateKeeps ==
  ASSUME AppleInv, NEW s \in Sandboxes, ContainerCreate(s)
  PROVE  AppleInv'
<1>1. /\ AppleTypeOK /\ Local(s) /\ calls[s].kind = "create" /\ calls[s].step = "create"
      /\ UNCHANGED <<phase, known, late, promised, leaked, missed>>
      /\ calls[s].policy \in Policies \cup {"none"}
  BY KindOf DEF AppleInv, AppleTypeOK, CallRecord, ContainerCreate, At, history
<1>2. /\ calls' \in [Sandboxes -> CallRecord] /\ UNCHANGED <<answers, lock>>
      /\ calls'[s].kind = "create" /\ calls'[s].step = "bootstrap" /\ calls'[s].port = calls[s].port
      /\ \A t \in Sandboxes \ {s} : calls'[t] = calls[t]
  BY <1>1, Goes DEF Steps, ContainerCreate
<1>3. calls[s].port \in Ports /\ lock = s
  BY <1>1, OfCreate DEF Ported
<1>4. Kept(s) /\ Lates(s) /\ late' \ late = {}
  BY <1>1, <1>3, Makes, Nothing DEF ContainerCreate
<1>5. Placed(s)' /\ Locked(s)'
  BY <1>1, <1>2, <1>3 DEF Placed, Locked, Local, Making
<1> QED BY <1>1, <1>2, <1>3, <1>4, <1>5, GoOnKeeps DEF AppleTypeOK, Before

\* A ContainerCreate that fails is cleaned up, or what it may still leave is on record.
LEMMA ContainerCreateFailsKeeps ==
  ASSUME AppleInv, NEW s \in Sandboxes, ContainerCreateFails(s)
  PROVE  AppleInv'
<1>1. /\ AppleTypeOK /\ Local(s) /\ calls[s].kind = "create" /\ calls[s].step = "create"
      /\ UNCHANGED <<containers, phase, known, promised, missed>>
  BY KindOf DEF AppleInv, ContainerCreateFails, At
<1>2. /\ calls[s].port \in Ports /\ lock = s /\ (Exists(s) => s \in leaked)
      /\ Kept(s) /\ (Exists(s)' <=> Exists(s))
  BY <1>1, OfCreate, Stays DEF Ported, Before
<1>3. CASE CleanupThen(s, FALSE) /\ UNCHANGED <<late, leaked>>
  <2>1. /\ calls' \in [Sandboxes -> CallRecord] /\ UNCHANGED <<answers, lock>>
        /\ calls'[s].kind = "create" /\ calls'[s].step = "cleanup"
        /\ \A t \in Sandboxes \ {s} : calls'[t] = calls[t]
    BY <1>1, <1>3, CleansUp
  <2>2. Placed(s)' /\ Locked(s)'
    BY <1>1, <1>2, <2>1 DEF Placed, Locked, Local
  <2>3. Lates(s) /\ late' \ late = {}
    BY <1>1, <1>3, Nothing
  <2> QED BY <1>1, <1>2, <1>3, <2>1, <2>2, <2>3, GoOnKeeps DEF AppleTypeOK, Before
<1>4. CASE Return(s, "error") /\ UNCHANGED <<late, leaked>>
  BY <1>1, <1>4, EarlyReturns DEF Before
<1>5. CASE Return(s, "error") /\ GivesUp(s, "create") /\ leaked' = leaked \cup {s}
  <2>1. Lates(s) /\ \A r \in late' \ late : r.port \in Ports
    BY <1>1, <1>2, <1>5, GivesUpOne DEF Fails, Kinds
  <2>2. /\ leaked' \subseteq Sandboxes /\ s \in leaked'
        /\ \A t \in Sandboxes \ {s} : t \in leaked' <=> t \in leaked
    BY <1>1, <1>5 DEF AppleTypeOK
  <2> QED BY <1>1, <1>2, <1>5, <2>1, <2>2, ReturnKeeps DEF AppleTypeOK, Answers
<1> QED BY <1>3, <1>4, <1>5 DEF ContainerCreateFails

\* The cleanup removes the container, or what it leaves is on record.
LEMMA cleanupContainerKeeps ==
  ASSUME AppleInv, NEW s \in Sandboxes, cleanupContainer(s)
  PROVE  AppleInv'
<1>1. /\ AppleTypeOK /\ Local(s) /\ calls[s].kind = "create" /\ calls[s].step = "cleanup"
      /\ UNCHANGED <<phase, known, promised, missed>> /\ lock = s
  BY KindOf, OfCreate DEF AppleInv, cleanupContainer, At
<1>2. /\ Kept(s) /\ (Exists(s)' => s \in leaked')
      /\ leaked' \subseteq Sandboxes /\ \A t \in Sandboxes \ {s} : t \in leaked' <=> t \in leaked
      /\ Lates(s) /\ \A r \in late' \ late : r.kind # "create"
  <2>1. CASE /\ UNCHANGED containers /\ leaked' = IF Exists(s) THEN leaked \cup {s} ELSE leaked
             /\ Fails(s, "delete")
    <3>1. Kept(s) /\ (Exists(s)' <=> Exists(s))
      BY <1>1, <2>1, Stays DEF Local
    <3>2. Lates(s) /\ \A r \in late' \ late : r.kind = "delete"
      BY <1>1, <2>1, GivesUpOne DEF Kinds
    <3> QED BY <1>1, <2>1, <3>1, <3>2 DEF AppleTypeOK
  <2>2. CASE containers' = [containers EXCEPT ![s] = NoContainer] /\ leaked' = leaked \ {s} /\ UNCHANGED late
    <3>1. Kept(s) /\ ~Exists(s)'
      BY <1>1, <2>2, Removes DEF Exists
    <3> QED BY <1>1, <2>2, <3>1, Nothing DEF AppleTypeOK
  <2> QED BY <2>1, <2>2 DEF cleanupContainer
<1>3. CASE Return(s, "error")
  BY <1>1, <1>2, <1>3, ReturnKeeps DEF AppleTypeOK, Answers
<1>4. CASE /\ calls' = [calls EXCEPT ![s].step = "pick", ![s].n = @ + 1]
           /\ UNCHANGED <<lock, answers>>
  <2> DEFINE c == [calls[s] EXCEPT !.step = "pick", !.n = calls[s].n + 1]
  <2>1. calls' = [calls EXCEPT ![s] = c] /\ c \in CallRecord /\ c.kind = "create" /\ c.step = "pick"
    BY <1>1, <1>4 DEF AppleTypeOK, CallRecord, Steps
  <2> HIDE DEF c
  <2>2. /\ calls' \in [Sandboxes -> CallRecord]
        /\ calls'[s].kind = "create" /\ calls'[s].step = "pick"
        /\ \A t \in Sandboxes \ {s} : calls'[t] = calls[t]
    BY <1>1, <2>1 DEF AppleTypeOK
  <2>3. Placed(s)' /\ Locked(s)'
    BY <1>1, <1>4, <2>2 DEF Placed, Locked, Local, Before
  <2> QED BY <1>1, <1>2, <1>4, <2>2, <2>3, GoOnKeeps DEF AppleTypeOK
<1> QED BY <1>3, <1>4 DEF cleanupContainer

\* Bootstrap and envd start the container that is there.
LEMMA BootstrapKeeps ==
  ASSUME AppleInv, NEW s \in Sandboxes, ContainerBootstrap(s) \/ startEnvd(s)
  PROVE  AppleInv'
<1> DEFINE step == IF At(s, "bootstrap") THEN "envd" ELSE "health"
<1>1. /\ AppleTypeOK /\ Local(s) /\ calls[s].kind \in {"create", "resume"}
      /\ calls[s].step \in {"bootstrap", "envd"} /\ Goto(s, step)
      /\ UNCHANGED <<phase, known, late, promised, leaked, missed>>
  BY KindOf DEF AppleInv, ContainerBootstrap, startEnvd, At, history
<1>2. Kept(s) /\ Lates(s) /\ late' \ late = {}
  <2>1. CASE ContainerBootstrap(s)
    BY <1>1, <2>1, Boots, Nothing DEF ContainerBootstrap, Local, At
  <2>2. CASE startEnvd(s)
    BY <1>1, <2>2, Starts, Nothing DEF startEnvd, Local
  <2> QED BY <2>1, <2>2
<1>3. /\ calls' \in [Sandboxes -> CallRecord] /\ UNCHANGED <<answers, lock>>
      /\ calls'[s].kind = calls[s].kind /\ calls'[s].step = step /\ calls'[s].port = calls[s].port
      /\ \A t \in Sandboxes \ {s} : calls'[t] = calls[t]
  BY <1>1, Goes DEF Steps
<1>4. lock = s
  BY <1>1 DEF Local, Locked
<1>5. Placed(s)' /\ Locked(s)'
  BY <1>1, <1>3, <1>4 DEF Placed, Locked, Local, Making
<1> QED BY <1>1, <1>2, <1>3, <1>4, <1>5, GoOnKeeps DEF AppleTypeOK, Before

\* The health check ends a create or a resume with what the gateway will know of the
\* sandbox.
LEMMA healthCheckKeeps ==
  ASSUME AppleInv, NEW s \in Sandboxes, healthCheck(s)
  PROVE  AppleInv'
<1>1. /\ AppleTypeOK /\ Local(s) /\ calls[s].kind \in {"create", "resume"}
      /\ UNCHANGED <<containers, phase, late, leaked, missed>> /\ Return(s, "ok")
  BY KindOf DEF AppleInv, healthCheck, At
<1>2. Kept(s) /\ Lates(s) /\ late' \ late = {}
  BY <1>1, Stays, Nothing DEF Local
<1>3. /\ known' \in [Sandboxes -> Record] /\ \A t \in Sandboxes \ {s} : known'[t] = known[t]
      /\ promised' \subseteq Sandboxes /\ \A t \in Sandboxes \ {s} : t \in promised' <=> t \in promised
  <2>1. RecordOf(s) \in Record
    BY <1>1 DEF RecordOf, Record, AppleTypeOK, CallRecord
  <2>2. CASE known' = [known EXCEPT ![s] = RecordOf(s)] /\ promised' = promised \cup {s}
    BY <1>1, <2>1, <2>2 DEF AppleTypeOK
  <2>3. CASE UNCHANGED <<known, promised>>
    BY <1>1, <2>3 DEF AppleTypeOK
  <2> QED BY <2>2, <2>3 DEF healthCheck
<1> QED BY <1>1, <1>2, <1>3, ReturnKeeps DEF AppleTypeOK, Answers

\* A step of a start that fails changes no container; its request may be given up.
LEMMA StepFailsDoes ==
  ASSUME AppleInv, NEW s \in Sandboxes, StepFails(s), UNCHANGED containers
  PROVE  /\ AppleTypeOK /\ Local(s) /\ calls[s].step \in Making
         /\ Kept(s) /\ (Exists(s)' <=> Exists(s))
         /\ Lates(s) /\ \A r \in late' \ late : r.kind \in {"bootstrap", "envd"}
<1>1. AppleTypeOK /\ Local(s) /\ calls[s].step \in Making
  BY DEF AppleInv, StepFails, At, Making
<1>2. Lates(s) /\ \A r \in late' \ late : r.kind \in {"bootstrap", "envd"}
  BY <1>1, GivesUpOne, Nothing DEF StepFails, Kinds
<1> QED BY <1>1, <1>2, Stays DEF Local

\* A create turns to its cleanup.
LEMMA ProvisionFailsKeeps ==
  ASSUME AppleInv, NEW s \in Sandboxes, ProvisionFails(s)
  PROVE  AppleInv'
<1>1. /\ AppleTypeOK /\ Local(s) /\ calls[s].kind = "create" /\ calls[s].step \in Making
      /\ Kept(s) /\ Lates(s) /\ \A r \in late' \ late : r.kind # "create"
      /\ UNCHANGED <<phase, known, promised, leaked, missed>>
  <2>1. CASE StepFails(s)
    BY <2>1, StepFailsDoes DEF ProvisionFails, history
  <2>2. CASE At(s, "envd") /\ UNCHANGED late
    BY <2>2, Stays, Nothing DEF AppleInv, Local, ProvisionFails, At, Making, history
  <2> QED BY <2>1, <2>2 DEF ProvisionFails
<1>2. /\ calls' \in [Sandboxes -> CallRecord] /\ UNCHANGED <<answers, lock>>
      /\ calls'[s].kind = "create" /\ calls'[s].step = "cleanup"
      /\ \A t \in Sandboxes \ {s} : calls'[t] = calls[t]
  BY <1>1, CleansUp DEF ProvisionFails
<1>3. lock = s
  BY <1>1 DEF Local, Locked, Making
<1>4. Placed(s)' /\ Locked(s)'
  BY <1>1, <1>2, <1>3 DEF Placed, Locked, Local
<1> QED BY <1>1, <1>2, <1>4, GoOnKeeps DEF AppleTypeOK, Before

\* A resume that fails leaves everything as it is, and perhaps a request to come.
LEMMA ResumeFailsKeeps ==
  ASSUME AppleInv, NEW s \in Sandboxes, ResumeFails(s)
  PROVE  AppleInv'
<1>1. /\ AppleTypeOK /\ Local(s) /\ calls[s].kind = "resume"
      /\ Kept(s) /\ Lates(s) /\ \A r \in late' \ late : r.kind \in {"bootstrap", "envd"}
      /\ UNCHANGED <<phase, known, promised, leaked, missed>> /\ Return(s, "error")
  BY StepFailsDoes DEF ResumeFails, history
<1>2. known[s] # Unknown
  BY <1>1 DEF Local, Placed
<1> QED BY <1>1, <1>2, ReturnKeeps DEF AppleTypeOK, Answers

---------------------------------------------------------------------------
(* The other calls on a sandbox the gateway knows.                         *)

\* A call on a sandbox is on one the gateway knows.
LEMMA OnKnown ==
  ASSUME AppleInv, NEW s \in Sandboxes, calls[s].kind \in {"inspect", "delete", "pause", "resume"}
  PROVE  AppleTypeOK /\ Local(s) /\ Ported(s) /\ known[s] # Unknown
BY DEF AppleInv, Local, Placed

\* An inspection changes no container.
LEMMA InspectSandboxKeeps ==
  ASSUME AppleInv, NEW s \in Sandboxes, InspectSandbox(s)
  PROVE  AppleInv'
<1>1. /\ AppleTypeOK /\ Local(s) /\ known[s] # Unknown
      /\ calls[s].kind = "inspect" /\ calls[s].step = "request"
      /\ UNCHANGED <<containers, phase, late, promised, leaked, missed>>
  BY OnKnown DEF InspectSandbox, Asked, At, history
<1>2. Kept(s) /\ Lates(s) /\ late' \ late = {}
  BY <1>1, Stays, Nothing DEF Local
<1>3. ASSUME NEW a \in Answers \ {"none"}, Return(s, a),
             \/ UNCHANGED known
             \/ known' = [known EXCEPT ![s] = Unknown] /\ a # "error"
      PROVE  AppleInv'
  <2>1. Unknown \in Record
    BY DEF Unknown, Record
  <2>2. /\ known' \in [Sandboxes -> Record] /\ \A t \in Sandboxes \ {s} : known'[t] = known[t]
        /\ known'[s] = known[s] \/ a # "error"
    BY <1>1, <1>3, <2>1 DEF AppleTypeOK
  <2> QED BY <1>1, <1>2, <1>3, <2>2, ReturnKeeps DEF AppleTypeOK
<1>4. ASSUME calls' = [calls EXCEPT ![s].n = @ + 1], UNCHANGED <<lock, answers, known>>
      PROVE  AppleInv'
  <2> DEFINE c == [calls[s] EXCEPT !.n = calls[s].n + 1]
  <2>1. /\ calls' = [calls EXCEPT ![s] = c] /\ c \in CallRecord
        /\ c.kind = "inspect" /\ c.step = "request"
    BY <1>1, <1>4 DEF AppleTypeOK, CallRecord
  <2> HIDE DEF c
  <2>2. /\ calls' \in [Sandboxes -> CallRecord]
        /\ calls'[s].kind = "inspect" /\ calls'[s].step = "request"
        /\ \A t \in Sandboxes \ {s} : calls'[t] = calls[t]
    BY <1>1, <2>1 DEF AppleTypeOK
  <2>3. Placed(s)' /\ Locked(s)'
    BY <1>1, <1>4, <2>2 DEF Placed, Locked, Local
  <2> QED BY <1>1, <1>2, <1>4, <2>2, <2>3, GoOnKeeps DEF AppleTypeOK
<1>5. e2bStateFromAppleStatus(containers[s].status) \in Answers \ {"none", "error"}
  BY DEF e2bStateFromAppleStatus, Answers
<1>6. {"missing", "error"} \subseteq Answers \ {"none"}
  BY DEF Answers
<1> QED BY <1>3, <1>4, <1>5, <1>6 DEF InspectSandbox

\* A delete removes the container and what the gateway knows, or neither yet.
LEMMA DeleteSandboxKeeps ==
  ASSUME AppleInv, NEW s \in Sandboxes, DeleteSandbox(s)
  PROVE  AppleInv'
<1>1. /\ AppleTypeOK /\ Local(s) /\ Ported(s) /\ known[s] # Unknown /\ calls[s].kind = "delete"
      /\ UNCHANGED <<phase, promised, leaked, missed>>
  BY OnKnown DEF DeleteSandbox, Asked, history
<1>2. CASE /\ containers' = [containers EXCEPT ![s] = NoContainer] /\ UNCHANGED late
           /\ Return(s, "ok") /\ known' = [known EXCEPT ![s] = Unknown]
  <2>1. Unknown \in Record
    BY DEF Unknown, Record
  <2>2. known' \in [Sandboxes -> Record] /\ \A t \in Sandboxes \ {s} : known'[t] = known[t]
    BY <1>1, <1>2, <2>1 DEF AppleTypeOK
  <2>3. Kept(s) /\ Lates(s) /\ late' \ late = {}
    BY <1>1, <1>2, Removes, Nothing
  <2> QED BY <1>1, <1>2, <2>2, <2>3, ReturnKeeps DEF AppleTypeOK, Answers
<1>3. CASE Fails(s, "delete") /\ Return(s, "error") /\ UNCHANGED <<containers, known>>
  <2>1. Kept(s) /\ Lates(s) /\ \A r \in late' \ late : r.kind # "create"
    BY <1>1, <1>3, Stays, GivesUpOne DEF Kinds
  <2> QED BY <1>1, <1>3, <2>1, ReturnKeeps DEF AppleTypeOK, Answers
<1> QED BY <1>2, <1>3 DEF DeleteSandbox

\* A pause stops the container, at once or later.
LEMMA PauseSandboxKeeps ==
  ASSUME AppleInv, NEW s \in Sandboxes, PauseSandbox(s)
  PROVE  AppleInv'
<1>1. /\ AppleTypeOK /\ Local(s) /\ Ported(s) /\ known[s] # Unknown /\ calls[s].kind = "pause"
      /\ UNCHANGED <<phase, known, promised, leaked, missed>>
  BY OnKnown DEF PauseSandbox, Asked, history
<1>2. Kept(s) /\ Lates(s) /\ \A r \in late' \ late : r.kind # "create"
  BY <1>1, Stops, Stays, Nothing, GivesUpOne DEF PauseSandbox, Kinds
<1>3. \E a \in {"ok", "error"} : Return(s, a)
  BY DEF PauseSandbox
<1> QED BY <1>1, <1>2, <1>3, ReturnKeeps DEF AppleTypeOK, Answers

\* A resume first looks at the status.
LEMMA ResumeInspectsKeeps ==
  ASSUME AppleInv, NEW s \in Sandboxes, ResumeInspects(s)
  PROVE  AppleInv'
<1>1. /\ AppleTypeOK /\ Local(s) /\ known[s] # Unknown /\ calls[s].kind = "resume"
      /\ UNCHANGED <<containers, phase, known, late, promised, leaked, missed>>
  BY OnKnown DEF ResumeInspects, Asked, history
<1>2. CASE Return(s, "error")
  BY <1>1, <1>2, EarlyReturns
<1>3. ASSUME NEW step \in {"health", "lock"}, Goto(s, step)
      PROVE  AppleInv'
  <2>1. /\ calls' \in [Sandboxes -> CallRecord] /\ UNCHANGED <<answers, lock>>
        /\ calls'[s].kind = "resume" /\ calls'[s].step = step
        /\ \A t \in Sandboxes \ {s} : calls'[t] = calls[t]
    BY <1>1, <1>3, Goes DEF Steps
  <2>2. Placed(s)' /\ Locked(s)'
    BY <1>1, <1>3, <2>1 DEF Placed, Locked, Local, Making
  <2>3. Kept(s) /\ Lates(s) /\ late' \ late = {}
    BY <1>1, Stays, Nothing DEF Local
  <2> QED BY <1>1, <1>3, <2>1, <2>2, <2>3, GoOnKeeps DEF AppleTypeOK
<1> QED BY <1>2, <1>3 DEF ResumeInspects

---------------------------------------------------------------------------
(* A call that begins, and the rest of the world.                          *)

\* A call begins idle and with what the gateway knows.
LEMMA ArriveKeeps ==
  ASSUME AppleInv, NEW s \in Sandboxes, Arrive(s)
  PROVE  AppleInv'
<1> USE DEF CreateBegins, CallBegins
<1>1. /\ AppleTypeOK /\ Local(s) /\ calls[s] = Idle /\ phase = "up"
      /\ UNCHANGED <<containers, lock, phase, known, late, promised, leaked, missed>>
      /\ answers' = [answers EXCEPT ![s] = "pending"]
  BY DEF AppleInv, Arrive, history
<1>2. PICK c \in CallRecord :
        /\ calls' = [calls EXCEPT ![s] = c]
        /\ \/ c.kind = "create" /\ c.step = "lock" /\ ~Exists(s) /\ answers[s] = "none"
           \/ /\ c.kind \in {"inspect", "delete", "pause", "resume"} /\ c.step = "request"
              /\ known[s] # Unknown
  <2>1. ASSUME NEW policy \in Policies, CreateBegins(s, policy)
        PROVE  [Idle EXCEPT !.kind = "create", !.step = "lock", !.policy = policy, !.n = 1] \in CallRecord
    BY <1>1 DEF Idle, CallRecord, Steps
  <2>2. ASSUME NEW kind \in {"inspect", "delete", "pause", "resume"}, CallBegins(s, kind)
        PROVE  [Idle EXCEPT !.kind = kind, !.step = "request", !.port = known[s].port, !.n = 1] \in CallRecord
    BY <1>1 DEF Idle, CallRecord, Steps, AppleTypeOK, Record
  <2>3. ASSUME NEW policy \in Policies, CreateBegins(s, policy)
        PROVE  \E c \in CallRecord :
                 /\ calls' = [calls EXCEPT ![s] = c]
                 /\ c.kind = "create" /\ c.step = "lock" /\ ~Exists(s) /\ answers[s] = "none"
    BY <2>1, <2>3 DEF Idle
  <2>4. ASSUME NEW kind \in {"inspect", "delete", "pause", "resume"}, CallBegins(s, kind)
        PROVE  \E c \in CallRecord :
                 /\ calls' = [calls EXCEPT ![s] = c]
                 /\ c.kind \in {"inspect", "delete", "pause", "resume"} /\ c.step = "request"
                 /\ known[s] # Unknown
    BY <2>2, <2>4 DEF Idle
  <2> QED BY <2>3, <2>4 DEF Arrive
<1>3. /\ calls' \in [Sandboxes -> CallRecord] /\ calls'[s] = c
      /\ \A t \in Sandboxes \ {s} : calls'[t] = calls[t]
  BY <1>1, <1>2 DEF AppleTypeOK
<1>4. /\ answers' \in [Sandboxes -> Answers] /\ answers'[s] = "pending"
      /\ \A t \in Sandboxes \ {s} : answers'[t] = answers[t]
  BY <1>1 DEF AppleTypeOK, Answers
<1>5. AppleTypeOK' /\ Frame(s)
  BY <1>1, <1>3, <1>4 DEF AppleTypeOK, Frame
<1>6. Kept(s) /\ (Exists(s)' <=> Exists(s)) /\ Lates(s) /\ late' \ late = {}
  BY <1>1, Stays, Nothing DEF Local
<1>7. Placed(s)' /\ Locked(s)' /\ Ported(s)'
  BY <1>1, <1>2, <1>3, <1>4, <1>6
     DEF Local, Placed, Locked, Ported, Before, Making
<1>8. Left(s)'
  <2>1. LateCreate(s)' => LateCreate(s)
    BY <1>1 DEF LateCreate
  <2> QED BY <1>1, <1>2, <1>3, <1>4, <1>6, <2>1 DEF Local, Left
<1>9. Local(s)'
  BY <1>7, <1>8 DEF Local
<1> QED BY <1>1, <1>2, <1>3, <1>5, <1>6, <1>9, OwnStep

\* The container changes, as the invariant allows, and everything but the requests of s
\* stays as it is; it comes to be only from a ContainerCreate that was given up.
LEMMA WorldKeeps ==
  ASSUME AppleInv, NEW s \in Sandboxes, Kept(s), Lates(s), late' \subseteq late,
         Exists(s)' => Exists(s) \/ LateCreate(s),
         UNCHANGED <<lock, calls, answers, phase, known, promised, leaked, missed>>
  PROVE  AppleInv'
<1>1. AppleTypeOK /\ Local(s)
  BY DEF AppleInv
<1>2. AppleTypeOK' /\ Frame(s)
  BY <1>1 DEF AppleTypeOK, Frame, Kept, Works, Lates
<1>3. Placed(s)' /\ Locked(s)' /\ Ported(s)'
  BY <1>1 DEF Local, Placed, Locked, Ported, Kept
<1>4. Left(s)'
  <2>1. LateCreate(s)' => LateCreate(s)
    BY DEF LateCreate
  <2> QED BY <1>1, <2>1 DEF Local, Left
<1>5. Local(s)'
  BY <1>3, <1>4 DEF Local
<1> QED BY <1>2, <1>5, OwnStep

\* A stop ends; an operator stops, removes or starts the container.
LEMMA OthersKeep ==
  ASSUME AppleInv, NEW s \in Sandboxes, StopEnds(s) \/ ExternalChange(s)
  PROVE  AppleInv'
<1>1. /\ AppleTypeOK /\ Ported(s)
      /\ UNCHANGED <<lock, calls, answers, phase, known, late, promised, leaked, missed>>
  BY DEF AppleInv, Local, StopEnds, ExternalChange, history
<1>2. Kept(s) /\ (Exists(s)' => Exists(s))
  <2>1. CASE Stopped(s) /\ Exists(s)
    BY <1>1, <2>1, Stops
  <2>2. CASE containers' = [containers EXCEPT ![s] = NoContainer]
    BY <1>1, <2>2, Removes DEF Exists
  <2>3. CASE Bootable(s) /\ Booted(s, TRUE)
    BY <1>1, <2>3, Boots DEF Bootable, Exists
  <2> QED BY <2>1, <2>2, <2>3 DEF StopEnds, ExternalChange, Exists
<1>3. Lates(s) /\ late' \subseteq late
  BY <1>1, Nothing
<1> QED BY <1>1, <1>2, <1>3, WorldKeeps

\* A request that nobody waits for ends, with its effect or without.
LEMMA LateRequestEndsKeeps ==
  ASSUME AppleInv, LateRequestEnds
  PROVE  AppleInv'
<1>1. PICK r \in late : late' = late \ {r} /\ (CarriesOut(r) \/ UNCHANGED containers)
  BY DEF LateRequestEnds
<1> DEFINE s == r.of
<1>2. /\ AppleTypeOK /\ r \in Requests /\ s \in Sandboxes /\ Ported(s)
      /\ UNCHANGED <<lock, calls, answers, phase, known, promised, leaked, missed>>
  BY DEF AppleInv, AppleTypeOK, Requests, Local, LateRequestEnds, history
<1>3. Lates(s) /\ late' \subseteq late
  BY <1>1, <1>2 DEF Lates, AppleTypeOK
<1>4. Kept(s) /\ (Exists(s)' => Exists(s) \/ LateCreate(s))
  <2>1. CASE UNCHANGED containers
    BY <1>2, <2>1, Stays
  <2>2. CASE r.kind = "create" /\ Made(s, r.port, r.policy)
    <3>1. r.port \in Ports /\ r.policy \in Policies \cup {"none"} /\ LateCreate(s)
      BY <1>1, <1>2, <2>2 DEF Ported, Requests, LateCreate
    <3> QED BY <1>2, <2>2, <3>1, Makes
  <2>3. CASE Bootable(s) /\ Booted(s, TRUE)
    BY <1>2, <2>3, Boots DEF Bootable, Exists
  <2>4. CASE containers[s].status = "running" /\ EnvdStarted(s)
    BY <1>2, <2>4, Starts DEF Exists
  <2>5. CASE containers[s].status = "running" /\ (Stopping(s) \/ Stopped(s))
    BY <1>2, <2>5, Stops DEF Exists, HasPort
  <2>6. CASE containers' = [containers EXCEPT ![s] = NoContainer]
    BY <1>2, <2>6, Removes DEF Exists
  <2> HIDE DEF s
  <2> QED BY <1>1, <2>1, <2>2, <2>3, <2>4, <2>5, <2>6 DEF CarriesOut, s
<1> HIDE DEF s
<1> QED BY <1>2, <1>3, <1>4, WorldKeeps

\* The death of the process ends every call and frees the lock; a ContainerCreate on its
\* way is on record.
LEMMA ProcessDiesKeeps ==
  ASSUME AppleInv, ProcessDies
  PROVE  AppleInv'
<1>1. Idle \in CallRecord /\ Unknown \in Record
  BY DEF Idle, CallRecord, Steps, Unknown, Record
<1>2. /\ \A t \in Sandboxes : calls'[t] = Idle /\ known'[t] = Unknown
      /\ calls' \in [Sandboxes -> CallRecord] /\ known' \in [Sandboxes -> Record]
      /\ lock' = Free /\ phase' = "down" /\ UNCHANGED <<containers, answers, promised, missed>>
      /\ Idle.kind = "idle" /\ Idle.step = "none"
  BY <1>1 DEF ProcessDies, Idle
<1>3. /\ late' \subseteq Requests /\ leaked \subseteq leaked' /\ leaked' \subseteq Sandboxes
      /\ \A r \in late' \ late : r.kind = "create" =>
           r.port \in Ports /\ r.of \in leaked' /\ answers[r.of] # "none"
  <2>1. CASE UNCHANGED <<late, leaked>>
    BY <2>1 DEF AppleInv, AppleTypeOK
  <2>2. ASSUME NEW s \in Sandboxes, NEW kind \in InHand(s), GivesUp(s, kind),
               leaked' = IF kind = "create" THEN leaked \cup {s} ELSE leaked
        PROVE  <1>3!:
    <3>1. /\ AppleTypeOK /\ Local(s) /\ kind \in Kinds
          /\ kind = "create" => calls[s].step = "create"
      BY <2>2 DEF AppleInv, InHand, At, Asked, Kinds
    <3>2. /\ Lates(s)
          /\ \A r \in late' \ late : r.of = s /\ r.kind = kind /\ (kind = "create" => r.port = calls[s].port)
      BY <2>2, <3>1, GivesUpOne DEF Fails
    <3>3. kind = "create" => calls[s].port \in Ports /\ answers[s] # "none"
      BY <3>1, KindOf DEF Local, Ported, Placed
    <3>4. late' \subseteq Requests /\ leaked \subseteq leaked' /\ leaked' \subseteq Sandboxes
      BY <2>2, <3>1, <3>2 DEF Lates, AppleTypeOK
    <3> QED BY <2>2, <3>2, <3>3, <3>4
  <2> QED BY <2>1, <2>2 DEF ProcessDies
<1>4. AppleTypeOK'
  BY <1>2, <1>3 DEF AppleInv, AppleTypeOK
<1>5. ASSUME NEW s \in Sandboxes
      PROVE  Local(s)'
  <2>1. Local(s) /\ calls'[s] = Idle
    BY <1>2 DEF AppleInv
  <2>2. Exists(s)' <=> Exists(s)
    BY <1>2 DEF Exists
  <2>3. Placed(s)' /\ Locked(s)' /\ Ported(s)'
    BY <1>2, <1>3, <2>1, <2>2 DEF Local, Placed, Locked, Ported
  <2>4. Left(s)'
    <3>1. LateCreate(s)' => s \in leaked' /\ answers[s] # "none"
      BY <1>3, <2>1 DEF LateCreate, Local, Left
    <3> QED BY <1>2, <2>1, <3>1 DEF Left
  <2> QED BY <2>3, <2>4 DEF Local
<1>6. NoPortTakenMeanwhile'
  BY <1>2 DEF NoPortTakenMeanwhile
<1> QED BY <1>4, <1>5, <1>6 DEF AppleInv

\* A restart knows the containers it is shown; what it misses is on record.
LEMMA RestoreSandboxesKeeps ==
  ASSUME AppleInv, RestoreSandboxes
  PROVE  AppleInv'
<1> DEFINE unclear == {s \in Sandboxes : containers[s].status = "stopping"}
<1>1. PICK absent \in {{}} \cup {{s} : s \in Sandboxes} :
        /\ known' = [s \in Sandboxes |->
             IF Exists(s) /\ s \notin absent \cup unclear THEN RestoredRecord(s) ELSE Unknown]
        /\ missed' = {s \in (absent \cup unclear) \ promised : Exists(s)}
  BY DEF RestoreSandboxes
<1>2. /\ phase' = "up" /\ phase = "down"
      /\ UNCHANGED <<containers, lock, calls, answers, late, promised, leaked>>
  BY DEF RestoreSandboxes
<1>3. \A s \in Sandboxes : RestoredRecord(s) \in Record /\ RestoredRecord(s).port = containers[s].port
  BY DEF AppleInv, AppleTypeOK, Container, RestoredRecord, Record
<1>4. Unknown \in Record /\ absent \subseteq Sandboxes
  BY DEF Unknown, Record
<1>5. AppleTypeOK'
  BY <1>1, <1>2, <1>3, <1>4 DEF AppleInv, AppleTypeOK
<1>6. ASSUME NEW s \in Sandboxes
      PROVE  Local(s)'
  <2>1. Local(s) /\ calls[s] = Idle
    BY <1>2 DEF AppleInv, Local, Placed, AppleTypeOK, CallRecord
  <2>2. Exists(s) /\ s \notin promised => (known'[s] = RestoredRecord(s) \/ s \in missed')
    BY <1>1
  <2>3. Exists(s) => RestoredRecord(s) # Unknown
    BY <1>3, <2>1, ContainersAssumption DEF Local, Ported, Unknown
  <2>4. (Exists(s)' <=> Exists(s)) /\ (LateCreate(s)' <=> LateCreate(s))
    BY <1>2 DEF Exists, LateCreate
  <2>5. Placed(s)' /\ Locked(s)' /\ Ported(s)'
    BY <1>2, <2>1, <2>4 DEF Local, Placed, Locked, Ported, Idle
  <2>6. Left(s)'
    BY <1>2, <2>1, <2>2, <2>3, <2>4 DEF Local, Left, Idle
  <2> QED BY <2>5, <2>6 DEF Local
<1>7. NoPortTakenMeanwhile'
  BY <1>2 DEF AppleInv, NoPortTakenMeanwhile, Binds
<1> QED BY <1>5, <1>6, <1>7 DEF AppleInv

---------------------------------------------------------------------------
(* The invariant of the specification.                                     *)

\* Init establishes the invariant.
LEMMA AppleStarts ==
  ASSUME Init
  PROVE  AppleInv
<1>1. NoContainer \in Container /\ Idle \in CallRecord /\ Unknown \in Record
  BY DEF NoContainer, Container, Idle, CallRecord, Steps, Unknown, Record
<1>2. AppleTypeOK
  BY <1>1 DEF Init, AppleTypeOK, Answers
<1>3. \A s \in Sandboxes :
        /\ containers[s].status = "absent" /\ calls[s] = Idle
        /\ answers[s] = "none" /\ known[s] = Unknown
  BY DEF Init, NoContainer
<1>4. \A s \in Sandboxes : Local(s)
  BY <1>3 DEF Init, Local, Placed, Ported, Locked, Left, LateCreate, Exists, Idle
<1>5. NoPortTakenMeanwhile
  BY <1>3 DEF NoPortTakenMeanwhile, Idle
<1> QED BY <1>2, <1>4, <1>5 DEF AppleInv

\* Every step keeps it.
LEMMA AppleKeeps ==
  ASSUME AppleInv, [Next]_avars
  PROVE  AppleInv'
<1>1. CASE UNCHANGED avars
  BY <1>1
     DEF avars, history, AppleInv, AppleTypeOK, Local, Placed, Ported, Locked, Left, LateCreate,
         Exists, NoPortTakenMeanwhile, Binds
<1>2. CASE ProcessDies \/ RestoreSandboxes \/ LateRequestEnds
  BY <1>2, ProcessDiesKeeps, RestoreSandboxesKeeps, LateRequestEndsKeeps
<1>3. ASSUME NEW s \in Sandboxes, CallStep(s)
      PROVE  AppleInv'
  BY <1>3, acquireKeeps, ResolveImageKeeps, findFreePortKeeps, ContainerCreateKeeps,
     ContainerCreateFailsKeeps, BootstrapKeeps, healthCheckKeeps, ProvisionFailsKeeps,
     cleanupContainerKeeps, InspectSandboxKeeps, DeleteSandboxKeeps, PauseSandboxKeeps,
     ResumeInspectsKeeps, ResumeFailsKeeps DEF CallStep
<1>4. ASSUME NEW s \in Sandboxes, Arrive(s) \/ StopEnds(s) \/ ExternalChange(s)
      PROVE  AppleInv'
  BY <1>4, ArriveKeeps, OthersKeep
<1> QED BY <1>1, <1>2, <1>3, <1>4 DEF Next

\* The operation lock, the ports of the containers that calls have started, and the record
\* of what failed creates leave behind, or may still leave, fit together in every state.
THEOREM AppleCorrect == Spec => []AppleInv
<1>1. Init => AppleInv
  BY AppleStarts
<1>2. AppleInv /\ [Next]_avars => AppleInv'
  BY AppleKeeps
<1> QED BY <1>1, <1>2, PTL DEF Spec

\* acquireAppleContainerOperationLock: between findFreePort and the bootstrap no other
\* call takes the port of a create; only a bootstrap given up earlier may, or an operator.
THEOREM PortsAreNotTaken == Spec => []NoPortTakenMeanwhile
<1>1. AppleInv => NoPortTakenMeanwhile
  BY DEF AppleInv
<1> QED BY <1>1, AppleCorrect, PTL

\* cleanupContainer: a create that failed leaves no container behind, unless its
\* ContainerCreate was given up, a clean-up failed or a restart missed the container.
THEOREM NothingIsLeft == Spec => []FailedCreateLeavesNothing
<1>1. AppleInv => FailedCreateLeavesNothing
  BY DEF AppleInv, Local, Left, FailedCreateLeavesNothing, Idle
<1> QED BY <1>1, AppleCorrect, PTL

---------------------------------------------------------------------------
(* How a step of the contract is recognised.                               *)

\* Only the call, the container and the requests of s may have changed.
OnlyOf(s) ==
  /\ \A t \in Sandboxes \ {s} :
       containers'[t] = containers[t] /\ calls'[t] = calls[t] /\ answers'[t] = answers[t]
  /\ \A r \in late \cup late' : r.of # s => r \in late /\ r \in late'

\* A step that leaves the sandbox alone, or takes it to st.
LEMMA Moves ==
  ASSUME NEW s \in Sandboxes, OnlyOf(s), NEW S, State(s)' = State(s) \/ State(s)' \in S
  PROVE  /\ rtBar' \in {rtBar} \cup {[rtBar EXCEPT ![s] = st] : st \in S}
         /\ State(s)' = rtBar'[s] /\ rtBar' = [rtBar EXCEPT ![s] = State(s)']
<1>1. \A t \in Sandboxes \ {s} : rtBar'[t] = rtBar[t]
  BY DEF rtBar, OnlyOf, State, Exists
<1>2. rtBar'[s] = State(s)' /\ rtBar[s] = State(s)
  BY DEF rtBar
<1>3. rtBar' = [rtBar EXCEPT ![s] = State(s)']
  BY <1>1, <1>2 DEF rtBar
<1>4. CASE State(s)' = State(s)
  <2>1. rtBar' = rtBar
    BY <1>1, <1>2, <1>4 DEF rtBar
  <2> QED BY <1>2, <1>3, <2>1
<1>5. CASE State(s)' \in S
  BY <1>2, <1>3, <1>5
<1> QED BY <1>4, <1>5

\* A call comes to its health check by a container that runs.
LEMMA SeesRunning ==
  ASSUME NEW s \in Sandboxes, OnlyOf(s),
         calls'[s].kind = "idle" => calls'[s].step # "health",
         calls'[s].step = "health" => calls[s].step = "health" \/ State(s) = "running"
  PROVE  Runtime!Sees(s)
<1>1. seenBar' = [seenBar EXCEPT ![s] = seenBar'[s]]
  BY DEF seenBar, OnlyOf, At
<1>2. callBar'[s] = "idle" => seenBar'[s] = {}
  BY DEF seenBar, callBar, At
<1>3. seenBar'[s] \subseteq seenBar[s] \cup {rtBar[s], rtBar'[s]}
  BY DEF seenBar, rtBar, At
<1> QED BY <1>1, <1>2, <1>3 DEF Runtime!Sees

\* What may be owed: the targets of the requests that are given up, and the end of a stop
\* that was owed.
LEMMA OwesMore ==
  ASSUME NEW s \in Sandboxes, OnlyOf(s), NEW S, \A r \in late' \ late : Target(r.kind) \subseteq S,
         containers'[s].status = "stopping" =>
           containers[s].status = "stopping" \/ "paused" \in owedBar[s]
  PROVE  Runtime!Owes(s, S)
<1>1. \A t \in Sandboxes \ {s} : {r \in late' : r.of = t} = {r \in late : r.of = t}
  BY DEF OnlyOf
<1>2. owedBar' = [owedBar EXCEPT ![s] = owedBar'[s]]
  BY <1>1 DEF owedBar, OnlyOf
<1>3. owedBar'[s] \subseteq owedBar[s] \cup S
  <2>1. ASSUME NEW r \in late', r.of = s
        PROVE  Target(r.kind) \subseteq owedBar[s] \cup S
    <3>1. CASE r \in late
      BY <2>1, <3>1 DEF owedBar
    <3>2. CASE r \notin late
      BY <2>1, <3>2
    <3> QED BY <3>1, <3>2
  <2>2. containers[s].status = "stopping" => "paused" \in owedBar[s]
    BY DEF owedBar
  <2>3. owedBar'[s] = (UNION {Target(r.kind) : r \in {q \in late' : q.of = s}})
                        \cup (IF containers'[s].status = "stopping" THEN {"paused"} ELSE {})
    BY DEF owedBar
  <2> QED BY <2>1, <2>2, <2>3
<1> QED BY <1>2, <1>3 DEF Runtime!Owes

\* A container that is not yet stopping does not begin to.
Settled(s) == containers'[s].status = "stopping" => containers[s].status = "stopping"

\* A call that goes on.
LEMMA Effects ==
  ASSUME NEW s \in Sandboxes, OnlyOf(s), Settled(s), calls[s].kind # "idle",
         calls'[s].kind = calls[s].kind, UNCHANGED answers,
         State(s)' = State(s) \/ State(s)' \in Runtime!Reach(calls[s].kind),
         calls'[s].step = "health" => State(s) = "running",
         \A r \in late' \ late : Target(r.kind) \subseteq Runtime!Reach(calls[s].kind)
  PROVE  Runtime!CNext
<1>1. rtBar' \in {rtBar} \cup {[rtBar EXCEPT ![s] = st] : st \in Runtime!Reach(calls[s].kind)}
  BY Moves
<1>2. callBar' = callBar /\ answerBar' = answerBar /\ callBar[s] = calls[s].kind
  BY DEF callBar, answerBar, OnlyOf, Told
<1>3. Runtime!Sees(s) /\ Runtime!Owes(s, Runtime!Reach(calls[s].kind))
  BY SeesRunning, OwesMore DEF Settled
<1>4. Runtime!Effect(s)
  BY <1>1, <1>2, <1>3 DEF Runtime!Effect
<1> QED BY <1>4 DEF Runtime!CNext

\* A call that returns: what it answers is so when it returns, or a container was running
\* when it came to ask for its health; only an error leaves a request behind.
LEMMA Finishes ==
  ASSUME AppleTypeOK, NEW s \in Sandboxes, Works(s), Lates(s), Settled(s), calls[s].kind # "idle",
         NEW a \in Answers, Return(s, a),
         NEW st, st = State(s)' \/ (st = "running" /\ At(s, "health")),
         Told(a) \in Runtime!Truthful(calls[s].kind, st),
         State(s)' = State(s) \/ State(s)' \in Runtime!Reach(calls[s].kind),
         \A r \in late' \ late : a = "error" /\ Target(r.kind) \subseteq Runtime!Reach(calls[s].kind)
  PROVE  Runtime!CNext
<1>1. /\ calls'[s] = Idle /\ answers'[s] = a
      /\ \A t \in Sandboxes \ {s} : calls'[t] = calls[t] /\ answers'[t] = answers[t]
  BY Returns
<1>2. OnlyOf(s) /\ calls'[s].kind = "idle" /\ calls'[s].step = "none"
  BY <1>1 DEF OnlyOf, Works, Lates, Idle
<1>3. /\ rtBar' \in {rtBar} \cup {[rtBar EXCEPT ![s] = state] : state \in Runtime!Reach(calls[s].kind)}
      /\ State(s)' = rtBar'[s]
  BY <1>2, Moves
<1>4. callBar' = [callBar EXCEPT ![s] = "idle"] /\ callBar[s] = calls[s].kind
  BY <1>2 DEF callBar, OnlyOf
<1>5. answerBar' = [answerBar EXCEPT ![s] = Told(a)] /\ answerBar'[s] = Told(a)
  BY <1>1, <1>2 DEF answerBar, OnlyOf, Told
<1>6. st \in seenBar[s] \cup {rtBar'[s]}
  BY <1>3 DEF seenBar
<1>7. Runtime!Sees(s)
  BY <1>2, SeesRunning
<1>8. Runtime!Owes(s, IF answerBar'[s] = "error" THEN Runtime!Reach(calls[s].kind) ELSE {})
  BY <1>2, <1>5, OwesMore DEF Settled, Told
<1>9. Runtime!Finish(s)
  BY <1>3, <1>4, <1>5, <1>6, <1>7, <1>8 DEF Runtime!Finish
<1> QED BY <1>9 DEF Runtime!CNext

\* A call that begins.
LEMMA Begins ==
  ASSUME NEW s \in Sandboxes, OnlyOf(s), NEW k \in Runtime!Calls, UNCHANGED <<containers, late>>,
         calls[s].kind = "idle", calls'[s].kind = k, calls'[s].step # "health", answers'[s] = "pending"
  PROVE  Runtime!CNext
<1>1. rtBar' = rtBar /\ owedBar' = owedBar
  BY DEF rtBar, owedBar, State, Exists
<1>2. callBar' = [callBar EXCEPT ![s] = k] /\ callBar[s] = "idle"
  BY DEF callBar, OnlyOf
<1>3. answerBar' = [answerBar EXCEPT ![s] = "pending"]
  BY DEF answerBar, OnlyOf, Told
<1>4. Runtime!Begin(s, k)
  BY <1>1, <1>2, <1>3, SeesRunning DEF Runtime!Begin
<1> QED BY <1>4 DEF Runtime!CNext

\* What requests that nobody waits for do, and others than the gateway.
LEMMA Happens ==
  ASSUME AppleInv, NEW s \in Sandboxes, OnlyOf(s), UNCHANGED <<calls, answers>>, late' \subseteq late,
         containers'[s].status = "stopping" =>
           containers[s].status = "stopping" \/ "paused" \in owedBar[s]
  PROVE  /\ State(s)' = State(s) \/ State(s)' \in owedBar[s] => Runtime!CNext
         /\ Exists(s) /\ State(s)' \in (IF "stop" \in ExternalChanges THEN {"paused"} ELSE {})
              \cup (IF "remove" \in ExternalChanges THEN {"none"} ELSE {})
              \cup (IF "start" \in ExternalChanges THEN {"running"} ELSE {}) => Runtime!CNext
<1>1. callBar' = callBar /\ answerBar' = answerBar
  BY DEF callBar, answerBar
<1>2. calls[s].step = "health" => calls[s].kind # "idle"
  BY KindOf
<1>3. Runtime!Sees(s) /\ Runtime!Owes(s, {})
  BY <1>2, SeesRunning, OwesMore
<1>4. ASSUME State(s)' = State(s) \/ State(s)' \in owedBar[s]
      PROVE  Runtime!Lands(s)
  BY <1>1, <1>3, <1>4, Moves DEF Runtime!Lands
<1>5. ASSUME Exists(s), State(s)' \in (IF "stop" \in ExternalChanges THEN {"paused"} ELSE {})
               \cup (IF "remove" \in ExternalChanges THEN {"none"} ELSE {})
               \cup (IF "start" \in ExternalChanges THEN {"running"} ELSE {})
      PROVE  Runtime!External(s)
  <2>1. rtBar' = [rtBar EXCEPT ![s] = State(s)']
    BY <1>5, Moves
  <2>2. rtBar[s] # "none"
    BY <1>5 DEF rtBar, State
  <2> QED BY <1>1, <1>3, <1>5, <2>1, <2>2 DEF Runtime!External
<1> QED BY <1>4, <1>5 DEF Runtime!CNext

---------------------------------------------------------------------------
(* Every step is one of the contract.                                      *)

\* A create may leave any state a container has.
LEMMA CreateReaches ==
  ASSUME NEW s \in Sandboxes
  PROVE  State(s)' \in Runtime!Reach("create")
BY DEF State, Runtime!Reach

\* An error is true of every state.
LEMMA ErrorIsTrue ==
  ASSUME NEW k \in Runtime!Calls, NEW state
  PROVE  Told("error") \in Runtime!Truthful(k, state)
BY DEF Told, Runtime!Truthful

\* An error that tells nothing.
LEMMA Errs ==
  ASSUME AppleTypeOK, NEW s \in Sandboxes, Works(s), Lates(s), Settled(s),
         calls[s].kind \in Runtime!Calls, Return(s, "error"),
         State(s)' = State(s) \/ State(s)' \in Runtime!Reach(calls[s].kind),
         \A r \in late' \ late : Target(r.kind) \subseteq Runtime!Reach(calls[s].kind)
  PROVE  Runtime!CNext
<1>1. Told("error") \in Runtime!Truthful(calls[s].kind, State(s)')
  BY ErrorIsTrue
<1>2. "error" \in Answers /\ calls[s].kind # "idle"
  BY DEF Answers, Runtime!Calls
<1> QED BY <1>1, <1>2, Finishes

\* The containers stay as they are.
LEMMA StaysSettled ==
  ASSUME AppleTypeOK, NEW s \in Sandboxes, UNCHANGED containers
  PROVE  Works(s) /\ Settled(s) /\ State(s)' = State(s)
BY DEF AppleTypeOK, Works, Settled, State, Exists

\* A call at a step before its end, whatever it does to the container.
LEMMA GoesOn ==
  ASSUME AppleTypeOK, NEW s \in Sandboxes, calls[s].kind \in {"create", "resume", "inspect"}, Works(s), Lates(s), Settled(s),
         calls'[s].kind = calls[s].kind, \A t \in Sandboxes \ {s} : calls'[t] = calls[t], UNCHANGED answers,
         State(s)' = State(s) \/ State(s)' \in Runtime!Reach(calls[s].kind),
         calls'[s].step = "health" => State(s) = "running",
         \A r \in late' \ late : Target(r.kind) \subseteq Runtime!Reach(calls[s].kind)
  PROVE  Runtime!CNext
<1>1. OnlyOf(s)
  BY DEF OnlyOf, Works, Lates
<1> QED BY <1>1, Effects

\* The steps of a create and of a resume that change no container.
LEMMA QuietImplements ==
  ASSUME AppleInv, NEW s \in Sandboxes,
         \/ acquireAppleContainerOperationLock(s) \/ ResolveImage(s) \/ findFreePort(s)
         \/ ContainerCreateFails(s) \/ ProvisionFails(s) \/ ResumeFails(s) \/ ResumeInspects(s)
  PROVE  Runtime!CNext
<1>1. /\ AppleTypeOK /\ UNCHANGED containers /\ calls[s].kind \in {"create", "resume"}
      /\ calls[s].kind \in Runtime!Calls
  BY KindOf DEF AppleInv, acquireAppleContainerOperationLock, ResolveImage, findFreePort,
     ContainerCreateFails, ProvisionFails, ResumeFails, ResumeInspects, At, Asked, Runtime!Calls
<1>2. Works(s) /\ Settled(s) /\ State(s)' = State(s)
  BY <1>1, StaysSettled
<1>3. Lates(s) /\ \A r \in late' \ late : Target(r.kind) \subseteq Runtime!Reach(calls[s].kind)
  <2>1. CASE UNCHANGED late
    BY <1>1, <2>1, Nothing
  <2>2. CASE GivesUp(s, "create") /\ calls[s].kind = "create"
    BY <1>1, <2>2, GivesUpOne DEF Fails, Kinds, Target, Runtime!Reach
  <2>3. CASE \E kind \in {"bootstrap", "envd"} : Fails(s, kind)
    BY <1>1, <2>3, GivesUpOne DEF Kinds, Target, Runtime!Reach
  <2>4. GivesUp(s, "create") => calls[s].kind = "create" \/ ~ContainerCreateFails(s)
    BY KindOf DEF ContainerCreateFails, At
  <2> QED BY <2>1, <2>2, <2>3, <2>4
          DEF acquireAppleContainerOperationLock, ResolveImage, findFreePort, ContainerCreateFails,
              ProvisionFails, ResumeFails, ResumeInspects, StepFails
<1>4. CASE Return(s, "error")
  BY <1>1, <1>2, <1>3, <1>4, Errs
<1>5. ASSUME NEW step \in Steps, Goto(s, step), step = "health" => State(s) = "running"
      PROVE  Runtime!CNext
  BY <1>1, <1>2, <1>3, <1>5, Goes, GoesOn
<1>6. ASSUME NEW last \in BOOLEAN, CleanupThen(s, last)
      PROVE  Runtime!CNext
  BY <1>1, <1>2, <1>3, <1>6, CleansUp, GoesOn
<1>7. CASE acquireAppleContainerOperationLock(s) /\ ~Return(s, "error")
  <2> DEFINE c == [calls[s] EXCEPT !.step = IF calls[s].kind = "create" THEN "resolve" ELSE "bootstrap"]
  <2>1. calls' = [calls EXCEPT ![s] = c] /\ answers' = answers
        /\ c.kind = calls[s].kind /\ c.step # "health"
    BY <1>1, <1>7 DEF acquireAppleContainerOperationLock, AppleTypeOK, CallRecord
  <2> HIDE DEF c
  <2>2. /\ calls'[s].kind = calls[s].kind /\ calls'[s].step # "health"
        /\ \A t \in Sandboxes \ {s} : calls'[t] = calls[t]
    BY <1>1, <2>1 DEF AppleTypeOK
  <2> QED BY <1>1, <1>2, <1>3, <2>1, <2>2, GoesOn
<1>8. ASSUME NEW port \in Ports, UNCHANGED answers,
             calls' = [calls EXCEPT ![s].step = "create", ![s].port = port]
      PROVE  Runtime!CNext
  <2> DEFINE c == [calls[s] EXCEPT !.step = "create", !.port = port]
  <2>1. calls' = [calls EXCEPT ![s] = c] /\ c.kind = calls[s].kind /\ c.step # "health"
    BY <1>1, <1>8 DEF AppleTypeOK, CallRecord
  <2> HIDE DEF c
  <2>2. /\ calls'[s].kind = calls[s].kind /\ calls'[s].step # "health"
        /\ \A t \in Sandboxes \ {s} : calls'[t] = calls[t]
    BY <1>1, <2>1 DEF AppleTypeOK
  <2> QED BY <1>1, <1>2, <1>3, <1>8, <2>2, GoesOn
<1>9. containers[s].status = "running" => State(s) = "running"
  BY DEF State, Exists
<1>10. CASE ResolveImage(s) \/ findFreePort(s) \/ ResumeInspects(s) \/ ResumeFails(s)
  BY <1>4, <1>5, <1>8, <1>9, <1>10 DEF ResolveImage, findFreePort, ResumeInspects, ResumeFails, Steps
<1>11. CASE ContainerCreateFails(s) \/ ProvisionFails(s)
  BY <1>4, <1>6, <1>11 DEF ContainerCreateFails, ProvisionFails
<1> QED BY <1>4, <1>7, <1>10, <1>11

\* A create makes its container, and removes it when it fails.
LEMMA CreateImplements ==
  ASSUME AppleInv, NEW s \in Sandboxes, ContainerCreate(s) \/ cleanupContainer(s)
  PROVE  Runtime!CNext
<1>1. /\ AppleTypeOK /\ calls[s].kind = "create" /\ Ported(s)
      /\ "create" \in Runtime!Calls /\ State(s)' \in Runtime!Reach("create")
  BY KindOf, CreateReaches DEF AppleInv, Local, ContainerCreate, cleanupContainer, At, Runtime!Calls
<1>2. CASE ContainerCreate(s)
  <2>1. calls[s].port \in Ports /\ calls[s].policy \in Policies \cup {"none"}
    BY <1>1, <1>2 DEF Ported, ContainerCreate, At, AppleTypeOK, CallRecord
  <2>2. Works(s) /\ Settled(s) /\ Lates(s) /\ late' \ late = {}
    BY <1>1, <1>2, <2>1, Makes, Nothing DEF ContainerCreate, Kept, Settled, history
  <2>3. /\ UNCHANGED answers /\ calls'[s].kind = calls[s].kind /\ calls'[s].step = "bootstrap"
        /\ \A t \in Sandboxes \ {s} : calls'[t] = calls[t]
    BY <1>1, <1>2, Goes DEF ContainerCreate, Steps
  <2> QED BY <1>1, <2>2, <2>3, GoesOn
<1>3. CASE cleanupContainer(s)
  <2>1. /\ Works(s) /\ Settled(s) /\ Lates(s)
        /\ \A r \in late' \ late : Target(r.kind) \subseteq Runtime!Reach("create")
    <3>1. CASE containers' = [containers EXCEPT ![s] = NoContainer] /\ UNCHANGED late
      BY <1>1, <3>1, Removes, Nothing DEF Kept, Settled
    <3>2. CASE UNCHANGED containers /\ Fails(s, "delete")
      BY <1>1, <3>2, StaysSettled, GivesUpOne DEF Kinds, Target, Runtime!Reach
    <3> QED BY <1>3, <3>1, <3>2 DEF cleanupContainer
  <2>2. CASE Return(s, "error")
    BY <1>1, <2>1, <2>2, Errs
  <2>3. CASE /\ calls' = [calls EXCEPT ![s].step = "pick", ![s].n = @ + 1]
             /\ UNCHANGED answers
    <3>1. /\ calls'[s].kind = calls[s].kind /\ calls'[s].step # "health"
          /\ \A t \in Sandboxes \ {s} : calls'[t] = calls[t]
      BY <1>1, <2>3 DEF AppleTypeOK, CallRecord
    <3> QED BY <1>1, <2>1, <2>3, <3>1, GoesOn
  <2> QED BY <1>3, <2>2, <2>3 DEF cleanupContainer
<1> QED BY <1>2, <1>3

\* The steps of a start are steps of a create or of a resume.
LEMMA BootstrapImplements ==
  ASSUME AppleInv, NEW s \in Sandboxes, ContainerBootstrap(s) \/ startEnvd(s)
  PROVE  Runtime!CNext
<1> DEFINE step == IF At(s, "bootstrap") THEN "envd" ELSE "health"
<1>1. /\ AppleTypeOK /\ calls[s].kind \in {"create", "resume"} /\ Ported(s) /\ UNCHANGED late
      /\ Goto(s, step)
      /\ step = "health" => containers[s].status = "running"
  BY KindOf DEF AppleInv, Local, ContainerBootstrap, startEnvd, At, history
<1>2. Works(s) /\ containers'[s].status = "running"
  <2>1. CASE ContainerBootstrap(s)
    BY <1>1, <2>1, Boots DEF ContainerBootstrap, Kept, At
  <2>2. CASE startEnvd(s)
    BY <1>1, <2>2, Starts DEF startEnvd, Kept
  <2> QED BY <2>1, <2>2
<1>3. /\ calls'[s].kind = calls[s].kind /\ calls'[s].step = step /\ UNCHANGED answers
      /\ \A t \in Sandboxes \ {s} : calls'[t] = calls[t]
  BY <1>1, Goes DEF Steps
<1>4. State(s)' \in Runtime!Reach(calls[s].kind) /\ Settled(s)
  BY <1>1, <1>2 DEF State, Exists, Runtime!Reach, Settled
<1>5. Lates(s) /\ late' \ late = {}
  BY <1>1, Nothing
<1>6. step = "health" => State(s) = "running"
  BY <1>1 DEF State, Exists
<1> QED BY <1>1, <1>2, <1>3, <1>4, <1>5, <1>6, GoesOn

\* When a call came to ask for the health of its container, the container ran.
LEMMA healthCheckImplements ==
  ASSUME AppleInv, NEW s \in Sandboxes, healthCheck(s)
  PROVE  Runtime!CNext
<1>1. /\ AppleTypeOK /\ calls[s].kind \in {"create", "resume"} /\ At(s, "health")
      /\ UNCHANGED <<containers, late>> /\ Return(s, "ok") /\ calls[s].kind # "idle"
  BY KindOf DEF AppleInv, healthCheck, At
<1>2. Told("ok") \in Runtime!Truthful(calls[s].kind, "running")
  BY <1>1 DEF Told, Runtime!Truthful
<1>3. Works(s) /\ Settled(s) /\ State(s)' = State(s) /\ Lates(s) /\ late' \ late = {}
  BY <1>1, StaysSettled, Nothing
<1> QED BY <1>1, <1>2, <1>3, Finishes DEF Answers

\* A list may lack an existing container EmptyLists times in a row, which is less often
\* than it is asked for.
LEMMA InspectSandboxImplements ==
  ASSUME AppleInv, NEW s \in Sandboxes, InspectSandbox(s)
  PROVE  Runtime!CNext
<1>1. /\ AppleTypeOK /\ calls[s].kind = "inspect" /\ UNCHANGED <<containers, late>>
      /\ "inspect" \in Runtime!Calls /\ calls[s].step = "request"
  BY DEF AppleInv, InspectSandbox, Asked, At, history, Runtime!Calls
<1>2. Works(s) /\ Settled(s) /\ State(s)' = State(s) /\ Lates(s) /\ late' \ late = {}
  BY <1>1, StaysSettled, Nothing
<1>3. CASE Exists(s) /\ Return(s, e2bStateFromAppleStatus(containers[s].status))
  <2> DEFINE a == e2bStateFromAppleStatus(containers[s].status)
  <2>1. a \in Answers
    BY DEF Answers, e2bStateFromAppleStatus
  <2>2. Told(a) \in {"error", State(s)} /\ State(s) \in {"paused", "running"}
    BY <1>1, <1>3 DEF State, Exists, Told, e2bStateFromAppleStatus, AppleTypeOK, Container
  <2>3. Told(a) \in Runtime!Truthful(calls[s].kind, State(s)')
    BY <1>1, <1>2, <2>2 DEF Runtime!Truthful
  <2> HIDE DEF a
  <2> QED BY <1>1, <1>2, <1>3, <2>1, <2>3, Finishes DEF a
<1>4. CASE /\ ~Exists(s) \/ calls[s].n <= EmptyLists
           /\ Exhausted(calls[s].n) /\ Return(s, "missing")
  <2>1. State(s) = "none"
    BY <1>4, ContainersAssumption DEF Exhausted, State
  <2>2. Told("missing") \in Runtime!Truthful(calls[s].kind, State(s)')
    BY <1>1, <1>2, <2>1 DEF Runtime!Truthful, Told
  <2> QED BY <1>1, <1>2, <1>4, <2>2, Finishes DEF Answers
<1>5. CASE calls' = [calls EXCEPT ![s].n = @ + 1] /\ UNCHANGED answers
  <2>1. /\ calls'[s].kind = calls[s].kind /\ calls'[s].step # "health"
        /\ \A t \in Sandboxes \ {s} : calls'[t] = calls[t]
    BY <1>1, <1>5 DEF AppleTypeOK, CallRecord
  <2> QED BY <1>1, <1>2, <1>5, <2>1, GoesOn
<1>6. CASE Return(s, "error")
  BY <1>1, <1>2, <1>6, Errs
<1> QED BY <1>3, <1>4, <1>5, <1>6 DEF InspectSandbox

\* A delete answers ok only when the sandbox is gone.
LEMMA DeleteSandboxImplements ==
  ASSUME AppleInv, NEW s \in Sandboxes, DeleteSandbox(s)
  PROVE  Runtime!CNext
<1>1. AppleTypeOK /\ calls[s].kind = "delete" /\ calls[s].kind \in Runtime!Calls
  BY DEF AppleInv, DeleteSandbox, Asked, Runtime!Calls
<1>2. CASE containers' = [containers EXCEPT ![s] = NoContainer] /\ Return(s, "ok") /\ UNCHANGED late
  <2>1. Works(s) /\ Settled(s) /\ State(s)' = "none" /\ Lates(s) /\ late' \ late = {}
    BY <1>1, <1>2, Removes, Nothing DEF State, Exists, Kept, Settled
  <2>2. Told("ok") \in Runtime!Truthful(calls[s].kind, State(s)')
    BY <1>1, <2>1 DEF Runtime!Truthful, Told
  <2>3. State(s)' \in Runtime!Reach(calls[s].kind)
    BY <1>1, <2>1 DEF Runtime!Reach
  <2> QED BY <1>1, <1>2, <2>1, <2>2, <2>3, Finishes DEF Answers
<1>3. CASE UNCHANGED containers /\ Return(s, "error") /\ Fails(s, "delete")
  <2>1. /\ Works(s) /\ Settled(s) /\ State(s)' = State(s) /\ Lates(s)
        /\ \A r \in late' \ late : Target(r.kind) \subseteq Runtime!Reach(calls[s].kind)
    BY <1>1, <1>3, StaysSettled, GivesUpOne DEF Kinds, Target, Runtime!Reach
  <2> QED BY <1>1, <1>3, <2>1, Errs
<1> QED BY <1>2, <1>3 DEF DeleteSandbox

\* A pause answers ok when the container is stopped.
LEMMA PauseSandboxImplements ==
  ASSUME AppleInv, NEW s \in Sandboxes, PauseSandbox(s)
  PROVE  Runtime!CNext
<1>1. AppleTypeOK /\ calls[s].kind = "pause" /\ calls[s].kind \in Runtime!Calls /\ Ported(s)
  BY DEF AppleInv, Local, PauseSandbox, Asked, Runtime!Calls
<1>2. CASE Exists(s) /\ Stopped(s) /\ Return(s, "ok") /\ UNCHANGED late
  <2>1. Works(s) /\ Settled(s) /\ State(s)' = "paused" /\ Lates(s) /\ late' \ late = {}
    BY <1>1, <1>2, Stops, Nothing DEF State, Exists, Kept, Settled
  <2>2. Told("ok") \in Runtime!Truthful(calls[s].kind, State(s)')
    BY <1>1, <2>1 DEF Runtime!Truthful, Told
  <2>3. State(s)' \in Runtime!Reach(calls[s].kind)
    BY <1>1, <2>1 DEF Runtime!Reach
  <2> QED BY <1>1, <1>2, <2>1, <2>2, <2>3, Finishes DEF Answers
<1>3. CASE UNCHANGED containers /\ Return(s, "error") /\ Fails(s, "stop")
  <2>1. /\ Works(s) /\ Settled(s) /\ State(s)' = State(s) /\ Lates(s)
        /\ \A r \in late' \ late : Target(r.kind) \subseteq Runtime!Reach(calls[s].kind)
    BY <1>1, <1>3, StaysSettled, GivesUpOne DEF Kinds, Target, Runtime!Reach
  <2> QED BY <1>1, <1>3, <2>1, Errs
<1> QED BY <1>2, <1>3 DEF PauseSandbox

\* A call of the gateway is a call of the contract.
LEMMA ArriveImplements ==
  ASSUME AppleInv, NEW s \in Sandboxes, Arrive(s)
  PROVE  Runtime!CNext
<1>1. /\ AppleTypeOK /\ UNCHANGED <<containers, late>> /\ calls[s].kind = "idle"
      /\ answers' = [answers EXCEPT ![s] = "pending"]
  <2>1. /\ UNCHANGED <<containers, late>> /\ calls[s] = Idle
        /\ answers' = [answers EXCEPT ![s] = "pending"]
    BY DEF Arrive, CreateBegins, CallBegins
  <2> QED BY <2>1 DEF AppleInv, Idle
<1>2. \A t \in Sandboxes \ {s} : calls'[t] = calls[t]
  BY <1>1 DEF Arrive, CreateBegins, CallBegins, AppleTypeOK
<1>3. calls'[s].kind \in Runtime!Calls /\ calls'[s].step # "health"
  <2>1. ASSUME NEW policy \in Policies, CreateBegins(s, policy)
        PROVE  calls'[s].kind = "create" /\ calls'[s].step = "lock"
    BY <1>1, <2>1 DEF CreateBegins, Idle, AppleTypeOK
  <2>2. ASSUME NEW kind \in {"inspect", "delete", "pause", "resume"}, CallBegins(s, kind)
        PROVE  calls'[s].kind = kind /\ calls'[s].step = "request"
    BY <1>1, <2>2 DEF CallBegins, Idle, AppleTypeOK
  <2> QED BY <2>1, <2>2 DEF Arrive, Runtime!Calls
<1>4. OnlyOf(s) /\ answers'[s] = "pending"
  BY <1>1, <1>2 DEF OnlyOf, AppleTypeOK
<1> QED BY <1>1, <1>3, <1>4, Begins

\* What befalls a container behind the gateway's back the contract allows.
LEMMA WorldImplements ==
  ASSUME AppleInv, NEW s \in Sandboxes, StopEnds(s) \/ ExternalChange(s)
  PROVE  Runtime!CNext
<1>1. AppleTypeOK /\ Ported(s) /\ UNCHANGED <<calls, answers, late>>
  BY DEF AppleInv, Local, StopEnds, ExternalChange
<1>2. ASSUME Works(s), Settled(s), Exists(s),
             \/ State(s)' = "paused" /\ containers[s].status = "stopping"
             \/ State(s)' \in (IF "stop" \in ExternalChanges THEN {"paused"} ELSE {})
                  \cup (IF "remove" \in ExternalChanges THEN {"none"} ELSE {})
                  \cup (IF "start" \in ExternalChanges THEN {"running"} ELSE {})
      PROVE  Runtime!CNext
  <2>1. OnlyOf(s)
    BY <1>1, <1>2 DEF OnlyOf, Works
  <2>2. containers[s].status = "stopping" => "paused" \in owedBar[s]
    BY DEF owedBar
  <2> QED BY <1>1, <1>2, <2>1, <2>2, Happens DEF Settled
<1>3. ASSUME Stopped(s), Exists(s)
      PROVE  Works(s) /\ Settled(s) /\ State(s)' = "paused"
  BY <1>1, <1>3, Stops DEF Kept, Settled, State, Exists
<1>4. ASSUME containers' = [containers EXCEPT ![s] = NoContainer]
      PROVE  Works(s) /\ Settled(s) /\ State(s)' = "none"
  BY <1>1, <1>4, Removes DEF Kept, Settled, State, Exists
<1>5. ASSUME Bootable(s), Booted(s, TRUE)
      PROVE  Works(s) /\ Settled(s) /\ State(s)' = "running"
  BY <1>1, <1>5, Boots DEF Kept, Settled, State, Exists
<1> QED BY <1>2, <1>3, <1>4, <1>5 DEF StopEnds, ExternalChange, Bootable, Exists

\* A request that nobody waits for takes the sandbox where it is owed to go.
LEMMA LateRequestEndsImplements ==
  ASSUME AppleInv, LateRequestEnds
  PROVE  Runtime!CNext
<1>1. PICK r \in late : late' = late \ {r} /\ (CarriesOut(r) \/ UNCHANGED containers)
  BY DEF LateRequestEnds
<1> DEFINE s == r.of
<1>2. /\ AppleTypeOK /\ r \in Requests /\ s \in Sandboxes /\ Ported(s)
      /\ UNCHANGED <<calls, answers>> /\ late' \subseteq late
  BY <1>1 DEF AppleInv, AppleTypeOK, Requests, Local, LateRequestEnds
<1>3. Target(r.kind) \subseteq owedBar[s]
  BY <1>2 DEF owedBar
<1>4. ASSUME Works(s), State(s)' = State(s) \/ State(s)' \in Target(r.kind),
             Settled(s) \/ "paused" \in Target(r.kind)
      PROVE  Runtime!CNext
  <2>1. OnlyOf(s)
    BY <1>1, <1>2, <1>4 DEF OnlyOf, Works
  <2> QED BY <1>2, <1>3, <1>4, <2>1, Happens DEF Settled
<1>5. CASE UNCHANGED containers
  BY <1>2, <1>4, <1>5, StaysSettled
<1>6. CASE r.kind = "create" /\ Made(s, r.port, r.policy)
  <2>1. r.port \in Ports /\ r.policy \in Policies \cup {"none"}
    BY <1>1, <1>2, <1>6 DEF Ported, Requests
  <2>2. Works(s) /\ State(s)' = "paused"
    BY <1>2, <1>6, <2>1, Makes DEF Kept, State, Exists
  <2> QED BY <1>4, <1>6, <2>2 DEF Target
<1>7. CASE r.kind = "bootstrap" /\ Bootable(s) /\ Booted(s, TRUE)
  <2>1. Works(s) /\ State(s)' = "running" /\ Settled(s)
    BY <1>2, <1>7, Boots DEF Kept, State, Exists, Settled
  <2> QED BY <1>4, <1>7, <2>1 DEF Target
<1>8. CASE EnvdStarted(s)
  <2>1. Works(s) /\ State(s)' = State(s) /\ Settled(s)
    BY <1>2, <1>8, Starts DEF Kept, State, Exists, Settled
  <2> QED BY <1>4, <2>1
<1>9. CASE r.kind = "stop" /\ containers[s].status = "running" /\ (Stopping(s) \/ Stopped(s))
  <2>1. Works(s) /\ State(s)' \in {State(s), "paused"}
    BY <1>2, <1>9, Stops DEF Kept, State, Exists, HasPort
  <2> QED BY <1>4, <1>9, <2>1 DEF Target
<1>10. CASE r.kind = "delete" /\ containers' = [containers EXCEPT ![s] = NoContainer]
  <2>1. Works(s) /\ State(s)' = "none" /\ Settled(s)
    BY <1>2, <1>10, Removes DEF Kept, State, Exists, Settled
  <2> QED BY <1>4, <1>10, <2>1 DEF Target
<1> HIDE DEF s
<1> QED BY <1>1, <1>5, <1>6, <1>7, <1>8, <1>9, <1>10 DEF CarriesOut, s

\* The death of the process ends every call; the request it had in hand is still owed.
LEMMA ProcessDiesImplements ==
  ASSUME AppleInv, ProcessDies
  PROVE  Runtime!CNext
<1>1. /\ callBar' = [s \in Sandboxes |-> "idle"] /\ seenBar' = [s \in Sandboxes |-> {}]
      /\ UNCHANGED <<rtBar, answerBar>> /\ UNCHANGED containers
  BY DEF ProcessDies, callBar, seenBar, rtBar, answerBar, State, Exists, Told, Idle, At
<1>2. ASSUME NEW s \in Sandboxes, NEW r \in late' \ late, r.of = s
      PROVE  Target(r.kind) \subseteq Runtime!Reach(calls[s].kind)
  <2>1. PICK t \in Sandboxes : \E kind \in InHand(t) : GivesUp(t, kind)
    BY <1>2 DEF ProcessDies
  <2>2. PICK kind \in InHand(t) : GivesUp(t, kind)
    BY <2>1
  <2>3. /\ kind \in Kinds
        /\ kind = "create" => calls[t].kind = "create"
        /\ kind \in {"bootstrap", "envd"} => calls[t].kind \in {"create", "resume"}
        /\ kind = "delete" => calls[t].kind \in {"create", "delete"}
        /\ kind = "stop" => calls[t].kind = "pause"
    BY <2>2, KindOf DEF InHand, At, Asked, Kinds
  <2>4. r.of = t /\ r.kind = kind
    BY <1>2, <2>2, <2>3, GivesUpOne DEF Fails, AppleInv
  <2> QED BY <1>2, <2>3, <2>4 DEF Target, Runtime!Reach, Kinds
<1>3. ASSUME NEW s \in Sandboxes
      PROVE  owedBar'[s] \subseteq owedBar[s] \cup Runtime!Reach(callBar[s])
  <2>1. ASSUME NEW r \in late', r.of = s
        PROVE  Target(r.kind) \subseteq owedBar[s] \cup Runtime!Reach(callBar[s])
    <3>1. CASE r \in late
      BY <2>1, <3>1 DEF owedBar
    <3>2. CASE r \notin late
      BY <1>2, <2>1, <3>2 DEF callBar
    <3> QED BY <3>1, <3>2
  <2>2. containers[s].status = "stopping" => "paused" \in owedBar[s]
    BY DEF owedBar
  <2>3. owedBar'[s] = (UNION {Target(r.kind) : r \in {q \in late' : q.of = s}})
                        \cup (IF containers[s].status = "stopping" THEN {"paused"} ELSE {})
    BY <1>1 DEF owedBar
  <2> QED BY <2>1, <2>2, <2>3
<1>4. owedBar' \in [Sandboxes -> SUBSET Runtime!States]
  BY DEF owedBar, Target, Runtime!States
<1>5. Runtime!Crash
  BY <1>1, <1>3, <1>4 DEF Runtime!Crash
<1> QED BY <1>5 DEF Runtime!CNext

\* Every step is one of the contract, or a stutter.
LEMMA StepImplements ==
  ASSUME AppleInv, [Next]_avars
  PROVE  [Runtime!CNext]_Runtime!cvars
<1>1. CASE UNCHANGED <<containers, calls, answers, late>>
  BY <1>1 DEF Runtime!cvars, rtBar, callBar, seenBar, owedBar, answerBar, State, Exists, Told, At
<1>2. CASE RestoreSandboxes
  BY <1>1, <1>2 DEF RestoreSandboxes
<1>3. ASSUME NEW s \in Sandboxes, CallStep(s)
      PROVE  Runtime!CNext
  BY <1>3, QuietImplements, CreateImplements, BootstrapImplements, healthCheckImplements,
     InspectSandboxImplements, DeleteSandboxImplements, PauseSandboxImplements
     DEF CallStep
<1>4. ASSUME NEW s \in Sandboxes, Arrive(s) \/ StopEnds(s) \/ ExternalChange(s)
      PROVE  Runtime!CNext
  BY <1>4, ArriveImplements, WorldImplements
<1> QED BY <1>1, <1>2, <1>3, <1>4, ProcessDiesImplements, LateRequestEndsImplements DEF Next, avars

\* AppleContainerRuntime keeps the contract of a runtime: the answers of its calls are
\* true although the lists lack containers and the health is asked for at a port, and what
\* requests do after their calls is what those calls have asked for.
THEOREM AppleImplementsRuntime == Spec => ImplementsRuntime
<1>1. Init => Runtime!CInit
  BY DEF Init, Runtime!CInit, rtBar, callBar, seenBar, owedBar, answerBar, State, Exists, NoContainer,
         Idle, Told, At
<1>2. AppleInv /\ [Next]_avars => [Runtime!CNext]_Runtime!cvars
  BY StepImplements
<1> QED BY <1>1, <1>2, AppleCorrect, PTL DEF Spec, ImplementsRuntime, Runtime!CSpec
===========================================================================
