------------------------- MODULE SandboxLifecycle -------------------------
(***************************************************************************)
(* The life of a sandbox in the gateway: the SandboxStore entry with its   *)
(* lifecycleMu, the sandboxDeadlineManager's timer and its callbacks, the  *)
(* runtime's sandbox (container or VM), and every handler that changes     *)
(* them (create, get/list, kill, pause, resume, connect, timeout, refresh, *)
(* snapshot, expiry, shutdown).                                            *)
(*                                                                         *)
(* lifecycleMu is op[s]: a handler that holds it is a record in op[s], and *)
(* Idle is the free mutex.  What runs outside it (timer firing, the two    *)
(* unlocked steps of create, the runtime's half of a snapshot, the world)  *)
(* interleaves with the steps of the holder.                               *)
(***************************************************************************)
EXTENDS Integers

CONSTANTS
  Sandboxes,          \* the ids newSandboxID hands out
  Requests,           \* the kinds of request the clients send
  Timeouts,           \* the timeouts a request asks for
  RetryDelay,         \* sandboxExpiryRetryDelay
  MaxTime,            \* bound: no deadline or retry is set beyond this instant
  LateFailures,       \* may a runtime call report an error after it took effect
  ExternalChanges,    \* what happens to a container behind the gateway's back
  SharedCreateWindow  \* may requests reach a sandbox between store.Create and
                      \* the syncSandboxDeadline of the create handler

RequestKinds ==
  {"get", "kill", "pause", "resume", "connect", "timeout", "refresh", "snapshot"}

\* The kinds that carry a timeout.
Renewals == {"resume", "connect", "timeout", "refresh"}

ASSUME ConstantsAssumption ==
  /\ Requests \subseteq RequestKinds
  /\ Timeouts \subseteq Nat
  /\ RetryDelay \in Nat \ {0}
  /\ MaxTime \in Nat
  /\ LateFailures \in BOOLEAN
  /\ ExternalChanges \subseteq {"die", "pause", "unpause"}
  /\ SharedCreateWindow \in BOOLEAN

VARIABLES
  clock,      \* time.Now()
  store,      \* SandboxStore.sandboxes
  rt,         \* the runtime's own state of the sandbox
  created,    \* the create request: how far it got, and the EndAt and OnTimeout
              \* that the backend writes into the sandbox's immutable labels
  timers,     \* sandboxDeadlineManager.timers
  callbacks,  \* expectedEndAt of every callback that waits for lifecycleMu
  op,         \* the handler that holds lifecycleMu
  commits,    \* the runtime's half of a snapshot, outside lifecycleMu
  stopped,    \* sandboxDeadlineManager.stopped
  promised,   \* history: the last EndAt a response told a client
  refused     \* history: a request on this sandbox was answered 404

vars == <<clock, store, rt, created, timers, callbacks, op, commits, stopped,
          promised, refused>>

Time == 0 .. MaxTime

Alive == {"running", "paused"}

Record == [state: {"absent"} \cup Alive, endAt: Time, onTimeout: {"kill", "pause"}]

Absent == [state |-> "absent", endAt |-> 0, onTimeout |-> "kill"]

Timer == [set: {"none", "armed", "fired"}, fireAt: Time, expected: Time, retry: BOOLEAN]

NoTimer == [set |-> "none", fireAt |-> 0, expected |-> 0, retry |-> FALSE]

\* "boot" is the reconciliation of the gateway's start (SandboxRestart).
Op == [kind: {"idle", "expire", "boot"} \cup RequestKinds,
       step: {"none", "inspect", "delete", "pause", "resume", "commit"},
       arg: Time]

Idle == [kind |-> "idle", step |-> "none", arg |-> 0]

Later(a, b) == IF a > b THEN a ELSE b

---------------------------------------------------------------------------
(* The deadline manager's table, as functions of one entry tm.             *)

\* schedule: ignored after shutdown; an entry with the same fireAt is reused even
\* if its timer has already fired; any other entry is stopped and replaced.
\* A retry instant is a clock reading of its own: it never equals an EndAt.
schedule(tm, at, expectedEndAt, isRetry) ==
  IF stopped \/ (tm.set # "none" /\ tm.fireAt = at /\ tm.retry = isRetry)
  THEN tm
  ELSE [set |-> "armed", fireAt |-> at, expected |-> expectedEndAt, retry |-> isRetry]

\* Mutation of syncSandboxDeadline: an existing timer is always reused.
syncReusesAnyTimer(tm, record) ==
  IF record.state # "running" THEN NoTimer
  ELSE IF tm.set # "none" THEN tm
  ELSE schedule(tm, record.endAt, record.endAt, FALSE)

\* cancel for anything but a running sandbox (EndAt is never zero in the store).
syncSandboxDeadline(tm, record) ==
  IF record.state = "running"
  THEN schedule(tm, record.endAt, record.endAt, FALSE)
  ELSE NoTimer

\* Mutation of scheduleExpiryRetry: the failure is only logged.
retryForgotten(tm, expectedEndAt) == tm

scheduleExpiryRetry(tm, expectedEndAt) ==
  schedule(tm, clock + RetryDelay, expectedEndAt, TRUE)

\* The store write and the timer sync that every locked transition ends with.
Put(s, record) ==
  /\ store' = [store EXCEPT ![s] = record]
  /\ timers' = [timers EXCEPT ![s] = syncSandboxDeadline(@, record)]

\* A runtime call that reports an error has done nothing, or, if failures come
\* late, has already moved the sandbox to its new state.
LateEffect(s, state) ==
  \/ UNCHANGED rt
  \/ LateFailures /\ rt' = [rt EXCEPT ![s] = state]

Unlock(s) == op' = [op EXCEPT ![s] = Idle]

sandboxRecordTerminallyExpired(record) ==
  /\ record.state = "running"
  /\ clock >= record.endAt
  /\ record.onTimeout # "pause"

---------------------------------------------------------------------------
(* Init.                                                                   *)

Init ==
  /\ clock = 0
  /\ store = [s \in Sandboxes |-> Absent]
  /\ rt = [s \in Sandboxes |-> "none"]
  /\ created = [s \in Sandboxes |-> [step |-> "none", endAt |-> 0, onTimeout |-> "kill"]]
  /\ timers = [s \in Sandboxes |-> NoTimer]
  /\ callbacks = [s \in Sandboxes |-> {}]
  /\ op = [s \in Sandboxes |-> Idle]
  /\ commits = [s \in Sandboxes |-> "none"]
  /\ stopped = FALSE
  /\ promised = [s \in Sandboxes |-> 0]
  /\ refused = [s \in Sandboxes |-> FALSE]

---------------------------------------------------------------------------
(* defaultCreateSandbox.  It never holds lifecycleMu.                      *)

\* The request: EndAt is fixed before the runtime is asked for the sandbox.
CreateBegin(s, timeout, onTimeout) ==
  /\ created[s].step = "none"
  /\ clock + timeout <= MaxTime
  /\ created' = [created EXCEPT ![s] =
       [step |-> "runtime", endAt |-> clock + timeout, onTimeout |-> onTimeout]]
  /\ UNCHANGED <<clock, store, rt, timers, callbacks, op, commits, stopped, promised, refused>>

\* runtime.CreateSandbox succeeds, or fails; its own cleanup (removeContainer,
\* cleanupMachine) may fail too, and that error is dropped.
CreateRuntime(s) ==
  /\ created[s].step = "runtime"
  /\ \/ /\ rt' = [rt EXCEPT ![s] = "running"]
        /\ created' = [created EXCEPT ![s].step = "store"]
     \/ /\ LateEffect(s, "running")
        /\ created' = [created EXCEPT ![s].step = "failed"]
  /\ UNCHANGED <<clock, store, timers, callbacks, op, commits, stopped, promised, refused>>

\* The record the create handler stores, and still has in hand when it syncs.
CreatedRecord(s) ==
  [state |-> "running", endAt |-> created[s].endAt, onTimeout |-> created[s].onTimeout]

\* store.Create: from here on the sandbox is listed.
CreateStore(s) ==
  /\ created[s].step = "store"
  /\ store' = [store EXCEPT ![s] = CreatedRecord(s)]
  /\ created' = [created EXCEPT ![s].step = "sync"]
  /\ UNCHANGED <<clock, rt, timers, callbacks, op, commits, stopped, promised, refused>>

\* syncSandboxDeadline(record) and the response, with the record as it was stored.
CreateSync(s) ==
  /\ created[s].step = "sync"
  /\ timers' = [timers EXCEPT ![s] = syncSandboxDeadline(@, CreatedRecord(s))]
  /\ created' = [created EXCEPT ![s].step = "done"]
  /\ promised' = [promised EXCEPT ![s] = Later(@, created[s].endAt)]
  /\ UNCHANGED <<clock, store, rt, callbacks, op, commits, stopped, refused>>

---------------------------------------------------------------------------
(* Requests on an existing sandbox: lockSandbox, then                      *)
(* reconcileSandboxRecordLocked, then the handler's own transition.        *)

\* lockSandbox returns this sandbox's entry.
Lockable(s) ==
  /\ store[s].state # "absent"
  /\ op[s] = Idle
  /\ created[s].step = "sync" => SharedCreateWindow

\* Mutation of LockAndCheck: the expiry check of the request path is dropped.
LockWithoutExpiryCheck(s, kind, timeout) ==
  /\ Lockable(s)
  /\ clock + timeout <= MaxTime
  /\ op' = [op EXCEPT ![s] = [kind |-> kind, step |-> "inspect", arg |-> timeout]]
  /\ UNCHANGED <<clock, store, rt, created, timers, callbacks, commits, stopped, promised, refused>>

\* The lock is taken and the sandbox is not terminally expired.
LockAndCheck(s, kind, timeout) ==
  /\ Lockable(s)
  /\ ~sandboxRecordTerminallyExpired(store[s])
  /\ clock + timeout <= MaxTime
  /\ op' = [op EXCEPT ![s] = [kind |-> kind, step |-> "inspect", arg |-> timeout]]
  /\ UNCHANGED <<clock, store, rt, created, timers, callbacks, commits, stopped, promised, refused>>

\* Terminally expired: the request only makes sure a timer will clean up; 404.
RefuseExpired(s) ==
  /\ Lockable(s)
  /\ sandboxRecordTerminallyExpired(store[s])
  /\ timers' = [timers EXCEPT ![s] = syncSandboxDeadline(@, store[s])]
  /\ refused' = [refused EXCEPT ![s] = TRUE]
  /\ UNCHANGED <<clock, store, rt, created, callbacks, op, commits, stopped, promised>>

\* lockSandbox finds no entry: 404.
RefuseAbsent(s) ==
  /\ created[s].step = "done"
  /\ store[s].state = "absent"
  /\ refused' = [refused EXCEPT ![s] = TRUE]
  /\ UNCHANGED <<clock, store, rt, created, timers, callbacks, op, commits, stopped, promised>>

\* What a handler does after reconciliation found the sandbox in this state;
\* "none" is a response (the record, or 409 for a pause or resume that is too late).
StepAfterReconcile(kind, state) ==
  CASE kind = "kill"                               -> "delete"
    [] kind = "pause" /\ state = "running"         -> "pause"
    [] kind = "resume" /\ state = "paused"         -> "resume"
    [] kind = "connect" /\ state = "paused"        -> "resume"
    [] kind = "connect" /\ state = "running"       -> "commit"
    [] kind \in {"timeout", "refresh"}             -> "commit"
    [] OTHER                                       -> "none"

\* InspectSandbox fails: the request fails; an expiry schedules its retry.
InspectFails(s) ==
  /\ op[s].step = "inspect"
  /\ \/ /\ op[s].kind # "expire"
        /\ UNCHANGED timers
     \/ /\ op[s].kind = "expire"
        /\ clock + RetryDelay <= MaxTime
        /\ timers' = [timers EXCEPT ![s] = scheduleExpiryRetry(@, op[s].arg)]
  /\ Unlock(s)
  /\ UNCHANGED <<clock, store, rt, created, callbacks, commits, stopped, promised, refused>>

\* The runtime has no such sandbox (or a dead one): deleteSandbox, best effort.
InspectMissing(s) ==
  /\ op[s].step = "inspect"
  /\ rt[s] \notin Alive
  /\ rt' \in {rt, [rt EXCEPT ![s] = "none"]}
  /\ Put(s, Absent)
  /\ refused' = [refused EXCEPT ![s] = @ \/ op[s].kind \in RequestKinds]
  /\ Unlock(s)
  /\ UNCHANGED <<clock, created, callbacks, commits, stopped, promised>>

\* The runtime's state replaces the store's; the timer follows; the request goes on.
InspectExists(s) ==
  LET record == [store[s] EXCEPT !.state = rt[s]]
      step == StepAfterReconcile(op[s].kind, rt[s])
  IN
  /\ op[s].step = "inspect"
  /\ op[s].kind # "expire"
  /\ rt[s] \in Alive
  /\ Put(s, record)
  /\ op' = [op EXCEPT ![s] = IF step = "none" THEN Idle ELSE [@ EXCEPT !.step = step]]
  /\ commits' = [commits EXCEPT ![s] = IF op[s].kind = "snapshot" THEN "pending" ELSE @]
  /\ UNCHANGED <<clock, rt, created, callbacks, stopped, promised, refused>>

---------------------------------------------------------------------------
(* The handlers' own transitions, in op[s].step.                           *)

\* runtime.DeleteSandbox succeeds, then store.Delete and deadlines.cancel.
DeleteSucceeds(s) ==
  /\ op[s].step = "delete"
  /\ rt' = [rt EXCEPT ![s] = "none"]
  /\ Put(s, Absent)
  /\ Unlock(s)
  /\ UNCHANGED <<clock, created, callbacks, commits, stopped, promised, refused>>

\* Mutation of DeleteFails: the required policy is treated as best effort.
DeleteFailureDropsRecord(s) ==
  /\ op[s].step = "delete"
  /\ Put(s, Absent)
  /\ Unlock(s)
  /\ UNCHANGED <<clock, rt, created, callbacks, commits, stopped, promised, refused>>

\* runtime.DeleteSandbox fails: the record stays; an expiry schedules its retry.
DeleteFails(s) ==
  /\ op[s].step = "delete"
  /\ \/ /\ op[s].kind # "expire"
        /\ UNCHANGED timers
     \/ /\ op[s].kind = "expire"
        /\ clock + RetryDelay <= MaxTime
        /\ timers' = [timers EXCEPT ![s] = scheduleExpiryRetry(@, op[s].arg)]
  /\ LateEffect(s, "none")
  /\ Unlock(s)
  /\ UNCHANGED <<clock, store, created, callbacks, commits, stopped, promised, refused>>

\* pauseSandboxLocked.  A runtime reports success for a sandbox that is already
\* paused, and Docker also for one that has died (a conflict is success).
PauseSucceeds(s) ==
  /\ op[s].step = "pause"
  /\ rt[s] # "none"
  /\ rt' = [rt EXCEPT ![s] = IF @ = "running" THEN "paused" ELSE @]
  /\ Put(s, [store[s] EXCEPT !.state = "paused"])
  /\ Unlock(s)
  /\ UNCHANGED <<clock, created, callbacks, commits, stopped, promised, refused>>

\* PauseSandbox fails: the request fails; an expiry asks the inspector first.
PauseFails(s) ==
  /\ op[s].step = "pause"
  /\ op[s].kind = "expire" => rt[s] \notin Alive \/ clock + RetryDelay <= MaxTime
  /\ IF rt[s] = "running" THEN LateEffect(s, "paused") ELSE UNCHANGED rt
  /\ op' = [op EXCEPT ![s] = IF op[s].kind = "expire" THEN [@ EXCEPT !.step = "inspect"] ELSE Idle]
  /\ UNCHANGED <<clock, store, created, timers, callbacks, commits, stopped, promised, refused>>

\* Mutation of RenewedEndAt: connect and refresh may shorten, as timeout may.
ShortenedEndAt(s) == clock + op[s].arg

\* The new EndAt is counted from now, after the lock and the runtime calls; only
\* resume and timeout may shorten it (ExtendEndAt, and connect's own maximum).
RenewedEndAt(s) ==
  IF op[s].kind \in {"connect", "refresh"}
  THEN Later(store[s].endAt, clock + op[s].arg)
  ELSE clock + op[s].arg

\* Resume and connect of a paused sandbox.
ResumeSucceeds(s) ==
  /\ op[s].step = "resume"
  /\ rt[s] \in Alive
  /\ rt' = [rt EXCEPT ![s] = "running"]
  /\ Put(s, [store[s] EXCEPT !.state = "running", !.endAt = RenewedEndAt(s)])
  /\ promised' = [promised EXCEPT ![s] = RenewedEndAt(s)]
  /\ Unlock(s)
  /\ UNCHANGED <<clock, created, callbacks, commits, stopped, refused>>

\* ResumeSandbox fails, perhaps after it woke the sandbox (its last step reads the
\* address or waits for envd).
ResumeFails(s) ==
  /\ op[s].step = "resume"
  /\ IF rt[s] \in Alive THEN LateEffect(s, "running") ELSE UNCHANGED rt
  /\ Unlock(s)
  /\ UNCHANGED <<clock, store, created, timers, callbacks, commits, stopped, promised, refused>>

\* Connect of a running sandbox, timeout and refresh.
CommitEndAt(s) ==
  /\ op[s].step = "commit"
  /\ Put(s, [store[s] EXCEPT !.endAt = RenewedEndAt(s)])
  /\ promised' = [promised EXCEPT ![s] = RenewedEndAt(s)]
  /\ Unlock(s)
  /\ UNCHANGED <<clock, rt, created, callbacks, commits, stopped, refused>>

---------------------------------------------------------------------------
(* Timers and expiry.                                                      *)

\* The timer goes off.  Its entry stays in the table; the callback passed the
\* stopped check (a stopped manager has no armed timer) and waits for lifecycleMu.
TimerFires(s) ==
  /\ timers[s].set = "armed"
  /\ clock >= timers[s].fireAt
  /\ timers' = [timers EXCEPT ![s].set = "fired"]
  /\ callbacks' = [callbacks EXCEPT ![s] = @ \cup {timers[s].expected}]
  /\ UNCHANGED <<clock, store, rt, created, op, commits, stopped, promised, refused>>

\* Mutation of Expirable: the deadline is the one the callback was created with.
ExpirableAsScheduled(record, expectedEndAt) ==
  record.state = "running" /\ clock >= expectedEndAt

\* The three conditions of expireSandboxLocked.
Expirable(record, expectedEndAt) ==
  /\ record.state = "running"
  /\ record.endAt = expectedEndAt
  /\ clock >= record.endAt

\* Mutation of ExpiryStep: every expiry deletes.
AlwaysDelete(record) == "delete"

ExpiryStep(record) == IF record.onTimeout = "pause" THEN "pause" ELSE "delete"

\* expireSandbox gets the lock; nothing to do cancels (no record) or returns.
ExpiryBegins(s, expectedEndAt) ==
  /\ expectedEndAt \in callbacks[s]
  /\ op[s] = Idle
  /\ callbacks' = [callbacks EXCEPT ![s] = @ \ {expectedEndAt}]
  /\ IF store[s].state = "absent"
     THEN timers' = [timers EXCEPT ![s] = NoTimer] /\ UNCHANGED op
     ELSE /\ UNCHANGED timers
          /\ op' = [op EXCEPT ![s] =
               IF Expirable(store[s], expectedEndAt)
               THEN [kind |-> "expire", step |-> ExpiryStep(store[s]), arg |-> expectedEndAt]
               ELSE Idle]
  /\ UNCHANGED <<clock, store, rt, created, commits, stopped, promised, refused>>

\* The pause of an expiry failed and the inspector answers: reconcile, and retry
\* unless the sandbox turns out to be paused.
ExpiryReconciles(s) ==
  LET record == [store[s] EXCEPT !.state = rt[s]]
      synced == syncSandboxDeadline(timers[s], record)
  IN
  /\ op[s].step = "inspect"
  /\ op[s].kind = "expire"
  /\ rt[s] \in Alive
  /\ store' = [store EXCEPT ![s] = record]
  /\ \/ /\ rt[s] = "paused"
        /\ timers' = [timers EXCEPT ![s] = synced]
     \/ /\ rt[s] = "running"
        /\ clock + RetryDelay <= MaxTime
        /\ timers' = [timers EXCEPT ![s] = scheduleExpiryRetry(synced, op[s].arg)]
  /\ Unlock(s)
  /\ UNCHANGED <<clock, rt, created, callbacks, commits, stopped, promised, refused>>

\* A handler that will still set a deadline or a retry finds room for it below the
\* bound MaxTime at instant t.
RoomFor(s, t) ==
  /\ op[s].kind \in Renewals => t + op[s].arg <= MaxTime
  /\ op[s].kind = "expire" /\ op[s].step = "inspect" => t + RetryDelay <= MaxTime

\* Time passes; at the bound it waits for the handlers that need room.
Tick ==
  /\ clock < MaxTime
  /\ \A s \in Sandboxes : RoomFor(s, clock + 1)
  /\ clock' = clock + 1
  /\ UNCHANGED <<store, rt, created, timers, callbacks, op, commits, stopped, promised, refused>>

\* sandboxDeadlineManager.shutdown: every timer is stopped and forgotten; callbacks
\* under way go on.
Shutdown ==
  /\ ~stopped
  /\ stopped' = TRUE
  /\ timers' = [s \in Sandboxes |-> NoTimer]
  /\ UNCHANGED <<clock, store, rt, created, callbacks, op, commits, promised, refused>>

---------------------------------------------------------------------------
(* What happens to the runtime's sandbox outside lifecycleMu.              *)

\* ContainerCommit with Pause: a running container is paused for the commit.
SnapshotPauses(s) ==
  /\ commits[s] = "pending"
  /\ IF rt[s] = "running"
     THEN /\ rt' = [rt EXCEPT ![s] = "paused"]
          /\ commits' = [commits EXCEPT ![s] = "paused"]
     ELSE /\ commits' = [commits EXCEPT ![s] = "none"]
          /\ UNCHANGED rt
  /\ UNCHANGED <<clock, store, created, timers, callbacks, op, stopped, promised, refused>>

\* ... and woken when the commit is done.
SnapshotResumes(s) ==
  /\ commits[s] = "paused"
  /\ rt' = [rt EXCEPT ![s] = IF @ = "paused" THEN "running" ELSE @]
  /\ commits' = [commits EXCEPT ![s] = "none"]
  /\ UNCHANGED <<clock, store, created, timers, callbacks, op, stopped, promised, refused>>

\* The container dies, or an operator pauses or unpauses it.
ExternalChange(s) ==
  /\ \/ "die" \in ExternalChanges /\ rt[s] \in Alive /\ rt' = [rt EXCEPT ![s] = "dead"]
     \/ "pause" \in ExternalChanges /\ rt[s] = "running" /\ rt' = [rt EXCEPT ![s] = "paused"]
     \/ "unpause" \in ExternalChanges /\ rt[s] = "paused" /\ rt' = [rt EXCEPT ![s] = "running"]
  /\ UNCHANGED <<clock, store, created, timers, callbacks, op, commits, stopped, promised, refused>>

---------------------------------------------------------------------------
(* The specification.                                                      *)

\* A client's new request.
Arrive(s) ==
  \/ \E t \in Timeouts, a \in {"kill", "pause"} : CreateBegin(s, t, a)
  \/ \E k \in Requests : \E t \in IF k \in Renewals THEN Timeouts ELSE {0} : LockAndCheck(s, k, t)
  \/ RefuseExpired(s)
  \/ RefuseAbsent(s)

\* The next step of a create under way.
CreateStep(s) == CreateRuntime(s) \/ CreateStore(s) \/ CreateSync(s)

\* The next step of the handler that holds lifecycleMu.
LockedStep(s) ==
  \/ InspectFails(s) \/ InspectMissing(s) \/ InspectExists(s)
  \/ DeleteSucceeds(s) \/ DeleteFails(s)
  \/ PauseSucceeds(s) \/ PauseFails(s)
  \/ ResumeSucceeds(s) \/ ResumeFails(s)
  \/ CommitEndAt(s)
  \/ ExpiryReconciles(s)

Expiry(s) ==
  \/ TimerFires(s)
  \/ \E e \in callbacks[s] : ExpiryBegins(s, e)

Outside(s) ==
  \/ SnapshotPauses(s) \/ SnapshotResumes(s)
  \/ ExternalChange(s)

Next ==
  \/ Tick
  \/ Shutdown
  \/ \E s \in Sandboxes : Arrive(s) \/ CreateStep(s) \/ LockedStep(s) \/ Expiry(s) \/ Outside(s)

Spec == Init /\ [][Next]_vars

\* Handlers, callbacks, snapshots and timers make progress and time passes; a
\* callback that waits for lifecycleMu gets it even when requests compete for it
\* (a Go mutex hands itself to a waiter that starves).  Time is strongly fair only
\* because the bound makes it wait for handlers.  No request has to arrive.
Fairness ==
  /\ SF_vars(Tick)
  /\ \A s \in Sandboxes :
       /\ WF_vars(CreateStep(s))
       /\ WF_vars(LockedStep(s))
       /\ WF_vars(TimerFires(s))
       /\ SF_vars(\E e \in callbacks[s] : ExpiryBegins(s, e))
       /\ WF_vars(SnapshotPauses(s) \/ SnapshotResumes(s))

FairSpec == Spec /\ Fairness

---------------------------------------------------------------------------
(* Properties.                                                             *)

\* What the handlers write is a record, a timer entry and a handler state of their
\* types, and no deadline or retry lies beyond the bound.
TypeOK ==
  /\ clock \in Time
  /\ store \in [Sandboxes -> Record]
  /\ rt \in [Sandboxes -> {"none", "dead"} \cup Alive]
  /\ created \in [Sandboxes -> [step: {"none", "runtime", "failed", "store", "sync", "done"},
                                endAt: Time, onTimeout: {"kill", "pause"}]]
  /\ timers \in [Sandboxes -> Timer]
  /\ callbacks \in [Sandboxes -> SUBSET Time]
  /\ op \in [Sandboxes -> Op]
  /\ commits \in [Sandboxes -> {"none", "pending", "paused"}]
  /\ stopped \in BOOLEAN
  /\ promised \in [Sandboxes -> Time]
  /\ refused \in [Sandboxes -> BOOLEAN]

\* The callback of this deadline is on its way: its timer is armed, or it has
\* fired and waits for lifecycleMu.
Watched(s) ==
  \/ timers[s].set = "armed" /\ timers[s].expected = store[s].endAt
  \/ store[s].endAt \in callbacks[s]

\* "timers actively expire sandboxes" (sandboxDeadlineManager): as long as the
\* manager runs, a sandbox the store calls running is watched for the EndAt the
\* store has now, whatever handlers, failures and stale callbacks came before;
\* only a create that has not answered and an expiry under way are exempt.
ExpiryCovered ==
  \A s \in Sandboxes :
    store[s].state = "running" /\ ~stopped /\ created[s].step # "sync" /\ op[s].kind # "expire"
      => Watched(s)

\* expireSandboxLocked acts only past the deadline the client was last told: a
\* callback of an earlier deadline never pauses or deletes a renewed sandbox.
NoExpiryBeforePromise ==
  \A s \in Sandboxes : op[s].kind = "expire" => clock >= promised[s]

\* Expiry is irreversible (reconcileSandboxRecordLocked): once a request was
\* answered 404, the sandbox is out of the store or stays expired until it is, so
\* no later request can be answered otherwise, however often its cleanup fails.
RefusedStaysRefused ==
  \A s \in Sandboxes :
    refused[s] => \/ store[s].state = "absent"
                  \/ /\ store[s].state = "running"
                     /\ store[s].onTimeout = "kill"
                     /\ store[s].endAt <= clock
                     /\ op[s].kind \in {"idle", "expire"}

\* A sandbox that lives in the runtime is never lost from the store: deletion with
\* the required policy keeps the record when the runtime fails, and a record is
\* dropped only for a sandbox the runtime no longer has.  The one leak the code
\* allows is a create that failed and whose cleanup failed too.
NoOrphanRuntime ==
  \A s \in Sandboxes :
    rt[s] \in Alive => store[s].state # "absent" \/ created[s].step \in {"store", "failed"}

\* A live sandbox is removed from the runtime only by a kill request, or by the
\* expiry of a kill-on-timeout sandbox whose deadline has passed: autoPause
\* sandboxes "are paused instead of deleted when their timeout expires".
OnlyKillOrExpiryDestroys ==
  [][\A s \in Sandboxes :
       rt[s] \in Alive /\ rt'[s] = "none"
         => \/ op[s].kind = "kill"
            \/ /\ op[s].kind = "expire"
               /\ store[s].onTimeout = "kill"
               /\ store[s].endAt <= clock]_vars

\* connect and refresh never shorten a deadline (ExtendEndAt), not even when they
\* wake a paused sandbox whose deadline is still to come.
OnlyTimeoutShortens ==
  [][\A s \in Sandboxes :
       store'[s].state # "absent" /\ store'[s].endAt < store[s].endAt
         => op[s].kind \in {"timeout", "resume"}]_vars

\* The sandbox is past its deadline according to the store.
Overdue(s) == ~stopped /\ store[s].state = "running" /\ clock >= store[s].endAt

\* An overdue sandbox does not stay overdue: it is paused, deleted or renewed,
\* through failed runtime calls, retries and reconciliations.
ExpiredIsHandled == \A s \in Sandboxes : Overdue(s) ~> ~Overdue(s)
===========================================================================
