-------------------------- MODULE SandboxRestart --------------------------
(***************************************************************************)
(* SandboxLifecycle with a gateway process that dies and starts again.     *)
(*                                                                         *)
(* The store, the timers and the handlers are memory of the process; the   *)
(* runtime's sandboxes survive, with the labels written when they were     *)
(* created.  NewAppWithCallbacks restores the records from the runtime,    *)
(* reconciles them twice and rebuilds the timers before it serves; expiry  *)
(* callbacks of the timers it has set already run meanwhile.               *)
(***************************************************************************)
EXTENDS SandboxLifecycle

CONSTANT MaxRestarts   \* bound: how often the process dies

ASSUME RestartAssumption == MaxRestarts \in Nat

VARIABLES
  phase,     \* serving, down, or the part of NewAppWithCallbacks that runs
  todo,      \* the sandboxes its loop has still to visit
  listed,    \* the records the loop iterates over (a snapshot)
  restarts

bootVars == <<phase, todo, listed, restarts>>
allVars == <<vars, bootVars>>

Booting == {"restore", "reconcile", "sync"}

Present == {s \in Sandboxes : store[s].state # "absent"}

NoBootOp == \A s \in Sandboxes : op[s].kind # "boot"

BootInit ==
  /\ Init
  /\ phase = "serving"
  /\ todo = {}
  /\ listed = [s \in Sandboxes |-> Absent]
  /\ restarts = 0

\* A create under way ends with its process, before or after it reached the runtime.
StepAfterDeath(s) ==
  CASE rt[s] \in Alive \/ created[s].step \in {"store", "sync"} -> "done"
    [] rt[s] \notin Alive /\ created[s].step = "runtime"        -> "failed"
    [] OTHER                                                    -> created[s].step

\* The process ends: what was in memory is gone, a create under way included.  A
\* commit that has paused its container is the daemon's and still ends.
ProcessDies ==
  /\ phase' = "down"
  /\ todo' = {}
  /\ listed' = [s \in Sandboxes |-> Absent]
  /\ store' = [s \in Sandboxes |-> Absent]
  /\ timers' = [s \in Sandboxes |-> NoTimer]
  /\ callbacks' = [s \in Sandboxes |-> {}]
  /\ op' = [s \in Sandboxes |-> Idle]
  /\ created' = [s \in Sandboxes |-> [created[s] EXCEPT !.step = StepAfterDeath(s)]]
  /\ commits' = [s \in Sandboxes |-> IF commits[s] = "paused" THEN "paused" ELSE "none"]
  /\ stopped' = FALSE
  /\ UNCHANGED <<clock, rt, promised, refused, restarts>>

Crash == phase # "down" /\ restarts < MaxRestarts /\ ProcessDies

\* Mutation of RestoredRecord: the labels of deadline and policy are not read.
RestoredWithoutLabels(s) == [state |-> rt[s], endAt |-> clock, onTimeout |-> "kill"]

\* restoreSandboxRecord: the state the runtime reports, EndAt and OnTimeout as the
\* labels have them since creation.
RestoredRecord(s) ==
  [state |-> rt[s], endAt |-> created[s].endAt, onTimeout |-> created[s].onTimeout]

\* Mutation of Restorable: paused sandboxes are left out.
RestorableIfRunning == {s \in Sandboxes : rt[s] = "running"}

\* RestoreSandboxes lists what the runtime has, running or paused.
Restorable == {s \in Sandboxes : rt[s] \in Alive}

StartProcess ==
  /\ phase = "down"
  /\ phase' = "restore"
  /\ restarts' = restarts + 1
  /\ todo' = Restorable
  /\ listed' = [s \in Sandboxes |-> IF s \in Restorable THEN RestoredRecord(s) ELSE Absent]
  /\ UNCHANGED vars

\* reconcileSandboxRecord at boot, as far as the inspector: an expired
\* kill-on-timeout record only gets its timer.
BootReconcile(s, record) ==
  IF sandboxRecordTerminallyExpired(record)
  THEN /\ timers' = [timers EXCEPT ![s] = syncSandboxDeadline(@, record)]
       /\ UNCHANGED op
  ELSE /\ op' = [op EXCEPT ![s] = [kind |-> "boot", step |-> "inspect", arg |-> 0]]
       /\ UNCHANGED timers

\* The loop of restoreRuntimeSandboxes: store.Create, then reconcile.
RestoreOne(s) ==
  /\ phase = "restore" /\ s \in todo /\ NoBootOp
  /\ todo' = todo \ {s}
  /\ store' = [store EXCEPT ![s] = listed[s]]
  /\ BootReconcile(s, listed[s])
  /\ UNCHANGED <<clock, rt, created, callbacks, commits, stopped, promised, refused,
                 phase, listed, restarts>>

\* The loop of reconcileStoredSandboxes; it waits for lifecycleMu.
ReconcileOne(s) ==
  /\ phase = "reconcile" /\ s \in todo /\ NoBootOp /\ op[s] = Idle
  /\ todo' = todo \ {s}
  /\ IF s \in Present THEN BootReconcile(s, store[s]) ELSE UNCHANGED <<op, timers>>
  /\ UNCHANGED <<clock, store, rt, created, callbacks, commits, stopped, promised, refused,
                 phase, listed, restarts>>

\* The loop of restoreSandboxDeadlines: the listed record, without lifecycleMu.
ResyncOne(s) ==
  /\ phase = "sync" /\ s \in todo
  /\ todo' = todo \ {s}
  /\ timers' = [timers EXCEPT ![s] = syncSandboxDeadline(@, listed[s])]
  /\ UNCHANGED <<clock, store, rt, created, callbacks, op, commits, stopped, promised, refused,
                 phase, listed, restarts>>

\* One loop ends and the next lists the store; after the last the gateway serves.
NextPhase ==
  /\ phase \in Booting /\ todo = {} /\ NoBootOp
  /\ phase' = CASE phase = "restore"   -> "reconcile"
                [] phase = "reconcile" -> "sync"
                [] phase = "sync"      -> "serving"
  /\ todo' = IF phase = "sync" THEN {} ELSE Present
  /\ listed' = IF phase = "sync" THEN [s \in Sandboxes |-> Absent] ELSE store
  /\ UNCHANGED <<vars, restarts>>

\* An inspection that fails ends the start: NewAppWithCallbacks returns the error.
BootFails(s) ==
  /\ op[s].kind = "boot"
  /\ restarts < MaxRestarts
  /\ ProcessDies

\* What goes on while the gateway starts.  A reconciliation of the start has no
\* InspectFails: that is BootFails.
Background(s) ==
  \/ Expiry(s)
  \/ Outside(s)
  \/ op[s].kind = "boot" /\ (InspectMissing(s) \/ InspectExists(s))
  \/ op[s].kind # "boot" /\ LockedStep(s)

BootStep(s) == RestoreOne(s) \/ ReconcileOne(s) \/ ResyncOne(s)

RestartNext ==
  \/ phase = "serving" /\ Next /\ UNCHANGED bootVars
  \/ /\ phase \in Booting
     /\ Tick \/ \E s \in Sandboxes : Background(s)
     /\ UNCHANGED bootVars
  \/ /\ phase = "down"
     /\ Tick \/ \E s \in Sandboxes : Outside(s)
     /\ UNCHANGED bootVars
  \/ Crash
  \/ StartProcess
  \/ NextPhase
  \/ \E s \in Sandboxes : BootStep(s) \/ BootFails(s)

RestartSpec == BootInit /\ [][RestartNext]_allVars

---------------------------------------------------------------------------
(* Properties.                                                             *)

\* Once a restarted gateway serves, it knows every sandbox that lives in the
\* runtime, whenever the previous process died, a create between the runtime's
\* and the store's half and a sandbox that a failed create left behind included:
\* restoreRuntimeSandboxes loses none.
ServedRuntimesAreKnown ==
  phase = "serving" =>
    \A s \in Sandboxes :
      rt[s] \in Alive => store[s].state # "absent" \/ created[s].step \in {"store", "failed"}

\* Once a restarted gateway serves, every sandbox it holds to be running is
\* watched for the EndAt it holds, although three loops and the expiry callbacks
\* of the timers they set have raced for the table during the start.
RestoredAreCovered == phase = "serving" => ExpiryCovered
===========================================================================
