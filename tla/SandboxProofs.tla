---------------------------- MODULE SandboxProofs ----------------------------
(***************************************************************************)
(* Theorems about SandboxLifecycle and SandboxRestart, for every set of    *)
(* sandboxes and requests, every bound, every set of timeouts and every    *)
(* number of deaths of the process.  The first part is about one process   *)
(* that serves; the second, about the starts, uses what the first says of  *)
(* the steps of the lifecycle.                                             *)
(***************************************************************************)
EXTENDS SandboxRestart, TLAPS

---------------------------------------------------------------------------
(* Type correctness.                                                       *)

\* The holder of lifecycleMu is in a step of its own kind of handler, and a
\* renewal still has room for the deadline it will set.
Holder(s) ==
  /\ op[s].kind \in Renewals => clock + op[s].arg <= MaxTime
  /\ op[s].step \in {"resume", "commit"} => op[s].kind \in Renewals
  /\ op[s].step = "delete" => op[s].kind \in {"kill", "expire"}
  /\ op[s].kind = "idle" => op[s] = Idle

TypeInv == TypeOK /\ \A s \in Sandboxes : Holder(s)

\* schedule, with any instants below the bound, returns a table entry.
LEMMA ScheduleType ==
  ASSUME NEW tm \in Timer, NEW at \in Time, NEW e \in Time, NEW r \in BOOLEAN
  PROVE  schedule(tm, at, e, r) \in Timer
BY DEF schedule, Timer

\* syncSandboxDeadline returns a table entry.
LEMMA SyncType ==
  ASSUME NEW tm \in Timer, NEW record \in Record
  PROVE  syncSandboxDeadline(tm, record) \in Timer
<1>1. record.endAt \in Time
  BY DEF Record
<1>2. NoTimer \in Timer
  BY ConstantsAssumption DEF NoTimer, Timer, Time
<1> QED BY <1>1, <1>2, ScheduleType DEF syncSandboxDeadline

\* A store write with its timer sync keeps both tables well typed.
LEMMA PutType ==
  ASSUME TypeOK, NEW s \in Sandboxes, NEW record \in Record, Put(s, record)
  PROVE  store' \in [Sandboxes -> Record] /\ timers' \in [Sandboxes -> Timer]
<1>1. syncSandboxDeadline(timers[s], record) \in Timer
  BY SyncType DEF TypeOK
<1> QED BY <1>1 DEF Put, TypeOK

\* The retry of a failed expiry is a table entry.
LEMMA RetryType ==
  ASSUME TypeOK, clock + RetryDelay <= MaxTime, NEW tm \in Timer, NEW e \in Time
  PROVE  scheduleExpiryRetry(tm, e) \in Timer
<1>1. clock + RetryDelay \in Time
  BY ConstantsAssumption DEF TypeOK, Time
<1> QED BY <1>1, ScheduleType DEF scheduleExpiryRetry

\* The empty record, the free mutex and the empty table entry have their types.
LEMMA EmptyTypes == Absent \in Record /\ Idle \in Op /\ NoTimer \in Timer
BY ConstantsAssumption DEF Absent, Record, Idle, Op, NoTimer, Timer, Time

\* A step that releases lifecycleMu leaves the holders as they should be.
LEMMA UnlockType ==
  ASSUME TypeInv, NEW s \in Sandboxes, Unlock(s), clock' = clock
  PROVE  op' \in [Sandboxes -> Op] /\ \A t \in Sandboxes : Holder(t)'
<1>1. op' \in [Sandboxes -> Op]
  BY EmptyTypes DEF TypeInv, TypeOK, Unlock
<1>2. ASSUME NEW t \in Sandboxes PROVE Holder(t)'
  BY DEF TypeInv, TypeOK, Holder, Unlock, Idle, Renewals
<1> QED BY <1>1, <1>2

\* So does a step that leaves lifecycleMu and the clock alone.
LEMMA SameHolders ==
  ASSUME TypeInv, op' = op, clock' = clock
  PROVE  op' \in [Sandboxes -> Op] /\ \A t \in Sandboxes : Holder(t)'
BY DEF TypeInv, TypeOK, Holder

\* The deadline that a renewal sets is below the bound.
LEMMA RenewedType ==
  ASSUME TypeInv, NEW s \in Sandboxes, op[s].kind \in Renewals
  PROVE  RenewedEndAt(s) \in Time
BY ConstantsAssumption DEF TypeInv, TypeOK, Holder, RenewedEndAt, Later, Record, Op, Time

\* Init is well typed.
LEMMA TypeInit == Init => TypeInv
<1> SUFFICES ASSUME Init PROVE TypeInv
  OBVIOUS
<1>1. 0 \in Time
  BY ConstantsAssumption DEF Time
<1>2. TypeOK
  BY <1>1, EmptyTypes DEF Init, TypeOK
<1>3. \A s \in Sandboxes : Holder(s)
  BY DEF Init, Holder, Idle, Renewals
<1> QED BY <1>2, <1>3 DEF TypeInv

\* Every step of a create keeps the types.
LEMMA TypeCreate ==
  ASSUME TypeInv, NEW s \in Sandboxes,
         CreateStep(s) \/ \E t \in Timeouts, a \in {"kill", "pause"} : CreateBegin(s, t, a)
  PROVE  TypeInv'
<1>1. CASE \E t \in Timeouts, a \in {"kill", "pause"} : CreateBegin(s, t, a)
  <2> PICK t \in Timeouts, a \in {"kill", "pause"} : CreateBegin(s, t, a)
    BY <1>1
  <2>1. clock + t \in Time
    BY ConstantsAssumption DEF CreateBegin, TypeInv, TypeOK, Time
  <2> QED BY <2>1, SameHolders DEF CreateBegin, TypeInv, TypeOK
<1>2. CASE CreateRuntime(s)
  <2>1. rt' \in [Sandboxes -> {"none", "dead"} \cup Alive]
    BY <1>2 DEF CreateRuntime, LateEffect, TypeInv, TypeOK, Alive
  <2>2. created' \in [Sandboxes -> [step: {"none", "runtime", "failed", "store", "sync", "done"},
                                    endAt: Time, onTimeout: {"kill", "pause"}]]
    <3>1. PICK step \in {"store", "failed"} : created' = [created EXCEPT ![s].step = step]
      BY <1>2 DEF CreateRuntime
    <3> QED BY <3>1 DEF TypeInv, TypeOK
  <2> QED BY <1>2, <2>1, <2>2, SameHolders DEF CreateRuntime, TypeInv, TypeOK
<1>3. CASE CreateStore(s)
  BY <1>3, SameHolders DEF CreateStore, CreatedRecord, TypeInv, TypeOK, Record, Alive
<1>4. CASE CreateSync(s)
  <2>1. CreatedRecord(s) \in Record
    BY DEF CreatedRecord, TypeInv, TypeOK, Record, Alive
  <2>2. syncSandboxDeadline(timers[s], CreatedRecord(s)) \in Timer
    BY <2>1, SyncType DEF TypeInv, TypeOK
  <2> QED BY <1>4, <2>2, SameHolders DEF CreateSync, Later, TypeInv, TypeOK
<1> QED BY <1>1, <1>2, <1>3, <1>4 DEF CreateStep

\* Every arrival of a request keeps the types.
LEMMA TypeArrive ==
  ASSUME TypeInv, NEW s \in Sandboxes, Arrive(s)
  PROVE  TypeInv'
<1>1. CASE \E t \in Timeouts, a \in {"kill", "pause"} : CreateBegin(s, t, a)
  BY <1>1, TypeCreate
<1>2. CASE \E k \in Requests : \E t \in IF k \in Renewals THEN Timeouts ELSE {0} : LockAndCheck(s, k, t)
  <2> PICK k \in Requests, t \in Timeouts \cup {0} : LockAndCheck(s, k, t)
    BY <1>2
  <2>1. clock + t <= MaxTime /\ t \in Time /\ k \in RequestKinds
    BY ConstantsAssumption DEF LockAndCheck, TypeInv, TypeOK, Time
  <2>2. op' \in [Sandboxes -> Op]
    BY <2>1 DEF LockAndCheck, TypeInv, TypeOK, Op
  <2>3. \A u \in Sandboxes : Holder(u)'
    BY <2>1 DEF LockAndCheck, TypeInv, TypeOK, Holder, RequestKinds
  <2> QED BY <2>2, <2>3 DEF LockAndCheck, TypeInv, TypeOK
<1>3. CASE RefuseExpired(s)
  <2>1. syncSandboxDeadline(timers[s], store[s]) \in Timer
    BY SyncType DEF TypeInv, TypeOK
  <2> QED BY <1>3, <2>1, SameHolders DEF RefuseExpired, TypeInv, TypeOK
<1>4. CASE RefuseAbsent(s)
  BY <1>4, SameHolders DEF RefuseAbsent, TypeInv, TypeOK
<1> QED BY <1>1, <1>2, <1>3, <1>4 DEF Arrive

\* Every step of the handler that holds lifecycleMu keeps the types.
LEMMA TypeLocked ==
  ASSUME TypeInv, NEW s \in Sandboxes, LockedStep(s)
  PROVE  TypeInv'
<1> USE DEF TypeInv
<1>0. op[s].arg \in Time /\ timers[s] \in Timer /\ store[s] \in Record
  BY DEF TypeOK, Op
<1>1. CASE InspectFails(s)
  <2>0. clock + RetryDelay <= MaxTime => scheduleExpiryRetry(timers[s], op[s].arg) \in Timer
    BY <1>0, RetryType
  <2>1. timers' \in [Sandboxes -> Timer]
    BY <1>1, <2>0 DEF InspectFails, TypeOK
  <2> QED BY <1>1, <2>1, UnlockType DEF InspectFails, TypeOK
<1>2. CASE InspectMissing(s)
  <2>1. store' \in [Sandboxes -> Record] /\ timers' \in [Sandboxes -> Timer]
    BY <1>2, PutType, EmptyTypes DEF InspectMissing
  <2>2. refused' \in [Sandboxes -> BOOLEAN]
    BY <1>2 DEF InspectMissing, TypeOK
  <2>3. rt' \in [Sandboxes -> {"none", "dead"} \cup Alive]
    BY <1>2 DEF InspectMissing, TypeOK
  <2> QED BY <1>2, <2>1, <2>2, <2>3, UnlockType DEF InspectMissing, TypeOK
<1>3. CASE InspectExists(s)
  <2> DEFINE step == StepAfterReconcile(op[s].kind, rt[s])
  <2>1. [store[s] EXCEPT !.state = rt[s]] \in Record
    BY <1>3, <1>0 DEF InspectExists, Record
  <2>2. store' \in [Sandboxes -> Record] /\ timers' \in [Sandboxes -> Timer]
    BY <1>3, <2>1, PutType DEF InspectExists
  <2>3. /\ step \in {"none", "delete", "pause", "resume", "commit"}
        /\ step \in {"resume", "commit"} => op[s].kind \in Renewals
        /\ step = "delete" => op[s].kind = "kill"
    BY DEF StepAfterReconcile, Renewals
  <2> HIDE DEF step
  <2>4. op' = [op EXCEPT ![s] = IF step = "none" THEN Idle ELSE [@ EXCEPT !.step = step]]
    BY <1>3 DEF InspectExists, step
  <2>5. op' \in [Sandboxes -> Op]
    BY <2>3, <2>4, EmptyTypes DEF TypeOK, Op
  <2>6. ASSUME NEW t \in Sandboxes PROVE Holder(t)'
    BY <1>3, <2>3, <2>4 DEF InspectExists, TypeOK, Op, Holder, Idle, Renewals
  <2>7. commits' \in [Sandboxes -> {"none", "pending", "paused"}]
    BY <1>3 DEF InspectExists, TypeOK
  <2> QED BY <1>3, <2>2, <2>5, <2>6, <2>7 DEF InspectExists, TypeOK
<1>4. CASE DeleteSucceeds(s)
  <2>1. store' \in [Sandboxes -> Record] /\ timers' \in [Sandboxes -> Timer]
    BY <1>4, PutType, EmptyTypes DEF DeleteSucceeds
  <2> QED BY <1>4, <2>1, UnlockType DEF DeleteSucceeds, TypeOK
<1>5. CASE DeleteFails(s)
  <2>0. clock + RetryDelay <= MaxTime => scheduleExpiryRetry(timers[s], op[s].arg) \in Timer
    BY <1>0, RetryType
  <2>1. timers' \in [Sandboxes -> Timer]
    BY <1>5, <2>0 DEF DeleteFails, TypeOK
  <2> QED BY <1>5, <2>1, UnlockType DEF DeleteFails, LateEffect, TypeOK
<1>6. CASE PauseSucceeds(s)
  <2>1. [store[s] EXCEPT !.state = "paused"] \in Record
    BY <1>0 DEF Record, Alive
  <2>2. store' \in [Sandboxes -> Record] /\ timers' \in [Sandboxes -> Timer]
    BY <1>6, <2>1, PutType DEF PauseSucceeds
  <2> QED BY <1>6, <2>2, UnlockType DEF PauseSucceeds, TypeOK, Alive
<1>7. CASE PauseFails(s)
  <2>1. op' \in [Sandboxes -> Op]
    BY <1>7, EmptyTypes DEF PauseFails, TypeOK, Op
  <2>2. ASSUME NEW t \in Sandboxes PROVE Holder(t)'
    BY <1>7 DEF PauseFails, TypeOK, Op, Holder, Idle, Renewals
  <2> QED BY <1>7, <2>1, <2>2 DEF PauseFails, LateEffect, TypeOK, Alive
<1>8. CASE ResumeSucceeds(s)
  <2>1. RenewedEndAt(s) \in Time
    BY <1>8, RenewedType DEF ResumeSucceeds, Holder
  <2>2. [store[s] EXCEPT !.state = "running", !.endAt = RenewedEndAt(s)] \in Record
    BY <1>0, <2>1 DEF Record, Alive
  <2>3. store' \in [Sandboxes -> Record] /\ timers' \in [Sandboxes -> Timer]
    BY <1>8, <2>2, PutType DEF ResumeSucceeds
  <2> QED BY <1>8, <2>1, <2>3, UnlockType DEF ResumeSucceeds, TypeOK, Alive
<1>9. CASE ResumeFails(s)
  BY <1>9, UnlockType DEF ResumeFails, LateEffect, TypeOK, Alive
<1>10. CASE CommitEndAt(s)
  <2>1. RenewedEndAt(s) \in Time
    BY <1>10, RenewedType DEF CommitEndAt, Holder
  <2>2. [store[s] EXCEPT !.endAt = RenewedEndAt(s)] \in Record
    BY <1>0, <2>1 DEF Record
  <2>3. store' \in [Sandboxes -> Record] /\ timers' \in [Sandboxes -> Timer]
    BY <1>10, <2>2, PutType DEF CommitEndAt
  <2> QED BY <1>10, <2>1, <2>3, UnlockType DEF CommitEndAt, TypeOK
<1>11. CASE ExpiryReconciles(s)
  <2>1. [store[s] EXCEPT !.state = rt[s]] \in Record
    BY <1>11, <1>0 DEF ExpiryReconciles, Record
  <2>2. syncSandboxDeadline(timers[s], [store[s] EXCEPT !.state = rt[s]]) \in Timer
    BY <1>0, <2>1, SyncType
  <2>3. timers' \in [Sandboxes -> Timer]
    BY <1>0, <1>11, <2>2, RetryType DEF ExpiryReconciles, TypeOK
  <2> QED BY <1>11, <2>1, <2>3, UnlockType DEF ExpiryReconciles, TypeOK
<1> QED BY <1>1, <1>2, <1>3, <1>4, <1>5, <1>6, <1>7, <1>8, <1>9, <1>10, <1>11 DEF LockedStep

\* Timers, expiry callbacks and the world outside lifecycleMu keep the types.
LEMMA TypeOutside ==
  ASSUME TypeInv, NEW s \in Sandboxes, Expiry(s) \/ Outside(s)
  PROVE  TypeInv'
<1> USE DEF TypeInv
<1>1. CASE TimerFires(s)
  <2>1. /\ timers' \in [Sandboxes -> Timer]
        /\ callbacks' \in [Sandboxes -> SUBSET Time]
    BY <1>1 DEF TimerFires, TypeOK, Timer
  <2>2. TypeOK'
    BY <1>1, <2>1 DEF TimerFires, TypeOK
  <2> QED BY <1>1, <2>2, SameHolders DEF TimerFires
<1>2. CASE \E e \in callbacks[s] : ExpiryBegins(s, e)
  <2> PICK e \in callbacks[s] : ExpiryBegins(s, e)
    BY <1>2
  <2>1. e \in Time /\ ExpiryStep(store[s]) \in {"pause", "delete"}
    BY DEF TypeOK, ExpiryStep
  <2>2. op' \in [Sandboxes -> Op]
    BY <2>1, EmptyTypes DEF ExpiryBegins, TypeOK, Op
  <2>3. ASSUME NEW t \in Sandboxes PROVE Holder(t)'
    BY <2>1 DEF ExpiryBegins, TypeOK, Op, Holder, Idle, Renewals
  <2> QED BY <2>2, <2>3, EmptyTypes DEF ExpiryBegins, TypeOK
<1>3. CASE Outside(s)
  BY <1>3, SameHolders DEF Outside, SnapshotPauses, SnapshotResumes, ExternalChange, TypeOK, Alive
<1> QED BY <1>1, <1>2, <1>3 DEF Expiry

\* Every step keeps the types.
LEMMA TypeStep == TypeInv /\ [Next]_vars => TypeInv'
<1> SUFFICES ASSUME TypeInv, [Next]_vars PROVE TypeInv'
  OBVIOUS
<1>1. CASE Tick
  <2>1. clock' \in Time
    BY <1>1, ConstantsAssumption DEF Tick, TypeInv, TypeOK, Time
  <2>2. ASSUME NEW s \in Sandboxes PROVE Holder(s)'
    BY <1>1 DEF Tick, RoomFor, TypeInv, Holder
  <2> QED BY <1>1, <2>1, <2>2 DEF Tick, TypeInv, TypeOK
<1>2. CASE Shutdown
  BY <1>2, SameHolders, EmptyTypes DEF Shutdown, TypeInv, TypeOK
<1>3. ASSUME NEW s \in Sandboxes,
             Arrive(s) \/ CreateStep(s) \/ LockedStep(s) \/ Expiry(s) \/ Outside(s)
      PROVE  TypeInv'
  BY <1>3, TypeArrive, TypeCreate, TypeLocked, TypeOutside
<1>4. CASE UNCHANGED vars
  BY <1>4, SameHolders DEF vars, TypeInv, TypeOK
<1> QED BY <1>1, <1>2, <1>3, <1>4 DEF Next

\* Type correctness: every handler, timer callback and failure leaves store,
\* timer table, callbacks and locks in range, and no deadline exceeds the bound.
THEOREM TypeCorrect == Spec => []TypeOK
<1>1. Spec => []TypeInv
  BY TypeInit, TypeStep, PTL DEF Spec
<1> QED BY <1>1, PTL DEF TypeInv

---------------------------------------------------------------------------
(* The core of the inductive invariant: what lifecycleMu protects.         *)

\* Before store.Create only the create handler knows the sandbox.
PreStore(s) ==
  created[s].step \notin {"sync", "done"} =>
    /\ op[s] = Idle
    /\ store[s] = Absent
    /\ ~refused[s]
    /\ created[s].step \notin {"store", "failed"} => rt[s] = "none"

\* lifecycleMu is held of a stored sandbox, and an expiry under way works on the
\* deadline that is in the store, which has passed.
HeldRecord(s) ==
  /\ op[s] # Idle => store[s].state # "absent"
  /\ op[s].kind = "expire" =>
       /\ store[s].state = "running"
       /\ op[s].arg = store[s].endAt
       /\ store[s].endAt <= clock
       /\ op[s].step = "delete" <=> store[s].onTimeout = "kill"

\* RefusedStaysRefused and NoOrphanRuntime, of one sandbox.
RefusedExpired(s) ==
  refused[s] => \/ store[s].state = "absent"
                \/ /\ store[s].state = "running"
                   /\ store[s].onTimeout = "kill"
                   /\ store[s].endAt <= clock
                   /\ op[s].kind \in {"idle", "expire"}

Known(s) == rt[s] \in Alive => store[s].state # "absent" \/ created[s].step \in {"store", "failed"}

\* What every step relies on, whatever became of the two properties.
Lock(s) == PreStore(s) /\ HeldRecord(s)

LockInv == TypeInv /\ \A s \in Sandboxes : Lock(s)

CoreInv == LockInv /\ \A s \in Sandboxes : RefusedExpired(s) /\ Known(s)

\* The step keeps the lock's part of s, and either property of s if it held.
CoreKept(s) ==
  /\ Lock(s)'
  /\ RefusedExpired(s) => RefusedExpired(s)'
  /\ Known(s) => Known(s)'

\* The step leaves the clock and every sandbox but s alone.
OnlyTouches(s) ==
  /\ clock' = clock
  /\ stopped' = stopped
  /\ \A t \in Sandboxes \ {s} :
       /\ store'[t] = store[t]
       /\ rt'[t] = rt[t]
       /\ created'[t] = created[t]
       /\ timers'[t] = timers[t]
       /\ callbacks'[t] = callbacks[t]
       /\ op'[t] = op[t]
       /\ commits'[t] = commits[t]
       /\ promised'[t] = promised[t]
       /\ refused'[t] = refused[t]

\* Every step but the passing of time and the shutdown touches one sandbox.
LEMMA Locality ==
  ASSUME TypeOK, NEW s \in Sandboxes,
         Arrive(s) \/ CreateStep(s) \/ LockedStep(s) \/ Expiry(s) \/ Outside(s)
  PROVE  OnlyTouches(s)
<1> USE DEF TypeOK, OnlyTouches
<1>1. CASE Arrive(s)
  BY <1>1 DEF Arrive, CreateBegin, LockAndCheck, RefuseExpired, RefuseAbsent
<1>2. CASE CreateStep(s)
  BY <1>2 DEF CreateStep, CreateRuntime, LateEffect, CreateStore, CreateSync
<1>3. CASE InspectFails(s) \/ InspectMissing(s) \/ InspectExists(s)
  BY <1>3 DEF InspectFails, InspectMissing, InspectExists, Put, Unlock
<1>4. CASE DeleteSucceeds(s) \/ DeleteFails(s) \/ PauseSucceeds(s) \/ PauseFails(s)
  BY <1>4 DEF DeleteSucceeds, DeleteFails, PauseSucceeds, PauseFails, LateEffect, Put, Unlock
<1>5. CASE ResumeSucceeds(s) \/ ResumeFails(s) \/ CommitEndAt(s) \/ ExpiryReconciles(s)
  BY <1>5 DEF ResumeSucceeds, ResumeFails, CommitEndAt, ExpiryReconciles, LateEffect, Put, Unlock
<1>6. CASE Expiry(s)
  BY <1>6 DEF Expiry, TimerFires, ExpiryBegins
<1>7. CASE Outside(s)
  BY <1>7 DEF Outside, SnapshotPauses, SnapshotResumes, ExternalChange
<1> QED BY <1>1, <1>2, <1>3, <1>4, <1>5, <1>6, <1>7 DEF LockedStep

\* So it only has to keep that sandbox's part of the invariant.
LEMMA OneCore ==
  ASSUME LockInv, NEW s \in Sandboxes, OnlyTouches(s), CoreKept(s)
  PROVE  \A t \in Sandboxes : CoreKept(t)
<1>1. ASSUME NEW t \in Sandboxes, t # s PROVE CoreKept(t)
  BY <1>1 DEF LockInv, OnlyTouches, CoreKept, Lock, PreStore, HeldRecord, RefusedExpired, Known
<1> QED BY <1>1

\* The handler that holds lifecycleMu works on a stored sandbox, and on one that a
\* client was refused only if it is the expiry.
LEMMA HolderFacts ==
  ASSUME LockInv, NEW s \in Sandboxes, op[s].step # "none"
  PROVE  /\ op[s] # Idle /\ op[s].kind # "idle"
         /\ created[s].step \in {"sync", "done"}
         /\ store[s].state # "absent"
         /\ store[s] \in Record
         /\ RefusedExpired(s) /\ refused[s] => op[s].kind = "expire"
<1>1. op[s] # Idle /\ op[s].kind # "idle"
  BY DEF LockInv, TypeInv, Holder, Idle
<1>2. created[s].step \in {"sync", "done"} /\ store[s].state # "absent"
  BY <1>1 DEF LockInv, Lock, TypeInv, TypeOK, PreStore, HeldRecord
<1>3. RefusedExpired(s) /\ refused[s] => op[s].kind = "expire"
  BY <1>1, <1>2 DEF RefusedExpired
<1> QED BY <1>1, <1>2, <1>3 DEF LockInv, TypeInv, TypeOK

\* A handler that releases lifecycleMu keeps the core if it revives nothing and
\* drops no record of a live sandbox.
LEMMA UnlockKeeps ==
  ASSUME LockInv, NEW s \in Sandboxes, op[s].step # "none", op'[s] = Idle,
         UNCHANGED <<clock, created>>,
         \/ store'[s].state = "absent" /\ rt'[s] \notin Alive
         \/ store'[s].state # "absent" /\ (RefusedExpired(s) => ~refused'[s])
         \/ store'[s] = store[s] /\ (refused'[s] => refused[s])
  PROVE  CoreKept(s)
<1>1. Lock(s)' /\ Known(s)'
  BY HolderFacts DEF Lock, PreStore, HeldRecord, Known, Idle
<1>2. RefusedExpired(s) => RefusedExpired(s)'
  BY HolderFacts DEF RefusedExpired, Idle
<1> QED BY <1>1, <1>2 DEF CoreKept

\* Init establishes the core.
LEMMA CoreInit == Init => CoreInv
<1> SUFFICES ASSUME Init PROVE CoreInv
  OBVIOUS
<1>1. ASSUME NEW s \in Sandboxes PROVE Lock(s) /\ RefusedExpired(s) /\ Known(s)
  BY DEF Init, Lock, PreStore, HeldRecord, RefusedExpired, Known, Idle, Absent, Alive
<1> QED BY <1>1, TypeInit DEF CoreInv, LockInv

\* Creates and arriving requests keep the core, also in the window between
\* store.Create and the answer.
LEMMA CoreUnlocked ==
  ASSUME LockInv, NEW s \in Sandboxes, Arrive(s) \/ CreateStep(s)
  PROVE  \A t \in Sandboxes : CoreKept(t)
<1> USE DEF CoreKept, Lock
<1>0. TypeOK /\ Lock(s) /\ OnlyTouches(s)
  BY Locality DEF LockInv, TypeInv
<1> SUFFICES CoreKept(s)
  BY <1>0, OneCore
<1>1. CASE \E t \in Timeouts, a \in {"kill", "pause"} : CreateBegin(s, t, a)
  <2>1. /\ created[s].step = "none" /\ created'[s].step = "runtime"
        /\ UNCHANGED <<clock, store, rt, op, refused>>
    BY <1>0, <1>1 DEF CreateBegin, TypeOK
  <2> QED BY <1>0, <2>1 DEF PreStore, HeldRecord, RefusedExpired, Known, Absent
<1>2. CASE \E k \in Requests : \E t \in IF k \in Renewals THEN Timeouts ELSE {0} : LockAndCheck(s, k, t)
  <2> PICK k \in Requests, t \in Timeouts \cup {0} : LockAndCheck(s, k, t)
    BY <1>2
  <2>1. store[s].state # "absent" /\ op[s] = Idle /\ ~sandboxRecordTerminallyExpired(store[s])
    BY DEF LockAndCheck, Lockable
  <2>2. RefusedExpired(s) => ~refused[s]
    BY <1>0, <2>1 DEF RefusedExpired, sandboxRecordTerminallyExpired, TypeOK, Record, Time
  <2>3. /\ op'[s].kind \in RequestKinds
        /\ UNCHANGED <<clock, store, rt, created, refused>>
    BY <1>0, ConstantsAssumption DEF LockAndCheck, TypeOK
  <2> QED BY <1>0, <2>1, <2>2, <2>3 DEF PreStore, HeldRecord, RefusedExpired, Known, RequestKinds, Absent
<1>3. CASE RefuseExpired(s)
  <2>1. /\ store[s].state # "absent" /\ op[s] = Idle /\ sandboxRecordTerminallyExpired(store[s])
        /\ UNCHANGED <<clock, store, rt, created, op>>
    BY <1>3 DEF RefuseExpired, Lockable
  <2>2. RefusedExpired(s)'
    BY <1>0, <2>1 DEF RefusedExpired, sandboxRecordTerminallyExpired, TypeOK, Record, Time, Idle
  <2> QED BY <1>0, <2>1, <2>2 DEF PreStore, HeldRecord, Known, Absent
<1>4. CASE RefuseAbsent(s)
  BY <1>0, <1>4 DEF RefuseAbsent, PreStore, HeldRecord, RefusedExpired, Known
<1>5. CASE CreateRuntime(s)
  <2>1. /\ created[s].step = "runtime"
        /\ created'[s].step \in {"store", "failed"}
        /\ UNCHANGED <<clock, store, op, refused>>
    BY <1>0, <1>5 DEF CreateRuntime, TypeOK
  <2> QED BY <1>0, <2>1 DEF PreStore, HeldRecord, RefusedExpired, Known, Absent, Alive
<1>6. CASE CreateStore(s)
  <2>1. /\ created[s].step = "store" /\ created'[s].step = "sync"
        /\ store'[s].state = "running"
        /\ UNCHANGED <<clock, rt, op, refused>>
    BY <1>0, <1>6 DEF CreateStore, CreatedRecord, TypeOK
  <2> QED BY <1>0, <2>1 DEF PreStore, HeldRecord, RefusedExpired, Known, Idle
<1>7. CASE CreateSync(s)
  <2>1. /\ created[s].step = "sync" /\ created'[s].step = "done"
        /\ UNCHANGED <<clock, store, rt, op, refused>>
    BY <1>0, <1>7 DEF CreateSync, TypeOK
  <2> QED BY <1>0, <2>1 DEF PreStore, HeldRecord, RefusedExpired, Known
<1> QED BY <1>1, <1>2, <1>3, <1>4, <1>5, <1>6, <1>7 DEF Arrive, CreateStep

\* Every step of the handler that holds lifecycleMu keeps the core.
LEMMA CoreLocked ==
  ASSUME LockInv, NEW s \in Sandboxes, LockedStep(s)
  PROVE  \A t \in Sandboxes : CoreKept(t)
<1>0. TypeOK /\ Lock(s) /\ OnlyTouches(s)
  BY Locality DEF LockInv, TypeInv
<1> SUFFICES CoreKept(s)
  BY <1>0, OneCore
<1>a. op[s].step # "none"
  BY DEF LockedStep, InspectFails, InspectMissing, InspectExists, DeleteSucceeds, DeleteFails,
         PauseSucceeds, PauseFails, ResumeSucceeds, ResumeFails, CommitEndAt, ExpiryReconciles
<1>b. Unlock(s) => op'[s] = Idle
  BY <1>0 DEF Unlock, TypeOK
<1>c. ASSUME NEW record, Put(s, record) PROVE store'[s] = record
  BY <1>0, <1>c DEF Put, TypeOK
<1>d. op[s].step \in {"pause", "inspect", "resume", "commit"} /\ RefusedExpired(s) => ~refused[s]
  BY <1>0, <1>a, HolderFacts DEF Lock, RefusedExpired, HeldRecord
<1>1. CASE InspectFails(s) \/ DeleteFails(s) \/ ResumeFails(s)
  BY <1>a, <1>b, <1>1, UnlockKeeps DEF InspectFails, DeleteFails, ResumeFails
<1>2. CASE InspectMissing(s) \/ DeleteSucceeds(s)
  <2>1. store'[s].state = "absent" /\ rt'[s] \notin Alive
    BY <1>0, <1>2, <1>c DEF InspectMissing, DeleteSucceeds, Absent, Alive, TypeOK
  <2> QED BY <1>a, <1>b, <1>2, <2>1, UnlockKeeps DEF InspectMissing, DeleteSucceeds
<1>3. CASE PauseSucceeds(s) \/ ResumeSucceeds(s) \/ CommitEndAt(s) \/ ExpiryReconciles(s)
  <2>1. /\ op'[s] = Idle
        /\ UNCHANGED <<clock, created, refused>>
        /\ RefusedExpired(s) => ~refused[s]
    BY <1>b, <1>d, <1>3 DEF PauseSucceeds, ResumeSucceeds, CommitEndAt, ExpiryReconciles
  <2>2. store[s] \in Record /\ store[s].state # "absent"
    BY <1>a, HolderFacts
  <2>3. store'[s].state # "absent"
    <3>1. CASE PauseSucceeds(s)
      BY <1>c, <2>2, <3>1 DEF PauseSucceeds, Record
    <3>2. CASE ResumeSucceeds(s)
      BY <1>c, <2>2, <3>2 DEF ResumeSucceeds, Record
    <3>3. CASE CommitEndAt(s)
      BY <1>c, <2>2, <3>3 DEF CommitEndAt, Record
    <3>4. CASE ExpiryReconciles(s)
      BY <1>0, <2>2, <3>4 DEF ExpiryReconciles, Record, Alive, TypeOK
    <3> QED BY <1>3, <3>1, <3>2, <3>3, <3>4
  <2> QED BY <1>a, <2>1, <2>3, UnlockKeeps
<1>4. CASE InspectExists(s)
  <2>1. store'[s] = [store[s] EXCEPT !.state = rt[s]] /\ store[s] \in Record /\ rt[s] \in Alive
    BY <1>a, <1>c, <1>4, HolderFacts DEF InspectExists
  <2>2. /\ op[s].kind # "expire" /\ op'[s].kind # "expire"
        /\ RefusedExpired(s) => ~refused[s]
        /\ UNCHANGED <<clock, rt, created, refused>>
    BY <1>0, <1>4, <1>d DEF InspectExists, TypeOK, Op, Idle
  <2> QED BY <1>a, <2>1, <2>2, HolderFacts DEF CoreKept, Lock, PreStore, HeldRecord, RefusedExpired, Known, Record, Alive
<1>5. CASE PauseFails(s)
  <2>1. /\ \/ op[s].kind = "expire" /\ op'[s] = [op[s] EXCEPT !.step = "inspect"]
           \/ op[s].kind # "expire" /\ op'[s] = Idle
        /\ op[s].step = "pause"
        /\ UNCHANGED <<clock, store, created, refused>>
    BY <1>0, <1>5 DEF PauseFails, TypeOK
  <2> QED BY <1>0, <1>a, <1>d, <2>1, HolderFacts
          DEF CoreKept, Lock, PreStore, HeldRecord, RefusedExpired, Known, Idle, TypeOK, Op
<1> QED BY <1>1, <1>2, <1>3, <1>4, <1>5 DEF LockedStep

\* Timers, expiry callbacks and the world outside lifecycleMu keep the core.
LEMMA CoreOutside ==
  ASSUME LockInv, NEW s \in Sandboxes, Expiry(s) \/ Outside(s)
  PROVE  \A t \in Sandboxes : CoreKept(t)
<1>0. TypeOK /\ Lock(s) /\ OnlyTouches(s)
  BY Locality DEF LockInv, TypeInv
<1> SUFFICES CoreKept(s)
  BY <1>0, OneCore
<1> USE DEF CoreKept, Lock
<1>1. CASE TimerFires(s)
  BY <1>0, <1>1 DEF TimerFires, PreStore, HeldRecord, RefusedExpired, Known
<1>2. CASE \E e \in callbacks[s] : ExpiryBegins(s, e)
  <2> PICK e \in callbacks[s] : ExpiryBegins(s, e)
    BY <1>2
  <2>1. /\ op[s] = Idle
        /\ UNCHANGED <<clock, store, rt, created, refused>>
        /\ \/ op'[s] = Idle
           \/ /\ op'[s] = [kind |-> "expire", step |-> ExpiryStep(store[s]), arg |-> e]
              /\ Expirable(store[s], e)
    BY <1>0 DEF ExpiryBegins, TypeOK
  <2>2. CASE op'[s] = Idle
    BY <1>0, <2>1, <2>2 DEF PreStore, HeldRecord, RefusedExpired, Known
  <2>3. CASE op'[s] # Idle
    <3>1. HeldRecord(s)'
      BY <1>0, <2>1, <2>3 DEF HeldRecord, Expirable, ExpiryStep, TypeOK, Record, Time
    <3> QED BY <1>0, <2>1, <2>3, <3>1 DEF PreStore, RefusedExpired, Known, Expirable, Absent
  <2> QED BY <2>2, <2>3
<1>3. CASE Outside(s)
  <2>1. /\ rt'[s] \in Alive => rt[s] \in Alive
        /\ rt[s] = "none" => rt'[s] = "none"
    BY <1>0, <1>3 DEF Outside, SnapshotPauses, SnapshotResumes, ExternalChange, TypeOK, Alive
  <2>2. UNCHANGED <<clock, store, created, op, refused>>
    BY <1>3 DEF Outside, SnapshotPauses, SnapshotResumes, ExternalChange
  <2> QED BY <1>0, <2>1, <2>2 DEF PreStore, HeldRecord, RefusedExpired, Known
<1> QED BY <1>1, <1>2, <1>3 DEF Expiry

\* Every step keeps the lock's part, and either property where it held.
LEMMA LockStep == LockInv /\ [Next]_vars => LockInv' /\ \A s \in Sandboxes : CoreKept(s)
<1> SUFFICES ASSUME LockInv, [Next]_vars PROVE LockInv' /\ \A s \in Sandboxes : CoreKept(s)
  OBVIOUS
<1>0. TypeInv'
  BY TypeStep DEF LockInv
<1> SUFFICES \A s \in Sandboxes : CoreKept(s)
  BY <1>0 DEF LockInv, CoreKept
<1>1. CASE Tick
  <2> SUFFICES ASSUME NEW s \in Sandboxes PROVE CoreKept(s)
    OBVIOUS
  <2>1. /\ clock' = clock + 1 /\ clock \in Nat /\ store[s].endAt \in Nat
        /\ UNCHANGED <<store, rt, created, op, refused>>
    BY <1>1, ConstantsAssumption DEF Tick, LockInv, TypeInv, TypeOK, Time, Record
  <2> QED BY <2>1 DEF LockInv, CoreKept, Lock, PreStore, HeldRecord, RefusedExpired, Known
<1>2. CASE Shutdown \/ UNCHANGED vars
  <2> SUFFICES ASSUME NEW s \in Sandboxes PROVE CoreKept(s)
    OBVIOUS
  <2> QED BY <1>2 DEF Shutdown, vars, LockInv, CoreKept, Lock, PreStore, HeldRecord, RefusedExpired, Known
<1>3. ASSUME NEW s \in Sandboxes,
             Arrive(s) \/ CreateStep(s) \/ LockedStep(s) \/ Expiry(s) \/ Outside(s)
      PROVE  \A t \in Sandboxes : CoreKept(t)
  BY <1>3, CoreUnlocked, CoreLocked, CoreOutside
<1> QED BY <1>1, <1>2, <1>3 DEF Next

\* So every step keeps the core.
LEMMA CoreStep == CoreInv /\ [Next]_vars => CoreInv'
BY LockStep DEF CoreInv, CoreKept

\* The core holds in every reachable state.
LEMMA CoreInvariance == Spec => []CoreInv
BY CoreInit, CoreStep, PTL DEF Spec

---------------------------------------------------------------------------
(* The rest of the inductive invariant: what ties the timer table and the  *)
(* answers to the store.  It needs creates to be answered before requests  *)
(* reach the sandbox.                                                      *)

\* Until the create handler has answered nobody else has touched the sandbox.
UnansweredCreate(s) ==
  created[s].step # "done" =>
    /\ op[s] = Idle
    /\ callbacks[s] = {}
    /\ timers[s].set = "none"
    /\ promised[s] = 0
    /\ store[s] = IF created[s].step = "sync" THEN CreatedRecord(s) ELSE Absent

\* Only a running sandbox has a table entry, and it is for the deadline in the
\* store; a fired entry has its callback waiting or at work.
TimerOfRecord(s) ==
  /\ stopped \/ store[s].state # "running" => timers[s].set = "none"
  /\ ~stopped /\ store[s].state = "running" /\ created[s].step = "done" => timers[s].set # "none"
  /\ timers[s].set # "none" =>
       /\ timers[s].expected = store[s].endAt
       /\ timers[s].expected <= timers[s].fireAt
       /\ ~timers[s].retry => timers[s].fireAt = timers[s].expected
  /\ timers[s].set = "fired" =>
       /\ timers[s].fireAt <= clock
       /\ store[s].endAt \in callbacks[s] \/ op[s].kind = "expire"
  /\ \A e \in callbacks[s] : e <= clock

\* The client was told the deadline that is in the store.
PromiseStored(s) ==
  created[s].step = "done" /\ store[s].state # "absent" => promised[s] = store[s].endAt

Linked(s) == UnansweredCreate(s) /\ TimerOfRecord(s) /\ PromiseStored(s)

AnsweredInv == LockInv /\ \A s \in Sandboxes : UnansweredCreate(s)

IndInv == CoreInv /\ \A s \in Sandboxes : Linked(s)

\* The step leaves unanswered creates alone, and keeps either link of s if it held.
LinkKept(s) ==
  /\ UnansweredCreate(s)'
  /\ TimerOfRecord(s) => TimerOfRecord(s)'
  /\ PromiseStored(s) => PromiseStored(s)'

\* A step that touches one sandbox only has to keep that sandbox's links.
LEMMA OneLinked ==
  ASSUME AnsweredInv, NEW s \in Sandboxes, OnlyTouches(s), LinkKept(s)
  PROVE  \A t \in Sandboxes : LinkKept(t)
<1>1. ASSUME NEW t \in Sandboxes, t # s PROVE LinkKept(t)
  <2>1. /\ UNCHANGED <<clock, stopped>>
        /\ UNCHANGED <<store[t], created[t], timers[t], callbacks[t], op[t], promised[t]>>
    BY <1>1 DEF OnlyTouches
  <2>2. UnansweredCreate(t)'
    BY <2>1 DEF AnsweredInv, UnansweredCreate, CreatedRecord
  <2>3. TimerOfRecord(t) => TimerOfRecord(t)'
    BY <2>1 DEF TimerOfRecord
  <2>4. PromiseStored(t) => PromiseStored(t)'
    BY <2>1 DEF PromiseStored
  <2> QED BY <2>2, <2>3, <2>4 DEF LinkKept
<1> QED BY <1>1

\* What syncSandboxDeadline makes of the entry of a sandbox whose record becomes
\* record: the right entry, and a fired one only if it is the one there was.
LEMMA SyncedTimer ==
  ASSUME TypeOK, NEW s \in Sandboxes, TimerOfRecord(s), NEW record \in Record,
         NEW tm, tm = syncSandboxDeadline(timers[s], record)
  PROVE  /\ stopped \/ record.state # "running" => tm.set = "none"
         /\ ~stopped /\ record.state = "running" => tm.set # "none"
         /\ tm.set # "none" =>
              /\ tm.expected = record.endAt
              /\ tm.expected <= tm.fireAt
              /\ ~tm.retry => tm.fireAt = tm.expected
         /\ tm.set = "fired" =>
              /\ tm.fireAt <= clock
              /\ record.endAt = store[s].endAt
              /\ store[s].endAt \in callbacks[s] \/ op[s].kind = "expire"
<1>1. timers[s] \in Timer /\ record.endAt \in Nat
  BY ConstantsAssumption DEF TypeOK, Record, Time
<1>2. CASE record.state # "running"
  BY <1>2 DEF syncSandboxDeadline, NoTimer
<1>3. CASE record.state = "running" /\ stopped
  BY <1>1, <1>3 DEF syncSandboxDeadline, schedule, TimerOfRecord
<1>4. CASE record.state = "running" /\ ~stopped /\ tm = timers[s]
  BY <1>1, <1>4 DEF syncSandboxDeadline, schedule, TimerOfRecord, Timer
<1>5. CASE record.state = "running" /\ ~stopped /\ tm # timers[s]
  BY <1>1, <1>5 DEF syncSandboxDeadline, schedule
<1> QED BY <1>2, <1>3, <1>4, <1>5

\* A handler that ends its transition with a store write and a timer sync, and is
\* no expiry that leaves the sandbox running, restores the links.
LEMMA PutKeeps ==
  ASSUME AnsweredInv, NEW s \in Sandboxes, NEW record \in Record, Put(s, record),
         UNCHANGED <<clock, created, callbacks, stopped>>,
         created[s].step = "done",
         op[s].kind = "expire" => record.state # "running",
         PromiseStored(s) /\ record.state # "absent" => promised'[s] = record.endAt
  PROVE  LinkKept(s)
<1>1. TypeOK
  BY DEF AnsweredInv, LockInv, TypeInv
<1>2. /\ store'[s] = record
      /\ timers'[s] = syncSandboxDeadline(timers[s], record)
  BY <1>1 DEF Put, TypeOK
<1>3. TimerOfRecord(s) => TimerOfRecord(s)'
  BY <1>1, <1>2, SyncedTimer DEF TimerOfRecord
<1>4. UnansweredCreate(s)' /\ (PromiseStored(s) => PromiseStored(s)')
  BY <1>2 DEF UnansweredCreate, PromiseStored
<1> QED BY <1>3, <1>4 DEF LinkKept

\* A retry replaces the fired entry of an expiry that failed by an armed one.
LEMMA RetryArmed ==
  ASSUME LockInv, NEW s \in Sandboxes, op[s].kind = "expire",
         NEW tm \in Timer,
         stopped => tm.set = "none",
         tm.set = "armed" => tm.expected = store[s].endAt,
         tm.set = "fired" => tm.fireAt <= clock,
         NEW new, new = scheduleExpiryRetry(tm, op[s].arg)
  PROVE  /\ stopped => new.set = "none"
         /\ ~stopped => /\ new.set = "armed"
                        /\ new.expected = store[s].endAt
                        /\ new.expected <= new.fireAt
                        /\ new.retry
<1>1. clock \in Nat /\ RetryDelay \in Nat /\ RetryDelay > 0 /\ store[s].endAt \in Nat
  BY ConstantsAssumption DEF LockInv, TypeInv, TypeOK, Time, Record
<1>2. op[s].arg = store[s].endAt /\ store[s].endAt <= clock
  BY DEF LockInv, Lock, HeldRecord
<1>3. CASE stopped
  BY <1>3 DEF scheduleExpiryRetry, schedule
<1>4. CASE ~stopped /\ new = tm
  BY <1>1, <1>2, <1>4 DEF scheduleExpiryRetry, schedule, Timer
<1>5. CASE ~stopped /\ new # tm
  BY <1>1, <1>2, <1>5 DEF scheduleExpiryRetry, schedule
<1> QED BY <1>3, <1>4, <1>5

\* A failed step of a handler: the record stays, and an expiry has its retry armed.
LEMMA FailureKeeps ==
  ASSUME AnsweredInv, NEW s \in Sandboxes, created[s].step = "done",
         UNCHANGED <<clock, store, created, callbacks, stopped, promised>>,
         \/ op[s].kind # "expire" /\ UNCHANGED timers
         \/ op[s].kind = "expire"
            /\ timers' = [timers EXCEPT ![s] = scheduleExpiryRetry(@, op[s].arg)]
  PROVE  LinkKept(s)
<1>1. UnansweredCreate(s)' /\ (PromiseStored(s) => PromiseStored(s)')
  BY DEF UnansweredCreate, PromiseStored
<1> SUFFICES ASSUME TimerOfRecord(s) PROVE TimerOfRecord(s)'
  BY <1>1 DEF LinkKept
<1>2. CASE op[s].kind # "expire"
  BY <1>2 DEF TimerOfRecord
<1>3. CASE op[s].kind = "expire"
  <2>1. /\ LockInv
        /\ store[s].state = "running"
        /\ timers[s] \in Timer
        /\ timers'[s] = scheduleExpiryRetry(timers[s], op[s].arg)
    BY <1>3 DEF AnsweredInv, LockInv, TypeInv, TypeOK, Lock, HeldRecord
  <2>2. /\ stopped => timers'[s].set = "none"
        /\ ~stopped => /\ timers'[s].set = "armed"
                       /\ timers'[s].expected = store[s].endAt
                       /\ timers'[s].expected <= timers'[s].fireAt
                       /\ timers'[s].retry
    BY <1>3, <2>1, RetryArmed DEF TimerOfRecord
  <2> QED BY <2>1, <2>2 DEF TimerOfRecord
<1> QED BY <1>2, <1>3

\* Init establishes the links.
LEMMA IndInit == Init => IndInv
<1> SUFFICES ASSUME Init PROVE IndInv
  OBVIOUS
<1>1. ASSUME NEW s \in Sandboxes PROVE Linked(s)
  BY DEF Init, Linked, UnansweredCreate, TimerOfRecord, PromiseStored, NoTimer, Absent
<1> QED BY <1>1, CoreInit DEF IndInv

\* Creates keep the links, and so do requests that leave unanswered creates alone.
LEMMA IndUnlocked ==
  ASSUME ~SharedCreateWindow, AnsweredInv, NEW s \in Sandboxes, Arrive(s) \/ CreateStep(s)
  PROVE  \A t \in Sandboxes : LinkKept(t)
<1>0. TypeOK /\ Lock(s) /\ UnansweredCreate(s) /\ OnlyTouches(s)
  BY Locality DEF AnsweredInv, LockInv, TypeInv
<1> SUFFICES LinkKept(s)
  BY <1>0, OneLinked
<1> USE DEF LinkKept
<1>1. CASE \E t \in Timeouts, a \in {"kill", "pause"} : CreateBegin(s, t, a)
  <2>1. /\ created[s].step = "none" /\ created'[s].step = "runtime"
        /\ UNCHANGED <<clock, store, timers, callbacks, op, stopped, promised>>
    BY <1>0, <1>1 DEF CreateBegin, TypeOK
  <2> QED BY <1>0, <2>1 DEF UnansweredCreate, TimerOfRecord, PromiseStored
<1>2. CASE \E k \in Requests : \E t \in IF k \in Renewals THEN Timeouts ELSE {0} : LockAndCheck(s, k, t)
  <2>1. /\ store[s].state # "absent" /\ op[s] = Idle /\ created[s].step # "sync"
        /\ UNCHANGED <<clock, store, created, timers, callbacks, stopped, promised>>
    BY <1>2 DEF LockAndCheck, Lockable
  <2>2. created[s].step = "done"
    BY <1>0, <2>1 DEF UnansweredCreate, Absent
  <2> QED BY <1>0, <2>1, <2>2 DEF UnansweredCreate, TimerOfRecord, PromiseStored, Idle
<1>3. CASE RefuseExpired(s)
  <2>1. /\ store[s].state # "absent" /\ op[s] = Idle /\ created[s].step # "sync"
        /\ timers'[s] = syncSandboxDeadline(timers[s], store[s])
        /\ UNCHANGED <<clock, store, created, callbacks, op, stopped, promised>>
    BY <1>0, <1>3 DEF RefuseExpired, Lockable, TypeOK
  <2>2. created[s].step = "done" /\ store[s] \in Record
    BY <1>0, <2>1 DEF UnansweredCreate, Absent, TypeOK
  <2>3. TimerOfRecord(s) => TimerOfRecord(s)'
    BY <1>0, <2>1, <2>2, SyncedTimer DEF TimerOfRecord
  <2> QED BY <1>0, <2>1, <2>2, <2>3 DEF UnansweredCreate, PromiseStored
<1>4. CASE RefuseAbsent(s)
  BY <1>0, <1>4 DEF RefuseAbsent, UnansweredCreate, TimerOfRecord, PromiseStored
<1>5. CASE CreateRuntime(s)
  <2>1. /\ created[s].step = "runtime" /\ created'[s].step \in {"store", "failed"}
        /\ UNCHANGED <<clock, store, timers, callbacks, op, stopped, promised>>
    BY <1>0, <1>5 DEF CreateRuntime, TypeOK
  <2> QED BY <1>0, <2>1 DEF UnansweredCreate, TimerOfRecord, PromiseStored
<1>6. CASE CreateStore(s)
  <2>1. /\ created[s].step = "store"
        /\ created'[s] = [created[s] EXCEPT !.step = "sync"]
        /\ store'[s] = CreatedRecord(s)
        /\ UNCHANGED <<clock, timers, callbacks, op, stopped, promised>>
    BY <1>0, <1>6 DEF CreateStore, TypeOK
  <2>2. CreatedRecord(s)' = CreatedRecord(s) /\ created'[s].step = "sync"
    BY <1>0, <2>1 DEF CreatedRecord, TypeOK
  <2> QED BY <1>0, <2>1, <2>2 DEF UnansweredCreate, TimerOfRecord, PromiseStored
<1>7. CASE CreateSync(s)
  <2>1. /\ created[s].step = "sync" /\ created'[s].step = "done"
        /\ timers'[s] = syncSandboxDeadline(timers[s], CreatedRecord(s))
        /\ promised'[s] = Later(promised[s], created[s].endAt)
        /\ UNCHANGED <<clock, store, callbacks, op, stopped>>
    BY <1>0, <1>7 DEF CreateSync, TypeOK
  <2>2. store[s] = CreatedRecord(s) /\ CreatedRecord(s) \in Record /\ promised[s] = 0
    BY <1>0, <2>1 DEF UnansweredCreate, CreatedRecord, TypeOK, Record, Alive
  <2>3. TimerOfRecord(s) => TimerOfRecord(s)'
    BY <1>0, <2>1, <2>2, SyncedTimer DEF TimerOfRecord
  <2>4. promised'[s] = created[s].endAt /\ store[s].endAt = created[s].endAt
    BY <1>0, <2>1, <2>2, ConstantsAssumption DEF Later, TypeOK, Time, CreatedRecord
  <2> QED BY <2>1, <2>3, <2>4 DEF UnansweredCreate, PromiseStored
<1> QED BY <1>1, <1>2, <1>3, <1>4, <1>5, <1>6, <1>7 DEF Arrive, CreateStep

\* Every step of the handler that holds lifecycleMu keeps the links.
LEMMA IndLocked ==
  ASSUME AnsweredInv, NEW s \in Sandboxes, LockedStep(s)
  PROVE  \A t \in Sandboxes : LinkKept(t)
<1>0. TypeOK /\ Lock(s) /\ UnansweredCreate(s) /\ OnlyTouches(s)
  BY Locality DEF AnsweredInv, LockInv, TypeInv
<1> SUFFICES LinkKept(s)
  BY <1>0, OneLinked
<1>a. op[s].step # "none"
  BY DEF LockedStep, InspectFails, InspectMissing, InspectExists, DeleteSucceeds, DeleteFails,
         PauseSucceeds, PauseFails, ResumeSucceeds, ResumeFails, CommitEndAt, ExpiryReconciles
<1>b. store[s].state # "absent" /\ store[s] \in Record /\ op[s] # Idle
  BY <1>a, HolderFacts DEF AnsweredInv
<1>c. created[s].step = "done" /\ (PromiseStored(s) => promised[s] = store[s].endAt)
  BY <1>0, <1>b DEF UnansweredCreate, PromiseStored
<1>d. op[s].step \in {"resume", "commit"} => op[s].kind \in Renewals /\ op[s].kind # "expire"
  BY DEF AnsweredInv, LockInv, TypeInv, Holder, Renewals
<1>1. CASE InspectFails(s) \/ DeleteFails(s) \/ ResumeFails(s)
  BY <1>c, <1>d, <1>1, FailureKeeps DEF InspectFails, DeleteFails, ResumeFails
<1>2. CASE InspectMissing(s) \/ DeleteSucceeds(s)
  BY <1>c, <1>2, EmptyTypes, PutKeeps DEF InspectMissing, DeleteSucceeds, Absent
<1>3. CASE InspectExists(s)
  <2> DEFINE record == [store[s] EXCEPT !.state = rt[s]]
  <2>1. record \in Record /\ record.endAt = store[s].endAt
    BY <1>b, <1>3 DEF InspectExists, Record
  <2>2. /\ Put(s, record) /\ op[s].kind # "expire"
        /\ UNCHANGED <<clock, created, callbacks, stopped, promised>>
    BY <1>3 DEF InspectExists
  <2> HIDE DEF record
  <2> QED BY <1>c, <2>1, <2>2, PutKeeps
<1>4. CASE PauseSucceeds(s)
  <2> DEFINE record == [store[s] EXCEPT !.state = "paused"]
  <2>1. record \in Record /\ record.state = "paused" /\ record.endAt = store[s].endAt
    BY <1>b DEF Record, Alive
  <2>2. Put(s, record) /\ UNCHANGED <<clock, created, callbacks, stopped, promised>>
    BY <1>4 DEF PauseSucceeds
  <2> HIDE DEF record
  <2> QED BY <1>c, <2>1, <2>2, PutKeeps
<1>5. CASE PauseFails(s)
  <2>1. /\ op[s].kind = "expire" => op'[s].kind = "expire"
        /\ UNCHANGED <<clock, store, created, timers, callbacks, stopped, promised>>
    BY <1>0, <1>5 DEF PauseFails, TypeOK, Op
  <2> QED BY <1>0, <1>c, <2>1 DEF LinkKept, UnansweredCreate, TimerOfRecord, PromiseStored
<1>6. CASE ResumeSucceeds(s)
  <2> DEFINE record == [store[s] EXCEPT !.state = "running", !.endAt = RenewedEndAt(s)]
  <2>1. op[s].kind \in Renewals /\ op[s].kind # "expire"
    BY <1>d, <1>6 DEF ResumeSucceeds
  <2>2. record \in Record /\ record.endAt = RenewedEndAt(s)
    BY <1>b, <2>1, RenewedType DEF AnsweredInv, LockInv, Record, Alive
  <2>3. /\ Put(s, record) /\ promised'[s] = RenewedEndAt(s)
        /\ UNCHANGED <<clock, created, callbacks, stopped>>
    BY <1>0, <1>6 DEF ResumeSucceeds, TypeOK
  <2> HIDE DEF record
  <2> QED BY <1>c, <2>1, <2>2, <2>3, PutKeeps
<1>7. CASE CommitEndAt(s)
  <2> DEFINE record == [store[s] EXCEPT !.endAt = RenewedEndAt(s)]
  <2>1. op[s].kind \in Renewals /\ op[s].kind # "expire"
    BY <1>d, <1>7 DEF CommitEndAt
  <2>2. record \in Record /\ record.endAt = RenewedEndAt(s)
    BY <1>b, <2>1, RenewedType DEF AnsweredInv, LockInv, Record
  <2>3. /\ Put(s, record) /\ promised'[s] = RenewedEndAt(s)
        /\ UNCHANGED <<clock, created, callbacks, stopped>>
    BY <1>0, <1>7 DEF CommitEndAt, TypeOK
  <2> HIDE DEF record
  <2> QED BY <1>c, <2>1, <2>2, <2>3, PutKeeps
<1>8. CASE ExpiryReconciles(s)
  <2> DEFINE record == [store[s] EXCEPT !.state = rt[s]]
             synced == syncSandboxDeadline(timers[s], record)
  <2>1. /\ record \in Record
        /\ record.state = rt[s] /\ rt[s] \in Alive
        /\ record.endAt = store[s].endAt
    BY <1>b, <1>8 DEF ExpiryReconciles, Record
  <2>2. /\ op[s].kind = "expire"
        /\ store'[s] = record
        /\ \/ rt[s] = "paused" /\ timers'[s] = synced
           \/ rt[s] = "running" /\ timers'[s] = scheduleExpiryRetry(synced, op[s].arg)
        /\ UNCHANGED <<clock, created, callbacks, stopped, promised>>
    BY <1>0, <1>8 DEF ExpiryReconciles, TypeOK
  <2> HIDE DEF record
  <2>3. UnansweredCreate(s)' /\ (PromiseStored(s) => PromiseStored(s)')
    BY <1>c, <2>1, <2>2 DEF UnansweredCreate, PromiseStored
  <2> SUFFICES ASSUME TimerOfRecord(s) PROVE TimerOfRecord(s)'
    BY <2>3 DEF LinkKept
  <2>4. /\ stopped \/ record.state # "running" => synced.set = "none"
        /\ synced.set # "none" => synced.expected = store[s].endAt
        /\ synced.set = "fired" => synced.fireAt <= clock
    BY <1>0, <2>1, SyncedTimer
  <2>5. synced \in Timer
    BY <1>0, <2>1, SyncType DEF TypeOK
  <2> HIDE DEF synced
  <2>6. /\ stopped \/ rt[s] # "running" => timers'[s].set = "none"
        /\ ~stopped /\ rt[s] = "running" =>
             /\ timers'[s].set = "armed"
             /\ timers'[s].expected = store[s].endAt
             /\ timers'[s].expected <= timers'[s].fireAt
             /\ timers'[s].retry
    <3>1. CASE rt[s] = "paused"
      BY <2>1, <2>2, <2>4, <3>1
    <3>2. CASE rt[s] = "running"
      BY <2>1, <2>2, <2>4, <2>5, <3>2, RetryArmed DEF AnsweredInv
    <3> QED BY <2>1, <3>1, <3>2 DEF Alive
  <2> QED BY <1>0, <2>1, <2>2, <2>6 DEF TimerOfRecord
<1> QED BY <1>1, <1>2, <1>3, <1>4, <1>5, <1>6, <1>7, <1>8 DEF LockedStep

\* Timers, expiry callbacks and the world outside lifecycleMu keep the links.
LEMMA IndOutside ==
  ASSUME AnsweredInv, NEW s \in Sandboxes, Expiry(s) \/ Outside(s)
  PROVE  \A t \in Sandboxes : LinkKept(t)
<1>0. TypeOK /\ Lock(s) /\ UnansweredCreate(s) /\ OnlyTouches(s)
  BY Locality DEF AnsweredInv, LockInv, TypeInv
<1> SUFFICES LinkKept(s)
  BY <1>0, OneLinked
<1> USE DEF LinkKept
<1>1. CASE TimerFires(s)
  <2>1. /\ timers[s].set = "armed" /\ clock >= timers[s].fireAt
        /\ timers'[s] = [timers[s] EXCEPT !.set = "fired"]
        /\ callbacks'[s] = callbacks[s] \cup {timers[s].expected}
        /\ UNCHANGED <<clock, store, created, op, stopped, promised>>
    BY <1>0, <1>1 DEF TimerFires, TypeOK
  <2>2. timers[s] \in Timer /\ clock \in Nat /\ timers[s].fireAt \in Nat /\ timers[s].expected \in Nat
    BY <1>0, ConstantsAssumption DEF TypeOK, Timer, Time
  <2>3. TimerOfRecord(s) => TimerOfRecord(s)'
    BY <1>0, <2>1, <2>2 DEF TimerOfRecord, Timer
  <2> QED BY <1>0, <2>1, <2>3 DEF UnansweredCreate, PromiseStored
<1>2. CASE \E e \in callbacks[s] : ExpiryBegins(s, e)
  <2> PICK e \in callbacks[s] : ExpiryBegins(s, e)
    BY <1>2
  <2>1. /\ op[s] = Idle
        /\ created[s].step = "done"
        /\ callbacks'[s] = callbacks[s] \ {e}
        /\ TimerOfRecord(s) => e <= clock
        /\ UNCHANGED <<clock, store, created, stopped, promised>>
    BY <1>0 DEF ExpiryBegins, TypeOK, UnansweredCreate, TimerOfRecord
  <2>2. UnansweredCreate(s)' /\ (PromiseStored(s) => PromiseStored(s)')
    BY <1>0, <2>1 DEF UnansweredCreate, PromiseStored
  <2>3. CASE store[s].state = "absent"
    <3>1. timers'[s] = NoTimer
      BY <1>0, <2>3 DEF ExpiryBegins, TypeOK
    <3> QED BY <1>0, <2>1, <2>2, <2>3, <3>1 DEF TimerOfRecord, NoTimer
  <2>4. CASE store[s].state # "absent" /\ Expirable(store[s], e)
    <3>1. timers'[s] = timers[s] /\ op'[s].kind = "expire"
      BY <1>0, <2>4 DEF ExpiryBegins, TypeOK
    <3> QED BY <1>0, <2>1, <2>2, <3>1 DEF TimerOfRecord
  <2>5. CASE store[s].state # "absent" /\ ~Expirable(store[s], e)
    <3>1. timers'[s] = timers[s]
      BY <1>0, <2>5 DEF ExpiryBegins
    <3>2. TimerOfRecord(s) => store[s].state # "running" \/ store[s].endAt # e
      BY <1>0, <2>1, <2>5 DEF Expirable, TypeOK, Record, Time
    <3> QED BY <1>0, <2>1, <2>2, <3>1, <3>2 DEF TimerOfRecord, Idle
  <2> QED BY <2>3, <2>4, <2>5
<1>3. CASE Outside(s)
  <2>1. UNCHANGED <<clock, store, created, timers, callbacks, op, stopped, promised>>
    BY <1>3 DEF Outside, SnapshotPauses, SnapshotResumes, ExternalChange
  <2> QED BY <1>0, <2>1 DEF UnansweredCreate, TimerOfRecord, PromiseStored, CreatedRecord
<1> QED BY <1>1, <1>2, <1>3 DEF Expiry

\* Every step leaves unanswered creates alone and keeps either link where it held.
LEMMA LinkStep ==
  ASSUME ~SharedCreateWindow, AnsweredInv, [Next]_vars
  PROVE  AnsweredInv' /\ \A s \in Sandboxes : LinkKept(s)
<1>0. LockInv'
  BY LockStep DEF AnsweredInv
<1> SUFFICES \A s \in Sandboxes : LinkKept(s)
  BY <1>0 DEF AnsweredInv, LinkKept
<1>1. CASE Tick
  <2> SUFFICES ASSUME NEW s \in Sandboxes PROVE LinkKept(s)
    OBVIOUS
  <2>1. /\ UnansweredCreate(s)
        /\ clock' = clock + 1 /\ clock \in Nat
        /\ timers[s].fireAt \in Nat /\ callbacks[s] \subseteq Nat
        /\ UNCHANGED <<store, created, timers, callbacks, op, stopped, promised>>
    BY <1>1, ConstantsAssumption DEF Tick, AnsweredInv, LockInv, TypeInv, TypeOK, Time, Timer
  <2>2. TimerOfRecord(s) => TimerOfRecord(s)'
    BY <2>1 DEF TimerOfRecord
  <2> QED BY <2>1, <2>2 DEF LinkKept, UnansweredCreate, PromiseStored, CreatedRecord
<1>2. CASE Shutdown
  <2> SUFFICES ASSUME NEW s \in Sandboxes PROVE LinkKept(s)
    OBVIOUS
  <2> QED BY <1>2 DEF Shutdown, AnsweredInv, LinkKept, UnansweredCreate, TimerOfRecord, PromiseStored,
                      CreatedRecord, NoTimer
<1>3. ASSUME NEW s \in Sandboxes,
             Arrive(s) \/ CreateStep(s) \/ LockedStep(s) \/ Expiry(s) \/ Outside(s)
      PROVE  \A t \in Sandboxes : LinkKept(t)
  BY <1>3, IndUnlocked, IndLocked, IndOutside
<1>4. CASE UNCHANGED vars
  <2> SUFFICES ASSUME NEW s \in Sandboxes PROVE LinkKept(s)
    OBVIOUS
  <2> QED BY <1>4 DEF vars, AnsweredInv, LinkKept, UnansweredCreate, TimerOfRecord, PromiseStored, CreatedRecord
<1> QED BY <1>1, <1>2, <1>3, <1>4 DEF Next

\* So every step keeps the links.
LEMMA IndStep == ASSUME ~SharedCreateWindow PROVE IndInv /\ [Next]_vars => IndInv'
BY CoreStep, LinkStep DEF IndInv, Linked, CoreInv, AnsweredInv, LinkKept

\* The whole invariant holds in every reachable state.
LEMMA Invariance == ASSUME ~SharedCreateWindow PROVE Spec => []IndInv
BY IndInit, IndStep, PTL DEF Spec

---------------------------------------------------------------------------
(* The theorems.                                                           *)

\* As long as requests do not reach a sandbox whose create has not answered, every
\* sandbox the store calls running is watched for the EndAt it has now: no handler,
\* failure, retry or stale callback leaves syncSandboxDeadline's table behind.
THEOREM AlwaysCovered == ASSUME ~SharedCreateWindow PROVE Spec => []ExpiryCovered
<1>1. IndInv => ExpiryCovered
  <2> SUFFICES ASSUME IndInv, NEW s \in Sandboxes,
                      store[s].state = "running", ~stopped, created[s].step # "sync",
                      op[s].kind # "expire"
               PROVE  Watched(s)
    BY DEF ExpiryCovered
  <2>1. created[s].step = "done"
    BY DEF IndInv, Linked, UnansweredCreate, Absent
  <2>2. timers[s].set \in {"armed", "fired"}
    BY <2>1 DEF IndInv, CoreInv, LockInv, TypeInv, TypeOK, Timer, Linked, TimerOfRecord
  <2> QED BY <2>2 DEF IndInv, Linked, TimerOfRecord, Watched
<1> QED BY <1>1, Invariance, PTL

\* expireSandboxLocked acts only past the deadline the client was last told,
\* whatever renewals raced with the timers.
THEOREM NeverBeforePromise == ASSUME ~SharedCreateWindow PROVE Spec => []NoExpiryBeforePromise
<1>1. IndInv => NoExpiryBeforePromise
  <2> SUFFICES ASSUME IndInv, NEW s \in Sandboxes, op[s].kind = "expire"
               PROVE  clock >= promised[s]
    BY DEF NoExpiryBeforePromise
  <2>1. created[s].step = "done"
    BY DEF IndInv, Linked, UnansweredCreate, Idle
  <2>2. promised[s] = store[s].endAt /\ store[s].endAt <= clock
    BY <2>1 DEF IndInv, CoreInv, LockInv, Lock, HeldRecord, Linked, PromiseStored
  <2>3. clock \in Nat /\ store[s].endAt \in Nat
    BY ConstantsAssumption DEF IndInv, CoreInv, LockInv, TypeInv, TypeOK, Record, Time
  <2> QED BY <2>2, <2>3
<1> QED BY <1>1, Invariance, PTL

\* Expiry is irreversible: a sandbox a client was refused is never served again.
THEOREM NeverRevived == Spec => []RefusedStaysRefused
<1>1. CoreInv => RefusedStaysRefused
  BY DEF CoreInv, RefusedExpired, RefusedStaysRefused
<1> QED BY <1>1, CoreInvariance, PTL

\* The store never loses a sandbox that lives in the runtime.
THEOREM NeverOrphaned == Spec => []NoOrphanRuntime
<1>1. CoreInv => NoOrphanRuntime
  BY DEF CoreInv, Known, NoOrphanRuntime
<1> QED BY <1>1, CoreInvariance, PTL

\* A live sandbox is removed from the runtime only by a kill request or by the
\* expiry, past its deadline, of a sandbox that is not to be paused on timeout.
THEOREM NeverDestroyedOtherwise == Spec => OnlyKillOrExpiryDestroys
<1> DEFINE Rule(s) ==
      rt[s] \in Alive /\ rt'[s] = "none"
        => \/ op[s].kind = "kill"
           \/ /\ op[s].kind = "expire"
              /\ store[s].onTimeout = "kill"
              /\ store[s].endAt <= clock
<1>1. CoreInv /\ [Next]_vars => [\A s \in Sandboxes : Rule(s)]_vars
  <2> SUFFICES ASSUME CoreInv, Next, NEW s \in Sandboxes, rt[s] \in Alive, rt'[s] = "none"
               PROVE  Rule(s)
    BY DEF vars
  <2> USE DEF CoreInv, LockInv, TypeInv, TypeOK
  <2>1. rt[s] # "none"
    BY DEF Alive
  <2>2. op[s].step = "delete"
    <3>1. ASSUME NEW u \in Sandboxes,
                 Arrive(u) \/ CreateStep(u) \/ Expiry(u) \/ Outside(u)
          PROVE  FALSE
      <4>1. CASE Arrive(u)
        BY <2>1, <4>1 DEF Arrive, CreateBegin, LockAndCheck, RefuseExpired, RefuseAbsent
      <4>2. CASE CreateStep(u)
        BY <2>1, <4>2 DEF CreateStep, CreateRuntime, LateEffect, CreateStore, CreateSync
      <4>3. CASE Expiry(u)
        BY <2>1, <4>3 DEF Expiry, TimerFires, ExpiryBegins
      <4>4. CASE Outside(u)
        BY <2>1, <4>4 DEF Outside, SnapshotPauses, SnapshotResumes, ExternalChange
      <4> QED BY <3>1, <4>1, <4>2, <4>3, <4>4
    <3>2. PICK u \in Sandboxes : LockedStep(u)
      BY <2>1, <3>1 DEF Next, Tick, Shutdown
    <3>3. DeleteSucceeds(u) \/ DeleteFails(u)
      <4>1. ~InspectFails(u) /\ ~ResumeFails(u) /\ ~CommitEndAt(u) /\ ~ExpiryReconciles(u)
        BY <2>1 DEF InspectFails, ResumeFails, LateEffect, CommitEndAt, ExpiryReconciles
      <4>2. ~InspectMissing(u) /\ ~InspectExists(u)
        BY <2>1 DEF InspectMissing, InspectExists
      <4>3. ~PauseSucceeds(u) /\ ~PauseFails(u) /\ ~ResumeSucceeds(u)
        BY <2>1 DEF PauseSucceeds, PauseFails, LateEffect, ResumeSucceeds
      <4> QED BY <3>2, <4>1, <4>2, <4>3 DEF LockedStep
    <3> QED BY <2>1, <3>3 DEF DeleteSucceeds, DeleteFails, LateEffect
  <2>3. op[s].kind \in {"kill", "expire"}
    BY <2>2 DEF Holder
  <2> QED BY <2>2, <2>3 DEF Lock, HeldRecord
<1> QED BY <1>1, CoreInvariance, PTL DEF Spec, OnlyKillOrExpiryDestroys

\* Only timeout and resume requests ever shorten a deadline.
THEOREM NeverShortenedOtherwise == Spec => OnlyTimeoutShortens
<1> DEFINE Rule(s) ==
      store'[s].state # "absent" /\ store'[s].endAt < store[s].endAt
        => op[s].kind \in {"timeout", "resume"}
<1>1. CoreInv /\ [Next]_vars => [\A s \in Sandboxes : Rule(s)]_vars
  <2> SUFFICES ASSUME CoreInv, Next, NEW s \in Sandboxes,
                      store'[s].state # "absent", store'[s].endAt < store[s].endAt
               PROVE  op[s].kind \in {"timeout", "resume"}
    BY DEF vars
  <2> USE DEF CoreInv, LockInv, TypeInv, TypeOK
  <2>0. store[s] \in Record /\ store[s].endAt \in Nat
    BY ConstantsAssumption DEF Record, Time
  <2>1. store' # store
    BY <2>0
  <2>2. PICK u \in Sandboxes : CreateStore(u) \/ LockedStep(u)
    <3>1. ~Tick /\ ~Shutdown
      BY <2>1 DEF Tick, Shutdown
    <3>2. ASSUME NEW u \in Sandboxes, Arrive(u) \/ CreateRuntime(u) \/ CreateSync(u) \/ Expiry(u) \/ Outside(u)
          PROVE  FALSE
      BY <2>1, <3>2 DEF Arrive, CreateBegin, LockAndCheck, RefuseExpired, RefuseAbsent, CreateRuntime,
         CreateSync, Expiry, TimerFires, ExpiryBegins, Outside, SnapshotPauses, SnapshotResumes, ExternalChange
    <3> QED BY <3>1, <3>2 DEF Next, CreateStep
  <2>3. ~CreateStore(u)
    <3> SUFFICES ASSUME CreateStore(u) PROVE FALSE
      OBVIOUS
    <3>1. u = s
      BY <2>0 DEF CreateStore
    <3>2. store[s] = Absent /\ store'[s].endAt \in Nat
      BY <3>1, ConstantsAssumption DEF CreateStore, CreatedRecord, Lock, PreStore, Time
    <3> QED BY <3>2 DEF Absent
  <2>4. ResumeSucceeds(u) \/ CommitEndAt(u)
    <3>1. ~InspectFails(u) /\ ~ResumeFails(u) /\ ~DeleteFails(u) /\ ~PauseFails(u)
      BY <2>1 DEF InspectFails, ResumeFails, DeleteFails, PauseFails
    <3>2. ~InspectMissing(u) /\ ~DeleteSucceeds(u)
      BY <2>0 DEF InspectMissing, DeleteSucceeds, Put, Absent
    <3>3. ~InspectExists(u) /\ ~PauseSucceeds(u) /\ ~ExpiryReconciles(u)
      <4>1. \A v : [store[u] EXCEPT !.state = v].endAt = store[u].endAt
        BY DEF Record
      <4>2. ASSUME NEW v, store' = [store EXCEPT ![u] = [store[u] EXCEPT !.state = v]] PROVE FALSE
        BY <2>0, <4>1, <4>2
      <4> QED BY <4>2 DEF InspectExists, PauseSucceeds, ExpiryReconciles, Put
    <3> QED BY <2>2, <2>3, <3>1, <3>2, <3>3 DEF LockedStep
  <2>5. u = s /\ op[s].kind \in Renewals /\ store'[s].endAt = RenewedEndAt(s)
    <3>1. op[u].kind \in Renewals
      BY <2>4 DEF ResumeSucceeds, CommitEndAt, Holder
    <3>2. u = s
      BY <2>0, <2>4 DEF ResumeSucceeds, CommitEndAt, Put
    <3>3. store'[s].endAt = RenewedEndAt(s)
      <4>1. /\ [store[s] EXCEPT !.endAt = RenewedEndAt(s)].endAt = RenewedEndAt(s)
            /\ [store[s] EXCEPT !.state = "running", !.endAt = RenewedEndAt(s)].endAt = RenewedEndAt(s)
        BY <2>0 DEF Record
      <4>2. ASSUME NEW record, Put(s, record) PROVE store'[s] = record
        BY <4>2 DEF Put
      <4> QED BY <2>4, <3>2, <4>1, <4>2 DEF ResumeSucceeds, CommitEndAt
    <3> QED BY <3>1, <3>2, <3>3
  <2>6. op[s].kind \notin {"connect", "refresh"}
    <3> SUFFICES ASSUME op[s].kind \in {"connect", "refresh"} PROVE FALSE
      OBVIOUS
    <3>1. RenewedEndAt(s) = Later(store[s].endAt, clock + op[s].arg)
      BY DEF RenewedEndAt
    <3>2. clock + op[s].arg \in Nat
      BY ConstantsAssumption DEF Op, Time
    <3> QED BY <2>0, <2>5, <3>1, <3>2 DEF Later
  <2> QED BY <2>5, <2>6 DEF Renewals
<1> QED BY <1>1, CoreInvariance, PTL DEF Spec, OnlyTimeoutShortens

---------------------------------------------------------------------------
(* Part two, the process dies and starts again: what holds while the       *)
(* gateway is down or starts.                                              *)

\* The sandbox has not been restored yet.
Waits(s) == phase = "down" \/ (phase = "restore" /\ s \in todo)

BootTypeOK ==
  /\ phase \in {"serving", "down"} \cup Booting
  /\ todo \subseteq Sandboxes
  /\ listed \in [Sandboxes -> Record]

\* A process that starts knows nothing of the sandboxes it has not restored.
Emptied(s) ==
  Waits(s) => store[s] = Absent /\ timers[s] = NoTimer /\ callbacks[s] = {} /\ op[s] = Idle

\* No create is under way, and what lives in the runtime, or was listed, has been
\* created.
Settled(s) ==
  /\ phase # "serving" =>
       /\ created[s].step \in {"none", "failed", "done"}
       /\ rt[s] \in Alive => created[s].step = "done"
  /\ phase = "restore" /\ s \in todo => created[s].step = "done" /\ listed[s].state \in Alive

\* Only the first two loops hold lifecycleMu, to inspect.
BootHolder(s) ==
  op[s].kind = "boot" =>
    /\ op[s] = [kind |-> "boot", step |-> "inspect", arg |-> 0]
    /\ phase \in {"restore", "reconcile"}

\* Known, of the sandboxes that have been restored.
KnownAgain(s) == Known(s) \/ Waits(s)

Restarted(s) == Emptied(s) /\ Settled(s) /\ BootHolder(s) /\ KnownAgain(s)

RestoreInv == LockInv /\ BootTypeOK /\ \A s \in Sandboxes : Restarted(s)

---------------------------------------------------------------------------
(* The steps of the lifecycle, as a sandbox sees them in each phase.       *)

\* A step of SandboxLifecycle, as far as the phase allows it.
Runs ==
  /\ Next
  /\ UNCHANGED bootVars
  /\ \/ phase = "serving"
     \/ Tick
     \/ \E s \in Sandboxes : Outside(s)
     \/ phase \in Booting /\ \E s \in Sandboxes : Background(s)

\* The step has not touched the sandbox.
Untouched(s) ==
  /\ UNCHANGED <<clock, stopped>>
  /\ UNCHANGED <<store[s], rt[s], created[s], timers[s], callbacks[s], op[s], commits[s],
                 promised[s], refused[s]>>

\* What a step of SandboxLifecycle is to s.
StepOf(s) ==
  \/ Tick
  \/ phase = "serving" /\ Shutdown
  \/ Untouched(s)
  \/ phase = "serving" /\ (Arrive(s) \/ CreateStep(s))
  \/ phase # "down" /\ Expiry(s)
  \/ /\ phase # "down"
     /\ LockedStep(s)
     /\ op[s].kind = "boot" => InspectMissing(s) \/ InspectExists(s)
  \/ Outside(s)

\* Every step is one of the lifecycle's or one of the restart's own.
LEMMA Steps ==
  ASSUME RestartNext
  PROVE  \/ Runs \/ ProcessDies \/ StartProcess \/ NextPhase
         \/ \E s \in Sandboxes : BootStep(s)
<1>1. Tick => Next
  BY DEF Next
<1>2. \A s \in Sandboxes : Outside(s) => Next
  BY DEF Next
<1>3. \A s \in Sandboxes : Background(s) => Next
  BY DEF Next, Background, LockedStep
<1> QED BY <1>1, <1>2, <1>3 DEF RestartNext, Runs, Crash, BootFails

\* A step of the lifecycle is to each sandbox one that the phase allows, or none.
LEMMA RunsStepOf ==
  ASSUME RestoreInv, Runs, NEW s \in Sandboxes
  PROVE  StepOf(s)
<1>0. TypeOK /\ BootHolder(s)
  BY DEF RestoreInv, Restarted, LockInv, TypeInv
<1>1. ASSUME NEW u \in Sandboxes, OnlyTouches(u), u # s PROVE Untouched(s)
  BY <1>1 DEF OnlyTouches, Untouched
<1>2. CASE phase = "serving"
  <2>1. op[s].kind # "boot"
    BY <1>0, <1>2 DEF BootHolder
  <2>2. CASE Tick \/ Shutdown
    BY <1>2, <2>2 DEF StepOf
  <2>3. ASSUME NEW u \in Sandboxes,
               Arrive(u) \/ CreateStep(u) \/ LockedStep(u) \/ Expiry(u) \/ Outside(u)
        PROVE  StepOf(s)
    <3>1. OnlyTouches(u)
      BY <1>0, <2>3, Locality
    <3>2. CASE u = s
      BY <1>2, <2>1, <2>3, <3>2 DEF StepOf
    <3> QED BY <1>1, <3>1, <3>2 DEF StepOf
  <2> QED BY <2>2, <2>3 DEF Runs, Next
<1>3. CASE Tick
  BY <1>3 DEF StepOf
<1>4. ASSUME NEW u \in Sandboxes, Outside(u) PROVE StepOf(s)
  BY <1>0, <1>1, <1>4, Locality DEF StepOf
<1>5. ASSUME phase \in Booting, NEW u \in Sandboxes, Background(u) PROVE StepOf(s)
  <2>1. Expiry(u) \/ Outside(u) \/ LockedStep(u)
    BY <1>5 DEF Background, LockedStep
  <2>2. OnlyTouches(u)
    BY <1>0, <2>1, Locality
  <2>3. CASE u = s
    BY <1>5, <2>3 DEF StepOf, Background, LockedStep, Booting
  <2> QED BY <1>1, <2>2, <2>3 DEF StepOf
<1> QED BY <1>2, <1>3, <1>4, <1>5 DEF Runs

---------------------------------------------------------------------------
(* The steps of the lifecycle keep what the restart relies on.             *)

\* What a step must not do to a sandbox while the gateway does not serve.
LEMMA BootStepOf ==
  ASSUME RestoreInv, NEW s \in Sandboxes, phase # "serving", StepOf(s)
  PROVE  /\ created'[s] = created[s]
         /\ rt'[s] \in Alive => rt[s] \in Alive
         /\ promised'[s] = promised[s] \/ op[s].kind \in Renewals
<1>0. TypeOK /\ Holder(s)
  BY DEF RestoreInv, LockInv, TypeInv
<1>1. CASE Tick \/ Untouched(s)
  BY <1>1 DEF Tick, Untouched
<1>2. CASE Expiry(s)
  BY <1>2 DEF Expiry, TimerFires, ExpiryBegins
<1>3. CASE Outside(s)
  BY <1>0, <1>3 DEF Outside, SnapshotPauses, SnapshotResumes, ExternalChange, TypeOK, Alive
<1>4. CASE InspectFails(s) \/ InspectMissing(s) \/ InspectExists(s)
  BY <1>0, <1>4 DEF InspectFails, InspectMissing, InspectExists, TypeOK, Alive
<1>5. CASE DeleteSucceeds(s) \/ DeleteFails(s) \/ PauseSucceeds(s) \/ PauseFails(s)
  BY <1>0, <1>5 DEF DeleteSucceeds, DeleteFails, PauseSucceeds, PauseFails, LateEffect, TypeOK, Alive
<1>6. CASE ResumeSucceeds(s) \/ ResumeFails(s) \/ CommitEndAt(s) \/ ExpiryReconciles(s)
  BY <1>0, <1>6 DEF ResumeSucceeds, ResumeFails, CommitEndAt, ExpiryReconciles, LateEffect, TypeOK,
                    Alive, Holder
<1> QED BY <1>1, <1>2, <1>3, <1>4, <1>5, <1>6 DEF StepOf, LockedStep

\* No handler of the lifecycle begins a reconciliation of the start, or ends one
\* halfway.
LEMMA BootHolderStays ==
  ASSUME RestoreInv, NEW s \in Sandboxes, StepOf(s), op'[s].kind = "boot"
  PROVE  op'[s] = op[s]
<1>0. TypeOK /\ BootHolder(s) /\ Idle.kind = "idle"
  BY DEF RestoreInv, Restarted, LockInv, TypeInv, Idle
<1>1. CASE Tick \/ Shutdown \/ Untouched(s) \/ CreateStep(s) \/ Outside(s)
  BY <1>1 DEF Tick, Shutdown, Untouched, CreateStep, CreateRuntime, CreateStore, CreateSync, Outside,
              SnapshotPauses, SnapshotResumes, ExternalChange
<1>2. CASE Arrive(s)
  <2>1. CASE \E k \in Requests : \E t \in IF k \in Renewals THEN Timeouts ELSE {0} : LockAndCheck(s, k, t)
    <3> PICK k \in Requests, t \in Timeouts \cup {0} : LockAndCheck(s, k, t)
      BY <2>1
    <3>1. op'[s].kind = k /\ k # "boot"
      BY <1>0, ConstantsAssumption DEF LockAndCheck, TypeOK, RequestKinds
    <3> QED BY <3>1
  <2> QED BY <1>2, <2>1 DEF Arrive, CreateBegin, RefuseExpired, RefuseAbsent
<1>3. CASE Expiry(s)
  BY <1>0, <1>3 DEF Expiry, TimerFires, ExpiryBegins, TypeOK
<1>4. CASE LockedStep(s)
  <2>1. Unlock(s) => op'[s].kind = "idle"
    BY <1>0 DEF Unlock, TypeOK
  <2>2. ~InspectExists(s)
    <3> SUFFICES ASSUME InspectExists(s) PROVE FALSE
      OBVIOUS
    <3> DEFINE step == StepAfterReconcile(op[s].kind, rt[s])
    <3>1. op'[s] = IF step = "none" THEN Idle ELSE [op[s] EXCEPT !.step = step]
      BY <1>0 DEF InspectExists, TypeOK
    <3>2. op[s].kind = "boot"
      BY <1>0, <3>1 DEF TypeOK, Op
    <3>3. step = "none"
      BY <3>2 DEF StepAfterReconcile
    <3> QED BY <1>0, <3>1, <3>3
  <2>3. ~PauseFails(s)
    BY <1>0 DEF PauseFails, TypeOK, Op
  <2> QED BY <1>4, <2>1, <2>2, <2>3 DEF LockedStep, InspectFails, InspectMissing, DeleteSucceeds,
             DeleteFails, PauseSucceeds, ResumeSucceeds, ResumeFails, CommitEndAt, ExpiryReconciles
<1> QED BY <1>1, <1>2, <1>3, <1>4 DEF StepOf

\* A sandbox that has not been restored is left alone but by the world.
LEMMA WaitingUntouched ==
  ASSUME RestoreInv, NEW s \in Sandboxes, Waits(s), StepOf(s)
  PROVE  UNCHANGED <<store[s], timers[s], callbacks[s], op[s]>>
<1>0. /\ timers[s].set = "none" /\ callbacks[s] = {} /\ op[s].step = "none"
      /\ phase # "serving"
  BY DEF RestoreInv, Restarted, Emptied, Waits, NoTimer, Idle
<1>1. ~Expiry(s)
  BY <1>0 DEF Expiry, TimerFires
<1>2. ~LockedStep(s)
  BY <1>0 DEF LockedStep, InspectFails, InspectMissing, InspectExists, DeleteSucceeds, DeleteFails,
              PauseSucceeds, PauseFails, ResumeSucceeds, ResumeFails, CommitEndAt, ExpiryReconciles
<1> QED BY <1>0, <1>1, <1>2 DEF StepOf, Tick, Untouched, Outside, SnapshotPauses, SnapshotResumes,
           ExternalChange

\* The steps of the lifecycle keep the invariant.
LEMMA RunsKeep == ASSUME RestoreInv, Runs PROVE RestoreInv'
<1>1. LockInv' /\ \A s \in Sandboxes : CoreKept(s)
  BY LockStep DEF RestoreInv, Runs
<1>2. UNCHANGED <<phase, todo, listed>>
  BY DEF Runs, bootVars
<1>3. BootTypeOK'
  BY <1>2 DEF RestoreInv, BootTypeOK
<1>4. ASSUME NEW s \in Sandboxes PROVE Restarted(s)'
  <2>0. Restarted(s) /\ StepOf(s)
    BY RunsStepOf DEF RestoreInv
  <2> USE DEF Restarted
  <2>1. Emptied(s)'
    BY <1>2, <2>0, WaitingUntouched DEF Emptied, Waits
  <2>2. Settled(s)'
    BY <1>2, <2>0, BootStepOf DEF Settled
  <2>3. BootHolder(s)'
    BY <1>2, <2>0, BootHolderStays DEF BootHolder
  <2>4. KnownAgain(s)'
    BY <1>1, <1>2, <2>0 DEF KnownAgain, Waits, CoreKept
  <2> QED BY <2>1, <2>2, <2>3, <2>4
<1> QED BY <1>1, <1>3, <1>4 DEF RestoreInv

---------------------------------------------------------------------------
(* The restart's own steps keep the invariant.                             *)

\* The death of the process ends every create under way and forgets the rest.
LEMMA DiesKeeps == ASSUME RestoreInv, ProcessDies PROVE RestoreInv'
<1>0. TypeOK /\ \A s \in Sandboxes : Lock(s) /\ Settled(s)
  BY DEF RestoreInv, Restarted, LockInv, TypeInv
<1>1. \A s \in Sandboxes :
        StepAfterDeath(s) \in {"none", "runtime", "failed", "store", "sync", "done"}
  BY <1>0 DEF StepAfterDeath, TypeOK
<1>2. created' \in [Sandboxes -> [step: {"none", "runtime", "failed", "store", "sync", "done"},
                                  endAt: Time, onTimeout: {"kill", "pause"}]]
  BY <1>0, <1>1 DEF ProcessDies, TypeOK
<1>3. commits' \in [Sandboxes -> {"none", "pending", "paused"}]
  BY <1>0 DEF ProcessDies, TypeOK
<1>4. TypeOK'
  BY <1>0, <1>2, <1>3, EmptyTypes DEF ProcessDies, TypeOK
<1>5. ASSUME NEW s \in Sandboxes PROVE Holder(s)'
  BY DEF ProcessDies, Holder, Idle, Renewals
<1>6. BootTypeOK'
  BY EmptyTypes DEF ProcessDies, BootTypeOK
<1>7. ASSUME NEW s \in Sandboxes
      PROVE  Lock(s)' /\ Restarted(s)'
  <2>1. /\ phase' = "down"
        /\ store'[s] = Absent /\ timers'[s] = NoTimer /\ callbacks'[s] = {} /\ op'[s] = Idle
        /\ created'[s].step = StepAfterDeath(s)
        /\ UNCHANGED <<rt, refused>>
    BY <1>0 DEF ProcessDies, TypeOK
  <2>2. /\ created'[s].step \in {"none", "failed", "done"}
        /\ rt[s] \in Alive => created'[s].step = "done"
        /\ created'[s].step # "done" => created[s].step \in {"none", "runtime", "failed"}
        /\ created'[s].step = "none" => created[s].step = "none"
    BY <1>0, <2>1 DEF StepAfterDeath, TypeOK
  <2>3. Lock(s)'
    BY <1>0, <2>1, <2>2 DEF Lock, PreStore, HeldRecord, Idle
  <2>4. Restarted(s)'
    BY <2>1, <2>2 DEF Restarted, Emptied, Settled, BootHolder, KnownAgain, Waits, Idle
  <2> QED BY <2>3, <2>4
<1> QED BY <1>4, <1>5, <1>6, <1>7 DEF RestoreInv, LockInv, TypeInv

\* A start lists what lives in the runtime, all of it created.
LEMMA StartKeeps == ASSUME RestoreInv, StartProcess PROVE RestoreInv'
<1>0. TypeOK /\ \A s \in Sandboxes : Lock(s) /\ Restarted(s)
  BY DEF RestoreInv, LockInv, TypeInv
<1>1. LockInv'
  BY DEF StartProcess, vars, RestoreInv, LockInv, TypeInv, TypeOK, Holder, Lock, PreStore, HeldRecord
<1>2. \A s \in Restorable : RestoredRecord(s) \in Record /\ RestoredRecord(s).state \in Alive
  BY <1>0 DEF Restorable, RestoredRecord, TypeOK, Record
<1>3. BootTypeOK'
  BY <1>2, EmptyTypes DEF StartProcess, BootTypeOK, Booting, Restorable
<1>4. ASSUME NEW s \in Sandboxes PROVE Restarted(s)'
  <2>1. /\ phase = "down" /\ phase' = "restore" /\ todo' = Restorable
        /\ s \in Restorable => listed'[s].state \in Alive
        /\ UNCHANGED vars
    BY <1>2 DEF StartProcess
  <2>2. Restarted(s)
    BY <1>0
  <2> QED BY <2>1, <2>2 DEF vars, Restarted, Emptied, Settled, BootHolder, KnownAgain, Known, Waits, Restorable
<1> QED BY <1>1, <1>3, <1>4 DEF RestoreInv

\* A loop ends with nothing left to visit and no inspection under way.
LEMMA PhaseKeeps == ASSUME RestoreInv, NextPhase PROVE RestoreInv'
<1>0. TypeOK /\ \A s \in Sandboxes : Lock(s) /\ Restarted(s)
  BY DEF RestoreInv, LockInv, TypeInv
<1>1. LockInv'
  BY DEF NextPhase, vars, RestoreInv, LockInv, TypeInv, TypeOK, Holder, Lock, PreStore, HeldRecord
<1>2. phase' \in {"reconcile", "sync", "serving"} /\ phase \in Booting
  BY DEF NextPhase, Booting
<1>3. BootTypeOK'
  BY <1>0, <1>2, EmptyTypes DEF NextPhase, BootTypeOK, Present, Booting, TypeOK
<1>4. ASSUME NEW s \in Sandboxes PROVE Restarted(s)'
  <2>1. todo = {} /\ op[s].kind # "boot" /\ UNCHANGED vars
    BY DEF NextPhase, NoBootOp
  <2>2. Restarted(s)
    BY <1>0
  <2> QED BY <1>2, <2>1, <2>2 DEF vars, Restarted, Emptied, Settled, BootHolder, KnownAgain, Known,
             Waits, Booting
<1> QED BY <1>1, <1>3, <1>4 DEF RestoreInv

\* What a loop of the start does to the sandbox it visits.
BootVisit(s) ==
  /\ op[s] = Idle \/ op'[s] = op[s]
  /\ \/ op'[s] = op[s]
     \/ op'[s] = [kind |-> "boot", step |-> "inspect", arg |-> 0] /\ phase # "sync"
  /\ \/ store'[s] = store[s]
     \/ phase = "restore" /\ s \in todo /\ store'[s] = listed[s]
  /\ op'[s] # op[s] => store'[s].state # "absent"
  /\ phase = "restore" => store'[s].state # "absent"

\* A loop of the start visits one sandbox, and takes it off its list.
LEMMA VisitKeeps ==
  ASSUME RestoreInv, NEW s \in Sandboxes,
         phase \in Booting, UNCHANGED <<phase, listed>>, todo' = todo \ {s},
         OnlyTouches(s), UNCHANGED <<rt, created, promised, refused>>,
         TypeOK', BootVisit(s)
  PROVE  RestoreInv'
<1>0. TypeOK /\ \A t \in Sandboxes : Holder(t) /\ Lock(t) /\ Restarted(t)
  BY DEF RestoreInv, LockInv, TypeInv
<1>1. BootTypeOK'
  BY DEF RestoreInv, BootTypeOK
<1>2. ASSUME NEW t \in Sandboxes, t # s
      PROVE  Holder(t)' /\ Lock(t)' /\ Restarted(t)'
  <2>1. /\ UNCHANGED <<clock, phase, listed, store[t], timers[t], callbacks[t], op[t],
                       rt[t], created[t], refused[t]>>
        /\ t \in todo' <=> t \in todo
    BY <1>2 DEF OnlyTouches
  <2>2. Holder(t)' /\ Lock(t)'
    BY <1>0, <2>1 DEF Holder, Lock, PreStore, HeldRecord
  <2>3. Restarted(t)'
    BY <1>0, <2>1 DEF Restarted, Emptied, Settled, BootHolder, KnownAgain, Known, Waits
  <2> QED BY <2>2, <2>3
<1>3. Holder(s)' /\ Lock(s)' /\ Restarted(s)'
  <2>1. /\ UNCHANGED <<clock, phase, rt[s], created[s], refused[s]>>
        /\ s \notin todo' /\ phase # "down" /\ phase # "serving"
        /\ Holder(s) /\ Lock(s) /\ Restarted(s)
    BY <1>0 DEF OnlyTouches, Booting
  <2>2. phase = "restore" /\ s \in todo => created[s].step = "done" /\ op[s] = Idle
    BY <2>1 DEF Restarted, Settled, Emptied, Waits
  <2>3. op'[s] # op[s] => /\ op[s] = Idle
                          /\ op'[s] = [kind |-> "boot", step |-> "inspect", arg |-> 0]
                          /\ store'[s].state # "absent"
                          /\ phase \in {"restore", "reconcile"}
    BY DEF BootVisit, Booting
  <2>4. Holder(s)'
    BY <2>1, <2>3 DEF Holder, Renewals
  <2>5. store[s] = Absent \/ created[s].step = "done" \/ created[s].step = "sync"
    BY <2>1 DEF Lock, PreStore
  <2>6. PreStore(s)'
    BY <2>1, <2>2, <2>3, <2>5 DEF Lock, PreStore, BootVisit, Absent
  <2>7. HeldRecord(s)'
    BY <2>1, <2>2, <2>3 DEF Lock, HeldRecord, BootVisit, Idle
  <2>8. Emptied(s)' /\ Settled(s)' /\ BootHolder(s)'
    BY <2>1, <2>3 DEF Restarted, Emptied, Settled, BootHolder, Waits
  <2>9. KnownAgain(s)'
    BY <2>1 DEF Restarted, KnownAgain, Known, Waits, BootVisit
  <2> QED BY <2>4, <2>6, <2>7, <2>8, <2>9 DEF Lock, Restarted
<1> QED BY <1>1, <1>2, <1>3 DEF RestoreInv, LockInv, TypeInv

\* What a reconciliation of the start writes has its types.
LEMMA ReconcileType ==
  ASSUME TypeOK, NEW s \in Sandboxes, NEW record \in Record, BootReconcile(s, record)
  PROVE  timers' \in [Sandboxes -> Timer] /\ op' \in [Sandboxes -> Op]
<1>1. [kind |-> "boot", step |-> "inspect", arg |-> 0] \in Op
  BY ConstantsAssumption DEF Op, Time
<1>2. syncSandboxDeadline(timers[s], record) \in Timer
  BY SyncType DEF TypeOK
<1> QED BY <1>1, <1>2 DEF BootReconcile, TypeOK

\* Each loop is such a visit.
LEMMA BootStepVisits ==
  ASSUME RestoreInv, NEW s \in Sandboxes, BootStep(s)
  PROVE  /\ phase \in Booting /\ UNCHANGED <<phase, listed>> /\ todo' = todo \ {s}
         /\ OnlyTouches(s) /\ UNCHANGED <<rt, created, promised, refused>>
         /\ TypeOK' /\ BootVisit(s)
<1>0. TypeOK /\ BootTypeOK /\ Restarted(s)
  BY DEF RestoreInv, LockInv, TypeInv
<1>1. CASE RestoreOne(s)
  <2>1. listed[s] \in Record /\ listed[s].state # "absent" /\ op[s] = Idle
    BY <1>0, <1>1 DEF RestoreOne, BootTypeOK, Restarted, Settled, Emptied, Waits, Alive
  <2>2. TypeOK'
    BY <1>0, <1>1, <2>1, ReconcileType DEF RestoreOne, TypeOK
  <2>3. store'[s] = listed[s] /\ s \in todo /\ phase = "restore"
    BY <1>0, <1>1 DEF RestoreOne, TypeOK
  <2>4. BootVisit(s)
    BY <1>0, <1>1, <2>1, <2>3 DEF RestoreOne, BootVisit, BootReconcile, TypeOK
  <2>5. OnlyTouches(s)
    BY <1>0, <1>1 DEF RestoreOne, BootReconcile, OnlyTouches, TypeOK
  <2> QED BY <1>1, <2>2, <2>4, <2>5 DEF RestoreOne, Booting
<1>2. CASE ReconcileOne(s)
  <2>1. store[s] \in Record /\ op[s] = Idle /\ phase = "reconcile"
    BY <1>0, <1>2 DEF ReconcileOne, TypeOK
  <2>2. TypeOK'
    BY <1>0, <1>2, <2>1, ReconcileType DEF ReconcileOne, TypeOK
  <2>3. s \notin Present => op' = op
    BY <1>2 DEF ReconcileOne
  <2>4. BootVisit(s)
    BY <1>0, <1>2, <2>1, <2>3 DEF ReconcileOne, BootVisit, BootReconcile, Present, TypeOK
  <2>5. OnlyTouches(s)
    BY <1>0, <1>2 DEF ReconcileOne, BootReconcile, OnlyTouches, TypeOK
  <2> QED BY <1>2, <2>2, <2>4, <2>5 DEF ReconcileOne, Booting
<1>3. CASE ResyncOne(s)
  <2>1. syncSandboxDeadline(timers[s], listed[s]) \in Timer
    BY <1>0, SyncType DEF BootTypeOK, TypeOK
  <2>2. TypeOK'
    BY <1>0, <1>3, <2>1 DEF ResyncOne, TypeOK
  <2>3. BootVisit(s) /\ OnlyTouches(s)
    BY <1>0, <1>3 DEF ResyncOne, BootVisit, OnlyTouches, TypeOK
  <2> QED BY <1>3, <2>2, <2>3 DEF ResyncOne, Booting
<1> QED BY <1>1, <1>2, <1>3 DEF BootStep

\* Every step keeps the invariant.
LEMMA RestoreStep == RestoreInv /\ [RestartNext]_allVars => RestoreInv'
<1> SUFFICES ASSUME RestoreInv, [RestartNext]_allVars PROVE RestoreInv'
  OBVIOUS
<1>1. ASSUME NEW s \in Sandboxes, BootStep(s) PROVE RestoreInv'
  BY <1>1, BootStepVisits, VisitKeeps
<1>2. CASE UNCHANGED allVars
  <2>1. UNCHANGED <<clock, store, rt, created, timers, callbacks, op, commits, stopped, promised, refused,
                    phase, todo, listed, restarts>>
    BY <1>2 DEF allVars, vars, bootVars
  <2> QED BY <2>1 DEF RestoreInv, LockInv, TypeInv, TypeOK, Holder, Lock, PreStore, HeldRecord, BootTypeOK,
             Restarted, Emptied, Settled, BootHolder, KnownAgain, Known, Waits
<1> QED BY <1>1, <1>2, Steps, RunsKeep, DiesKeeps, StartKeeps, PhaseKeeps

\* A first start is a start with nothing to restore.
LEMMA RestoreInit == BootInit => RestoreInv
<1> SUFFICES ASSUME BootInit PROVE RestoreInv
  OBVIOUS
<1>1. LockInv /\ \A s \in Sandboxes : Known(s)
  BY CoreInit DEF BootInit, CoreInv
<1>2. BootTypeOK
  BY EmptyTypes DEF BootInit, BootTypeOK
<1>3. \A s \in Sandboxes : op[s].kind # "boot"
  BY DEF BootInit, Init, Idle
<1>4. \A s \in Sandboxes : Restarted(s)
  BY <1>1, <1>3 DEF BootInit, Restarted, Emptied, Settled, BootHolder, KnownAgain, Waits
<1> QED BY <1>1, <1>2, <1>4 DEF RestoreInv

\* The invariant holds in every reachable state, whenever the process dies.
LEMMA RestoreInvariance == RestartSpec => []RestoreInv
BY RestoreInit, RestoreStep, PTL DEF RestartSpec

\* Whenever the process dies, once a restarted gateway serves it knows every sandbox
\* that lives in the runtime: restoreRuntimeSandboxes loses none, the ones whose
\* create had not come to store.Create included, and so do none of the loops and
\* expiries that follow.
THEOREM RestartKnowsAll == RestartSpec => []ServedRuntimesAreKnown
<1>1. RestoreInv => ServedRuntimesAreKnown
  BY DEF RestoreInv, Restarted, KnownAgain, Known, Waits, ServedRuntimesAreKnown
<1> QED BY <1>1, RestoreInvariance, PTL

---------------------------------------------------------------------------
(* Promises across restarts, as long as nobody renews.                     *)

\* lifecycleMu is held for a request of a kind that clients send.
Asked(s) == op[s].kind \in Requests \cup {"idle", "expire", "boot"}

\* The deadline in the store, and in what a loop has listed, is the one of the
\* labels, and no client was told a later one.
AsCreated(s) ==
  /\ store[s].state # "absent" => store[s].endAt = created[s].endAt
  /\ promised[s] <= created[s].endAt
  /\ created[s].step # "done" => promised[s] = 0
  /\ phase = "restore" /\ s \in todo => listed[s].endAt = created[s].endAt

PromiseInv == RestoreInv /\ \A s \in Sandboxes : Asked(s) /\ AsCreated(s)

\* A handler of the lifecycle is begun by a request or a callback.
LEMMA AskedStays ==
  ASSUME RestoreInv, NEW s \in Sandboxes, Asked(s), StepOf(s)
  PROVE  Asked(s)'
<1>0. TypeOK /\ Idle.kind = "idle"
  BY DEF RestoreInv, LockInv, TypeInv, Idle
<1>1. CASE Tick \/ Shutdown \/ Untouched(s) \/ CreateStep(s) \/ Outside(s)
  BY <1>1 DEF Asked, Tick, Shutdown, Untouched, CreateStep, CreateRuntime, CreateStore, CreateSync,
              Outside, SnapshotPauses, SnapshotResumes, ExternalChange
<1>2. CASE Arrive(s)
  <2>1. CASE \E k \in Requests : \E t \in IF k \in Renewals THEN Timeouts ELSE {0} : LockAndCheck(s, k, t)
    <3> PICK k \in Requests, t \in Timeouts \cup {0} : LockAndCheck(s, k, t)
      BY <2>1
    <3> QED BY <1>0 DEF Asked, LockAndCheck, TypeOK
  <2> QED BY <1>2, <2>1 DEF Asked, Arrive, CreateBegin, RefuseExpired, RefuseAbsent
<1>3. CASE Expiry(s)
  BY <1>0, <1>3 DEF Asked, Expiry, TimerFires, ExpiryBegins, TypeOK
<1>4. CASE LockedStep(s)
  <2>1. Unlock(s) => op'[s].kind = "idle"
    BY <1>0 DEF Unlock, TypeOK
  <2>2. InspectExists(s) => op'[s].kind \in {"idle", op[s].kind}
    <3> SUFFICES ASSUME InspectExists(s) PROVE op'[s].kind \in {"idle", op[s].kind}
      OBVIOUS
    <3> DEFINE step == StepAfterReconcile(op[s].kind, rt[s])
    <3>1. op'[s] = IF step = "none" THEN Idle ELSE [op[s] EXCEPT !.step = step]
      BY <1>0 DEF InspectExists, TypeOK
    <3> HIDE DEF step
    <3> QED BY <1>0, <3>1 DEF TypeOK, Op
  <2>3. PauseFails(s) => op'[s].kind \in {"idle", op[s].kind}
    BY <1>0 DEF PauseFails, TypeOK, Op
  <2>4. op'[s].kind \in {"idle", op[s].kind}
    BY <1>4, <2>1, <2>2, <2>3 DEF LockedStep, InspectFails, InspectMissing, DeleteSucceeds,
       DeleteFails, PauseSucceeds, ResumeSucceeds, ResumeFails, CommitEndAt, ExpiryReconciles
  <2> QED BY <2>4 DEF Asked
<1> QED BY <1>1, <1>2, <1>3, <1>4 DEF StepOf

\* No handler moves a deadline that nobody renews.
LEMMA DeadlineStays ==
  ASSUME Requests \cap Renewals = {}, RestoreInv, NEW s \in Sandboxes,
         Asked(s), AsCreated(s), StepOf(s), UNCHANGED bootVars
  PROVE  AsCreated(s)'
<1>0. /\ TypeOK /\ Holder(s) /\ Lock(s)
      /\ UNCHANGED <<phase, todo, listed>>
      /\ op[s].kind \notin Renewals
  BY DEF RestoreInv, LockInv, TypeInv, bootVars, Asked, Renewals
<1>1. CASE UNCHANGED <<store[s], created[s], promised[s]>>
  BY <1>0, <1>1 DEF AsCreated
<1>2. CASE Arrive(s)
  <2>1. CASE \E t \in Timeouts, a \in {"kill", "pause"} : CreateBegin(s, t, a)
    <3> PICK t \in Timeouts, a \in {"kill", "pause"} : CreateBegin(s, t, a)
      BY <2>1
    <3>1. /\ store[s] = Absent /\ store' = store
          /\ promised[s] = 0 /\ promised' = promised
          /\ created'[s].endAt = clock + t /\ clock + t \in Nat
          /\ phase = "restore" => s \notin todo
      BY <1>0, ConstantsAssumption DEF CreateBegin, Lock, PreStore, AsCreated, TypeOK, Time,
         RestoreInv, Restarted, Settled
    <3> QED BY <1>0, <3>1 DEF AsCreated, Absent
  <2> QED BY <1>1, <1>2, <2>1 DEF Arrive, LockAndCheck, RefuseExpired, RefuseAbsent
<1>3. CASE CreateStep(s)
  <2>1. CASE CreateRuntime(s)
    <3>1. /\ created'[s].endAt = created[s].endAt /\ created[s].step # "done"
          /\ UNCHANGED <<store, promised>>
      BY <1>0, <2>1 DEF CreateRuntime, TypeOK
    <3> QED BY <1>0, <3>1 DEF AsCreated
  <2>2. CASE CreateStore(s)
    <3>1. /\ created'[s].endAt = created[s].endAt /\ created[s].step # "done"
          /\ store'[s].endAt = created[s].endAt
          /\ UNCHANGED promised
      BY <1>0, <2>2 DEF CreateStore, CreatedRecord, TypeOK
    <3> QED BY <1>0, <3>1 DEF AsCreated
  <2>3. CASE CreateSync(s)
    <3>1. /\ created'[s].endAt = created[s].endAt /\ created'[s].step = "done"
          /\ promised'[s] = Later(promised[s], created[s].endAt)
          /\ created[s].endAt \in Nat /\ promised[s] \in Nat
          /\ UNCHANGED store
      BY <1>0, <2>3, ConstantsAssumption DEF CreateSync, TypeOK, Time
    <3> QED BY <1>0, <3>1 DEF AsCreated, Later
  <2> QED BY <1>3, <2>1, <2>2, <2>3 DEF CreateStep
<1>4. CASE LockedStep(s)
  <2>1. created' = created /\ promised' = promised /\ ~ResumeSucceeds(s) /\ ~CommitEndAt(s)
    BY <1>0, <1>4 DEF LockedStep, InspectFails, InspectMissing, InspectExists, DeleteSucceeds, DeleteFails,
       PauseSucceeds, PauseFails, ResumeSucceeds, ResumeFails, CommitEndAt, ExpiryReconciles, Holder
  <2>2. \/ store'[s] = store[s] \/ store'[s].state = "absent"
        \/ store'[s].endAt = store[s].endAt /\ store[s].state # "absent"
    <3>1. \A v : [store[s] EXCEPT !.state = v].endAt = store[s].endAt
      BY <1>0 DEF TypeOK, Record
    <3>2. ASSUME NEW record, Put(s, record) PROVE store'[s] = record
      BY <1>0, <3>2 DEF Put, TypeOK
    <3>3. store[s].state # "absent"
      BY <1>4, HolderFacts DEF RestoreInv, LockedStep, InspectFails, InspectMissing, InspectExists,
         DeleteSucceeds, DeleteFails, PauseSucceeds, PauseFails, ResumeSucceeds, ResumeFails,
         CommitEndAt, ExpiryReconciles
    <3>4. CASE InspectMissing(s) \/ DeleteSucceeds(s)
      BY <3>2, <3>4 DEF InspectMissing, DeleteSucceeds, Absent
    <3>5. CASE InspectExists(s) \/ PauseSucceeds(s)
      BY <3>1, <3>2, <3>3, <3>5 DEF InspectExists, PauseSucceeds
    <3>6. CASE ExpiryReconciles(s)
      BY <1>0, <3>1, <3>3, <3>6 DEF ExpiryReconciles, TypeOK
    <3>7. CASE InspectFails(s) \/ DeleteFails(s) \/ PauseFails(s) \/ ResumeFails(s)
      BY <3>7 DEF InspectFails, DeleteFails, PauseFails, ResumeFails
    <3> QED BY <1>4, <2>1, <3>4, <3>5, <3>6, <3>7 DEF LockedStep
  <2> QED BY <1>0, <2>1, <2>2 DEF AsCreated
<1>5. CASE Tick \/ Shutdown \/ Untouched(s) \/ Expiry(s) \/ Outside(s)
  BY <1>1, <1>5 DEF Tick, Shutdown, Untouched, Expiry, TimerFires, ExpiryBegins, Outside,
     SnapshotPauses, SnapshotResumes, ExternalChange
<1> QED BY <1>2, <1>3, <1>4, <1>5 DEF StepOf

\* Neither death nor start moves a deadline: the labels have the first, which is all
\* there is as long as nobody renews.
LEMMA PromiseStep ==
  ASSUME Requests \cap Renewals = {}
  PROVE  PromiseInv /\ [RestartNext]_allVars => PromiseInv'
<1> SUFFICES ASSUME PromiseInv, [RestartNext]_allVars PROVE PromiseInv'
  OBVIOUS
<1>0. /\ RestoreInv /\ RestoreInv' /\ TypeOK
      /\ \A s \in Sandboxes : Asked(s) /\ AsCreated(s) /\ Restarted(s)
  BY RestoreStep DEF PromiseInv, RestoreInv, LockInv, TypeInv
<1> SUFFICES ASSUME NEW s \in Sandboxes PROVE Asked(s)' /\ AsCreated(s)'
  BY <1>0 DEF PromiseInv
<1>1. CASE Runs
  BY <1>0, <1>1, RunsStepOf, AskedStays, DeadlineStays DEF Runs
<1>2. CASE ProcessDies
  <2>1. /\ op'[s] = Idle /\ store'[s] = Absent /\ phase' = "down" /\ UNCHANGED promised
        /\ created'[s].endAt = created[s].endAt
        /\ created'[s].step = StepAfterDeath(s)
    BY <1>0, <1>2 DEF ProcessDies, TypeOK
  <2>2. created'[s].step # "done" => created[s].step # "done"
    BY <2>1 DEF StepAfterDeath
  <2> QED BY <1>0, <2>1, <2>2 DEF Asked, AsCreated, Idle, Absent
<1>3. CASE StartProcess
  BY <1>0, <1>3 DEF StartProcess, vars, Asked, AsCreated, RestoredRecord
<1>4. CASE NextPhase
  <2>1. phase' # "restore"
    BY <1>4 DEF NextPhase, Booting
  <2> QED BY <1>0, <1>4, <2>1 DEF NextPhase, vars, Asked, AsCreated
<1>5. ASSUME NEW u \in Sandboxes, BootStep(u) PROVE Asked(s)' /\ AsCreated(s)'
  <2>1. /\ UNCHANGED <<phase, listed, created, promised>> /\ todo' = todo \ {u}
        /\ OnlyTouches(u) /\ BootVisit(u)
    BY <1>0, <1>5, BootStepVisits
  <2>2. /\ op'[s] = op[s] \/ op'[s].kind = "boot"
        /\ store'[s] = store[s] \/ (phase = "restore" /\ s \in todo /\ store'[s] = listed[s])
    BY <2>1 DEF OnlyTouches, BootVisit
  <2> QED BY <1>0, <2>1, <2>2 DEF Asked, AsCreated
<1>6. CASE UNCHANGED allVars
  BY <1>0, <1>6 DEF allVars, vars, bootVars, Asked, AsCreated
<1> QED BY <1>1, <1>2, <1>3, <1>4, <1>5, <1>6, Steps

\* As long as no client renews, no process acts on a sandbox before the deadline that
\* the client was told, whenever and however often the process died.  Renewals are not
\* written to the labels: with them the next process may be early.
THEOREM DeathKeepsPromises ==
  ASSUME Requests \cap Renewals = {}
  PROVE  RestartSpec => []NoExpiryBeforePromise
<1>1. BootInit => PromiseInv
  <2> SUFFICES ASSUME BootInit PROVE PromiseInv
    OBVIOUS
  <2>1. ASSUME NEW s \in Sandboxes PROVE Asked(s) /\ AsCreated(s)
    <3>1. /\ store[s] = Absent /\ op[s] = Idle /\ promised[s] = 0 /\ created[s].endAt = 0
          /\ phase = "serving"
      BY DEF BootInit, Init
    <3> QED BY <3>1 DEF Asked, AsCreated, Idle, Absent
  <2> QED BY <2>1, RestoreInit DEF PromiseInv
<1>2. PromiseInv => NoExpiryBeforePromise
  <2> SUFFICES ASSUME PromiseInv, NEW s \in Sandboxes, op[s].kind = "expire"
               PROVE  clock >= promised[s]
    BY DEF NoExpiryBeforePromise
  <2>1. /\ TypeOK /\ Lock(s) /\ AsCreated(s)
    BY DEF PromiseInv, RestoreInv, LockInv, TypeInv
  <2>2. store[s].state = "running" /\ store[s].endAt <= clock
    BY <2>1 DEF Lock, HeldRecord
  <2>3. clock \in Nat /\ store[s].endAt \in Nat /\ promised[s] \in Nat
    BY <2>1, ConstantsAssumption DEF TypeOK, Record, Time
  <2> QED BY <2>1, <2>2, <2>3 DEF AsCreated
<1> QED BY <1>1, <1>2, PromiseStep, PTL DEF RestartSpec

---------------------------------------------------------------------------
(* The timers across restarts.                                             *)

\* Nothing wakes a sandbox behind the store's back: no operator does, and no commit
\* that a resume has overtaken.
Undisturbed ==
  /\ "unpause" \notin ExternalChanges
  /\ "snapshot" \in Requests => Requests \cap {"resume", "connect"} = {}

\* The sandbox is not woken while it is paused for a commit.
CommitSleeps(s) ==
  /\ commits[s] = "paused" => rt[s] # "running"
  /\ commits[s] # "none" => "snapshot" \in Requests /\ created[s].step \in {"sync", "done"}
  /\ op[s].step = "resume" => op[s].kind \in {"resume", "connect"}

\* So a process that starts during a commit of the last one holds the sandbox to be
\* paused until the commit ends; it serves no requests yet.
NotDuringCommit(s) ==
  /\ phase # "serving" => op[s].kind \in {"idle", "expire", "boot"} /\ commits[s] # "pending"
  /\ phase \in Booting /\ commits[s] = "paused" =>
       /\ store[s].state # "running"
       /\ phase = "restore" /\ s \in todo => listed[s].state # "running"

\* The sandbox does not run, and nothing but a request will wake it; its table entry
\* may be left over from a record that restoreSandboxDeadlines had listed.
Asleep(s) ==
  /\ created[s].step = "done"
  /\ store[s].state # "running"
  /\ rt[s] # "running"
  /\ commits[s] # "paused"
  /\ op[s].step # "resume"
  /\ timers[s].set # "none" => timers[s].expected <= timers[s].fireAt
  /\ \A e \in callbacks[s] : e <= clock

\* Restored, and not reconciled yet.
Unsynced(s) == op[s].kind = "boot" /\ timers[s] = NoTimer /\ callbacks[s] = {}

Covered(s) == TimerOfRecord(s) \/ Asleep(s) \/ Unsynced(s)

\* What restoreSandboxDeadlines has listed is what is in the store, or is of a sandbox
\* that has stopped running since.
Resyncing(s) == phase = "sync" /\ s \in todo => store[s] = listed[s] \/ Asleep(s)

CoveredBy(s) ==
  /\ UnansweredCreate(s) /\ Asked(s)
  /\ CommitSleeps(s) /\ NotDuringCommit(s)
  /\ Covered(s) /\ Resyncing(s)

CoverInv == RestoreInv /\ \A s \in Sandboxes : CoveredBy(s)

\* What a handler of the lifecycle does to the sandbox, told apart by the record it
\* leaves.
LEMMA LockedEffect ==
  ASSUME RestoreInv, NEW s \in Sandboxes, LockedStep(s)
  PROVE  /\ op[s].step # "none" /\ store[s].state # "absent" /\ created[s].step \in {"sync", "done"}
         /\ UNCHANGED <<created, clock, stopped>>
         /\ \/ /\ store' = store /\ commits' = commits /\ op[s].step # "resume"
               /\ rt'[s] = "running" => rt[s] = "running"
               /\ op'[s] = Idle \/ op'[s].step = "inspect"
               /\ op[s].kind # "expire" => timers' = timers
               /\ callbacks' = callbacks
            \/ /\ op[s].step = "resume" /\ op'[s] = Idle /\ commits' = commits
               /\ op[s].kind \in Renewals
            \/ /\ op[s].step = "commit" /\ op'[s] = Idle /\ commits' = commits
               /\ op[s].kind \in Renewals /\ rt' = rt
               /\ \E record \in Record : Put(s, record) /\ record.state = store[s].state
               /\ callbacks' = callbacks
            \/ /\ rt'[s] # "running" /\ op'[s] = Idle /\ commits' = commits
               /\ \E record \in Record : Put(s, record) /\ record.state # "running"
               /\ callbacks' = callbacks
            \/ InspectExists(s)
            \/ ExpiryReconciles(s)
<1>0. TypeOK /\ Holder(s)
  BY DEF RestoreInv, LockInv, TypeInv
<1>1. op[s].step # "none"
  BY DEF LockedStep, InspectFails, InspectMissing, InspectExists, DeleteSucceeds, DeleteFails,
         PauseSucceeds, PauseFails, ResumeSucceeds, ResumeFails, CommitEndAt, ExpiryReconciles
<1>2. store[s].state # "absent" /\ created[s].step \in {"sync", "done"} /\ store[s] \in Record
  BY <1>1, HolderFacts DEF RestoreInv
<1>3. UNCHANGED <<created, clock, stopped>>
  BY DEF LockedStep, InspectFails, InspectMissing, InspectExists, DeleteSucceeds, DeleteFails,
         PauseSucceeds, PauseFails, ResumeSucceeds, ResumeFails, CommitEndAt, ExpiryReconciles
<1>4. Unlock(s) => op'[s] = Idle
  BY <1>0 DEF Unlock, TypeOK
<1>5. CASE InspectFails(s) \/ DeleteFails(s) \/ PauseFails(s)
  <2>1. /\ store' = store /\ commits' = commits /\ op[s].step # "resume"
        /\ op[s].kind # "expire" => timers' = timers
        /\ callbacks' = callbacks
    BY <1>5 DEF InspectFails, DeleteFails, PauseFails
  <2>2. rt'[s] = "running" => rt[s] = "running"
    BY <1>0, <1>5 DEF InspectFails, DeleteFails, PauseFails, LateEffect, TypeOK
  <2>3. op'[s] = Idle \/ op'[s].step = "inspect"
    BY <1>0, <1>4, <1>5 DEF InspectFails, DeleteFails, PauseFails, TypeOK, Op
  <2> QED BY <1>1, <1>2, <1>3, <2>1, <2>2, <2>3
<1>6. CASE ResumeSucceeds(s) \/ ResumeFails(s)
  BY <1>0, <1>1, <1>2, <1>3, <1>4, <1>6 DEF ResumeSucceeds, ResumeFails, Holder
<1>7. CASE CommitEndAt(s)
  <2> DEFINE record == [store[s] EXCEPT !.endAt = RenewedEndAt(s)]
  <2>1. op[s].kind \in Renewals
    BY <1>0, <1>7 DEF CommitEndAt, Holder
  <2>2. record \in Record /\ record.state = store[s].state
    BY <1>2, <2>1, RenewedType DEF Record, RestoreInv, LockInv
  <2> QED BY <1>1, <1>2, <1>3, <1>4, <1>7, <2>1, <2>2 DEF CommitEndAt
<1>8. CASE InspectMissing(s) \/ DeleteSucceeds(s)
  <2>1. Put(s, Absent) /\ rt'[s] # "running"
    BY <1>0, <1>8 DEF InspectMissing, DeleteSucceeds, TypeOK, Alive
  <2> QED BY <1>1, <1>2, <1>3, <1>4, <1>8, <2>1, EmptyTypes DEF InspectMissing, DeleteSucceeds, Absent
<1>9. CASE PauseSucceeds(s)
  <2> DEFINE record == [store[s] EXCEPT !.state = "paused"]
  <2>1. record \in Record /\ record.state = "paused"
    BY <1>2 DEF Record, Alive
  <2>2. rt'[s] # "running"
    BY <1>0, <1>9 DEF PauseSucceeds, TypeOK
  <2> QED BY <1>1, <1>2, <1>3, <1>4, <1>9, <2>1, <2>2 DEF PauseSucceeds
<1> QED BY <1>1, <1>2, <1>3, <1>5, <1>6, <1>7, <1>8, <1>9 DEF LockedStep

\* No step of the lifecycle wakes a sandbox that is paused for a commit, or makes the
\* store of a starting process call it running.
LEMMA CommitStays ==
  ASSUME Undisturbed, RestoreInv, NEW s \in Sandboxes, StepOf(s), UNCHANGED bootVars,
         Asked(s), CommitSleeps(s), NotDuringCommit(s)
  PROVE  CommitSleeps(s)' /\ NotDuringCommit(s)'
<1>0. /\ TypeOK /\ Holder(s) /\ Lock(s) /\ Idle.kind = "idle" /\ Idle.step = "none"
      /\ UNCHANGED <<phase, todo, listed>>
  BY DEF RestoreInv, LockInv, TypeInv, bootVars, Idle, NotDuringCommit
<1>1. CASE UNCHANGED <<store[s], rt[s], op[s], commits[s], created[s].step>>
  BY <1>0, <1>1 DEF CommitSleeps, NotDuringCommit
<1>2. CASE phase = "serving" /\ Arrive(s)
  <2>1. /\ UNCHANGED <<rt, commits>>
        /\ created'[s] # created[s] => created[s].step = "none"
        /\ op'[s] # op[s] => op'[s].step = "inspect"
    BY <1>0, <1>2 DEF Arrive, CreateBegin, LockAndCheck, RefuseExpired, RefuseAbsent, TypeOK
  <2> QED BY <1>0, <1>2, <2>1 DEF CommitSleeps, NotDuringCommit, Booting
<1>3. CASE phase = "serving" /\ CreateStep(s)
  <2>1. CASE CreateRuntime(s)
    BY <1>0, <1>3, <2>1 DEF CreateRuntime, CommitSleeps, NotDuringCommit, Booting
  <2>2. CASE CreateStore(s) \/ CreateSync(s)
    <3>1. /\ UNCHANGED <<rt, op, commits>> /\ created'[s].step \in {"sync", "done"}
      BY <1>0, <2>2 DEF CreateStore, CreateSync, TypeOK
    <3> QED BY <1>0, <1>3, <3>1 DEF CommitSleeps, NotDuringCommit, Booting
  <2> QED BY <1>3, <2>1, <2>2 DEF CreateStep
<1>4. CASE Expiry(s)
  <2>1. /\ UNCHANGED <<store, rt, commits, created>>
        /\ op'[s] = op[s] \/ op'[s] = Idle
           \/ (op'[s].kind = "expire" /\ op'[s].step \in {"pause", "delete"})
    BY <1>0, <1>4 DEF Expiry, TimerFires, ExpiryBegins, ExpiryStep, TypeOK
  <2> QED BY <1>0, <2>1 DEF CommitSleeps, NotDuringCommit
<1>5. CASE Outside(s)
  <2>1. /\ UNCHANGED <<store, op, created>>
        /\ commits'[s] # "none" => commits[s] # "none"
        /\ commits'[s] = "pending" => commits[s] = "pending"
        /\ commits'[s] = "paused" => rt'[s] # "running" /\ (commits[s] = "paused" \/ commits[s] = "pending")
    BY <1>0, <1>5 DEF Undisturbed, Outside, SnapshotPauses, SnapshotResumes, ExternalChange, TypeOK,
       CommitSleeps, Alive
  <2> QED BY <1>0, <2>1 DEF CommitSleeps, NotDuringCommit, Booting
<1>6. CASE LockedStep(s)
  <2>0. /\ op[s].step # "none" /\ created[s].step \in {"sync", "done"} /\ created' = created
        /\ op[s].kind \in Renewals => phase = "serving"
        /\ op[s].kind \in {"resume", "connect"} => commits[s] = "none"
        /\ op[s].kind = "snapshot" => "snapshot" \in Requests /\ phase = "serving"
        /\ Idle.step # "resume"
    BY <1>0, <1>6, LockedEffect DEF NotDuringCommit, CommitSleeps, Asked, Renewals, Undisturbed
  <2>1. CASE store' = store /\ commits' = commits /\ op[s].step # "resume"
             /\ (rt'[s] = "running" => rt[s] = "running") /\ (op'[s] = Idle \/ op'[s].step = "inspect")
    <3>1. op'[s].kind \in {"idle", op[s].kind}
      BY <1>0, <1>6, <2>0, <2>1 DEF LockedStep, InspectFails, InspectMissing, InspectExists,
         DeleteSucceeds, DeleteFails, PauseSucceeds, PauseFails, ResumeSucceeds, ResumeFails,
         CommitEndAt, ExpiryReconciles, Unlock, TypeOK, Op
    <3> QED BY <1>0, <2>0, <2>1, <3>1 DEF CommitSleeps, NotDuringCommit
  <2>2. CASE op[s].step = "resume" /\ op'[s] = Idle /\ commits' = commits
    BY <1>0, <2>0, <2>2 DEF CommitSleeps, NotDuringCommit, Booting, Renewals
  <2>3. CASE op[s].kind \in Renewals /\ rt' = rt /\ op'[s] = Idle /\ commits' = commits
    BY <1>0, <2>0, <2>3 DEF CommitSleeps, NotDuringCommit, Booting
  <2>4. ASSUME NEW record \in Record, Put(s, record), record.state # "running",
               rt'[s] # "running", op'[s] = Idle, commits' = commits
        PROVE  CommitSleeps(s)' /\ NotDuringCommit(s)'
    <3>1. store'[s] = record
      BY <1>0, <2>4 DEF Put, TypeOK
    <3> QED BY <1>0, <2>0, <2>4, <3>1 DEF CommitSleeps, NotDuringCommit
  <2>5. CASE InspectExists(s)
    <3> DEFINE step == StepAfterReconcile(op[s].kind, rt[s])
    <3>1. /\ op'[s] = IF step = "none" THEN Idle ELSE [op[s] EXCEPT !.step = step]
          /\ commits'[s] = IF op[s].kind = "snapshot" THEN "pending" ELSE commits[s]
          /\ store'[s].state = rt[s] /\ rt' = rt
      BY <1>0, <2>5 DEF InspectExists, Put, TypeOK, Record
    <3>2. step = "resume" => op[s].kind \in {"resume", "connect"}
      BY DEF StepAfterReconcile
    <3> HIDE DEF step
    <3>3. /\ op'[s].kind \in {"idle", op[s].kind}
          /\ op'[s].step = "resume" => step = "resume" /\ op'[s].kind = op[s].kind
      BY <1>0, <2>0, <3>1 DEF TypeOK, Op
    <3>4. CommitSleeps(s)'
      BY <2>0, <3>1, <3>2, <3>3 DEF CommitSleeps
    <3>5. NotDuringCommit(s)'
      BY <1>0, <2>0, <3>1, <3>3 DEF CommitSleeps, NotDuringCommit, Booting
    <3> QED BY <3>4, <3>5
  <2>6. CASE ExpiryReconciles(s)
    <3>1. store'[s].state = rt[s] /\ rt' = rt /\ op'[s] = Idle /\ commits' = commits
      BY <1>0, <2>6 DEF ExpiryReconciles, Unlock, TypeOK, Record
    <3> QED BY <1>0, <2>0, <3>1 DEF CommitSleeps, NotDuringCommit
  <2> QED BY <1>6, LockedEffect, <2>1, <2>2, <2>3, <2>4, <2>5, <2>6
<1> QED BY <1>1, <1>2, <1>3, <1>4, <1>5, <1>6 DEF StepOf, Tick, Shutdown, Untouched

\* A store write of a sandbox that does not run cancels whatever entry there was.
LEMMA PutStopped ==
  ASSUME TypeOK, NEW s \in Sandboxes, NEW record \in Record, Put(s, record), record.state # "running",
         UNCHANGED <<clock, callbacks>>, \A e \in callbacks[s] : e <= clock
  PROVE  TimerOfRecord(s)' /\ store'[s] = record /\ timers'[s] = NoTimer
<1>1. store'[s] = record /\ timers'[s] = NoTimer
  BY DEF Put, TypeOK, syncSandboxDeadline
<1> QED BY <1>1 DEF TimerOfRecord, NoTimer

\* No step but a handler's ends the sleep of a sandbox.
LEMMA SleepStays ==
  ASSUME Undisturbed, RestoreInv, NEW s \in Sandboxes, Asleep(s), StepOf(s), ~LockedStep(s)
  PROVE  Asleep(s)'
<1>0. TypeOK /\ Idle.step = "none" /\ NoTimer.set = "none" /\ clock \in Nat
      /\ timers[s].fireAt \in Nat /\ timers[s].expected \in Nat /\ callbacks[s] \subseteq Nat
  BY ConstantsAssumption DEF RestoreInv, LockInv, TypeInv, Idle, NoTimer, TypeOK, Time, Timer
<1>1. CASE Tick
  <2>1. clock' = clock + 1 /\ UNCHANGED <<store, rt, created, timers, callbacks, op, commits>>
    BY <1>1 DEF Tick
  <2> QED BY <1>0, <2>1 DEF Asleep
<1>2. CASE Shutdown
  <2>1. timers'[s] = NoTimer /\ UNCHANGED <<clock, store, rt, created, callbacks, op, commits>>
    BY <1>2 DEF Shutdown
  <2> QED BY <1>0, <2>1 DEF Asleep
<1>3. CASE Arrive(s)
  <2>1. UNCHANGED <<clock, store, rt, created, timers, callbacks, commits>>
        /\ op'[s].step \in {op[s].step, "inspect"}
    BY <1>0, <1>3 DEF Arrive, CreateBegin, LockAndCheck, RefuseExpired, RefuseAbsent,
       sandboxRecordTerminallyExpired, Asleep, TypeOK
  <2> QED BY <2>1 DEF Asleep
<1>4. ~CreateStep(s)
  BY DEF Asleep, CreateStep, CreateRuntime, CreateStore, CreateSync
<1>5. CASE TimerFires(s)
  <2>1. /\ UNCHANGED <<clock, store, rt, created, op, commits>>
        /\ timers'[s].expected = timers[s].expected /\ timers'[s].fireAt = timers[s].fireAt
        /\ callbacks'[s] = callbacks[s] \cup {timers[s].expected}
        /\ timers[s].set = "armed" /\ clock >= timers[s].fireAt
    BY <1>0, <1>5 DEF TimerFires, TypeOK, Timer
  <2> QED BY <1>0, <2>1 DEF Asleep
<1>6. ASSUME NEW e \in callbacks[s], ExpiryBegins(s, e) PROVE Asleep(s)'
  <2>1. /\ UNCHANGED <<clock, store, rt, created, commits>>
        /\ timers'[s] = timers[s] \/ timers'[s] = NoTimer
        /\ callbacks'[s] \subseteq callbacks[s]
        /\ op'[s] = op[s] \/ op'[s] = Idle
    BY <1>0, <1>6 DEF ExpiryBegins, Expirable, Asleep, TypeOK
  <2> QED BY <1>0, <2>1 DEF Asleep
<1>7. CASE Outside(s)
  <2>1. /\ UNCHANGED <<clock, store, created, timers, callbacks, op>>
        /\ rt'[s] # "running" /\ commits'[s] # "paused"
    BY <1>0, <1>7 DEF Undisturbed, Outside, SnapshotPauses, SnapshotResumes, ExternalChange, Asleep, TypeOK
  <2> QED BY <2>1 DEF Asleep
<1>8. CASE Untouched(s)
  BY <1>8 DEF Untouched, Asleep
<1> QED BY <1>1, <1>2, <1>3, <1>4, <1>5, <1>6, <1>7, <1>8 DEF StepOf, Expiry

\* A handler lets it sleep, or leaves it with the right table entry: none.
LEMMA SleepEnds ==
  ASSUME RestoreInv, NEW s \in Sandboxes, Asleep(s), LockedStep(s)
  PROVE  Asleep(s)' \/ TimerOfRecord(s)'
<1>0. /\ TypeOK /\ store[s] \in Record /\ op[s].kind # "expire" /\ Idle.step = "none"
      /\ UNCHANGED <<created, clock>>
  BY LockedEffect DEF RestoreInv, LockInv, TypeInv, TypeOK, Lock, HeldRecord, Asleep, Idle
<1>1. ASSUME NEW record \in Record, Put(s, record), record.state # "running", callbacks' = callbacks
      PROVE  TimerOfRecord(s)'
  BY <1>0, <1>1, PutStopped DEF Asleep
<1>2. CASE InspectExists(s)
  <2> DEFINE record == [store[s] EXCEPT !.state = rt[s]]
  <2>1. Put(s, record) /\ record \in Record /\ record.state # "running" /\ callbacks' = callbacks
    BY <1>0, <1>2 DEF InspectExists, Record, Asleep, TypeOK
  <2> QED BY <1>1, <2>1
<1>3. ~ExpiryReconciles(s)
  BY <1>0 DEF ExpiryReconciles
<1> QED BY <1>0, <1>1, <1>2, <1>3, LockedEffect DEF Asleep

\* A restored sandbox is reconciled before anything else happens to it.
LEMMA UnsyncedStays ==
  ASSUME RestoreInv, NEW s \in Sandboxes, Unsynced(s), StepOf(s)
  PROVE  Unsynced(s)' \/ TimerOfRecord(s)'
<1>0. /\ TypeOK /\ store[s] \in Record /\ phase # "serving"
      /\ op[s].kind = "boot" /\ timers[s] = NoTimer /\ callbacks[s] = {}
  BY DEF RestoreInv, LockInv, TypeInv, TypeOK, Restarted, BootHolder, Unsynced
<1>1. CASE Tick \/ Untouched(s) \/ Outside(s)
  BY <1>1 DEF Unsynced, Tick, Untouched, Outside, SnapshotPauses, SnapshotResumes, ExternalChange
<1>2. ~Expiry(s)
  BY <1>0 DEF Expiry, TimerFires, NoTimer
<1>3. ASSUME NEW record \in Record, Put(s, record), UNCHANGED <<clock, callbacks, created, stopped>>
      PROVE  TimerOfRecord(s)'
  <2>1. /\ store'[s] = record
        /\ timers'[s] = syncSandboxDeadline(NoTimer, record)
        /\ record.endAt \in Nat
    BY <1>0, <1>3, ConstantsAssumption DEF Put, TypeOK, Record, Time
  <2> QED BY <1>0, <1>3, <2>1 DEF syncSandboxDeadline, schedule, NoTimer, TimerOfRecord
<1>4. CASE InspectMissing(s)
  BY <1>3, <1>4, EmptyTypes DEF InspectMissing
<1>5. CASE InspectExists(s)
  <2> DEFINE record == [store[s] EXCEPT !.state = rt[s]]
  <2>1. record \in Record
    BY <1>0, <1>5 DEF InspectExists, Record, TypeOK
  <2> QED BY <1>3, <1>5, <2>1 DEF InspectExists
<1> QED BY <1>0, <1>1, <1>2, <1>4, <1>5 DEF StepOf

\* Every callback that waits is due, whatever covers the sandbox.
LEMMA CallbacksDue ==
  ASSUME RestoreInv, NEW s \in Sandboxes, Covered(s)
  PROVE  \A e \in callbacks[s] : e <= clock
BY DEF Covered, TimerOfRecord, Asleep, Unsynced

\* While restoreSandboxDeadlines runs, only expiries change the store, and all they do
\* is to end the run of a sandbox.
LEMMA ResyncingStays ==
  ASSUME Undisturbed, RestoreInv, NEW s \in Sandboxes, StepOf(s), UNCHANGED bootVars,
         Covered(s), NotDuringCommit(s), Resyncing(s)
  PROVE  Resyncing(s)'
<1> SUFFICES ASSUME phase = "sync", s \in todo, phase' = phase, listed' = listed
             PROVE  store'[s] = listed[s] \/ Asleep(s)'
  BY DEF Resyncing, bootVars
<1>0. /\ TypeOK /\ Lock(s) /\ store[s] \in Record /\ Idle.step = "none"
      /\ op[s].kind \in {"idle", "expire"}
      /\ created[s].step \in {"none", "failed", "done"}
      /\ op[s].kind = "idle" => op[s] = Idle
  <2>1. TypeOK /\ Holder(s) /\ Lock(s) /\ BootHolder(s) /\ Settled(s)
    BY DEF RestoreInv, LockInv, TypeInv, Restarted
  <2>2. store[s] \in Record /\ Idle.step = "none"
    BY <2>1 DEF TypeOK, Idle
  <2> QED BY <2>1, <2>2 DEF Holder, BootHolder, Settled, NotDuringCommit
<1>1. CASE ~LockedStep(s)
  <2>1. store' = store \/ Untouched(s)
    BY <1>1 DEF StepOf, Tick, Expiry, TimerFires, ExpiryBegins, Outside, SnapshotPauses,
       SnapshotResumes, ExternalChange
  <2>2. store'[s] = store[s]
    BY <2>1 DEF Untouched
  <2> QED BY <1>1, <2>2, SleepStays DEF Resyncing
<1>2. CASE LockedStep(s)
  <2>1. /\ op[s].step # "none" /\ created[s].step = "done" /\ op[s].kind = "expire"
        /\ UNCHANGED <<created, clock>>
    BY <1>0, <1>2, LockedEffect
  <2>2. store[s].state = "running" /\ commits[s] # "paused" /\ store[s] = listed[s]
    BY <1>0, <2>1 DEF Lock, HeldRecord, NotDuringCommit, Booting, Resyncing, Asleep
  <2>3. op[s].kind \notin Renewals
    BY <2>1 DEF Renewals
  <2>4. ASSUME NEW record \in Record, Put(s, record), record.state # "running", callbacks' = callbacks,
               rt'[s] # "running", op'[s] = Idle, commits' = commits
        PROVE  Asleep(s)'
    <3>1. store'[s] = record /\ timers'[s] = NoTimer
      BY <1>0, <2>1, <2>4, PutStopped, CallbacksDue
    <3> QED BY <1>0, <2>1, <2>2, <2>4, <3>1, CallbacksDue DEF Asleep, NoTimer
  <2>5. CASE ExpiryReconciles(s)
    <3> DEFINE record == [store[s] EXCEPT !.state = rt[s]]
    <3>1. store'[s] = record /\ record \in Record
      BY <1>0, <2>5 DEF ExpiryReconciles, TypeOK, Record
    <3>2. CASE rt[s] = "running"
      <4>1. record = store[s]
        BY <1>0, <2>2, <3>2 DEF Record
      <4> QED BY <2>2, <3>1, <4>1
    <3>3. CASE rt[s] # "running"
      <4>1. Put(s, record) /\ op'[s] = Idle /\ UNCHANGED <<callbacks, commits, rt>>
        BY <1>0, <2>5, <3>3 DEF ExpiryReconciles, Put, Unlock, TypeOK
      <4>2. record.state # "running"
        BY <1>0, <3>3 DEF Record
      <4> QED BY <2>4, <3>1, <3>3, <4>1, <4>2
    <3> QED BY <3>2, <3>3
  <2>6. ~InspectExists(s)
    BY <2>1 DEF InspectExists
  <2> QED BY <1>2, <2>2, <2>3, <2>4, <2>5, <2>6, LockedEffect
<1> QED BY <1>1, <1>2

\* The steps of the lifecycle keep what covers a sandbox.
LEMMA RunsCover ==
  ASSUME ~SharedCreateWindow, Undisturbed, CoverInv, Runs
  PROVE  CoverInv'
<1>0. RestoreInv /\ RestoreInv' /\ UNCHANGED bootVars
  BY RunsKeep DEF CoverInv, Runs
<1>1. \A s \in Sandboxes : LinkKept(s)
  BY LinkStep DEF CoverInv, CoveredBy, AnsweredInv, RestoreInv, Runs
<1> SUFFICES ASSUME NEW s \in Sandboxes PROVE CoveredBy(s)'
  BY <1>0 DEF CoverInv
<1>2. /\ StepOf(s) /\ Asked(s) /\ CommitSleeps(s) /\ NotDuringCommit(s) /\ Covered(s) /\ Resyncing(s)
  BY <1>0, RunsStepOf DEF CoverInv, CoveredBy
<1>3. UnansweredCreate(s)' /\ Asked(s)'
  BY <1>0, <1>1, <1>2, AskedStays DEF LinkKept
<1>4. CommitSleeps(s)' /\ NotDuringCommit(s)'
  BY <1>0, <1>2, CommitStays
<1>5. Covered(s)'
  BY <1>0, <1>1, <1>2, SleepStays, SleepEnds, UnsyncedStays DEF Covered, LinkKept
<1>6. Resyncing(s)'
  BY <1>0, <1>2, ResyncingStays
<1> QED BY <1>3, <1>4, <1>5, <1>6 DEF CoveredBy

\* The first loop stores a record and reconciles it, or sets its timer if it expired
\* while the gateway was down.
LEMMA RestoreCovers ==
  ASSUME RestoreInv, NEW s \in Sandboxes, CoveredBy(s), RestoreOne(s)
  PROVE  CoveredBy(s)'
<1> USE DEF CoveredBy
<1>0. /\ TypeOK /\ listed[s] \in Record
      /\ timers[s] = NoTimer /\ callbacks[s] = {} /\ op[s] = Idle
      /\ created[s].step = "done" /\ listed[s].state \in Alive
      /\ phase = "restore" /\ s \in todo
  BY DEF RestoreOne, RestoreInv, LockInv, TypeInv, BootTypeOK, Restarted, Emptied, Settled, Waits
<1>1. /\ UNCHANGED <<clock, rt, created, callbacks, commits, stopped, phase, listed>>
      /\ store'[s] = listed[s] /\ s \notin todo'
  BY <1>0 DEF RestoreOne, TypeOK
<1>2. CASE sandboxRecordTerminallyExpired(listed[s])
  <2>1. op' = op /\ timers'[s] = syncSandboxDeadline(NoTimer, listed[s]) /\ listed[s].endAt \in Nat
    BY <1>0, <1>2, ConstantsAssumption DEF RestoreOne, BootReconcile, TypeOK, Record, Time
  <2>2. TimerOfRecord(s)'
    BY <1>0, <1>1, <2>1 DEF syncSandboxDeadline, schedule, NoTimer, TimerOfRecord
  <2> QED BY <1>0, <1>1, <2>1, <2>2 DEF UnansweredCreate, Asked, CommitSleeps, NotDuringCommit, Covered,
             Resyncing, Booting
<1>3. CASE ~sandboxRecordTerminallyExpired(listed[s])
  <2>1. timers' = timers /\ op'[s] = [kind |-> "boot", step |-> "inspect", arg |-> 0]
    BY <1>0, <1>3 DEF RestoreOne, BootReconcile, TypeOK
  <2> QED BY <1>0, <1>1, <2>1 DEF UnansweredCreate, Asked, CommitSleeps, NotDuringCommit, Covered,
             Unsynced, Resyncing, Booting
<1> QED BY <1>2, <1>3

\* A reconciled record keeps what covers it.
LEMMA ReconcileCovers ==
  ASSUME RestoreInv, NEW s \in Sandboxes, CoveredBy(s), ReconcileOne(s)
  PROVE  CoveredBy(s)'
<1> USE DEF CoveredBy
<1>0. /\ TypeOK /\ store[s] \in Record /\ op[s] = Idle /\ Idle.kind = "idle"
      /\ created[s].step \in {"none", "failed", "done"}
      /\ phase = "reconcile"
  BY DEF ReconcileOne, RestoreInv, LockInv, TypeInv, TypeOK, Restarted, Settled, Idle
<1>1. UNCHANGED <<clock, store, rt, created, callbacks, commits, stopped, promised, phase, listed>>
  BY DEF ReconcileOne
<1>2. CASE UNCHANGED <<op[s], timers[s]>>
  BY <1>0, <1>1, <1>2 DEF UnansweredCreate, CreatedRecord, Asked, CommitSleeps, NotDuringCommit, Covered,
     TimerOfRecord, Asleep, Unsynced, Resyncing
<1>3. CASE s \in Present /\ BootReconcile(s, store[s])
  <2>1. created[s].step = "done"
    BY <1>0, <1>3 DEF UnansweredCreate, Present, Absent
  <2>2. CASE sandboxRecordTerminallyExpired(store[s])
    <3>1. /\ op' = op /\ timers'[s] = syncSandboxDeadline(timers[s], store[s])
          /\ store[s].state = "running"
      BY <1>0, <1>3, <2>2 DEF BootReconcile, TypeOK, sandboxRecordTerminallyExpired
    <3>2. TimerOfRecord(s)
      BY <1>0, <3>1 DEF Covered, Asleep, Unsynced
    <3>3. TimerOfRecord(s)'
      BY <1>0, <1>1, <3>1, <3>2, SyncedTimer DEF TimerOfRecord
    <3> QED BY <1>0, <1>1, <2>1, <3>1, <3>3 DEF UnansweredCreate, Asked, CommitSleeps, NotDuringCommit,
               Covered, Resyncing
  <2>3. CASE ~sandboxRecordTerminallyExpired(store[s])
    <3>1. timers' = timers /\ op'[s] = [kind |-> "boot", step |-> "inspect", arg |-> 0]
      BY <1>0, <1>3, <2>3 DEF BootReconcile, TypeOK
    <3>2. Covered(s)'
      BY <1>0, <1>1, <3>1 DEF Covered, TimerOfRecord, Asleep, Unsynced
    <3> QED BY <1>0, <1>1, <2>1, <3>1, <3>2 DEF UnansweredCreate, Asked, CommitSleeps, NotDuringCommit,
               Resyncing
  <2> QED BY <2>2, <2>3
<1> QED BY <1>2, <1>3 DEF ReconcileOne

\* The record that restoreSandboxDeadlines syncs is the stored one, or the sandbox is
\* asleep: its entry will find nothing to do.
LEMMA ResyncCovers ==
  ASSUME RestoreInv, NEW s \in Sandboxes, CoveredBy(s), ResyncOne(s)
  PROVE  CoveredBy(s)'
<1> USE DEF CoveredBy
<1>0. /\ TypeOK /\ store[s] \in Record /\ listed[s] \in Record /\ timers[s] \in Timer
      /\ created[s].step \in {"none", "failed", "done"}
      /\ phase = "sync" /\ s \in todo /\ op[s].kind # "boot"
  BY DEF ResyncOne, RestoreInv, LockInv, TypeInv, TypeOK, BootTypeOK, Restarted, BootHolder, Settled
<1>1. /\ UNCHANGED <<clock, store, rt, created, callbacks, op, commits, stopped, promised, phase, listed>>
      /\ timers'[s] = syncSandboxDeadline(timers[s], listed[s]) /\ s \notin todo'
  BY <1>0 DEF ResyncOne, TypeOK
<1>2. Asked(s)' /\ CommitSleeps(s)' /\ NotDuringCommit(s)' /\ Resyncing(s)'
  BY <1>0, <1>1 DEF Asked, CommitSleeps, NotDuringCommit, Resyncing
<1>3. UnansweredCreate(s)'
  <2>1. created[s].step # "done" => listed[s] = Absent
    BY <1>0 DEF UnansweredCreate, Resyncing, Asleep
  <2>2. listed[s] = Absent => timers'[s].set = "none"
    <3>1. Absent.state = "absent" /\ NoTimer.set = "none"
      BY DEF Absent, NoTimer
    <3> QED BY <1>1, <3>1 DEF syncSandboxDeadline
  <2> QED BY <1>1, <2>1, <2>2 DEF UnansweredCreate, CreatedRecord
<1>4. CASE Asleep(s)
  <2>1. timers'[s].set # "none" => timers'[s].expected <= timers'[s].fireAt
    <3>1. listed[s].endAt \in Nat
      BY <1>0, ConstantsAssumption DEF Record, Time
    <3> QED BY <1>1, <1>4, <3>1 DEF syncSandboxDeadline, schedule, NoTimer, Asleep
  <2> QED BY <1>1, <1>2, <1>3, <1>4, <2>1 DEF Covered, Asleep
<1>5. CASE store[s] = listed[s] /\ TimerOfRecord(s)
  <2>1. TimerOfRecord(s)'
    BY <1>0, <1>1, <1>5, SyncedTimer DEF TimerOfRecord
  <2> QED BY <1>2, <1>3, <2>1 DEF Covered
<1> QED BY <1>0, <1>4, <1>5 DEF Covered, Unsynced, Resyncing

\* The loops of the start leave every sandbox covered.
LEMMA BootCovers ==
  ASSUME CoverInv, NEW u \in Sandboxes, BootStep(u)
  PROVE  CoverInv'
<1>0. RestoreInv /\ RestoreInv' /\ \A s \in Sandboxes : CoveredBy(s)
  BY BootStepVisits, VisitKeeps DEF CoverInv
<1>1. CoveredBy(u)'
  BY <1>0, RestoreCovers, ReconcileCovers, ResyncCovers DEF BootStep
<1>2. ASSUME NEW s \in Sandboxes, s # u PROVE CoveredBy(s)'
  <2>1. /\ UNCHANGED <<phase, listed, rt, created, promised>> /\ todo' = todo \ {u}
        /\ OnlyTouches(u)
    BY <1>0, BootStepVisits
  <2>2. /\ UNCHANGED <<clock, stopped, phase, listed, rt, created, promised, store[s], timers[s],
                       callbacks[s], op[s], commits[s]>>
        /\ s \in todo' <=> s \in todo
    BY <1>2, <2>1 DEF OnlyTouches
  <2>3. UnansweredCreate(s)' /\ Asked(s)' /\ CommitSleeps(s)' /\ NotDuringCommit(s)'
    BY <1>0, <2>2 DEF CoveredBy, UnansweredCreate, CreatedRecord, Asked, CommitSleeps, NotDuringCommit
  <2>4. Covered(s)' /\ Resyncing(s)'
    BY <1>0, <2>2 DEF CoveredBy, Covered, TimerOfRecord, Asleep, Unsynced, Resyncing
  <2> QED BY <2>3, <2>4 DEF CoveredBy
<1> QED BY <1>0, <1>1, <1>2 DEF CoverInv

\* Every step keeps every sandbox covered.
LEMMA CoverStep ==
  ASSUME ~SharedCreateWindow, Undisturbed
  PROVE  CoverInv /\ [RestartNext]_allVars => CoverInv'
<1> SUFFICES ASSUME CoverInv, [RestartNext]_allVars PROVE CoverInv'
  OBVIOUS
<1>0. /\ RestoreInv /\ RestoreInv' /\ TypeOK
      /\ \A s \in Sandboxes : CoveredBy(s) /\ Restarted(s)
  BY RestoreStep DEF CoverInv, RestoreInv, LockInv, TypeInv
<1>1. CASE ProcessDies
  <2> SUFFICES ASSUME NEW s \in Sandboxes PROVE CoveredBy(s)'
    BY <1>0 DEF CoverInv
  <2>1. /\ op'[s] = Idle /\ store'[s] = Absent /\ timers'[s] = NoTimer /\ callbacks'[s] = {}
        /\ phase' = "down" /\ UNCHANGED <<rt, promised>>
        /\ created'[s].step = StepAfterDeath(s)
        /\ commits'[s] = IF commits[s] = "paused" THEN "paused" ELSE "none"
    BY <1>0, <1>1 DEF ProcessDies, TypeOK
  <2>2. /\ created'[s].step # "done" => created[s].step # "done"
        /\ created'[s].step # "sync"
        /\ created[s].step \in {"sync", "done"} => created'[s].step = "done"
    BY <1>0, <2>1 DEF StepAfterDeath, TypeOK
  <2>3. UnansweredCreate(s)' /\ Asked(s)'
    BY <1>0, <2>1, <2>2 DEF CoveredBy, UnansweredCreate, Asked, Idle, NoTimer
  <2>4. CommitSleeps(s)' /\ NotDuringCommit(s)'
    BY <1>0, <2>1, <2>2 DEF CoveredBy, CommitSleeps, NotDuringCommit, Booting, Idle
  <2>5. Covered(s)' /\ Resyncing(s)'
    BY <2>1 DEF Covered, TimerOfRecord, Resyncing, Absent, NoTimer
  <2> QED BY <2>3, <2>4, <2>5 DEF CoveredBy
<1>2. CASE StartProcess
  <2> SUFFICES ASSUME NEW s \in Sandboxes PROVE CoveredBy(s)'
    BY <1>0 DEF CoverInv
  <2>1. /\ phase = "down" /\ phase' = "restore" /\ UNCHANGED vars
        /\ s \in todo' => s \in Restorable
        /\ s \in Restorable => listed'[s].state = rt[s]
        /\ store[s] = Absent
    BY <1>0, <1>2 DEF StartProcess, RestoredRecord, Restarted, Emptied, Waits
  <2> QED BY <1>0, <2>1 DEF vars, CoveredBy, UnansweredCreate, CreatedRecord, Asked, CommitSleeps,
             NotDuringCommit, Booting, Covered, TimerOfRecord, Asleep, Unsynced, Resyncing, Absent
<1>3. CASE NextPhase
  <2> SUFFICES ASSUME NEW s \in Sandboxes PROVE CoveredBy(s)'
    BY <1>0 DEF CoverInv
  <2>1. /\ phase \in Booting /\ phase' \in {"reconcile", "sync", "serving"} /\ UNCHANGED vars
        /\ phase' = "sync" => listed'[s] = store[s]
    BY <1>3 DEF NextPhase, Booting
  <2> QED BY <1>0, <2>1 DEF vars, CoveredBy, UnansweredCreate, CreatedRecord, Asked, CommitSleeps,
             NotDuringCommit, Booting, Covered, TimerOfRecord, Asleep, Unsynced, Resyncing
<1>4. CASE UNCHANGED allVars
  <2> SUFFICES ASSUME NEW s \in Sandboxes PROVE CoveredBy(s)'
    BY <1>0 DEF CoverInv
  <2>1. UNCHANGED vars /\ UNCHANGED <<phase, todo, listed>>
    BY <1>4 DEF allVars, bootVars
  <2> QED BY <1>0, <2>1 DEF vars, CoveredBy, UnansweredCreate, CreatedRecord, Asked, CommitSleeps,
             NotDuringCommit, Covered, TimerOfRecord, Asleep, Unsynced, Resyncing
<1> QED BY <1>1, <1>2, <1>3, <1>4, Steps, RunsCover, BootCovers

\* Once a restarted gateway serves, every sandbox it holds to be running is watched for
\* the deadline it holds, whatever the loops of the start and the expiries meanwhile
\* have done to the table, as long as nothing wakes a sandbox behind the store's back.
THEOREM RestartCoversAll ==
  ASSUME ~SharedCreateWindow, Undisturbed
  PROVE  RestartSpec => []RestoredAreCovered
<1>1. BootInit => CoverInv
  <2> SUFFICES ASSUME BootInit, NEW s \in Sandboxes PROVE CoveredBy(s)
    BY RestoreInit DEF CoverInv
  <2>1. /\ store[s] = Absent /\ op[s] = Idle /\ promised[s] = 0 /\ created[s].step = "none"
        /\ commits[s] = "none" /\ timers[s] = NoTimer /\ callbacks[s] = {} /\ phase = "serving"
    BY DEF BootInit, Init
  <2> QED BY <2>1 DEF CoveredBy, UnansweredCreate, Asked, CommitSleeps, NotDuringCommit, Booting,
             Covered, TimerOfRecord, Resyncing, Idle, Absent, NoTimer
<1>2. CoverInv => RestoredAreCovered
  <2> SUFFICES ASSUME CoverInv, phase = "serving", NEW s \in Sandboxes,
                      store[s].state = "running", ~stopped, created[s].step # "sync",
                      op[s].kind # "expire"
               PROVE  Watched(s)
    BY DEF RestoredAreCovered, ExpiryCovered
  <2>1. /\ TypeOK /\ BootHolder(s) /\ UnansweredCreate(s) /\ Covered(s)
    BY DEF CoverInv, CoveredBy, RestoreInv, LockInv, TypeInv, Restarted
  <2>2. TimerOfRecord(s) /\ created[s].step = "done"
    BY <2>1 DEF Covered, Asleep, Unsynced, BootHolder, UnansweredCreate, Absent
  <2> QED BY <2>1, <2>2 DEF TimerOfRecord, Watched, TypeOK, Timer
<1> QED BY <1>1, <1>2, CoverStep, PTL DEF RestartSpec
===========================================================================
