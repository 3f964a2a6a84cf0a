-------------------------- MODULE RuntimeContract --------------------------
(***************************************************************************)
(* What the gateway relies on when it calls a backend through the          *)
(* SandboxRuntime interface, one call per sandbox at a time: a call moves  *)
(* the sandbox only where it is meant to, a success tells the truth about  *)
(* the sandbox at some moment of the call, and an error tells nothing (the *)
(* call may have had its effect, or have it later).  SandboxLifecycle      *)
(* makes each call one step under these rules; the backends' modules       *)
(* implement them in many.                                                 *)
(***************************************************************************)

CONSTANTS
  Sandboxes,
  Interference  \* the states others than the gateway may move a sandbox to

VARIABLES
  rt,      \* the sandbox as InspectSandbox would report it
  call,    \* the call under way
  seen,    \* the states the call under way has met and may go by
  owed,    \* the states requests nobody waits for any more may take it to
  answer   \* how the last call ended, "pending" from its beginning on

cvars == <<rt, call, seen, owed, answer>>

States == {"none", "paused", "running", "dead"}

Calls == {"create", "delete", "pause", "resume", "inspect"}

\* Where a call may take the sandbox on its way; a create also takes it back.
Reach(k) ==
  CASE k = "create" -> {"none", "paused", "running", "dead"}
    [] k = "delete" -> {"none", "dead"}
    [] k = "pause"  -> {"paused"}
    [] k = "resume" -> {"running"}
    [] OTHER        -> {}

\* The answers a call may give when the sandbox is in this state.  Pausing a
\* sandbox that has died may be reported as a success (Docker's conflict).
Truthful(k, state) ==
  {"error"} \cup
  CASE k \in {"create", "resume"} -> IF state = "running" THEN {"ok"} ELSE {}
    [] k = "delete"  -> IF state = "none" THEN {"ok"} ELSE {}
    [] k = "pause"   -> IF state \in {"paused", "dead"} THEN {"ok"} ELSE {}
    [] k = "inspect" -> IF state \in {"none", "dead"} THEN {"missing"} ELSE {state}

CInit ==
  /\ rt = [s \in Sandboxes |-> "none"]
  /\ call = [s \in Sandboxes |-> "idle"]
  /\ seen = [s \in Sandboxes |-> {}]
  /\ owed = [s \in Sandboxes |-> {}]
  /\ answer = [s \in Sandboxes |-> "none"]

\* A call under way may take note of the states before and after this step.
Sees(s) ==
  IF call'[s] = "idle"
  THEN seen' = [seen EXCEPT ![s] = {}]
  ELSE seen' \in {[seen EXCEPT ![s] = met] : met \in SUBSET (seen[s] \cup {rt[s], rt'[s]})}

\* Requests are given up, or end.
Owes(s, more) ==
  owed' \in {[owed EXCEPT ![s] = states] : states \in SUBSET (owed[s] \cup more)}

Begin(s, k) ==
  /\ call[s] = "idle"
  /\ call' = [call EXCEPT ![s] = k]
  /\ answer' = [answer EXCEPT ![s] = "pending"]
  /\ UNCHANGED <<rt, owed>>
  /\ Sees(s)

\* The call changes the sandbox, or looks at it, or gives up a request.
Effect(s) ==
  /\ call[s] # "idle"
  /\ rt' \in {rt} \cup {[rt EXCEPT ![s] = st] : st \in Reach(call[s])}
  /\ UNCHANGED <<call, answer>>
  /\ Sees(s) /\ Owes(s, Reach(call[s]))

\* Only with an error it may leave a request behind.
Finish(s) ==
  /\ call[s] # "idle"
  /\ rt' \in {rt} \cup {[rt EXCEPT ![s] = st] : st \in Reach(call[s])}
  /\ \E st \in seen[s] \cup {rt'[s]} :
       answer' \in {[answer EXCEPT ![s] = a] : a \in Truthful(call[s], st)}
  /\ call' = [call EXCEPT ![s] = "idle"]
  /\ Sees(s) /\ Owes(s, IF answer'[s] = "error" THEN Reach(call[s]) ELSE {})

\* A request nobody waits for any more has its effect.
Lands(s) ==
  /\ rt' \in {rt} \cup {[rt EXCEPT ![s] = st] : st \in owed[s]}
  /\ UNCHANGED <<call, answer>>
  /\ Sees(s) /\ Owes(s, {})

\* An operator, a snapshot or the engine stops, wakes, kills or removes the sandbox.
External(s) ==
  /\ rt[s] # "none"
  /\ rt' \in {[rt EXCEPT ![s] = st] : st \in Interference}
  /\ UNCHANGED <<call, answer>>
  /\ Sees(s) /\ Owes(s, {})

\* The gateway dies and every call with it, but not what it has asked for.
Crash ==
  /\ call' = [s \in Sandboxes |-> "idle"]
  /\ seen' = [s \in Sandboxes |-> {}]
  /\ owed' \in [Sandboxes -> SUBSET States]
  /\ \A s \in Sandboxes : owed'[s] \subseteq owed[s] \cup Reach(call[s])
  /\ UNCHANGED <<rt, answer>>

CNext ==
  \/ Crash
  \/ \E s \in Sandboxes :
       Effect(s) \/ Finish(s) \/ Lands(s) \/ External(s) \/ \E k \in Calls : Begin(s, k)

CSpec == CInit /\ [][CNext]_cvars
===========================================================================
