---------------------------- MODULE GatewayClient ----------------------------
(***************************************************************************)
(* A client of the gateway, request by request: the middleware, the        *)
(* router, the generated wrapper, the handler and its callback, each of    *)
(* which may be the one that answers; and a session of paged listings with *)
(* the token of the page before, while other clients create, pause and     *)
(* kill sandboxes.                                                         *)
(*                                                                         *)
(* The tables are GatewayApi's.  Of the gateway's state only the sandboxes *)
(* are kept: what the callbacks do to them beyond being there, running or  *)
(* paused is SandboxLifecycle's subject, what templates, builds and        *)
(* volumes hold is that of their own modules, and a callback on them may   *)
(* succeed or fail in any way it has.                                      *)
(***************************************************************************)
EXTENDS GatewayApi, Functions

CONSTANTS
  Names,      \* the sandboxes in the order of their CreatedAt
  Words,      \* other identifiers a client may use
  PageLimits  \* the limits of a paged listing

ASSUME NamesAssumption ==
  /\ Names \in Seq(Range(Names)) /\ Names # <<>> /\ IsInjective(Names)
  /\ Words # {} /\ Range(Names) \cap Words = {}
  /\ Empty \notin Range(Names) \cup Words
  /\ PageLimits \subseteq Nat \ {0}

VARIABLES
  sandboxes,   \* what the store and the runtime have of each sandbox
  phase,       \* how far the request in flight is
  request,     \* the request in flight
  handled,     \* the operation the router chose
  ran,         \* whether the callback was called
  outcome,     \* what the callback returned
  found,       \* the sandbox it was about, as the callback found it
  records,     \* a listing: the places in Names of the records still to be reconciled
  reconciled,  \* a listing: the sandboxes that passed and match the filter
  page,        \* a listing: its answer
  status,      \* the status answered
  session      \* the paged listing the client is in

exchange == <<request, handled, ran, outcome, found, records, reconciled, page>>
vars == <<sandboxes, phase, exchange, status, session>>

SandboxIDs == Range(Names)
Alive == {"running", "paused"}
Nobody == "none"
Unanswered == 0

-----------------------------------------------------------------------------
(* Requests *)

\* The path of op for an identifier; a second parameter is of no interest.
PathFor(op, id) ==
  LET p == Routes[op][2]
      first(i) == \A j \in 1..(i - 1) : p[j] # Id
  IN  [i \in 1..Len(p) |-> IF p[i] # Id THEN p[i] ELSE IF first(i) THEN id ELSE "x"]

NoDefect == <<0, "none">>

WellFormed(op, id) ==
  [meant |-> op, id |-> id, method |-> Routes[op][1], path |-> PathFor(op, id), slash |-> FALSE,
   defect |-> NoDefect, body |-> "good", valid |-> TRUE, token |-> Empty, states |-> {"running", "paused"}, limit |-> 100]

AboutSandbox(op) == \E i \in {1, 2} : /\ Len(Routes[op][2]) > i
                                      /\ Routes[op][2][i] = "sandboxes" /\ Routes[op][2][i + 1] = Id
TakesId(op) == Id \in Range(Routes[op][2])
Identifiers(op) ==
  IF AboutSandbox(op) THEN SandboxIDs \cup Words ELSE IF TakesId(op) THEN Words ELSE {Nobody}
Someone(op) == IF AboutSandbox(op) THEN Names[1] ELSE CHOOSE id \in Identifiers(op) : TRUE

\* What can be wrong with a request that is well-formed otherwise.  An empty
\* path parameter shows only before another segment: at the end the path has a
\* trailing slash instead.
Emptied(path, op) ==
  [path EXCEPT ![CHOOSE i \in 1..Len(path) : Routes[op][2][i] = Id] = Empty]
WithoutId(op, good) ==
  IF TakesId(op) /\ Routes[op][2][Len(good.path)] # Id
    THEN {[good EXCEPT !.path = Emptied(good.path, op), !.defect = <<1, "empty">>]} ELSE {}
Defective(op, good) ==
  {[good EXCEPT !.defect = <<i, d>>] : i \in DOMAIN Params[op], d \in {"repeated", "missing", "malformed"}}
    \cup {[good EXCEPT !.body = b] : b \in {"none", "foundEmpty", "malformed", "tooLarge"}}
    \cup {[good EXCEPT !.valid = FALSE], [good EXCEPT !.slash = TRUE]}
Misdirected(good) ==
  {[good EXCEPT !.method = m, !.meant = Nobody] : m \in {"OPTIONS", "HEAD", "GET", "DELETE"} \ {good.method}}
Faulty(op) ==
  LET good == WellFormed(op, Someone(op))
  IN  WithoutId(op, good) \cup Defective(op, good) \cup Misdirected(good)

Requests ==
  UNION {{WellFormed(op, id) : id \in Identifiers(op)} \cup Faulty(op) : op \in Operations}

NoRequest == [WellFormed("GetHealth", Nobody) EXCEPT !.meant = Nobody]

NoOutcome == [kind |-> "ok", status |-> 0]
NoPage == [items |-> <<>>, next |-> Empty]
NoSession == [on |-> FALSE, states |-> {}, limit |-> 0, token |-> Empty, seen |-> <<>>, kept |-> {}, cut |-> FALSE]

Init ==
  /\ sandboxes = [s \in SandboxIDs |-> "none"]
  /\ phase = "idle" /\ request = NoRequest /\ handled = Nobody /\ ran = FALSE
  /\ outcome = NoOutcome /\ found = "none" /\ status = Unanswered
  /\ records = {} /\ reconciled = <<>> /\ page = NoPage
  /\ session = NoSession

Sent(r) ==
  /\ phase = "idle" /\ phase' = "arrived"
  /\ request' = r /\ status' = Unanswered
  /\ UNCHANGED <<sandboxes, handled, ran, outcome, found, records, reconciled, page>>

Send ==
  /\ ~session.on
  /\ \E r \in Requests : Sent(r)
  /\ UNCHANGED session

Listed(states) == {s \in SandboxIDs : sandboxes[s] \in states}

SessionBegins ==
  /\ phase = "idle" /\ ~session.on
  /\ \E states \in {{"running"}, {"running", "paused"}}, limit \in PageLimits :
       session' = [NoSession EXCEPT !.on = TRUE, !.states = states, !.limit = limit, !.kept = Listed(states)]
  /\ UNCHANGED <<sandboxes, phase, exchange, status>>

AskPage ==
  /\ session.on
  /\ Sent([WellFormed("GetV2Sandboxes", Nobody) EXCEPT
             !.token = session.token, !.states = session.states, !.limit = session.limit])
  /\ UNCHANGED session

-----------------------------------------------------------------------------
(* The layers of the gateway *)

Answered(code) == phase' = "answered" /\ status' = code

\* corsMiddleware answers any OPTIONS itself.
Preflight ==
  /\ phase = "arrived" /\ request.method = "OPTIONS"
  /\ Answered(204)
  /\ UNCHANGED <<sandboxes, exchange, session>>

NotRouted ==
  /\ phase = "arrived" /\ request.method # "OPTIONS"
  /\ \/ Chosen(request.method, request.path) = {} /\ Answered(404)
     \/ /\ Chosen(request.method, request.path) # {} /\ request.slash
        /\ Answered(IF request.method = "GET" THEN 301 ELSE 307)
  /\ UNCHANGED <<sandboxes, exchange, session>>

Routed ==
  /\ phase = "arrived" /\ request.method # "OPTIONS" /\ ~request.slash
  /\ \E op \in Chosen(request.method, request.path) : handled' = op
  /\ phase' = "routed"
  /\ UNCHANGED <<sandboxes, request, ran, outcome, found, records, reconciled, page, status, session>>

\* The wrapper stops at the first parameter it cannot bind.
Unbindable(op, defect) ==
  /\ defect[1] \in DOMAIN Params[op]
  /\ defect[2] \in Defects(Params[op][defect[1]])

Bind ==
  /\ phase = "routed"
  /\ \/ Unbindable(handled, request.defect) /\ Answered(400)
     \/ ~Unbindable(handled, request.defect) /\ phase' = "bound" /\ UNCHANGED status
  /\ UNCHANGED <<sandboxes, exchange, session>>

NotImplemented ==
  /\ phase = "bound" /\ handled \in Unimplemented
  /\ Answered(501)
  /\ UNCHANGED <<sandboxes, exchange, session>>

\* What the handler refuses before it calls: a body it cannot read, a value
\* it looks at itself.
Refused(op, r) ==
  \/ BodyRefused(Handlers[op].body, r.body)
  \/ Handlers[op].checks /\ ~r.valid

\* A runtime need not offer the content of volumes.
Decode ==
  /\ phase = "bound" /\ handled \notin Unimplemented
  /\ \/ Refused(handled, request) /\ Answered(400)
     \/ OfVolume(handled) /\ Answered(501)
     \/ ~Refused(handled, request) /\ phase' = "decoded" /\ UNCHANGED status
  /\ UNCHANGED <<sandboxes, exchange, session>>

-----------------------------------------------------------------------------
(* The callbacks *)

Failure(kind, code) == [kind |-> kind, status |-> code]
Gateway(code) == Failure("gateway", code)
Plain == Failure("plain", 500)

Calls == Handlers[handled].calls
Returns(o, states, after) ==
  /\ phase' = "called" /\ ran' = TRUE
  /\ outcome' = o /\ sandboxes' = states /\ found' = after
  /\ UNCHANGED <<request, handled, records, reconciled, page, status, session>>

SandboxCalls ==
  {"GetSandbox", "GetSandboxMetrics", "KillSandbox", "PauseSandbox", "ResumeSandbox", "ConnectSandbox",
   "SetSandboxTimeout", "RefreshSandbox", "CreateSandboxSnapshot", "GetSandboxLogs", "GetSandboxLogsV2"}
Validating == {"GetSandboxMetrics", "ResumeSandbox", "ConnectSandbox", "SetSandboxTimeout", "RefreshSandbox"}

SandboxOf(r) ==
  LET named == {i \in 2..Len(r.path) : r.path[i - 1] = "sandboxes"}
  IN  IF named = {} THEN Nobody ELSE r.path[CHOOSE i \in named : TRUE]
StateOf(id) == IF id \in SandboxIDs THEN sandboxes[id] ELSE "none"

Afterwards(call, state) ==
  CASE call = "KillSandbox" -> "gone"
    [] call = "PauseSandbox" -> "paused"
    [] call \in {"ResumeSandbox", "ConnectSandbox"} -> "running"
    [] OTHER -> state

InConflict(call, state) ==
  \/ call = "PauseSandbox" /\ state = "paused"
  \/ call = "ResumeSandbox" /\ state = "running"

\* A value the callback refuses, before it looks for the sandbox.
RefusedByCallback == Calls \in Validating /\ ~request.valid

\* Each begins by reconciling the sandbox with the runtime: a sandbox that is
\* not there or has expired is 404, one that is missing from the runtime is
\* forgotten and 404, and a runtime that does not answer is an error.
CallSandbox ==
  /\ phase = "decoded" /\ Calls \in SandboxCalls
  /\ LET id == SandboxOf(request)
         state == StateOf(id)
         After(s) == [sandboxes EXCEPT ![id] = s]
     IN  \/ RefusedByCallback /\ Returns(Gateway(400), sandboxes, state)
         \/ ~RefusedByCallback /\ state \notin Alive /\ Returns(Gateway(404), sandboxes, state)
         \/ /\ ~RefusedByCallback /\ state \in Alive
            /\ \/ Returns(Plain, sandboxes, state)
               \/ Returns(Gateway(404), After("gone"), "gone")
               \/ InConflict(Calls, state) /\ Returns(Gateway(409), sandboxes, state)
               \/ ~InConflict(Calls, state) /\ Returns(NoOutcome, After(Afterwards(Calls, state)), state)
               \/ Calls = "CreateSandboxSnapshot" /\ Returns(Gateway(501), sandboxes, state)

\* CreatedAt is taken before the runtime's part: a sandbox may appear before
\* one that is already listed.
CallCreate ==
  /\ phase = "decoded" /\ Calls = "CreateSandbox"
  /\ \/ ~request.valid /\ Returns(Gateway(400), sandboxes, "none")
     \/ /\ request.valid
        /\ \/ \E o \in {Plain, Gateway(503)} : Returns(o, sandboxes, "none")
           \/ \E s \in SandboxIDs : /\ sandboxes[s] = "none"
                                    /\ Returns(NoOutcome, [sandboxes EXCEPT ![s] = "running"], "running")

\* KillTeamSandboxes counts the kills that failed and answers with both numbers.
CallKillTeam ==
  /\ phase = "decoded" /\ Calls = "KillTeamSandboxes"
  /\ \E killed \in SUBSET {s \in SandboxIDs : sandboxes[s] \in Alive} :
       Returns(NoOutcome, [s \in SandboxIDs |-> IF s \in killed THEN "gone" ELSE sandboxes[s]], "none")

\* The other callbacks, and handleHealth, which has none.  One status stands
\* for all those a GatewayError may carry, and one for those of the engine; an
\* upload whose token is not valid any more is not stored, without an error.
OutcomesOf(call) ==
  CASE call \in {"nothing", "Health", "ListNodes", "ListTeams", "CancelTeamBuilds"} -> {NoOutcome}
    [] call = "StoreTemplateFileUploadReader" -> {NoOutcome, Plain, Gateway(409), Failure("refused", 401)}
    [] OTHER -> {NoOutcome, Plain, Gateway(409), Failure("engine", 404)}
CallOther ==
  /\ phase = "decoded" /\ Calls \notin SandboxCalls \cup {"CreateSandbox", "KillTeamSandboxes", "ListSandboxes"}
  /\ \E o \in OutcomesOf(Calls) : Returns(o, sandboxes, "none")

-----------------------------------------------------------------------------
(* Listing *)

\* store.List is one critical section and orders the records by CreatedAt.
Stored(s) == sandboxes[s] \in Alive \cup {"expired"}
ListBegins ==
  /\ phase = "decoded" /\ Calls = "ListSandboxes"
  /\ phase' = "listing" /\ ran' = TRUE
  /\ records' = {i \in DOMAIN Names : Stored(Names[i])} /\ reconciled' = <<>>
  /\ UNCHANGED <<sandboxes, request, handled, outcome, found, page, status, session>>

\* GET /sandboxes lists the running ones and takes no token.
Paged == handled = "GetV2Sandboxes"
StatesAsked == IF Paged THEN request.states ELSE {"running"}
TokenAsked == IF Paged THEN request.token ELSE Empty

\* Reconciliation takes the records one by one.  The filter, which the code
\* applies once all have passed, looks at the record reconciliation returned.
ReconcileNext ==
  /\ phase = "listing"
  /\ \E i \in records :
       LET s == Names[i]
       IN  /\ \A j \in records : i <= j
           /\ \/ /\ records' = records \ {i}
                 /\ reconciled' = IF sandboxes[s] \in Alive \cap StatesAsked THEN Append(reconciled, s)
                                  ELSE reconciled
                 /\ UNCHANGED <<phase, outcome>>
              \/ /\ sandboxes[s] \in Alive   \* the runtime does not answer for this one
                 /\ phase' = "called" /\ outcome' = Plain
                 /\ UNCHANGED <<records, reconciled>>
  /\ UNCHANGED <<sandboxes, request, handled, ran, found, page, status, session>>

\* Where the page after a token starts: past its sandbox, or at the end.
Start(filtered, token) ==
  IF token = Empty THEN 0
  ELSE IF token \in Range(filtered) THEN CHOOSE i \in 1..Len(filtered) : filtered[i] = token
  ELSE Len(filtered)

PageEndsEarly(filtered, token, limit) ==  \* mutation: one sandbox left is none left
  LET start == Start(filtered, token)
      end == start + limit
  IN  IF end + 1 < Len(filtered)
        THEN [items |-> SubSeq(filtered, start + 1, end), next |-> filtered[end]]
        ELSE [items |-> SubSeq(filtered, start + 1, IF end < Len(filtered) THEN end ELSE Len(filtered)), next |-> Empty]

Page(filtered, token, limit) ==
  LET start == Start(filtered, token)
      end == start + limit
  IN  IF end < Len(filtered)
        THEN [items |-> SubSeq(filtered, start + 1, end), next |-> filtered[end]]
        ELSE [items |-> SubSeq(filtered, start + 1, Len(filtered)), next |-> Empty]

ListEnds ==
  /\ phase = "listing" /\ records = {}
  /\ page' = Page(reconciled, TokenAsked, request.limit)
  /\ session' = [session EXCEPT !.cut = @ \/ (request.token # Empty /\ request.token \notin Range(reconciled))]
  /\ phase' = "called" /\ outcome' = NoOutcome /\ reconciled' = <<>>
  /\ UNCHANGED <<sandboxes, request, handled, ran, found, records, status>>

-----------------------------------------------------------------------------
(* The answer *)

Success == IF Calls = "ConnectSandbox" /\ found = "paused" THEN 201 ELSE Handlers[handled].ok

Respond ==
  /\ phase = "called"
  /\ \/ outcome.kind = "ok" /\ Answered(Success)
     \/ outcome.kind = "ok" /\ \E code \in Handlers[handled].still : Answered(code)
     \/ outcome.kind # "ok" /\ Answered(StatusOf(handled, outcome))
  /\ UNCHANGED <<sandboxes, exchange, session>>

\* The client reads the page and goes on with its token, or ends its session.
Receive ==
  /\ phase = "answered" /\ phase' = "idle"
  /\ session' = IF ~session.on THEN session
                ELSE IF status = 200 /\ page.next # Empty
                  THEN [session EXCEPT !.seen = @ \o page.items, !.token = page.next]
                ELSE NoSession
  /\ request' = NoRequest /\ handled' = Nobody /\ ran' = FALSE /\ outcome' = NoOutcome /\ found' = "none"
  /\ records' = {} /\ reconciled' = <<>> /\ page' = NoPage /\ status' = Unanswered
  /\ UNCHANGED sandboxes

\* Other clients, the timers and the operator of the engine.  Their moves are
\* seen by the callback alone, so that those during the other layers of a
\* request can be taken as made before or after it.
Moves == {<<"none", "running">>, <<"running", "paused">>, <<"paused", "running">>, <<"running", "expired">>,
          <<"running", "gone">>, <<"paused", "gone">>, <<"expired", "gone">>}
Others ==
  /\ phase \in {"idle", "listing"} \/ (phase = "decoded" /\ session.on)
  /\ \E s \in SandboxIDs, move \in Moves :
       /\ sandboxes[s] = move[1]
       /\ sandboxes' = [sandboxes EXCEPT ![s] = move[2]]
       /\ session' = [session EXCEPT !.kept = IF move[2] \in session.states THEN @ ELSE @ \ {s}]
  /\ UNCHANGED <<phase, exchange, status>>

Next ==
  \/ Send \/ SessionBegins \/ AskPage
  \/ Preflight \/ NotRouted \/ Routed \/ Bind \/ NotImplemented \/ Decode
  \/ CallSandbox \/ CallCreate \/ CallKillTeam \/ CallOther
  \/ ListBegins \/ ReconcileNext \/ ListEnds
  \/ Respond \/ Receive \/ Others

Spec == Init /\ [][Next]_vars

-----------------------------------------------------------------------------
(* Properties *)

(***************************************************************************)
(* A request reaches the operation it was made for, and only identifiers   *)
(* that are also literals of a route are taken from their owners: a        *)
(* sandbox "metrics" cannot be read, a template "tags" can be made, and    *)
(* neither rebuilt nor deleted, and the tags of a template "aliases"       *)
(* cannot be listed (the order and the shape of the registered routes).    *)
(***************************************************************************)
Taken ==
  {<<"GetSandboxesSandboxID", "metrics">>, <<"DeleteTemplatesTemplateID", "tags">>,
   <<"PostTemplatesTemplateID", "tags">>, <<"GetTemplatesTemplateIDTags", "aliases">>}
RoutedAsMeant ==
  request.meant # Nobody =>
    /\ handled \in {Nobody, request.meant} \/ <<request.meant, request.id>> \in Taken
    /\ phase = "answered" /\ handled = Nobody => request.slash

(***************************************************************************)
(* The answer tells what happened: a success is the callback's, an error   *)
(* says that it failed or was never called - except for the port of a      *)
(* sandbox and the download of a file, which may still fail after it, and  *)
(* have only read - and a request of which a parameter or the body could   *)
(* not be read has done nothing (the early returns of the wrappers and of  *)
(* the handlers).                                                          *)
(***************************************************************************)
Unreadable(op, r) ==
  \/ Unbindable(op, r.defect)
  \/ op \in DOMAIN Handlers /\ Handlers[op].body \in {"needed", "optional"} /\ r.body \in {"malformed", "tooLarge"}
Reading == {"handleGetSandboxPort", "handleVolumeContentFileGet"}
AnswerIsTrue ==
  phase = "answered" =>
    /\ status \in 200..299 /\ request.method # "OPTIONS" => ran /\ outcome.kind = "ok"
    /\ status >= 400 => ~ran \/ outcome.kind # "ok" \/ handled \in Reading
    /\ handled # Nobody /\ Unreadable(handled, request) => ~ran

(***************************************************************************)
(* A sandbox operation answered with 404 is about a sandbox that is not    *)
(* there or has expired for good, except for the reading of a sandbox or   *)
(* of its port, whose handlers answer any failure of the runtime and a     *)
(* port that is not published with 404 (activeSandboxRecordLocked and the  *)
(* fallbacks of the handlers).                                             *)
(***************************************************************************)
NotFoundMeansGone ==
  phase = "answered" /\ status = 404 /\ ran
    /\ Calls \in SandboxCalls /\ handled \notin {"GetSandboxesSandboxID", "handleGetSandboxPort"}
      => found \notin Alive

(***************************************************************************)
(* Pages asked for with the token of the page before show no sandbox       *)
(* twice, and after the last one every sandbox that was listed all the     *)
(* time, whatever became of the others - unless the one the token names    *)
(* had gone, when the gateway ends the listing (defaultListSandboxes).     *)
(***************************************************************************)
PagesShowEachOnce ==
  phase = "answered" /\ session.on /\ status = 200 =>
    LET shown == session.seen \o page.items
    IN  /\ IsInjective(shown)
        /\ page.next = Empty /\ ~session.cut => session.kept \subseteq Range(shown)
=============================================================================
