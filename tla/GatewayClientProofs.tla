-------------------------- MODULE GatewayClientProofs --------------------------
(***************************************************************************)
(* Theorems about GatewayClient, for any sandboxes, identifiers and page   *)
(* limits: a request reaches the operation it was made for, its answer     *)
(* tells what happened, and the pages of a listing fit together.           *)
(***************************************************************************)
EXTENDS GatewayClient, SequenceTheorems, TLAPS

---------------------------------------------------------------------------
(* The tables.                                                             *)

Rows == Generated \cup Added
HandlerRows ==
  UNION {NodeHandlers, SandboxesHandlers, SandboxHandlers, SnapshotAndLogHandlers, TemplateHandlers,
         BuildHandlers, TeamAndVolumeHandlers, VolumeContentHandlers, AddedHandlers}

\* Looking a key up in a table finds one of its rows.
LEMMA TableRow ==
  ASSUME NEW rows, \A row \in rows : row = <<row[1], row[2]>>, NEW key \in DOMAIN Table(rows)
  PROVE  <<key, Table(rows)[key]>> \in rows
<1> DEFINE chosen == CHOOSE row \in rows : row[1] = key
<1>1. PICK row \in rows : row[1] = key
  BY DEF Table
<1>2. chosen \in rows /\ chosen[1] = key
  BY <1>1
<1>3. Table(rows)[key] = chosen[2]
  BY DEF Table
<1>4. chosen = <<chosen[1], chosen[2]>>
  BY <1>2
<1> QED BY <1>2, <1>3, <1>4

LEMMA RowsArePairs == \A row \in Rows : row = <<row[1], row[2]>>
  BY DEF Rows, Generated, Added, Id

\* Each operation has its route, and each handler its row.
LEMMA RouteRow == \A op \in Operations : <<op, Routes[op]>> \in Rows
  BY TableRow, RowsArePairs DEF Operations, Routes, Rows

LEMMA HandlerRowsArePairs == \A row \in HandlerRows : row = <<row[1], row[2]>>
<1>1. \A row \in NodeHandlers \cup SandboxesHandlers \cup SandboxHandlers : row = <<row[1], row[2]>>
  BY DEF NodeHandlers, SandboxesHandlers, SandboxHandlers
<1>2. \A row \in SnapshotAndLogHandlers \cup TemplateHandlers \cup BuildHandlers : row = <<row[1], row[2]>>
  BY DEF SnapshotAndLogHandlers, TemplateHandlers, BuildHandlers
<1>3. \A row \in TeamAndVolumeHandlers \cup VolumeContentHandlers \cup AddedHandlers : row = <<row[1], row[2]>>
  BY DEF TeamAndVolumeHandlers, VolumeContentHandlers, AddedHandlers
<1> QED BY <1>1, <1>2, <1>3 DEF HandlerRows

LEMMA HandlerRow == \A op \in DOMAIN Handlers : <<op, Handlers[op]>> \in HandlerRows
  BY TableRow, HandlerRowsArePairs DEF Handlers, HandlerRows

\* What the handlers' rows have in common: a success is a success, an error without a
\* status of its own is 404 or 500, and 404 only where a sandbox, its port or a volume is
\* read, and only two that read may still fail after a callback that succeeded.
PlainRow(row) ==
  /\ row[2].ok \in 200..299
  /\ row[2].otherwise \in {404, 500}
  /\ row[2].otherwise = 404 => \/ row[1] \in {"GetSandboxesSandboxID", "handleGetSandboxPort"}
                               \/ row[2].calls \notin SandboxCalls
  /\ row[1] = "GetV2Sandboxes" => row[2].calls = "ListSandboxes"
  /\ row[2].still # {} => row[1] \in Reading
  /\ row[2].still \subseteq 400..599
  /\ 404 \in row[2].still => row[1] = "handleGetSandboxPort"

LEMMA HandlersArePlain == \A op \in DOMAIN Handlers : PlainRow(<<op, Handlers[op]>>)
<1> USE DEF Handler, Checking, ElseNotFound, Still, SandboxCalls, Reading, PlainRow
<1>1. \A row \in NodeHandlers : PlainRow(row)
  BY DEF NodeHandlers
<1>2. \A row \in SandboxesHandlers : PlainRow(row)
  BY DEF SandboxesHandlers
<1>3. \A row \in SandboxHandlers : PlainRow(row)
  BY DEF SandboxHandlers
<1>4. \A row \in SnapshotAndLogHandlers : PlainRow(row)
  BY DEF SnapshotAndLogHandlers
<1>5. \A row \in TemplateHandlers : PlainRow(row)
  BY DEF TemplateHandlers
<1>6. \A row \in BuildHandlers : PlainRow(row)
  BY DEF BuildHandlers
<1>7. \A row \in TeamAndVolumeHandlers : PlainRow(row)
  BY DEF TeamAndVolumeHandlers
<1>8. \A row \in VolumeContentHandlers : PlainRow(row)
  BY DEF VolumeContentHandlers
<1>9. \A row \in AddedHandlers : PlainRow(row)
  <2> DEFINE read == ElseNotFound(Handler("none", "GetSandbox", 200))
             checked == Checking(read)
             port == Still(checked, {404, 500})
  <2>1. /\ DOMAIN read = {"body", "calls", "checks", "ok", "otherwise", "still"}
        /\ read.ok = 200 /\ read.otherwise = 404
    OBVIOUS
  <2> HIDE DEF read
  <2>2. DOMAIN checked = DOMAIN read /\ checked.ok = 200 /\ checked.otherwise = 404
    BY <2>1
  <2> HIDE DEF checked
  <2>3. port.ok = 200 /\ port.otherwise = 404 /\ port.still = {404, 500}
    BY <2>1, <2>2
  <2> HIDE DEF port
  <2>4. ASSUME NEW row \in AddedHandlers PROVE PlainRow(row)
    <3>1. CASE row = <<"handleGetSandboxPort", port>>
      BY <2>3, <3>1
    <3>2. CASE row # <<"handleGetSandboxPort", port>>
      BY <3>2 DEF AddedHandlers, port, checked, read
    <3> QED BY <3>1, <3>2
  <2> QED BY <2>4
<1> HIDE DEF Handler, Checking, ElseNotFound, Still, SandboxCalls, Reading, PlainRow
<1>10. \A row \in HandlerRows : PlainRow(row)
  BY <1>1, <1>2, <1>3, <1>4, <1>5, <1>6, <1>7, <1>8, <1>9 DEF HandlerRows
<1> QED BY <1>10, HandlerRow

---------------------------------------------------------------------------
(* The invariant.                                                          *)

Phases == {"idle", "arrived", "routed", "bound", "decoded", "listing", "called", "answered"}

\* An operation is handled once the request has been routed, by one of the operations,
\* and the callback has been called once the listing begins.
InOrder ==
  /\ phase \in Phases
  /\ phase \in {"idle", "arrived"} => handled = Nobody
  /\ phase \notin {"idle", "arrived", "answered"} => handled \in Operations
  /\ handled \in Operations \cup {Nobody}
  /\ phase \in {"idle", "arrived", "routed", "bound", "decoded"} => ~ran
  /\ phase \in {"listing", "called"} => ran

\* What the wrapper and the handler let pass.
Let(op, r) == ~Unbindable(op, r.defect)
Passed ==
  /\ phase \in {"bound", "decoded", "listing", "called"} => Let(handled, request)
  /\ phase \in {"decoded", "listing", "called"} =>
       handled \in DOMAIN Handlers /\ ~Refused(handled, request)

\* What a callback has returned: an error it gives a status has one, those of the engine
\* come from no sandbox, and a sandbox that is not found is not alive.
Returned ==
  phase = "called" =>
    /\ outcome.kind \in {"ok", "gateway", "engine", "refused", "plain"}
    /\ outcome.kind # "ok" => outcome.status \in 400..599
    /\ outcome.kind \in {"engine", "refused"} => Calls \notin SandboxCalls
    /\ outcome.kind = "gateway" /\ outcome.status = 404 /\ Calls \in SandboxCalls => found \notin Alive

Truthful == InOrder /\ Passed /\ Returned /\ AnswerIsTrue /\ NotFoundMeansGone

---------------------------------------------------------------------------
(* The answer tells what happened.                                         *)

\* A success has the handler's status, or 201 for a paused sandbox that was connected to.
LEMMA SuccessIsOne ==
  ASSUME handled \in DOMAIN Handlers
  PROVE  Success \in 200..299
BY HandlersArePlain DEF Success, PlainRow

\* An error has one of its own, or the one the handler falls back to.
LEMMA ErrorIsOne ==
  ASSUME handled \in DOMAIN Handlers, outcome.kind \in {"gateway", "engine", "refused", "plain"},
         outcome.status \in 400..599
  PROVE  /\ StatusOf(handled, outcome) \in 400..599
         /\ StatusOf(handled, outcome) = 404 =>
              \/ outcome.kind \in {"gateway", "engine", "refused"} /\ outcome.status = 404
              \/ handled \in {"GetSandboxesSandboxID", "handleGetSandboxPort"}
              \/ Calls \notin SandboxCalls
<1>1. PlainRow(<<handled, Handlers[handled]>>)
  BY HandlersArePlain
<1> QED BY <1>1 DEF StatusOf, PlainRow, Calls

\* A body that cannot be read has been refused.
LEMMA ReadableOnceDecoded ==
  ASSUME handled \in DOMAIN Handlers, Let(handled, request), ~Refused(handled, request)
  PROVE  ~Unreadable(handled, request)
BY DEF Unreadable, Let, Refused, BodyRefused

\* Before the callback only an error, a redirection or the answer to a preflight is given.
LEMMA AnsweredUncalled ==
  ASSUME ~ran, UNCHANGED <<ran, handled, request, outcome, found>>, handled \in Operations \cup {Nobody},
         NEW code \in {204, 301, 307, 400, 404, 501}, Answered(code),
         code = 204 => request.method = "OPTIONS"
  PROVE  Truthful'
BY DEF Answered, Truthful, InOrder, Passed, Returned, AnswerIsTrue, NotFoundMeansGone, Phases

\* The layers before the callback.
LEMMA LayersAnswer ==
  ASSUME Truthful, Preflight \/ NotRouted \/ Routed \/ Bind \/ NotImplemented \/ Decode
  PROVE  Truthful'
<1> USE DEF exchange
<1>1. CASE Preflight
  BY <1>1, AnsweredUncalled DEF Preflight, Truthful, InOrder
<1>2. CASE NotRouted
  BY <1>2, AnsweredUncalled DEF NotRouted, Truthful, InOrder
<1>3. CASE Routed
  <2>1. handled' \in Operations
    BY <1>3 DEF Routed, Chosen
  <2> QED BY <1>3, <2>1 DEF Routed, Truthful, InOrder, Passed, Returned, AnswerIsTrue, NotFoundMeansGone, Phases
<1>4. CASE Bind
  <2>1. ~ran /\ phase = "routed" /\ handled \in Operations /\ UNCHANGED <<ran, handled, request, outcome, found>>
    BY <1>4 DEF Bind, Truthful, InOrder
  <2>2. CASE Answered(400)
    BY <2>1, <2>2, AnsweredUncalled
  <2>3. CASE ~Unbindable(handled, request.defect) /\ phase' = "bound"
    BY <2>1, <2>3 DEF Truthful, InOrder, Passed, Let, Returned, AnswerIsTrue, NotFoundMeansGone, Phases
  <2> QED BY <1>4, <2>2, <2>3 DEF Bind
<1>5. CASE NotImplemented
  BY <1>5, AnsweredUncalled DEF NotImplemented, Truthful, InOrder
<1>6. CASE Decode
  <2>1. ~ran /\ phase = "bound" /\ handled \in DOMAIN Handlers /\ Let(handled, request)
    BY <1>6 DEF Decode, Truthful, InOrder, Passed, Unimplemented
  <2>2. handled \in Operations /\ UNCHANGED <<ran, handled, request, outcome, found>>
    BY <1>6, <2>1 DEF Decode, Truthful, InOrder
  <2>3. CASE Answered(400) \/ Answered(501)
    BY <2>1, <2>2, <2>3, AnsweredUncalled
  <2>4. CASE ~Refused(handled, request) /\ phase' = "decoded"
    <3>1. Let(handled, request)' /\ ~Refused(handled, request)'
      BY <2>1, <2>2, <2>4 DEF Let, Refused
    <3> QED BY <2>1, <2>2, <2>4, <3>1
            DEF Truthful, InOrder, Passed, Returned, AnswerIsTrue, NotFoundMeansGone, Phases
  <2> QED BY <1>6, <2>3, <2>4 DEF Decode
<1> QED BY <1>1, <1>2, <1>3, <1>4, <1>5, <1>6

\* A callback that has returned.
LEMMA CallTruthful ==
  ASSUME Truthful, phase \in {"decoded", "listing"}, phase' = "called", ran',
         UNCHANGED <<handled, request>>,
         outcome'.kind \in {"ok", "gateway", "engine", "refused", "plain"},
         outcome'.kind # "ok" => outcome'.status \in 400..599,
         outcome'.kind \in {"engine", "refused"} => Calls \notin SandboxCalls,
         outcome'.kind = "gateway" /\ outcome'.status = 404 /\ Calls \in SandboxCalls => found' \notin Alive
  PROVE  Truthful'
<1>1. Calls' = Calls
  BY DEF Calls
<1>2. Let(handled, request)' /\ ~Refused(handled, request)' /\ handled' \in DOMAIN Handlers /\ handled' \in Operations
  BY DEF Truthful, InOrder, Passed, Let, Refused
<1>3. InOrder' /\ Passed'
  BY <1>2 DEF InOrder, Passed, Phases
<1>4. Returned'
  BY <1>1 DEF Returned
<1>5. AnswerIsTrue' /\ NotFoundMeansGone'
  BY DEF AnswerIsTrue, NotFoundMeansGone
<1> QED BY <1>3, <1>4, <1>5 DEF Truthful

LEMMA CallsTruthful ==
  ASSUME Truthful, CallSandbox \/ CallCreate \/ CallKillTeam \/ CallOther
  PROVE  Truthful'
<1> USE DEF Returns, Failure, Gateway, Plain, NoOutcome
<1>1. CASE CallSandbox
  <2>1. phase = "decoded" /\ phase' = "called" /\ ran' /\ UNCHANGED <<handled, request>>
    BY <1>1 DEF CallSandbox
  <2>2. /\ outcome'.kind \in {"ok", "gateway", "plain"}
        /\ outcome'.kind # "ok" => outcome'.status \in 400..599
    BY <1>1 DEF CallSandbox
  <2>3. outcome'.kind = "gateway" /\ outcome'.status = 404 => found' \notin Alive
    BY <1>1 DEF CallSandbox, Alive
  <2> QED BY <2>1, <2>2, <2>3, CallTruthful
<1>2. CASE CallCreate
  <2>1. phase = "decoded" /\ phase' = "called" /\ ran' /\ UNCHANGED <<handled, request>>
    BY <1>2 DEF CallCreate
  <2>2. /\ outcome'.kind \in {"ok", "gateway", "plain"}
        /\ outcome'.kind # "ok" => outcome'.status \in 400..599
    BY <1>2 DEF CallCreate
  <2>3. Calls \notin SandboxCalls
    BY <1>2 DEF CallCreate, SandboxCalls
  <2> QED BY <2>1, <2>2, <2>3, CallTruthful
<1>3. CASE CallKillTeam
  <2>1. phase = "decoded" /\ phase' = "called" /\ ran' /\ UNCHANGED <<handled, request>> /\ outcome'.kind = "ok"
    BY <1>3 DEF CallKillTeam
  <2> QED BY <2>1, CallTruthful
<1>4. CASE CallOther
  <2>1. phase = "decoded" /\ phase' = "called" /\ ran' /\ UNCHANGED <<handled, request>>
    BY <1>4 DEF CallOther
  <2>2. /\ outcome'.kind \in {"ok", "gateway", "engine", "refused", "plain"}
        /\ outcome'.kind # "ok" => outcome'.status \in 400..599
    BY <1>4 DEF CallOther, OutcomesOf
  <2>3. Calls \notin SandboxCalls
    BY <1>4 DEF CallOther
  <2> QED BY <2>1, <2>2, <2>3, CallTruthful
<1> QED BY <1>1, <1>2, <1>3, <1>4

LEMMA ListingTruthful ==
  ASSUME Truthful, ListBegins \/ ReconcileNext \/ ListEnds
  PROVE  Truthful'
<1> USE DEF Failure, Plain, NoOutcome
<1>1. CASE ListBegins
  <2>1. phase = "decoded" /\ phase' = "listing" /\ ran' /\ UNCHANGED <<handled, request>>
    BY <1>1 DEF ListBegins
  <2>2. Let(handled, request)' /\ ~Refused(handled, request)' /\ handled' \in DOMAIN Handlers /\ handled' \in Operations
    BY <2>1 DEF Truthful, InOrder, Passed, Let, Refused
  <2> QED BY <2>1, <2>2 DEF Truthful, InOrder, Passed, Returned, AnswerIsTrue, NotFoundMeansGone, Phases
<1>2. CASE ReconcileNext
  <2>1. phase = "listing" /\ UNCHANGED <<handled, request, ran, found>>
    BY <1>2 DEF ReconcileNext
  <2>2. CASE phase' = "called" /\ outcome' = Plain
    BY <2>1, <2>2, CallTruthful DEF Truthful, InOrder
  <2>3. CASE UNCHANGED <<phase, outcome>>
    <3>1. Let(handled, request)' /\ ~Refused(handled, request)' /\ handled' \in DOMAIN Handlers /\ handled' \in Operations
      BY <2>1 DEF Truthful, InOrder, Passed, Let, Refused
    <3> QED BY <2>1, <2>3, <3>1 DEF Truthful, InOrder, Passed, Returned, AnswerIsTrue, NotFoundMeansGone, Phases
  <2> QED BY <1>2, <2>2, <2>3 DEF ReconcileNext
<1>3. CASE ListEnds
  <2>1. phase = "listing" /\ phase' = "called" /\ UNCHANGED <<handled, request, ran>> /\ outcome'.kind = "ok"
    BY <1>3 DEF ListEnds
  <2> QED BY <2>1, CallTruthful DEF Truthful, InOrder
<1> QED BY <1>1, <1>2, <1>3

LEMMA RespondTruthful ==
  ASSUME Truthful, Respond
  PROVE  Truthful'
<1>1. /\ phase = "called" /\ phase' = "answered" /\ UNCHANGED <<handled, request, ran, outcome, found>>
      /\ \/ outcome.kind = "ok" /\ status' = Success
         \/ outcome.kind = "ok" /\ status' \in Handlers[handled].still
         \/ outcome.kind # "ok" /\ status' = StatusOf(handled, outcome)
  BY DEF Respond, Answered, exchange
<1>2. handled \in DOMAIN Handlers /\ Let(handled, request) /\ ~Refused(handled, request) /\ handled \in Operations /\ ran
  BY <1>1 DEF Truthful, InOrder, Passed
<1>3. ~Unreadable(handled, request)'
  BY <1>1, <1>2, ReadableOnceDecoded DEF Unreadable, Unbindable
<1>4. Calls' = Calls
  BY <1>1 DEF Calls
<1>5. InOrder' /\ Passed' /\ Returned'
  BY <1>1, <1>2 DEF InOrder, Passed, Returned, Phases
<1>6. CASE outcome.kind = "ok" /\ status' = Success
  <2>1. status' \in 200..299
    BY <1>1, <1>2, <1>6, SuccessIsOne
  <2> QED BY <1>1, <1>2, <1>3, <1>5, <1>6, <2>1 DEF Truthful, AnswerIsTrue, NotFoundMeansGone
<1>8. CASE outcome.kind = "ok" /\ status' \in Handlers[handled].still
  <2>1. /\ handled \in Reading /\ status' \in 400..599
        /\ status' = 404 => handled = "handleGetSandboxPort"
    BY <1>2, <1>8, HandlersArePlain DEF PlainRow
  <2> QED BY <1>1, <1>2, <1>3, <1>5, <1>8, <2>1 DEF Truthful, AnswerIsTrue, NotFoundMeansGone
<1>7. CASE outcome.kind # "ok"
  <2>1. outcome.kind \in {"gateway", "engine", "refused", "plain"} /\ outcome.status \in 400..599
    BY <1>1, <1>7 DEF Truthful, Returned
  <2>2. /\ status' \in 400..599
        /\ status' = 404 => \/ outcome.kind \in {"gateway", "engine", "refused"} /\ outcome.status = 404
                            \/ handled \in {"GetSandboxesSandboxID", "handleGetSandboxPort"}
                            \/ Calls \notin SandboxCalls
    BY <1>1, <1>2, <1>7, <2>1, ErrorIsOne
  <2>3. NotFoundMeansGone'
    BY <1>1, <1>4, <2>2 DEF Truthful, Returned, NotFoundMeansGone
  <2>4. AnswerIsTrue'
    BY <1>1, <1>3, <1>7, <2>2 DEF AnswerIsTrue
  <2> QED BY <1>5, <2>3, <2>4 DEF Truthful
<1> QED BY <1>1, <1>6, <1>7, <1>8

LEMMA ClientTruthful ==
  ASSUME Truthful, Send \/ SessionBegins \/ AskPage \/ Receive \/ Others
  PROVE  Truthful'
<1> USE DEF Truthful, InOrder, Passed, Returned, AnswerIsTrue, NotFoundMeansGone, Phases
<1>1. CASE phase = "idle" /\ phase' = "arrived" /\ UNCHANGED <<handled, ran>>
  BY <1>1
<1>2. CASE SessionBegins
  BY <1>2 DEF SessionBegins, exchange
<1>3. CASE Receive
  BY <1>3 DEF Receive
<1>4. CASE Others
  <2>1. UNCHANGED <<phase, handled, request, ran, outcome, found, status>> /\ phase \in {"idle", "listing", "decoded"}
    BY <1>4 DEF Others, exchange
  <2>2. phase # "idle" => /\ Let(handled, request)' /\ ~Refused(handled, request)'
                          /\ handled' \in DOMAIN Handlers /\ handled' \in Operations
    BY <2>1 DEF Let, Refused
  <2> QED BY <2>1, <2>2
<1> QED BY <1>1, <1>2, <1>3, <1>4 DEF Send, AskPage, Sent

LEMMA TruthfulStutters ==
  ASSUME Truthful, UNCHANGED vars
  PROVE  Truthful'
<1>1. UNCHANGED <<phase, handled, request, ran, outcome, found, status>>
  BY DEF vars, exchange
<1>2. Let(handled, request)' = Let(handled, request) /\ Refused(handled, request)' = Refused(handled, request)
        /\ Unreadable(handled, request)' = Unreadable(handled, request)
  BY <1>1 DEF Let, Refused, Unreadable
<1>3. Calls' = Calls
  BY <1>1 DEF Calls
<1> QED BY <1>1, <1>2, <1>3 DEF Truthful, InOrder, Passed, Returned, AnswerIsTrue, NotFoundMeansGone

\* Requests pass the layers in order, and what is answered is what happened.
LEMMA TruthfulHolds == Spec => []Truthful
<1>1. Init => Truthful
  BY DEF Init, NoRequest, WellFormed, NoOutcome, Truthful, InOrder, Passed, Returned, AnswerIsTrue,
         NotFoundMeansGone, Phases
<1>2. Truthful /\ [Next]_vars => Truthful'
  BY LayersAnswer, CallsTruthful, ListingTruthful, RespondTruthful, ClientTruthful, TruthfulStutters DEF Next
<1> QED BY <1>1, <1>2, PTL DEF Spec

\* A success is the callback's, an error says that it failed or was never called, but for
\* the two handlers that only read and may still fail after it, and a request of which a
\* parameter or the body could not be read has done nothing.
THEOREM AnswerIsTrueHolds == Spec => []AnswerIsTrue
<1>1. Truthful => AnswerIsTrue
  BY DEF Truthful
<1> QED BY <1>1, TruthfulHolds, PTL

\* A sandbox operation answered with 404 is about a sandbox that is not there or has
\* expired for good, but for the two handlers that answer any failure with 404.
THEOREM NotFoundMeansGoneHolds == Spec => []NotFoundMeansGone
<1>1. Truthful => NotFoundMeansGone
  BY DEF Truthful
<1> QED BY <1>1, TruthfulHolds, PTL

---------------------------------------------------------------------------
(* Routing.  Two operations whose routes match one path are the same one,  *)
(* or differ in their second segment, a literal of the first and a         *)
(* parameter of the second, and then the first one beats the second.       *)

Overlap ==
  {<<"GetSandboxesMetrics", "GetSandboxesSandboxID">>, <<"DeleteTemplatesTags", "DeleteTemplatesTemplateID">>,
   <<"PostTemplatesTags", "PostTemplatesTemplateID">>, <<"GetTemplatesAliasesAlias", "GetTemplatesTemplateIDTags">>}

\* Two routes with a common path, as far as it takes to tell them apart.
Has(row, i) == i \in DOMAIN row[2][2]
Meet(row, other, i) ==
  Has(row, i) => row[2][2][i] = Id \/ other[2][2][i] = Id \/ row[2][2][i] = other[2][2][i]
Close(row, other) ==
  /\ row[2][1] = other[2][1] /\ row[2][2][1] = other[2][2][1]
  /\ \A i \in {2, 3, 4, 5} : Has(row, i) <=> Has(other, i)
  /\ Meet(row, other, 2) /\ Meet(row, other, 3) /\ Meet(row, other, 5)

LEMMA CloseRows ==
  \A row, other \in Rows :
    Close(row, other) =>
      row[1] = other[1] \/ <<row[1], other[1]>> \in Overlap \/ <<other[1], row[1]>> \in Overlap
BY SMT DEF Rows, Generated, Added, Id, Close, Meet, Has, Overlap

LEMMA OverlapAtTwo ==
  \A row, other \in Rows :
    <<row[1], other[1]>> \in Overlap =>
      /\ Has(row, 2) /\ Has(other, 2)
      /\ row[2][2][2] # Id /\ other[2][2][2] = Id
      /\ <<other[1], row[2][2][2]>> \in Taken
BY SMT DEF Rows, Generated, Added, Id, Has, Overlap, Taken

\* What every route is like.  The first segment is a literal, and none is empty.
LEMMA RouteShape ==
  \A op \in Operations : Len(Routes[op][2]) \in 1..5 /\ DOMAIN Routes[op][2] = 1..Len(Routes[op][2])
<1>1. \A row \in Rows : Len(row[2][2]) \in 1..5 /\ DOMAIN row[2][2] = 1..Len(row[2][2])
  BY SMT DEF Rows, Generated, Added
<1> QED BY <1>1, RouteRow

LEMMA RouteHead ==
  \A op \in Operations : op # Nobody /\ Routes[op][1] # "OPTIONS" /\ Routes[op][2][1] # Id
<1>1. \A row \in Rows : row[1] # Nobody /\ row[2][1] # "OPTIONS" /\ row[2][2][1] # Id
  BY SMT DEF Rows, Generated, Added, Id, Nobody
<1> QED BY <1>1, RouteRow

Segments ==
  {Id, "access-tokens", "admin", "teams", "builds", "cancel", "sandboxes", "kill", "api-keys",
   "health", "nodes", "metrics", "connect", "logs", "network", "pause", "refreshes", "resume",
   "snapshots", "timeout", "max", "templates", "aliases", "tags", "status", "files", "v2", "v3",
   "volumes", "healthz", "ports", "volumecontent", "path", "file", "dir", "_e2b",
   "template-files"}

LEMMA RouteSegments ==
  ASSUME NEW op \in Operations, NEW i \in 1..Len(Routes[op][2])
  PROVE  Routes[op][2][i] # Empty
<1>1. \A row \in Rows : \A j \in {1, 2, 3, 4, 5} : Has(row, j) => row[2][2][j] \in Segments
  BY SMT DEF Rows, Generated, Added, Id, Has, Segments
<1>2. \A segment \in Segments : segment # Empty
  BY Zenon DEF Segments, Id, Empty
<1>3. i \in {1, 2, 3, 4, 5} /\ i \in DOMAIN Routes[op][2]
  <2> DEFINE n == Len(Routes[op][2])
  <2>1. n \in 1..5 /\ DOMAIN Routes[op][2] = 1..n /\ i \in 1..n
    BY RouteShape
  <2> HIDE DEF n
  <2>2. i \in DOMAIN Routes[op][2]
    BY <2>1
  <2>3. i \in {1, 2, 3, 4, 5}
    BY <2>1
  <2> QED BY <2>2, <2>3
<1>4. Routes[op][2][i] \in Segments
  BY <1>1, <1>3, RouteRow DEF Has
<1> QED BY <1>2, <1>4

LEMMA MatchedByTwo ==
  ASSUME NEW op \in Operations, NEW other \in Operations, NEW method, NEW path,
         Matches(op, method, path), Matches(other, method, path)
  PROVE  op = other \/ <<op, other>> \in Overlap \/ <<other, op>> \in Overlap
<1> DEFINE row == <<op, Routes[op]>>
           next == <<other, Routes[other]>>
<1>1. row \in Rows /\ next \in Rows
  BY RouteRow
<1>2. /\ Routes[op][1] = Routes[other][1]
      /\ Len(Routes[op][2]) = Len(path) /\ Len(Routes[other][2]) = Len(path) /\ Len(path) \in 1..5
  BY RouteShape DEF Matches
<1>3. DOMAIN Routes[op][2] = 1..Len(path) /\ DOMAIN Routes[other][2] = 1..Len(path)
  BY <1>2, RouteShape
<1>4. \A i \in 1..Len(path) : Routes[op][2][i] \in {Id, path[i]} /\ Routes[other][2][i] \in {Id, path[i]}
  BY DEF Matches
<1>5. Routes[op][2][1] = Routes[other][2][1]
  <2>1. 1 \in 1..Len(path)
    <3>1. Len(path) \in 1..5
      BY <1>2
    <3> QED BY <3>1
  <2>2. Routes[op][2][1] # Id /\ Routes[other][2][1] # Id
    BY RouteHead
  <2> QED BY <1>4, <2>1, <2>2
<1>6. Close(row, next)
  BY <1>2, <1>3, <1>4, <1>5 DEF Close, Meet, Has
<1>7. row[1] = op /\ next[1] = other
  OBVIOUS
<1> HIDE DEF row, next
<1> QED BY <1>1, <1>6, <1>7, CloseRows

LEMMA OverlapBeats ==
  ASSUME NEW op \in Operations, NEW other \in Operations, <<op, other>> \in Overlap
  PROVE  /\ Beats(op, other) /\ ~Beats(other, op)
         /\ 2 \in 1..Len(Routes[op][2])
         /\ Routes[op][2][2] # Id /\ Routes[other][2][2] = Id
         /\ <<other, Routes[op][2][2]>> \in Taken
<1> DEFINE row == <<op, Routes[op]>>
           next == <<other, Routes[other]>>
<1>1. row \in Rows /\ next \in Rows /\ row[1] = op /\ next[1] = other
  BY RouteRow
<1>2. /\ Has(row, 2) /\ Has(next, 2)
      /\ row[2][2][2] # Id /\ next[2][2][2] = Id
      /\ <<other, row[2][2][2]>> \in Taken
  <2> HIDE DEF row, next
  <2> QED BY <1>1, OverlapAtTwo
<1>3. 2 \in 1..Len(Routes[op][2]) /\ Routes[op][2][2] # Id /\ Routes[other][2][2] = Id
  BY <1>2, RouteShape DEF Has
<1>4. Routes[op][2][1] # Id /\ Routes[other][2][1] # Id /\ Len(Routes[other][2]) \in 1..5
  BY RouteShape, RouteHead
<1>5. Beats(op, other)
  <2>1. \A j \in 1..(2 - 1) : j = 1
    OBVIOUS
  <2>2. \A j \in 1..(2 - 1) : (Routes[op][2][j] = Id) = (Routes[other][2][j] = Id)
    BY <1>4, <2>1
  <2> QED BY <1>3, <2>2 DEF Beats
<1>6. ~Beats(other, op)
  <2>1. SUFFICES ASSUME NEW i \in 1..Len(Routes[other][2]),
                        Routes[other][2][i] # Id, Routes[op][2][i] = Id,
                        \A j \in 1..(i - 1) : (Routes[other][2][j] = Id) = (Routes[op][2][j] = Id)
                 PROVE  FALSE
    BY DEF Beats
  <2>2. i # 1 /\ i # 2 /\ i \in Nat
    BY <1>3, <1>4, <2>1
  <2>3. 2 \in 1..(i - 1)
    BY <2>2
  <2> QED BY <1>3, <2>1, <2>3
<1> QED BY <1>2, <1>3, <1>5, <1>6

\* The router finds an operation for a path that one of them was made for.
LEMMA SomeoneChosen ==
  ASSUME NEW op \in Operations, NEW method, NEW path, Matches(op, method, path)
  PROVE  Chosen(method, path) # {}
<1>1. CASE op \in Chosen(method, path)
  BY <1>1
<1>2. CASE op \notin Chosen(method, path)
  <2>1. PICK other \in Operations : Matches(other, method, path) /\ Beats(other, op)
    BY <1>2 DEF Chosen
  <2>2. ~Beats(op, op)
    BY DEF Beats
  <2>3. <<other, op>> \in Overlap
    BY <2>1, <2>2, MatchedByTwo, OverlapBeats
  <2>4. ASSUME NEW third \in Operations, Matches(third, method, path), Beats(third, other)
        PROVE  FALSE
    <3>1. ~Beats(other, other)
      BY DEF Beats
    <3>2. <<third, other>> \in Overlap
      BY <2>1, <2>4, <3>1, MatchedByTwo, OverlapBeats
    <3> QED BY <2>3, <3>2 DEF Overlap
  <2> QED BY <2>1, <2>4 DEF Chosen
<1> QED BY <1>1, <1>2

\* It is the operation meant, or one that has a literal where the other has its first
\* parameter.
LEMMA ChosenIsMeant ==
  ASSUME NEW op \in Operations, NEW method, NEW path, Matches(op, method, path),
         NEW other \in Chosen(method, path)
  PROVE  \/ other = op
         \/ <<op, path[2]>> \in Taken /\ path[2] # Empty /\ 2 \in 1..Len(path) /\ Routes[op][2][2] = Id
<1>1. other \in Operations /\ Matches(other, method, path) /\ ~Beats(op, other)
  BY DEF Chosen
<1>2. CASE <<other, op>> \in Overlap
  <2>1. /\ 2 \in 1..Len(Routes[other][2]) /\ Routes[other][2][2] # Id
        /\ Routes[op][2][2] = Id /\ <<op, Routes[other][2][2]>> \in Taken
    BY <1>1, <1>2, OverlapBeats
  <2>2. Routes[other][2][2] = path[2] /\ 2 \in 1..Len(path)
    BY <1>1, <2>1 DEF Matches
  <2>3. Routes[other][2][2] # Empty
    BY <1>1, <2>1, RouteSegments
  <2> QED BY <2>1, <2>2, <2>3
<1> QED BY <1>1, <1>2, MatchedByTwo, OverlapBeats

---------------------------------------------------------------------------
(* What a request is made for.                                             *)

\* The path of an operation is one its route matches, and the first parameter of a route
\* is the identifier the request is about, or empty.
MadeFor(r) ==
  /\ r.meant \in Operations
  /\ r.method = Routes[r.meant][1]
  /\ Matches(r.meant, r.method, r.path)
  /\ 2 \in 1..Len(r.path) /\ Routes[r.meant][2][2] = Id => r.path[2] \in {r.id, Empty}

\* What is wrong with a request elsewhere leaves it made for its operation.
LEMMA SameTarget ==
  ASSUME NEW r, NEW good, MadeFor(good),
         r.meant = good.meant, r.id = good.id, r.method = good.method, r.path = good.path
  PROVE  MadeFor(r)
BY Zenon DEF MadeFor

LEMMA PathMatches ==
  ASSUME NEW op \in Operations, NEW id, id # Empty
  PROVE  /\ DOMAIN PathFor(op, id) = 1..Len(Routes[op][2])
         /\ Len(PathFor(op, id)) = Len(Routes[op][2])
         /\ \A i \in 1..Len(Routes[op][2]) : /\ Routes[op][2][i] \in {Id, PathFor(op, id)[i]}
                                            /\ PathFor(op, id)[i] # Empty
         /\ 2 \in 1..Len(Routes[op][2]) /\ Routes[op][2][2] = Id => PathFor(op, id)[2] = id
<1> DEFINE route == Routes[op][2]
           n == Len(route)
           path == PathFor(op, id)
           First(i) == \A j \in 1..(i - 1) : route[j] # Id
           Segment(i) == IF route[i] # Id THEN route[i] ELSE IF First(i) THEN id ELSE "x"
<1>1. n \in 1..5
  BY RouteShape
<1>2. route[1] # Id
  BY RouteHead
<1>3. \A i \in 1..n : route[i] # Empty
  BY RouteSegments
<1>4. path = [i \in 1..n |-> Segment(i)]
  BY Zenon DEF PathFor
<1>5. First(2)
  <2>1. \A j \in 1..(2 - 1) : j = 1
    OBVIOUS
  <2> QED BY <1>2, <2>1
<1>6. DOMAIN path = 1..n /\ Len(path) = n /\ \A i \in 1..n : path[i] = Segment(i)
  <2> HIDE DEF route, n, path, Segment
  <2> QED BY <1>1, <1>4
<1> HIDE DEF route, n, path, First
<1>7. ASSUME NEW i \in 1..n
      PROVE  /\ Segment(i) \in {route[i], "x", id} /\ (route[i] # Id => Segment(i) = route[i])
             /\ route[i] = Id /\ First(i) => Segment(i) = id
  OBVIOUS
<1> HIDE DEF Segment
<1>8. "x" # Empty
  BY Zenon DEF Empty
<1>9. ASSUME NEW i \in 1..n PROVE route[i] \in {Id, path[i]} /\ path[i] # Empty
  <2>1. Segment(i) \in {route[i], "x", id} /\ (route[i] # Id => Segment(i) = route[i])
    BY <1>7
  <2>2. path[i] = Segment(i) /\ route[i] # Empty
    BY <1>3, <1>6
  <2> QED BY <1>8, <2>1, <2>2, Zenon
<1>10. 2 \in 1..n /\ route[2] = Id => path[2] = id
  BY <1>5, <1>6, <1>7
<1> QED BY <1>6, <1>9, <1>10 DEF route, n, path

LEMMA WellFormedIsMadeFor ==
  ASSUME NEW op \in Operations, NEW id, id # Empty
  PROVE  MadeFor(WellFormed(op, id))
<1> DEFINE r == WellFormed(op, id)
           path == PathFor(op, id)
           n == Len(Routes[op][2])
<1>1. r.meant = op /\ r.id = id /\ r.method = Routes[op][1] /\ r.path = path
  BY DEF WellFormed
<1>2. n \in 1..5
  BY RouteShape
<1>3. Len(path) = n /\ \A i \in 1..n : Routes[op][2][i] \in {Id, path[i]} /\ path[i] # Empty
  BY PathMatches
<1>4. 2 \in 1..n /\ Routes[op][2][2] = Id => path[2] = id
  BY PathMatches
<1> HIDE DEF r, path
<1>5. path[Len(path)] # Empty
  <2> HIDE DEF n
  <2>1. \A m \in 1..5 : m \in 1..m
    OBVIOUS
  <2>2. n \in 1..n
    BY <1>2, <2>1
  <2> QED BY <1>3, <2>2
<1>6. Matches(op, r.method, path)
  BY <1>1, <1>3, <1>5 DEF Matches
<1>7. MadeFor(r)
  BY <1>1, <1>3, <1>4, <1>6 DEF MadeFor
<1> QED BY <1>7 DEF r

\* Everyone who is asked about is called something.
LEMMA SomeoneNamed ==
  ASSUME NEW op \in Operations
  PROVE  /\ Someone(op) \in Identifiers(op)
         /\ \A id \in Identifiers(op) : id # Empty
<1>1. \A id \in SandboxIDs \cup Words : id # Empty
  BY NamesAssumption DEF SandboxIDs
<1>2. Nobody # Empty
  BY Zenon DEF Nobody, Empty
<1>3. Names[1] \in SandboxIDs
  <2>1. 1 \in DOMAIN Names
    BY NamesAssumption
  <2> QED BY <2>1 DEF SandboxIDs, Range
<1>4. \A id \in Identifiers(op) : id # Empty
  BY <1>1, <1>2 DEF Identifiers
<1>5. CASE AboutSandbox(op)
  BY <1>3, <1>4, <1>5 DEF Someone, Identifiers
<1>6. CASE ~AboutSandbox(op)
  <2>1. Identifiers(op) # {}
    BY <1>6, NamesAssumption DEF Identifiers
  <2> QED BY <1>4, <1>6, <2>1 DEF Someone
<1> QED BY <1>4, <1>5, <1>6

\* Only a parameter that is not the last segment is emptied.
LEMMA EmptiedIsMadeFor ==
  ASSUME NEW op \in Operations, NEW id, id # Empty,
         TakesId(op), Routes[op][2][Len(Routes[op][2])] # Id,
         NEW r, r.meant = op, r.id = id, r.method = Routes[op][1],
         r.path = Emptied(PathFor(op, id), op)
  PROVE  MadeFor(r)
<1> DEFINE route == Routes[op][2]
           n == Len(route)
           path == PathFor(op, id)
           k == CHOOSE i \in 1..Len(path) : route[i] = Id
<1>1. n \in 1..5 /\ DOMAIN route = 1..n
  BY RouteShape
<1>2. /\ DOMAIN path = 1..n /\ Len(path) = n
      /\ \A i \in 1..n : route[i] \in {Id, path[i]} /\ path[i] # Empty
      /\ 2 \in 1..n /\ route[2] = Id => path[2] = id
  BY PathMatches
<1>3. \E i \in 1..n : route[i] = Id
  BY <1>1 DEF TakesId, Range
<1>4. k \in 1..n /\ route[k] = Id
  BY <1>2, <1>3
<1>5. r.path = [path EXCEPT ![k] = Empty]
  BY Zenon DEF Emptied
<1>6. route[n] # Id
  OBVIOUS
<1>7. route = Routes[op][2] /\ n = Len(route)
  OBVIOUS
<1> HIDE DEF route, n, path, k
<1>8. DOMAIN r.path = 1..n /\ \A i \in 1..n : r.path[i] = IF i = k THEN Empty ELSE path[i]
  BY <1>2, <1>4, <1>5
<1>9. Len(r.path) = n
  <2>1. r.path = [i \in 1..n |-> r.path[i]]
    BY <1>2, <1>5
  <2> QED BY <1>1, <2>1
<1>10. \A i \in 1..n : route[i] \in {Id, r.path[i]}
  BY <1>2, <1>4, <1>8
<1>11. r.path[n] # Empty
  <2>1. \A m \in 1..5 : m \in 1..m
    OBVIOUS
  <2>2. n \in 1..n
    BY <1>1, <2>1
  <2> QED BY <1>2, <1>4, <1>6, <1>8, <2>2
<1>12. Matches(op, r.method, r.path)
  BY <1>7, <1>9, <1>10, <1>11 DEF Matches
<1>13. 2 \in 1..n /\ route[2] = Id => r.path[2] \in {id, Empty}
  BY <1>2, <1>8
<1> QED BY <1>7, <1>9, <1>12, <1>13 DEF MadeFor

LEMMA RequestsAreMadeFor == \A r \in Requests : r.meant # Nobody => MadeFor(r)
<1> SUFFICES ASSUME NEW op \in Operations, NEW r \in {WellFormed(op, id) : id \in Identifiers(op)} \cup Faulty(op),
                    r.meant # Nobody
             PROVE  MadeFor(r)
  BY DEF Requests
<1>1. CASE r \in {WellFormed(op, id) : id \in Identifiers(op)}
  BY <1>1, SomeoneNamed, WellFormedIsMadeFor
<1>2. CASE r \in Faulty(op)
  <2> DEFINE good == WellFormed(op, Someone(op))
  <2>1. MadeFor(good)
    BY SomeoneNamed, WellFormedIsMadeFor
  <2>2. /\ good.meant = op /\ good.id = Someone(op) /\ good.method = Routes[op][1]
        /\ good.path = PathFor(op, Someone(op))
        /\ DOMAIN good = {"meant", "id", "method", "path", "slash", "defect", "body", "valid", "token", "states", "limit"}
    BY DEF WellFormed
  <2>3. r \in WithoutId(op, good) \cup Defective(op, good) \cup Misdirected(good)
    BY <1>2 DEF Faulty
  <2> HIDE DEF good
  <2>4. CASE r \in Defective(op, good)
    <3>1. r.meant = good.meant /\ r.id = good.id /\ r.method = good.method /\ r.path = good.path
      BY <2>2, <2>4 DEF Defective
    <3> QED BY <2>1, <3>1, SameTarget
  <2>5. CASE r \in WithoutId(op, good)
    <3>1. /\ TakesId(op) /\ Routes[op][2][Len(good.path)] # Id
          /\ r.meant = op /\ r.id = Someone(op) /\ r.method = Routes[op][1]
          /\ r.path = Emptied(PathFor(op, Someone(op)), op)
      BY <2>2, <2>5 DEF WithoutId
    <3>2. Len(good.path) = Len(Routes[op][2])
      BY <2>2, SomeoneNamed, PathMatches
    <3> QED BY <3>1, <3>2, SomeoneNamed, EmptiedIsMadeFor
  <2>6. CASE r \in Misdirected(good)
    BY <2>2, <2>6 DEF Misdirected
  <2> QED BY <2>3, <2>4, <2>5, <2>6
<1> QED BY <1>1, <1>2

---------------------------------------------------------------------------
(* Routing: the request in flight is one made for an operation, which is   *)
(* what lets the router find that operation or one of Taken.               *)

Addressed ==
  /\ request.meant # Nobody => MadeFor(request)
  /\ RoutedAsMeant

\* A request that is made for an operation and reaches another has an identifier that is
\* a literal of the other's route.
LEMMA ChosenForRequest ==
  ASSUME NEW r, MadeFor(r), NEW op \in Chosen(r.method, r.path)
  PROVE  op = r.meant \/ <<r.meant, r.id>> \in Taken
<1>1. CASE op = r.meant
  BY <1>1
<1>2. CASE op # r.meant
  <2>1. /\ <<r.meant, r.path[2]>> \in Taken /\ r.path[2] # Empty
        /\ 2 \in 1..Len(r.path) /\ Routes[r.meant][2][2] = Id
    BY <1>2, ChosenIsMeant DEF MadeFor
  <2>2. r.path[2] = r.id
    BY <2>1 DEF MadeFor
  <2> QED BY <2>1, <2>2
<1> QED BY <1>1, <1>2

LEMMA AddressedKept ==
  ASSUME Addressed, request' = request, handled' = handled,
         phase' = "answered" /\ handled = Nobody => request.slash \/ phase = "answered"
  PROVE  Addressed'
BY DEF Addressed, RoutedAsMeant, MadeFor

LEMMA SendAddressed ==
  ASSUME InOrder, Addressed, Send \/ AskPage
  PROVE  Addressed'
<1>1. ASSUME NEW r, r.meant # Nobody => MadeFor(r), Sent(r) PROVE Addressed'
  <2>1. handled' = Nobody /\ phase' = "arrived" /\ request' = r
    BY <1>1 DEF Sent, InOrder
  <2> QED BY <1>1, <2>1 DEF Addressed, RoutedAsMeant, MadeFor
<1>2. CASE Send
  BY <1>1, <1>2, RequestsAreMadeFor DEF Send
<1>3. CASE AskPage
  <2> DEFINE good == WellFormed("GetV2Sandboxes", Nobody)
             asked == [good EXCEPT !.token = session.token, !.states = session.states, !.limit = session.limit]
  <2>1. "GetV2Sandboxes" \in Operations
    BY DEF Operations, Routes, Table, Generated, Added
  <2>2. Nobody # Empty
    BY Zenon DEF Nobody, Empty
  <2>3. MadeFor(good)
    BY <2>1, <2>2, WellFormedIsMadeFor
  <2>4. DOMAIN good = {"meant", "id", "method", "path", "slash", "defect", "body", "valid", "token", "states", "limit"}
    BY DEF WellFormed
  <2>5. Sent(asked)
    BY <1>3 DEF AskPage
  <2> HIDE DEF good
  <2>6. asked.meant = good.meant /\ asked.id = good.id /\ asked.method = good.method /\ asked.path = good.path
    BY <2>4
  <2> HIDE DEF asked
  <2>7. MadeFor(asked)
    BY <2>3, <2>6, SameTarget
  <2> QED BY <1>1, <2>5, <2>7
<1> QED BY <1>2, <1>3

LEMMA RouterAddressed ==
  ASSUME InOrder, Addressed, Preflight \/ NotRouted \/ Routed
  PROVE  Addressed'
<1>1. CASE Preflight
  <2>1. request.meant = Nobody
    BY <1>1, RouteHead DEF Preflight, Addressed, MadeFor
  <2>2. request' = request
    BY <1>1 DEF Preflight, exchange
  <2> QED BY <2>1, <2>2 DEF Addressed, RoutedAsMeant
<1>2. CASE NotRouted
  <2>1. request' = request /\ handled' = handled /\ phase # "answered"
    BY <1>2 DEF NotRouted, exchange
  <2>2. CASE request.meant = Nobody
    BY <2>1, <2>2 DEF Addressed, RoutedAsMeant
  <2>3. CASE request.meant # Nobody
    <3>1. Chosen(request.method, request.path) # {}
      BY <2>3, SomeoneChosen DEF Addressed, MadeFor
    <3>2. request.slash
      BY <1>2, <3>1 DEF NotRouted
    <3> QED BY <2>1, <3>2, AddressedKept
  <2> QED BY <2>2, <2>3
<1>3. CASE Routed
  <2>1. /\ handled' \in Chosen(request.method, request.path)
        /\ phase' = "routed" /\ request' = request
    BY <1>3 DEF Routed
  <2>2. request.meant # Nobody =>
          handled' = request.meant \/ <<request.meant, request.id>> \in Taken
    BY <2>1, ChosenForRequest DEF Addressed
  <2> QED BY <2>1, <2>2 DEF Addressed, RoutedAsMeant, MadeFor
<1> QED BY <1>1, <1>2, <1>3

\* Later layers leave the request and the operation alone.
LEMMA LaterAddressed ==
  ASSUME InOrder, Addressed,
         SessionBegins \/ Bind \/ NotImplemented \/ Decode \/ CallSandbox \/ CallCreate \/ CallKillTeam
           \/ CallOther \/ ListBegins \/ ReconcileNext \/ ListEnds \/ Respond \/ Others \/ UNCHANGED vars
  PROVE  Addressed'
<1>1. request' = request /\ handled' = handled
  BY DEF SessionBegins, Bind, NotImplemented, Decode, CallSandbox, CallCreate, CallKillTeam, CallOther,
         ListBegins, ReconcileNext, ListEnds, Respond, Others, Returns, exchange, vars
<1>2. phase' = "answered" /\ handled = Nobody => phase = "answered"
  <2>1. Nobody \notin Operations
    BY RouteHead
  <2> QED BY <2>1 DEF InOrder, SessionBegins, Bind, NotImplemented, Decode, CallSandbox, CallCreate, CallKillTeam, CallOther,
         ListBegins, ReconcileNext, ListEnds, Respond, Others, Returns, vars
<1> QED BY <1>1, <1>2, AddressedKept

LEMMA AddressedHolds == Spec => []Addressed
<1>1. Init => Addressed
  BY DEF Init, NoRequest, WellFormed, Addressed, RoutedAsMeant
<1>2. ASSUME Truthful, Addressed, [Next]_vars PROVE Addressed'
  <2>1. InOrder
    BY <1>2 DEF Truthful
  <2>2. CASE Receive
    <3>1. request'.meant = Nobody
      BY <2>2 DEF Receive, NoRequest, WellFormed
    <3> QED BY <3>1 DEF Addressed, RoutedAsMeant
  <2> QED BY <1>2, <2>1, <2>2, SendAddressed, RouterAddressed, LaterAddressed DEF Next
<1> QED BY <1>1, <1>2, TruthfulHolds, PTL DEF Spec

\* A request reaches the operation it was made for, or one whose literal its identifier
\* is; and only a trailing slash keeps it from being routed.
THEOREM RoutedAsMeantHolds == Spec => []RoutedAsMeant
<1>1. Addressed => RoutedAsMeant
  BY DEF Addressed
<1> QED BY <1>1, AddressedHolds, PTL

---------------------------------------------------------------------------
(* Paging.  What makes the pages fit together is the order of the          *)
(* sandboxes: a token stands for all of them up to its own, and a page     *)
(* begins behind it.                                                       *)

Place(s) == CHOOSE i \in DOMAIN Names : Names[i] = s
Ascending(seq) == \A i, j \in DOMAIN seq : i < j => Place(seq[i]) < Place(seq[j])

\* What a session has been shown when it is to go on behind a token: nothing further,
\* and every sandbox kept that is not further.
ShownUpTo(shown, token, s) ==
  /\ token \in SandboxIDs
  /\ \A id \in Range(shown) : Place(id) <= Place(token)
  /\ ~s.cut => \A id \in s.kept : Place(id) <= Place(token) => id \in Range(shown)

\* A page behind those a session has seen.
Continues(p, s) ==
  LET shown == s.seen \o p.items
  IN  /\ p.items \in Seq(SandboxIDs) /\ Ascending(shown)
      /\ IF p.next = Empty THEN ~s.cut => s.kept \subseteq Range(shown)
         ELSE ShownUpTo(shown, p.next, s)

SeenFits ==
  session.on =>
    /\ session.states \subseteq Alive /\ session.limit \in Nat \ {0}
    /\ session.seen \in Seq(SandboxIDs) /\ Ascending(session.seen)
    /\ session.kept \subseteq SandboxIDs
    /\ \A s \in session.kept : sandboxes[s] \in session.states
    /\ IF session.token = Empty THEN session.seen = <<>>
       ELSE ShownUpTo(session.seen, session.token, session)

Asking ==
  session.on /\ phase # "idle" =>
    /\ request.meant = "GetV2Sandboxes"
    /\ request.token = session.token /\ request.states = session.states /\ request.limit = session.limit

\* A listing goes through the records in their order, and leaves out no sandbox kept.
ListingFits ==
  session.on /\ phase = "listing" =>
    /\ records \subseteq DOMAIN Names
    /\ reconciled \in Seq(SandboxIDs) /\ Ascending(reconciled)
    /\ \A s \in Range(reconciled), i \in records : Place(s) < i
    /\ \A s \in session.kept : Place(s) \in records \/ s \in Range(reconciled)

PageFits ==
  session.on /\ ((phase = "called" /\ outcome.kind = "ok") \/ (phase = "answered" /\ status = 200)) =>
    Continues(page, session)

Fitting ==
  /\ DOMAIN sandboxes = SandboxIDs
  /\ DOMAIN session = {"on", "states", "limit", "token", "seen", "kept", "cut"}
  /\ SeenFits /\ Asking /\ ListingFits /\ PageFits

\* The sandboxes and their places.
LEMMA Places ==
  /\ Len(Names) \in Nat /\ DOMAIN Names = 1..Len(Names)
  /\ \A i \in DOMAIN Names : Names[i] \in SandboxIDs /\ Place(Names[i]) = i
  /\ \A s \in SandboxIDs : Place(s) \in DOMAIN Names /\ Place(s) \in Nat /\ Names[Place(s)] = s
  /\ Empty \notin SandboxIDs
<1>1. Names \in Seq(SandboxIDs)
  BY NamesAssumption DEF SandboxIDs
<1>2. Len(Names) \in Nat /\ DOMAIN Names = 1..Len(Names)
  BY <1>1, LenProperties
<1>3. \A s \in SandboxIDs : \E i \in DOMAIN Names : Names[i] = s
  BY DEF SandboxIDs, Range
<1>4. \A s \in SandboxIDs : Place(s) \in DOMAIN Names /\ Names[Place(s)] = s
  BY <1>3 DEF Place
<1>5. \A i \in DOMAIN Names : Names[i] \in SandboxIDs
  BY DEF SandboxIDs, Range
<1>6. \A i \in DOMAIN Names : Place(Names[i]) = i
  BY <1>4, <1>5, NamesAssumption DEF IsInjective
<1>7. Empty \notin SandboxIDs
  BY NamesAssumption DEF SandboxIDs
<1> QED BY <1>2, <1>4, <1>5, <1>6, <1>7

\* A sequence of sandboxes in their order shows none twice.
LEMMA AscendingIsInjective ==
  ASSUME NEW seq \in Seq(SandboxIDs), Ascending(seq)
  PROVE  IsInjective(seq)
<1>1. DOMAIN seq \subseteq Nat /\ \A i \in DOMAIN seq : Place(seq[i]) \in Nat
  BY LenProperties, ElementOfSeq, Places
<1>2. SUFFICES ASSUME NEW i \in DOMAIN seq, NEW j \in DOMAIN seq, i # j
               PROVE  seq[i] # seq[j]
  BY DEF IsInjective
<1>3. i < j \/ j < i
  BY <1>1, <1>2
<1> QED BY <1>1, <1>3 DEF Ascending

\* Sandboxes in their order, and further ones in theirs.
LEMMA JoinAscending ==
  ASSUME NEW seen \in Seq(SandboxIDs), Ascending(seen),
         NEW items \in Seq(SandboxIDs), Ascending(items),
         \A s \in Range(seen), t \in Range(items) : Place(s) < Place(t)
  PROVE  Ascending(seen \o items)
<1> DEFINE n == Len(seen)
           m == Len(items)
           both == seen \o items
<1>1. /\ n \in Nat /\ m \in Nat /\ DOMAIN seen = 1..n /\ DOMAIN items = 1..m
      /\ both \in Seq(SandboxIDs) /\ Len(both) = n + m
      /\ \A i \in 1..(n + m) : both[i] = IF i <= n THEN seen[i] ELSE items[i - n]
  BY LenProperties, ConcatProperties
<1>2. DOMAIN both = 1..(n + m)
  BY <1>1, LenProperties
<1>3. \A i \in 1..n, j \in 1..m : Place(seen[i]) < Place(items[j])
  BY <1>1 DEF Range
<1> HIDE DEF n, m, both
<1>4. SUFFICES ASSUME NEW i \in 1..(n + m), NEW j \in 1..(n + m), i < j
               PROVE  Place(both[i]) < Place(both[j])
  BY <1>2 DEF Ascending, both
<1>5. CASE j <= n
  <2>1. i \in 1..n /\ j \in 1..n /\ i <= n
    BY <1>1, <1>4, <1>5
  <2>2. both[i] = seen[i] /\ both[j] = seen[j]
    BY <1>1, <1>5, <2>1
  <2> QED BY <1>1, <1>4, <2>1, <2>2 DEF Ascending
<1>6. CASE i <= n /\ j > n
  <2>1. j - n \in 1..m /\ i \in 1..n
    BY <1>1, <1>6
  <2> QED BY <1>1, <1>3, <1>6, <2>1
<1>7. CASE i > n
  <2>1. i - n \in 1..m /\ j - n \in 1..m /\ i - n < j - n /\ ~(i <= n) /\ ~(j <= n)
    BY <1>1, <1>4, <1>7
  <2>2. both[i] = items[i - n] /\ both[j] = items[j - n]
    BY <1>1, <2>1
  <2> QED BY <1>1, <2>1, <2>2 DEF Ascending
<1> QED BY <1>1, <1>4, <1>5, <1>6, <1>7

\* A sandbox behind all that are there goes to the end of them.
LEMMA AppendAscending ==
  ASSUME NEW seq \in Seq(SandboxIDs), Ascending(seq), NEW t \in SandboxIDs,
         \A s \in Range(seq) : Place(s) < Place(t)
  PROVE  /\ Append(seq, t) \in Seq(SandboxIDs) /\ Ascending(Append(seq, t))
         /\ Range(Append(seq, t)) = Range(seq) \cup {t}
<1> DEFINE one == <<t>>
<1>1. one \in Seq(SandboxIDs) /\ DOMAIN one = {1} /\ one[1] = t
  OBVIOUS
<1>2. Append(seq, t) = seq \o one
  BY AppendIsConcat
<1> HIDE DEF one
<1>3. Range(one) = {t}
  BY <1>1 DEF Range
<1>4. Ascending(one)
  BY <1>1 DEF Ascending
<1>5. Range(seq \o one) = Range(seq) \cup {t}
  BY <1>1, <1>3, RangeConcatenation
<1>6. Ascending(seq \o one)
  BY <1>1, <1>3, <1>4, JoinAscending
<1>7. seq \o one \in Seq(SandboxIDs)
  BY <1>1, ConcatProperties
<1> QED BY <1>2, <1>5, <1>6, <1>7


\* A page is a part of what was filtered: it begins behind the token's sandbox, or at the
\* end when that one is gone, and has a token when something is left.
LEMMA PageIsPart ==
  ASSUME NEW filtered \in Seq(SandboxIDs), NEW token, NEW limit \in Nat \ {0}
  PROVE  \E from, to \in 0..Len(filtered) :
           /\ from <= to
           /\ IF token = Empty THEN from = 0
              ELSE IF token \in Range(filtered) THEN from \in DOMAIN filtered /\ filtered[from] = token
              ELSE from = Len(filtered)
           /\ Page(filtered, token, limit).items = SubSeq(filtered, from + 1, to)
           /\ IF to = Len(filtered) THEN Page(filtered, token, limit).next = Empty
              ELSE from < to /\ Page(filtered, token, limit).next = filtered[to]
<1> DEFINE n == Len(filtered)
           from == Start(filtered, token)
           end == from + limit
           p == Page(filtered, token, limit)
<1>1. n \in Nat /\ DOMAIN filtered = 1..n
  BY LenProperties
<1>3. token # Empty /\ token \in Range(filtered) => from \in 1..n /\ filtered[from] = token
  <2>1. token \in Range(filtered) => \E i \in 1..n : filtered[i] = token
    BY <1>1 DEF Range
  <2> QED BY <2>1 DEF Start
<1>4. token # Empty /\ token \notin Range(filtered) => from = n
  BY DEF Start
<1>5. token = Empty => from = 0
  BY DEF Start
<1>6. from \in 0..n
  BY <1>1, <1>3, <1>4, <1>5
<1>7. end < n => p.items = SubSeq(filtered, from + 1, end) /\ p.next = filtered[end]
  BY DEF Page
<1>8. ~(end < n) => p.items = SubSeq(filtered, from + 1, n) /\ p.next = Empty
  BY DEF Page
<1> HIDE DEF from, p, n
<1>9. CASE end < n
  <2>1. end \in 0..n /\ from <= end /\ from < end /\ end # n
    BY <1>1, <1>6, <1>9
  <2> QED BY <1>1, <1>3, <1>4, <1>5, <1>6, <1>7, <1>9, <2>1 DEF p, n
<1>10. CASE ~(end < n)
  <2>1. n \in 0..n /\ from <= n
    BY <1>1, <1>6
  <2> QED BY <1>1, <1>3, <1>4, <1>5, <1>6, <1>8, <1>10, <2>1 DEF p, n
<1> QED BY <1>9, <1>10

LEMMA PartOfAscending ==
  ASSUME NEW filtered \in Seq(SandboxIDs), Ascending(filtered),
         NEW from \in 0..Len(filtered), NEW to \in 0..Len(filtered), from <= to,
         NEW items, items = SubSeq(filtered, from + 1, to)
  PROVE  /\ items \in Seq(SandboxIDs) /\ Ascending(items)
         /\ Range(items) = {filtered[k] : k \in (from + 1)..to}
<1> DEFINE n == Len(filtered)
<1>1. n \in Nat /\ DOMAIN filtered = 1..n /\ from \in Nat /\ to \in Nat
  BY LenProperties
<1>2. \A k \in (from + 1)..to : k \in 1..n /\ filtered[k] \in SandboxIDs
  BY <1>1, ElementOfSeq
<1>3. /\ items \in Seq(SandboxIDs)
      /\ Len(items) = IF from + 1 <= to THEN to - (from + 1) + 1 ELSE 0
      /\ \A i \in 1..(to - (from + 1) + 1) : items[i] = filtered[(from + 1) + i - 1]
  BY <1>1, <1>2, SubSeqProperties
<1>4. Len(items) = to - from /\ DOMAIN items = 1..(to - from)
  <2>1. Len(items) = to - from
    BY <1>1, <1>3
  <2> QED BY <1>3, <2>1, LenProperties
<1>5. \A i \in 1..(to - from) : items[i] = filtered[from + i]
  BY <1>1, <1>3
<1>6. Ascending(items)
  <2>1. SUFFICES ASSUME NEW i \in 1..(to - from), NEW j \in 1..(to - from), i < j
                 PROVE  Place(items[i]) < Place(items[j])
    BY <1>4 DEF Ascending
  <2>2. from + i \in 1..n /\ from + j \in 1..n /\ from + i < from + j
    BY <1>1, <2>1
  <2>3. Place(filtered[from + i]) < Place(filtered[from + j])
    BY <1>1, <2>2 DEF Ascending
  <2> QED BY <1>5, <2>3
<1>7. Range(items) = {filtered[k] : k \in (from + 1)..to}
  <2>1. \A i \in 1..(to - from) : from + i \in (from + 1)..to
    BY <1>1
  <2>2. \A k \in (from + 1)..to : k - from \in 1..(to - from) /\ from + (k - from) = k
    BY <1>1
  <2>3. \A k \in (from + 1)..to : items[k - from] = filtered[k]
    BY <1>5, <2>2
  <2>4. Range(items) = {items[i] : i \in 1..(to - from)}
    BY <1>4 DEF Range
  <2>5. \A s \in Range(items) : \E k \in (from + 1)..to : s = filtered[k]
    BY <1>5, <2>1, <2>4
  <2>6. \A k \in (from + 1)..to : filtered[k] \in Range(items)
    BY <2>2, <2>3, <2>4
  <2> QED BY <2>5, <2>6
<1> QED BY <1>3, <1>6, <1>7

\* What a page is of the sandboxes it was cut from: those up to its token that are behind
\* the token asked with, or all behind that one.
CutBehind(p, token, filtered) ==
  /\ p.items \in Seq(SandboxIDs) /\ Ascending(p.items)
  /\ token # Empty => \A s \in Range(p.items) : Place(token) < Place(s)
  /\ p.next = Empty /\ (token = Empty \/ token \in Range(filtered)) =>
       \A s \in Range(filtered) : s \in Range(p.items) \/ (token # Empty /\ Place(s) <= Place(token))
  /\ p.next # Empty =>
       /\ p.next \in SandboxIDs
       /\ \A s \in Range(p.items) : Place(s) <= Place(p.next)
       /\ token # Empty => token \in Range(filtered) /\ Place(token) < Place(p.next)
       /\ \A s \in Range(filtered) :
            Place(s) <= Place(p.next) =>
              s \in Range(p.items) \/ (token # Empty /\ Place(s) <= Place(token))

LEMMA PageIsCutBehind ==
  ASSUME NEW filtered \in Seq(SandboxIDs), Ascending(filtered), NEW token \in SandboxIDs \cup {Empty},
         NEW limit \in Nat \ {0}, NEW p, p = Page(filtered, token, limit)
  PROVE  CutBehind(p, token, filtered)
<1> DEFINE n == Len(filtered)
           items == p.items
           next == p.next
<1>1. n \in Nat /\ DOMAIN filtered = 1..n
  BY LenProperties
<1>2. PICK from \in 0..n, to \in 0..n :
        /\ from <= to
        /\ IF token = Empty THEN from = 0
           ELSE IF token \in Range(filtered) THEN from \in DOMAIN filtered /\ filtered[from] = token
           ELSE from = n
        /\ items = SubSeq(filtered, from + 1, to)
        /\ IF to = n THEN next = Empty ELSE from < to /\ next = filtered[to]
  BY PageIsPart
<1>3. /\ items \in Seq(SandboxIDs) /\ Ascending(items)
      /\ Range(items) = {filtered[k] : k \in (from + 1)..to}
  BY <1>2, PartOfAscending
<1> HIDE DEF n, items, next
<1>4. \A k \in 1..n : filtered[k] \in SandboxIDs /\ filtered[k] # Empty /\ Place(filtered[k]) \in Nat
  <2>1. \A k \in 1..n : filtered[k] \in SandboxIDs
    BY ElementOfSeq DEF n
  <2> QED BY <2>1, Places
<1>5. \A j, k \in 1..n : j <= k => Place(filtered[j]) <= Place(filtered[k])
  BY <1>1, <1>4 DEF Ascending
<1>6. Range(filtered) = {filtered[k] : k \in 1..n}
  BY <1>1 DEF Range
<1>7. token # Empty => \A s \in Range(items) : Place(token) < Place(s)
  <2>1. CASE token \in Range(filtered)
    <3>1. \A k \in (from + 1)..to : k \in 1..n /\ from < k
      BY <1>1
    <3>2. token # Empty => from \in 1..n /\ filtered[from] = token
      BY <1>1, <1>2, <2>1
    <3>3. token # Empty => \A k \in (from + 1)..to : Place(token) < Place(filtered[k])
      BY <1>1, <3>1, <3>2 DEF Ascending
    <3> QED BY <1>3, <3>3
  <2>2. CASE token \notin Range(filtered) /\ token # Empty
    <3>1. from = n
      BY <1>2, <2>2
    <3>2. \A k \in (from + 1)..to : FALSE
      BY <1>1, <3>1
    <3> QED BY <1>3, <3>2
  <2> QED BY <2>1, <2>2
\* The sandboxes up to the page's end are behind the token, and then on the page, or not.
<1>8. ASSUME token = Empty \/ token \in Range(filtered), NEW k \in 1..n, k <= to
      PROVE  filtered[k] \in Range(items) \/ (token # Empty /\ Place(filtered[k]) <= Place(token))
  <2>1. CASE k <= from
    <3>1. from # 0 /\ from \in 1..n
      BY <1>1, <2>1
    <3>2. token # Empty /\ filtered[from] = token
      BY <1>2, <1>8, <3>1
    <3>3. Place(filtered[k]) <= Place(filtered[from])
      BY <1>5, <2>1, <3>1
    <3> QED BY <3>2, <3>3
  <2>2. CASE ~(k <= from)
    <3>1. k \in (from + 1)..to
      BY <1>1, <1>8, <2>2
    <3> QED BY <1>3, <3>1
  <2> QED BY <2>1, <2>2
<1>9. CASE to = n
  <2>1. next = Empty
    BY <1>2, <1>9
  <2>2. token = Empty \/ token \in Range(filtered) =>
          \A s \in Range(filtered) : s \in Range(items) \/ (token # Empty /\ Place(s) <= Place(token))
    <3>1. \A k \in 1..n : k <= to
      BY <1>1, <1>9
    <3> QED BY <1>6, <1>8, <3>1
  <2> QED BY <1>3, <1>7, <2>1, <2>2 DEF items, next, CutBehind
<1>10. CASE to # n
  <2>1. from < to /\ next = filtered[to] /\ to \in 1..n
    BY <1>1, <1>2, <1>10
  <2>2. next \in SandboxIDs /\ next # Empty
    BY <1>4, <2>1
  <2>3. \A s \in Range(items) : Place(s) <= Place(next)
    <3>1. \A k \in (from + 1)..to : k \in 1..n /\ k <= to
      BY <1>1
    <3> QED BY <1>3, <1>5, <2>1, <3>1
  <2>4. token # Empty => token \in Range(filtered) /\ Place(token) < Place(next)
    <3>1. token # Empty => token \in Range(filtered)
      <4>1. from # n
        BY <1>1, <2>1
      <4> QED BY <1>2, <4>1
    <3>2. token # Empty => from \in 1..n /\ filtered[from] = token
      BY <1>1, <1>2, <3>1
    <3> QED BY <1>1, <2>1, <3>1, <3>2 DEF Ascending
  <2>5. ASSUME NEW s \in Range(filtered), Place(s) <= Place(next)
        PROVE  s \in Range(items) \/ (token # Empty /\ Place(s) <= Place(token))
    <3>1. PICK k \in 1..n : s = filtered[k]
      BY <1>6
    <3>2. k <= to
      <4>1. to < k => Place(next) < Place(s)
        BY <1>1, <2>1, <3>1 DEF Ascending
      <4>2. Place(next) \in Nat /\ Place(s) \in Nat
        BY <1>4, <2>1, <3>1
      <4>3. ~(to < k)
        BY <2>5, <4>1, <4>2
      <4> QED BY <1>1, <4>3
    <3> QED BY <1>8, <2>4, <3>1, <3>2
  <2> QED BY <1>3, <1>7, <2>2, <2>3, <2>4, <2>5 DEF items, next, CutBehind
<1> QED BY <1>9, <1>10

\* In a session the operation is the listing of pages.
LEMMA SessionLists ==
  ASSUME InOrder, Addressed, Asking, session.on, phase # "idle"
  PROVE  /\ handled \in {Nobody, "GetV2Sandboxes"}
         /\ request.method # "OPTIONS"
         /\ phase \in {"decoded", "listing", "called"} => handled = "GetV2Sandboxes"
<1>1. request.meant = "GetV2Sandboxes" /\ request.meant # Nobody
  BY DEF Asking, Nobody
<1>2. handled \in {Nobody, "GetV2Sandboxes"}
  BY <1>1 DEF Addressed, RoutedAsMeant, Taken
<1>3. request.method # "OPTIONS"
  BY <1>1, RouteHead DEF Addressed, MadeFor
<1>4. phase \in {"decoded", "listing", "called"} => handled # Nobody
  BY RouteHead DEF InOrder
<1> QED BY <1>2, <1>3, <1>4

LEMMA SessionCalls ==
  ASSUME InOrder, Passed, Addressed, Asking, session.on, phase = "decoded"
  PROVE  Calls = "ListSandboxes"
<1>1. handled = "GetV2Sandboxes"
  BY SessionLists
<1>2. handled \in DOMAIN Handlers
  BY DEF Passed
<1>3. PlainRow(<<handled, Handlers[handled]>>)
  BY <1>2, HandlersArePlain
<1> QED BY <1>1, <1>3 DEF PlainRow, Calls

LEMMA FitsWithoutSession ==
  ASSUME DOMAIN sandboxes' = SandboxIDs, ~session'.on,
         DOMAIN session' = {"on", "states", "limit", "token", "seen", "kept", "cut"}
  PROVE  Fitting'
BY DEF Fitting, SeenFits, Asking, ListingFits, PageFits

\* What leaves the session and the sandboxes alone leaves what was seen alone.
LEMMA SeenKept ==
  ASSUME SeenFits, session' = session, sandboxes' = sandboxes
  PROVE  SeenFits'
BY DEF SeenFits, ShownUpTo

LEMMA BeginFits ==
  ASSUME Fitting, SessionBegins
  PROVE  Fitting'
<1>1. /\ phase' = "idle" /\ sandboxes' = sandboxes
      /\ session'.states \in {{"running"}, {"running", "paused"}} /\ session'.limit \in PageLimits
      /\ session'.kept = Listed(session'.states) /\ session'.token = Empty /\ session'.seen = <<>>
      /\ DOMAIN session' = {"on", "states", "limit", "token", "seen", "kept", "cut"}
  BY DEF SessionBegins, NoSession
<1>2. session'.states \subseteq Alive
  BY <1>1 DEF Alive
<1>3. session'.limit \in Nat \ {0}
  BY <1>1, NamesAssumption
<1>4. /\ session'.kept \subseteq SandboxIDs
      /\ \A s \in session'.kept : sandboxes'[s] \in session'.states
  BY <1>1 DEF Listed
<1>5. <<>> \in Seq(SandboxIDs) /\ Ascending(<<>>)
  BY DEF Ascending
<1>6. session'.seen \in Seq(SandboxIDs) /\ Ascending(session'.seen)
  BY <1>1, <1>5
<1>7. SeenFits'
  BY <1>1, <1>2, <1>3, <1>4, <1>6 DEF SeenFits
<1> QED BY <1>1, <1>7 DEF Fitting, Asking, ListingFits, PageFits

LEMMA AskFits ==
  ASSUME Fitting, AskPage
  PROVE  Fitting'
<1>1. phase' = "arrived" /\ session' = session /\ sandboxes' = sandboxes
  BY DEF AskPage, Sent
<1>2. /\ request'.meant = "GetV2Sandboxes" /\ request'.token = session.token
      /\ request'.states = session.states /\ request'.limit = session.limit
  <2> DEFINE good == WellFormed("GetV2Sandboxes", Nobody)
             asked == [good EXCEPT !.token = session.token, !.states = session.states, !.limit = session.limit]
  <2>1. /\ good.meant = "GetV2Sandboxes"
        /\ DOMAIN good = {"meant", "id", "method", "path", "slash", "defect", "body", "valid", "token", "states", "limit"}
    BY DEF WellFormed
  <2>2. request' = asked
    BY DEF AskPage, Sent
  <2> HIDE DEF good
  <2> QED BY <2>1, <2>2
<1>3. SeenFits'
  BY <1>1, SeenKept DEF Fitting
<1> QED BY <1>1, <1>2, <1>3 DEF Fitting, Asking, ListingFits, PageFits

\* The layers before the callback answer with no page.
LEMMA LayersFit ==
  ASSUME Fitting, Preflight \/ NotRouted \/ Routed \/ Bind \/ NotImplemented \/ Decode
  PROVE  Fitting'
<1>1. session' = session /\ sandboxes' = sandboxes /\ request' = request /\ phase # "idle"
  BY DEF Preflight, NotRouted, Routed, Bind, NotImplemented, Decode, exchange
<1>2. phase' \in {"routed", "bound", "decoded"} \/ (phase' = "answered" /\ status' # 200)
  BY DEF Preflight, NotRouted, Routed, Bind, NotImplemented, Decode, Answered
<1>3. SeenFits'
  BY <1>1, SeenKept DEF Fitting
<1> QED BY <1>1, <1>2, <1>3 DEF Fitting, Asking, ListingFits, PageFits

\* In a session no other callback is called.
LEMMA CallsFit ==
  ASSUME InOrder, Passed, Addressed, Fitting, CallSandbox \/ CallCreate \/ CallKillTeam \/ CallOther
  PROVE  Fitting'
<1>1. session' = session /\ phase = "decoded" /\ Calls # "ListSandboxes"
  BY DEF CallSandbox, CallCreate, CallKillTeam, CallOther, Returns, SandboxCalls
<1>2. ~session.on
  BY <1>1, SessionCalls DEF Fitting
<1>3. DOMAIN sandboxes' = SandboxIDs
  BY DEF Fitting, CallSandbox, CallCreate, CallKillTeam, CallOther, Returns
<1> QED BY <1>1, <1>2, <1>3, FitsWithoutSession DEF Fitting

\* A listing begins with every sandbox kept among its records.
LEMMA ListBeginsFits ==
  ASSUME Fitting, ListBegins
  PROVE  Fitting'
<1>1. /\ session' = session /\ sandboxes' = sandboxes /\ request' = request
      /\ phase = "decoded" /\ phase' = "listing"
      /\ records' = {i \in DOMAIN Names : Stored(Names[i])} /\ reconciled' = <<>>
  BY DEF ListBegins
<1>2. SeenFits'
  BY <1>1, SeenKept DEF Fitting
<1>3. Asking'
  BY <1>1 DEF Fitting, Asking
<1>4. ASSUME session.on, NEW s \in session.kept PROVE Place(s) \in records'
  <2>1. s \in SandboxIDs /\ sandboxes[s] \in Alive
    BY <1>4 DEF Fitting, SeenFits
  <2>2. Place(s) \in DOMAIN Names /\ Names[Place(s)] = s
    BY <2>1, Places
  <2> QED BY <1>1, <2>1, <2>2 DEF Stored
<1>5. /\ <<>> \in Seq(SandboxIDs) /\ Ascending(<<>>)
      /\ \A s \in Range(<<>>), i \in records' : Place(s) < i
  BY DEF Ascending, Range
<1>6. ListingFits'
  BY <1>1, <1>4, <1>5 DEF ListingFits
<1> QED BY <1>1, <1>2, <1>3, <1>6 DEF Fitting, PageFits

\* The records are reconciled in the order of their sandboxes, and one that the filter
\* leaves out was not kept.
LEMMA ReconcileFits ==
  ASSUME InOrder, Addressed, Fitting, ReconcileNext
  PROVE  Fitting'
<1>1. session' = session /\ sandboxes' = sandboxes /\ request' = request /\ handled' = handled /\ phase = "listing"
  BY DEF ReconcileNext
<1>2. SeenFits'
  BY <1>1, SeenKept DEF Fitting
<1>3. Asking'
  BY <1>1 DEF Fitting, Asking
<1>4. CASE ~session.on
  BY <1>1, <1>4, FitsWithoutSession DEF Fitting
<1>5. CASE session.on
  <2>1. /\ records \subseteq DOMAIN Names
        /\ reconciled \in Seq(SandboxIDs) /\ Ascending(reconciled)
        /\ \A s \in Range(reconciled), i \in records : Place(s) < i
        /\ \A s \in session.kept : Place(s) \in records \/ s \in Range(reconciled)
    BY <1>1, <1>5 DEF Fitting, ListingFits
  <2>2. StatesAsked = session.states
    BY <1>1, <1>5, SessionLists DEF StatesAsked, Paged, Fitting, Asking
  <2>3. PICK i \in records :
          /\ \A j \in records : i <= j
          /\ \/ /\ records' = records \ {i}
                /\ reconciled' = IF sandboxes[Names[i]] \in Alive \cap StatesAsked THEN Append(reconciled, Names[i])
                                 ELSE reconciled
                /\ phase' = phase
             \/ phase' = "called" /\ outcome' = Plain
    BY DEF ReconcileNext
  <2>4. CASE phase' = "called" /\ outcome' = Plain
    <3>1. outcome'.kind # "ok"
      BY <2>4 DEF Plain, Failure
    <3> QED BY <1>1, <1>2, <1>3, <2>4, <3>1 DEF Fitting, ListingFits, PageFits
  <2>5. CASE /\ records' = records \ {i} /\ phase' = phase
             /\ reconciled' = IF sandboxes[Names[i]] \in Alive \cap StatesAsked THEN Append(reconciled, Names[i])
                              ELSE reconciled
    <3> DEFINE t == Names[i]
    <3>1. t \in SandboxIDs /\ Place(t) = i
      BY <2>1, Places
    <3>2. \A s \in Range(reconciled) : Place(s) < Place(t)
      BY <2>1, <3>1
    <3>3. \A j \in records' : Place(t) < j
      <4>1. DOMAIN Names \subseteq Nat
        BY Places
      <4> QED BY <2>1, <2>3, <2>5, <3>1, <4>1
    <3>4. records' \subseteq DOMAIN Names
      BY <2>1, <2>5
    <3>5. \A s \in session.kept : s \in SandboxIDs /\ sandboxes[s] \in Alive \cap StatesAsked
      BY <1>5, <2>2 DEF Fitting, SeenFits
    <3>6. \A s \in session.kept : Place(s) \in records' \/ s = t \/ s \in Range(reconciled)
      <4>1. \A s \in session.kept : Place(s) = i => s = t
        BY <3>5, Places
      <4> QED BY <2>1, <2>5, <4>1
    <3> HIDE DEF t
    <3>7. CASE sandboxes[t] \in Alive \cap StatesAsked
      <4>1. /\ Append(reconciled, t) \in Seq(SandboxIDs) /\ Ascending(Append(reconciled, t))
            /\ Range(Append(reconciled, t)) = Range(reconciled) \cup {t}
        BY <2>1, <3>1, <3>2, AppendAscending
      <4>2. reconciled' = Append(reconciled, t)
        BY <2>5, <3>7 DEF t
      <4>3. /\ reconciled' \in Seq(SandboxIDs) /\ Ascending(reconciled')
            /\ Range(reconciled') = Range(reconciled) \cup {t}
        BY <4>1, <4>2
      <4>4. \A s \in Range(reconciled'), j \in records' : Place(s) < j
        BY <2>1, <2>5, <3>3, <4>3
      <4>5. \A s \in session.kept : Place(s) \in records' \/ s \in Range(reconciled')
        BY <3>6, <4>3
      <4>6. ListingFits'
        BY <1>1, <3>4, <4>3, <4>4, <4>5 DEF ListingFits
      <4> QED BY <1>1, <1>2, <1>3, <2>5, <4>6 DEF Fitting, PageFits
    <3>8. CASE sandboxes[t] \notin Alive \cap StatesAsked
      <4>1. reconciled' = reconciled
        BY <2>5, <3>8 DEF t
      <4>2. \A s \in session.kept : Place(s) \in records' \/ s \in Range(reconciled)
        BY <3>5, <3>6, <3>8
      <4>3. \A s \in Range(reconciled), j \in records' : Place(s) < j
        BY <2>1, <2>5
      <4>4. ListingFits'
        BY <1>1, <2>1, <3>4, <4>1, <4>2, <4>3 DEF ListingFits
      <4> QED BY <1>1, <1>2, <1>3, <2>5, <4>4 DEF Fitting, PageFits
    <3> QED BY <3>7, <3>8
  <2> QED BY <2>3, <2>4, <2>5
<1> QED BY <1>4, <1>5

\* The page that ends a listing goes on where those before it ended.
LEMMA ListEndsFits ==
  ASSUME InOrder, Addressed, Fitting, ListEnds
  PROVE  Fitting'
<1> DEFINE token == request.token
           p == Page(reconciled, token, request.limit)
           seen == session.seen
           shown == seen \o p.items
           cut == session.cut \/ (token # Empty /\ token \notin Range(reconciled))
<1>1. /\ sandboxes' = sandboxes /\ request' = request /\ phase = "listing" /\ phase' = "called" /\ records = {}
      /\ session' = [session EXCEPT !.cut = cut]
      /\ page' = Page(reconciled, TokenAsked, request.limit)
  BY DEF ListEnds
<1>2. /\ DOMAIN session' = {"on", "states", "limit", "token", "seen", "kept", "cut"}
      /\ session'.on = session.on /\ session'.states = session.states /\ session'.limit = session.limit
      /\ session'.token = session.token /\ session'.seen = session.seen /\ session'.kept = session.kept
      /\ session'.cut = cut
  BY <1>1 DEF Fitting
<1>3. CASE ~session.on
  BY <1>1, <1>2, <1>3, FitsWithoutSession DEF Fitting
<1>4. CASE session.on
  <2>1. page' = p /\ token = session.token /\ request.limit = session.limit
    BY <1>1, <1>4, SessionLists DEF TokenAsked, Paged, Fitting, Asking
  <2>2. /\ session.limit \in Nat \ {0} /\ seen \in Seq(SandboxIDs) /\ Ascending(seen)
        /\ session.kept \subseteq SandboxIDs
        /\ IF token = Empty THEN seen = <<>> ELSE ShownUpTo(seen, token, session)
    BY <1>4, <2>1 DEF Fitting, SeenFits
  <2>3. token \in SandboxIDs \cup {Empty}
    BY <2>2 DEF ShownUpTo
  <2>4. /\ reconciled \in Seq(SandboxIDs) /\ Ascending(reconciled)
        /\ session.kept \subseteq Range(reconciled)
    BY <1>1, <1>4 DEF Fitting, ListingFits
  <2>5. CutBehind(p, token, reconciled)
    <3>1. p = Page(reconciled, token, request.limit) /\ request.limit \in Nat \ {0}
      BY <2>1, <2>2
    <3> HIDE DEF token, p
    <3> QED BY <2>3, <2>4, <3>1, PageIsCutBehind
  <2> HIDE DEF token, p, seen, shown
  <2>6. /\ Range(seen) \subseteq SandboxIDs /\ Range(p.items) \subseteq SandboxIDs
        /\ Range(shown) = Range(seen) \cup Range(p.items) /\ shown \in Seq(SandboxIDs)
    BY <2>2, <2>5, RangeOfSeq, RangeConcatenation, ConcatProperties DEF shown, CutBehind
  <2>7. \A s \in SandboxIDs : Place(s) \in Nat
    BY Places
  \* Those seen are before the token, and those on the page behind it.
  <2>8. token = Empty => Range(seen) = {}
    BY <2>2 DEF Range
  <2>9. token # Empty => token \in SandboxIDs /\ \A s \in Range(seen) : Place(s) <= Place(token)
    BY <2>2 DEF ShownUpTo
  <2>10. \A s \in Range(seen), t \in Range(p.items) : Place(s) < Place(t)
    BY <2>5, <2>6, <2>7, <2>8, <2>9 DEF CutBehind
  <2>11. Ascending(shown)
    BY <2>2, <2>5, <2>10, JoinAscending DEF shown, CutBehind
  <2>12. token # Empty /\ ~session.cut =>
           \A s \in session.kept : Place(s) <= Place(token) => s \in Range(seen)
    BY <2>2 DEF ShownUpTo
  <2>13. p.next = Empty /\ ~cut => session.kept \subseteq Range(shown)
    BY <2>4, <2>5, <2>6, <2>12 DEF CutBehind
  <2>14. ASSUME p.next # Empty
         PROVE  /\ p.next \in SandboxIDs
                /\ \A s \in Range(shown) : Place(s) <= Place(p.next)
                /\ ~cut => \A s \in session.kept : Place(s) <= Place(p.next) => s \in Range(shown)
    <3>1. \A s \in Range(seen) : Place(s) <= Place(p.next)
      BY <2>5, <2>6, <2>7, <2>8, <2>9, <2>14 DEF CutBehind
    <3>2. ~cut => \A s \in session.kept : Place(s) <= Place(p.next) => s \in Range(shown)
      BY <2>4, <2>5, <2>6, <2>12, <2>14 DEF CutBehind
    <3> QED BY <2>5, <2>6, <2>14, <3>1, <3>2 DEF CutBehind
  <2>15. Continues(p, session')
    <3>1. session'.seen \o p.items = shown
      BY <1>2 DEF shown, seen
    <3>2. p.next # Empty => ShownUpTo(shown, p.next, session')
      BY <1>2, <2>14 DEF ShownUpTo
    <3> QED BY <1>2, <2>5, <2>11, <2>13, <3>1, <3>2 DEF Continues, CutBehind
  <2>16. PageFits'
    BY <2>1, <2>15 DEF PageFits
  <2>17. SeenFits'
    <3>1. token # Empty => ShownUpTo(seen, token, session')
      BY <1>2, <2>2 DEF ShownUpTo
    <3>2. \A s \in session.kept : sandboxes[s] \in session.states
      BY <1>4 DEF Fitting, SeenFits
    <3>3. session.states \subseteq Alive
      BY <1>4 DEF Fitting, SeenFits
    <3>4. session'.seen = seen /\ session'.token = token
      BY <1>2, <2>1 DEF seen
    <3> QED BY <1>1, <1>2, <2>2, <3>1, <3>2, <3>3, <3>4 DEF SeenFits
  <2>18. Asking' /\ ListingFits'
    BY <1>1, <1>2 DEF Fitting, Asking, ListingFits
  <2> QED BY <1>1, <1>2, <2>16, <2>17, <2>18 DEF Fitting
<1> QED BY <1>3, <1>4

\* The answer 200 is that page.
LEMMA RespondFits ==
  ASSUME InOrder, Addressed, Fitting, AnswerIsTrue', Respond
  PROVE  Fitting'
<1>1. /\ session' = session /\ sandboxes' = sandboxes /\ request' = request /\ page' = page /\ outcome' = outcome
      /\ phase = "called" /\ phase' = "answered"
  BY DEF Respond, Answered, exchange
<1>2. SeenFits'
  BY <1>1, SeenKept DEF Fitting
<1>3. session.on /\ status' = 200 => outcome.kind = "ok"
  <2>1. session.on => request'.method # "OPTIONS"
    BY <1>1, SessionLists DEF Fitting
  <2> QED BY <1>1, <2>1 DEF AnswerIsTrue
<1>4. PageFits'
  BY <1>1, <1>3 DEF Fitting, PageFits, ShownUpTo
<1> QED BY <1>1, <1>2, <1>4 DEF Fitting, Asking, ListingFits

\* The client goes on with what it has been shown, and the token of the page.
LEMMA ReceiveFits ==
  ASSUME Fitting, Receive
  PROVE  Fitting'
<1>1. phase = "answered" /\ phase' = "idle" /\ sandboxes' = sandboxes
  BY DEF Receive
<1>2. CASE ~session.on
  <2>1. session' = session
    BY <1>2 DEF Receive
  <2> QED BY <1>1, <1>2, <2>1, FitsWithoutSession DEF Fitting
<1>3. CASE session.on /\ ~(status = 200 /\ page.next # Empty)
  <2>1. session' = NoSession
    BY <1>3 DEF Receive
  <2>2. ~session'.on /\ DOMAIN session' = {"on", "states", "limit", "token", "seen", "kept", "cut"}
    BY <2>1 DEF NoSession
  <2> QED BY <1>1, <2>2, FitsWithoutSession DEF Fitting
<1>4. CASE session.on /\ status = 200 /\ page.next # Empty
  <2> DEFINE shown == session.seen \o page.items
  <2>1. session' = [session EXCEPT !.seen = shown, !.token = page.next]
    BY <1>4 DEF Receive
  <2>2. page.items \in Seq(SandboxIDs) /\ Ascending(shown) /\ ShownUpTo(shown, page.next, session)
    BY <1>1, <1>4 DEF Fitting, PageFits, Continues
  <2>3. shown \in Seq(SandboxIDs)
    BY <1>4, <2>2, ConcatProperties DEF Fitting, SeenFits
  <2> HIDE DEF shown
  <2>4. /\ session'.seen = shown /\ session'.token = page.next
        /\ DOMAIN session' = {"on", "states", "limit", "token", "seen", "kept", "cut"}
        /\ session'.on = session.on /\ session'.states = session.states /\ session'.limit = session.limit
        /\ session'.kept = session.kept /\ session'.cut = session.cut
    BY <2>1 DEF Fitting
  <2>5. SeenFits'
    BY <1>1, <1>4, <2>2, <2>3, <2>4 DEF Fitting, SeenFits, ShownUpTo
  <2> QED BY <1>1, <2>4, <2>5 DEF Fitting, Asking, ListingFits, PageFits
<1> QED BY <1>2, <1>3, <1>4

\* A sandbox that leaves the states asked for is kept no longer.
LEMMA OthersFit ==
  ASSUME Fitting, Others
  PROVE  Fitting'
<1>1. PICK s \in SandboxIDs, move \in Moves :
        /\ sandboxes' = [sandboxes EXCEPT ![s] = move[2]]
        /\ session' = [session EXCEPT !.kept = IF move[2] \in session.states THEN @ ELSE @ \ {s}]
  BY DEF Others
<1> DEFINE kept == IF move[2] \in session.states THEN session.kept ELSE session.kept \ {s}
<1>2. /\ phase' = phase /\ request' = request /\ records' = records /\ reconciled' = reconciled
      /\ page' = page /\ phase \in {"idle", "listing", "decoded"}
  BY DEF Others, exchange
<1>3. /\ DOMAIN session' = {"on", "states", "limit", "token", "seen", "kept", "cut"}
      /\ session'.on = session.on /\ session'.states = session.states /\ session'.limit = session.limit
      /\ session'.token = session.token /\ session'.seen = session.seen /\ session'.kept = kept
      /\ session'.cut = session.cut
  BY <1>1 DEF Fitting
<1>4. /\ DOMAIN sandboxes' = SandboxIDs
      /\ sandboxes'[s] = move[2] /\ \A t \in SandboxIDs \ {s} : sandboxes'[t] = sandboxes[t]
  BY <1>1 DEF Fitting
<1>5. kept \subseteq session.kept /\ (move[2] \notin session.states => s \notin kept)
  OBVIOUS
<1> HIDE DEF kept
<1>6. CASE ~session.on
  BY <1>3, <1>4, <1>6, FitsWithoutSession
<1>7. CASE session.on
  <2>1. \A t \in kept : sandboxes'[t] \in session.states
    BY <1>4, <1>5, <1>7 DEF Fitting, SeenFits
  <2>2. SeenFits'
    BY <1>3, <1>5, <1>7, <2>1 DEF Fitting, SeenFits, ShownUpTo
  <2>3. ListingFits'
    BY <1>2, <1>3, <1>5 DEF Fitting, ListingFits
  <2> QED BY <1>2, <1>3, <1>4, <2>2, <2>3 DEF Fitting, Asking, PageFits
<1> QED BY <1>6, <1>7

LEMMA FittingStutters ==
  ASSUME Fitting, UNCHANGED vars
  PROVE  Fitting'
BY DEF vars, exchange, Fitting, SeenFits, ShownUpTo, Asking, ListingFits, PageFits

\* The pages of a session show no sandbox twice and, unless the listing was cut off, every
\* one that was listed all the time.
THEOREM PagesShowEachOnceHolds == Spec => []PagesShowEachOnce
<1>1. Init => Fitting
  <2>1. SUFFICES ASSUME Init PROVE Fitting
    OBVIOUS
  <2>2. DOMAIN session = {"on", "states", "limit", "token", "seen", "kept", "cut"} /\ ~session.on
    BY <2>1 DEF Init, NoSession
  <2>3. DOMAIN sandboxes = SandboxIDs
    BY <2>1 DEF Init
  <2> QED BY <2>2, <2>3 DEF Fitting, SeenFits, Asking, ListingFits, PageFits
<1>2. ASSUME Truthful, Truthful', Addressed, Fitting, [Next]_vars PROVE Fitting'
  <2>1. InOrder /\ Passed /\ AnswerIsTrue'
    BY <1>2 DEF Truthful
  <2>2. CASE Send
    <3>1. ~session'.on /\ DOMAIN session' = {"on", "states", "limit", "token", "seen", "kept", "cut"}
            /\ DOMAIN sandboxes' = SandboxIDs
      BY <1>2, <2>2 DEF Send, Sent, Fitting
    <3> QED BY <3>1, FitsWithoutSession
  <2> QED BY <1>2, <2>1, <2>2, BeginFits, AskFits, LayersFit, CallsFit, ListBeginsFits, ReconcileFits, ListEndsFits,
             RespondFits, ReceiveFits, OthersFit, FittingStutters DEF Next
<1>3. Fitting => PagesShowEachOnce
  <2>1. SUFFICES ASSUME Fitting, phase = "answered", session.on, status = 200
                 PROVE  LET shown == session.seen \o page.items
                        IN  /\ IsInjective(shown)
                            /\ page.next = Empty /\ ~session.cut => session.kept \subseteq Range(shown)
    BY DEF PagesShowEachOnce
  <2>2. Continues(page, session) /\ session.seen \in Seq(SandboxIDs)
    BY <2>1 DEF Fitting, PageFits, SeenFits
  <2>3. session.seen \o page.items \in Seq(SandboxIDs)
    BY <2>2, ConcatProperties DEF Continues
  <2> QED BY <2>2, <2>3, AscendingIsInjective DEF Continues
<1> QED BY <1>1, <1>2, <1>3, TruthfulHolds, AddressedHolds, PTL DEF Spec
===============================================================================
