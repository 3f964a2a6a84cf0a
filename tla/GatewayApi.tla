------------------------------ MODULE GatewayApi ------------------------------
(***************************************************************************)
(* The gateway's HTTP interface as data: which paths are registered, which *)
(* parameters the wrapper of an operation binds and in which order, which  *)
(* of them can be refused, whether the handler reads a body, which status  *)
(* it answers with and which one an error gets that carries none.  Nothing *)
(* here changes state: GatewayClient runs requests through these tables.   *)
(*                                                                         *)
(* An operation has its Go name.  A path is a tuple of segments; Id is a   *)
(* parameter segment.  The wrappers and the routes are generated code, the *)
(* handlers and the four layers they share are not.                        *)
(***************************************************************************)
EXTENDS Naturals, Sequences, TLC

Id == ":id"

\* A segment, an identifier or a token that is not given.
Empty == ""

(***************************************************************************)
(* Parameters.  `in' and `type' decide what can be wrong with a value: a   *)
(* path parameter may be empty, a query parameter given twice, a required  *)
(* one missing, and a number or a UUID may not parse.  Enumerations are    *)
(* bound as plain strings.                                                 *)
(***************************************************************************)
PathText   == [in |-> "path",  type |-> "text",   required |-> TRUE]
PathUUID   == [in |-> "path",  type |-> "uuid",   required |-> TRUE]
Text       == [in |-> "query", type |-> "text",   required |-> FALSE]
Number     == [in |-> "query", type |-> "number", required |-> FALSE]
UUID       == [in |-> "query", type |-> "uuid",   required |-> FALSE]
NeededText == [in |-> "query", type |-> "text",   required |-> TRUE]

Defects(p) ==
  (IF p.in = "path" THEN {"empty"} ELSE {"repeated"})
    \cup (IF p.in = "query" /\ p.required THEN {"missing"} ELSE {})
    \cup (IF p.type # "text" THEN {"malformed"} ELSE {})

(***************************************************************************)
(* The routes: the generated ones and those the gateway adds itself.       *)
(***************************************************************************)
Generated ==
  {<<"PostAccessTokens",                          <<"POST", <<"access-tokens">>>>>>,
   <<"DeleteAccessTokensAccessTokenID",           <<"DELETE", <<"access-tokens", Id>>>>>>,
   <<"PostAdminTeamsTeamIDBuildsCancel",          <<"POST", <<"admin", "teams", Id, "builds", "cancel">>>>>>,
   <<"PostAdminTeamsTeamIDSandboxesKill",         <<"POST", <<"admin", "teams", Id, "sandboxes", "kill">>>>>>,
   <<"GetApiKeys",                                <<"GET", <<"api-keys">>>>>>,
   <<"PostApiKeys",                               <<"POST", <<"api-keys">>>>>>,
   <<"DeleteApiKeysApiKeyID",                     <<"DELETE", <<"api-keys", Id>>>>>>,
   <<"PatchApiKeysApiKeyID",                      <<"PATCH", <<"api-keys", Id>>>>>>,
   <<"GetHealth",                                 <<"GET", <<"health">>>>>>,
   <<"GetNodes",                                  <<"GET", <<"nodes">>>>>>,
   <<"GetNodesNodeID",                            <<"GET", <<"nodes", Id>>>>>>,
   <<"PostNodesNodeID",                           <<"POST", <<"nodes", Id>>>>>>,
   <<"GetSandboxes",                              <<"GET", <<"sandboxes">>>>>>,
   <<"PostSandboxes",                             <<"POST", <<"sandboxes">>>>>>,
   <<"GetSandboxesMetrics",                       <<"GET", <<"sandboxes", "metrics">>>>>>,
   <<"DeleteSandboxesSandboxID",                  <<"DELETE", <<"sandboxes", Id>>>>>>,
   <<"GetSandboxesSandboxID",                     <<"GET", <<"sandboxes", Id>>>>>>,
   <<"PostSandboxesSandboxIDConnect",             <<"POST", <<"sandboxes", Id, "connect">>>>>>,
   <<"GetSandboxesSandboxIDLogs",                 <<"GET", <<"sandboxes", Id, "logs">>>>>>,
   <<"GetSandboxesSandboxIDMetrics",              <<"GET", <<"sandboxes", Id, "metrics">>>>>>,
   <<"PutSandboxesSandboxIDNetwork",              <<"PUT", <<"sandboxes", Id, "network">>>>>>,
   <<"PostSandboxesSandboxIDPause",               <<"POST", <<"sandboxes", Id, "pause">>>>>>,
   <<"PostSandboxesSandboxIDRefreshes",           <<"POST", <<"sandboxes", Id, "refreshes">>>>>>,
   <<"PostSandboxesSandboxIDResume",              <<"POST", <<"sandboxes", Id, "resume">>>>>>,
   <<"PostSandboxesSandboxIDSnapshots",           <<"POST", <<"sandboxes", Id, "snapshots">>>>>>,
   <<"PostSandboxesSandboxIDTimeout",             <<"POST", <<"sandboxes", Id, "timeout">>>>>>,
   <<"GetSnapshots",                              <<"GET", <<"snapshots">>>>>>,
   <<"GetTeams",                                  <<"GET", <<"teams">>>>>>,
   <<"GetTeamsTeamIDMetrics",                     <<"GET", <<"teams", Id, "metrics">>>>>>,
   <<"GetTeamsTeamIDMetricsMax",                  <<"GET", <<"teams", Id, "metrics", "max">>>>>>,
   <<"GetTemplates",                              <<"GET", <<"templates">>>>>>,
   <<"PostTemplates",                             <<"POST", <<"templates">>>>>>,
   <<"GetTemplatesAliasesAlias",                  <<"GET", <<"templates", "aliases", Id>>>>>>,
   <<"DeleteTemplatesTags",                       <<"DELETE", <<"templates", "tags">>>>>>,
   <<"PostTemplatesTags",                         <<"POST", <<"templates", "tags">>>>>>,
   <<"DeleteTemplatesTemplateID",                 <<"DELETE", <<"templates", Id>>>>>>,
   <<"GetTemplatesTemplateID",                    <<"GET", <<"templates", Id>>>>>>,
   <<"PatchTemplatesTemplateID",                  <<"PATCH", <<"templates", Id>>>>>>,
   <<"PostTemplatesTemplateID",                   <<"POST", <<"templates", Id>>>>>>,
   <<"PostTemplatesTemplateIDBuildsBuildID",      <<"POST", <<"templates", Id, "builds", Id>>>>>>,
   <<"GetTemplatesTemplateIDBuildsBuildIDLogs",   <<"GET", <<"templates", Id, "builds", Id, "logs">>>>>>,
   <<"GetTemplatesTemplateIDBuildsBuildIDStatus", <<"GET", <<"templates", Id, "builds", Id, "status">>>>>>,
   <<"GetTemplatesTemplateIDFilesHash",           <<"GET", <<"templates", Id, "files", Id>>>>>>,
   <<"GetTemplatesTemplateIDTags",                <<"GET", <<"templates", Id, "tags">>>>>>,
   <<"GetV2Sandboxes",                            <<"GET", <<"v2", "sandboxes">>>>>>,
   <<"GetV2SandboxesSandboxIDLogs",               <<"GET", <<"v2", "sandboxes", Id, "logs">>>>>>,
   <<"PostV2Templates",                           <<"POST", <<"v2", "templates">>>>>>,
   <<"PatchV2TemplatesTemplateID",                <<"PATCH", <<"v2", "templates", Id>>>>>>,
   <<"PostV2TemplatesTemplateIDBuildsBuildID",    <<"POST", <<"v2", "templates", Id, "builds", Id>>>>>>,
   <<"PostV3Templates",                           <<"POST", <<"v3", "templates">>>>>>,
   <<"GetVolumes",                                <<"GET", <<"volumes">>>>>>,
   <<"PostVolumes",                               <<"POST", <<"volumes">>>>>>,
   <<"DeleteVolumesVolumeID",                     <<"DELETE", <<"volumes", Id>>>>>>,
   <<"GetVolumesVolumeID",                        <<"GET", <<"volumes", Id>>>>>>}

Added ==
  {<<"handleHealth",               <<"GET", <<"healthz">>>>>>,
   <<"GetV2Templates",             <<"GET", <<"v2", "templates">>>>>>,
   <<"handleGetSandboxPort",       <<"GET", <<"sandboxes", Id, "ports", Id>>>>>>,
   <<"handleVolumeContentPathGet", <<"GET", <<"volumecontent", Id, "path">>>>>>,
   <<"handleVolumeContentFileGet", <<"GET", <<"volumecontent", Id, "file">>>>>>,
   <<"handleVolumeContentFilePut", <<"PUT", <<"volumecontent", Id, "file">>>>>>,
   <<"handleVolumeContentDirGet",  <<"GET", <<"volumecontent", Id, "dir">>>>>>,
   <<"handleVolumeContentDirPost", <<"POST", <<"volumecontent", Id, "dir">>>>>>,
   <<"handleTemplateFileUpload",   <<"PUT", <<"_e2b", "template-files", Id, Id>>>>>>}

\* What a table of rows gives for each of its keys.
Table(rows) == [key \in {row[1] : row \in rows} |-> (CHOOSE row \in rows : row[1] = key)[2]]

Routes == Table(Generated \cup Added)
Operations == DOMAIN Routes

(***************************************************************************)
(* What the generated wrappers bind, in their order.  The wrappers of the  *)
(* gateway's own routes do not exist: their handlers read what they need.  *)
(***************************************************************************)
AccountParams ==
  "PostAccessTokens"                  :> <<>> @@
  "DeleteAccessTokensAccessTokenID"   :> <<PathText>> @@
  "PostAdminTeamsTeamIDBuildsCancel"  :> <<PathUUID>> @@
  "PostAdminTeamsTeamIDSandboxesKill" :> <<PathUUID>>

KeyParams ==
  [op \in {"GetApiKeys", "PostApiKeys"} |-> <<>>] @@
  [op \in {"DeleteApiKeysApiKeyID", "PatchApiKeysApiKeyID"} |-> <<PathText>>]

NodeParams ==
  [op \in {"GetHealth", "GetNodes"} |-> <<>>] @@
  "GetNodesNodeID"  :> <<PathText, UUID>> @@
  "PostNodesNodeID" :> <<PathText>>

SandboxesParams ==
  "GetSandboxes"             :> <<Text>> @@
  "PostSandboxes"            :> <<>> @@
  "GetSandboxesMetrics"      :> <<NeededText>> @@
  "DeleteSandboxesSandboxID" :> <<PathText>>

SandboxParams ==
  [op \in {"GetSandboxesSandboxID", "PostSandboxesSandboxIDConnect"} |-> <<PathText>>] @@
  [op \in {"GetSandboxesSandboxIDLogs", "GetSandboxesSandboxIDMetrics"} |-> <<PathText, Number, Number>>]

SandboxStepParams ==
  [op \in {"PutSandboxesSandboxIDNetwork", "PostSandboxesSandboxIDPause", "PostSandboxesSandboxIDRefreshes",
           "PostSandboxesSandboxIDResume", "PostSandboxesSandboxIDSnapshots",
           "PostSandboxesSandboxIDTimeout"} |-> <<PathText>>]

SnapshotAndTeamParams ==
  "GetSnapshots"             :> <<Text, Number, Text>> @@
  "GetTeams"                 :> <<>> @@
  "GetTeamsTeamIDMetrics"    :> <<PathText, Number, Number>> @@
  "GetTeamsTeamIDMetricsMax" :> <<PathText, Number, Number, NeededText>>

TemplatesParams ==
  "GetTemplates" :> <<Text>> @@
  [op \in {"PostTemplates", "DeleteTemplatesTags", "PostTemplatesTags"} |-> <<>>] @@
  [op \in {"GetTemplatesAliasesAlias", "DeleteTemplatesTemplateID"} |-> <<PathText>>]

TemplateParams ==
  "GetTemplatesTemplateID" :> <<PathText, Text, Number>> @@
  [op \in {"PatchTemplatesTemplateID", "PostTemplatesTemplateID"} |-> <<PathText>>]

BuildParams ==
  "PostTemplatesTemplateIDBuildsBuildID"      :> <<PathText, PathText>> @@
  "GetTemplatesTemplateIDBuildsBuildIDLogs"   :> <<PathText, PathText, Number, Number, Text, Text, Text>> @@
  "GetTemplatesTemplateIDBuildsBuildIDStatus" :> <<PathText, PathText, Number, Number, Text>>

TemplateFileParams ==
  "GetTemplatesTemplateIDFilesHash" :> <<PathText, PathText>> @@
  "GetTemplatesTemplateIDTags"      :> <<PathText>>

V2SandboxParams ==
  "GetV2Sandboxes"              :> <<Text, Text, Text, Number>> @@
  "GetV2SandboxesSandboxIDLogs" :> <<PathText, Number, Number, Text, Text, Text>>

V2TemplateParams ==
  [op \in {"PostV2Templates", "PostV3Templates"} |-> <<>>] @@
  "PatchV2TemplatesTemplateID"             :> <<PathText>> @@
  "PostV2TemplatesTemplateIDBuildsBuildID" :> <<PathText, PathText>>

VolumeParams ==
  [op \in {"GetVolumes", "PostVolumes"} |-> <<>>] @@
  [op \in {"DeleteVolumesVolumeID", "GetVolumesVolumeID"} |-> <<PathText>>]

Params ==
  AccountParams @@ KeyParams @@ NodeParams @@ SandboxesParams @@ SandboxParams @@ SandboxStepParams
    @@ SnapshotAndTeamParams @@ TemplatesParams @@ TemplateParams @@ BuildParams @@ TemplateFileParams
    @@ V2SandboxParams @@ V2TemplateParams @@ VolumeParams @@ [op \in {row[1] : row \in Added} |-> <<>>]

(***************************************************************************)
(* The handlers: whether the body is read, the callback, the status of a   *)
(* success and the status of an error that is not a GatewayError.  checks: *)
(* the handler itself refuses some values (a limit, a filter, a missing    *)
(* timeout) before it calls.  still: the errors it may still answer once   *)
(* the callback has succeeded.                                             *)
(***************************************************************************)
HandlerElseNotFound(body, calls, ok) ==  \* mutation: every fallback is that of the getters
  [body |-> body, calls |-> calls, checks |-> FALSE, ok |-> ok, otherwise |-> 404, still |-> {}]

Handler(body, calls, ok) ==
  [body |-> body, calls |-> calls, checks |-> FALSE, ok |-> ok, otherwise |-> 500, still |-> {}]
Checking(handler) == [handler EXCEPT !.checks = TRUE]
ElseNotFound(handler) == [handler EXCEPT !.otherwise = 404]
Still(handler, codes) == [handler EXCEPT !.still = codes]

NodeHandlers ==
  {<<"GetHealth",       Handler("none", "Health", 200)>>,
   <<"GetNodes",        Handler("none", "ListNodes", 200)>>,
   <<"GetNodesNodeID",  Handler("none", "GetNode", 200)>>,
   <<"PostNodesNodeID", Handler("optional", "SetNodeStatus", 204)>>}

SandboxesHandlers ==
  {<<"PostSandboxes",       Handler("needed", "CreateSandbox", 201)>>,
   <<"GetSandboxes",        Checking(Handler("none", "ListSandboxes", 200))>>,
   <<"GetV2Sandboxes",      Checking(Handler("none", "ListSandboxes", 200))>>,
   <<"GetSandboxesMetrics", Handler("none", "ListSandboxMetrics", 200)>>}

SandboxHandlers ==
  {<<"GetSandboxesSandboxID",           ElseNotFound(Handler("none", "GetSandbox", 200))>>,
   <<"GetSandboxesSandboxIDMetrics",    Handler("none", "GetSandboxMetrics", 200)>>,
   <<"DeleteSandboxesSandboxID",        Handler("none", "KillSandbox", 204)>>,
   <<"PostSandboxesSandboxIDPause",     Handler("none", "PauseSandbox", 204)>>,
   <<"PostSandboxesSandboxIDResume",    Handler("optional", "ResumeSandbox", 201)>>,
   <<"PostSandboxesSandboxIDConnect",   Checking(Handler("needed", "ConnectSandbox", 200))>>,
   <<"PostSandboxesSandboxIDTimeout",   Handler("needed", "SetSandboxTimeout", 204)>>,
   <<"PostSandboxesSandboxIDRefreshes", Handler("optional", "RefreshSandbox", 204)>>,
   <<"PostSandboxesSandboxIDSnapshots", Handler("needed", "CreateSandboxSnapshot", 201)>>}

SnapshotAndLogHandlers ==
  {<<"GetSnapshots",                Checking(Handler("none", "ListSnapshots", 200))>>,
   <<"GetSandboxesSandboxIDLogs",   Handler("none", "GetSandboxLogs", 200)>>,
   <<"GetV2SandboxesSandboxIDLogs", Handler("none", "GetSandboxLogsV2", 200)>>}

TemplateHandlers ==
  {<<"GetTemplates",               Handler("none", "ListTemplates", 200)>>,
   <<"GetTemplatesTemplateID",     Handler("none", "GetTemplate", 200)>>,
   <<"GetTemplatesAliasesAlias",   Handler("none", "GetTemplateAlias", 200)>>,
   <<"PostTemplates",              Handler("needed", "CreateTemplate", 202)>>,
   <<"PostV2Templates",            Handler("needed", "CreateTemplateV2", 202)>>,
   <<"PostV3Templates",            Handler("needed", "CreateTemplateV3", 202)>>,
   <<"DeleteTemplatesTemplateID",  Handler("none", "DeleteTemplate", 204)>>,
   <<"PatchTemplatesTemplateID",   Handler("needed", "UpdateTemplate", 200)>>,
   <<"PatchV2TemplatesTemplateID", Handler("needed", "UpdateTemplateV2", 200)>>,
   <<"PostTemplatesTemplateID",    Handler("needed", "RebuildTemplate", 202)>>}

BuildHandlers ==
  {<<"PostTemplatesTemplateIDBuildsBuildID",      Handler("none", "StartTemplateBuild", 202)>>,
   <<"PostV2TemplatesTemplateIDBuildsBuildID",    Handler("needed", "StartTemplateBuildV2", 202)>>,
   <<"GetTemplatesTemplateIDBuildsBuildIDStatus", Handler("none", "GetTemplateBuildInfo", 200)>>,
   <<"GetTemplatesTemplateIDBuildsBuildIDLogs",   Handler("none", "GetTemplateBuildLogs", 200)>>,
   <<"GetTemplatesTemplateIDFilesHash",           Handler("none", "GetTemplateFileUpload", 201)>>,
   <<"PostTemplatesTags",                         Handler("needed", "AssignTemplateTags", 201)>>,
   <<"DeleteTemplatesTags",                       Handler("needed", "DeleteTemplateTags", 204)>>,
   <<"GetTemplatesTemplateIDTags",                Handler("none", "ListTemplateTags", 200)>>}

TeamAndVolumeHandlers ==
  {<<"GetTeams",                          Handler("none", "ListTeams", 200)>>,
   <<"GetTeamsTeamIDMetrics",             Handler("none", "GetTeamMetrics", 200)>>,
   <<"GetTeamsTeamIDMetricsMax",          Handler("none", "GetTeamMetricMax", 200)>>,
   <<"PostAdminTeamsTeamIDSandboxesKill", Handler("none", "KillTeamSandboxes", 200)>>,
   <<"PostAdminTeamsTeamIDBuildsCancel",  Handler("none", "CancelTeamBuilds", 200)>>,
   <<"GetVolumes",                        Handler("none", "ListVolumes", 200)>>,
   <<"PostVolumes",                       Handler("needed", "CreateVolume", 201)>>,
   <<"GetVolumesVolumeID",                ElseNotFound(Handler("none", "GetVolume", 200))>>,
   <<"DeleteVolumesVolumeID",             Handler("none", "DeleteVolume", 204)>>}

\* A download is copied after ReadVolumeFile has opened it: a copy that fails
\* is answered with 500, or cuts a 200 short once part of it is out.
VolumeContentHandlers ==
  {<<"handleVolumeContentPathGet", Handler("none", "GetVolumePathInfo", 200)>>,
   <<"handleVolumeContentFileGet", Still(Handler("none", "ReadVolumeFile", 200), {500})>>,
   <<"handleVolumeContentFilePut", Checking(Handler("streamed", "WriteVolumeFile", 200))>>,
   <<"handleVolumeContentDirGet",  Checking(Handler("none", "ListVolumeDir", 200))>>,
   <<"handleVolumeContentDirPost", Checking(Handler("none", "CreateVolumeDir", 200))>>}

\* The port of a sandbox that was found may not be published, and the host to
\* reach it by may not be known.
AddedHandlers ==
  {<<"handleHealth",             Handler("none", "nothing", 200)>>,
   <<"GetV2Templates",           Handler("none", "ListTemplates", 200)>>,
   <<"handleGetSandboxPort",     Still(Checking(ElseNotFound(Handler("none", "GetSandbox", 200))), {404, 500})>>,
   <<"handleTemplateFileUpload", Checking(Handler("streamed", "StoreTemplateFileUploadReader", 200))>>}

Handlers ==
  Table(UNION {NodeHandlers, SandboxesHandlers, SandboxHandlers, SnapshotAndLogHandlers, TemplateHandlers,
               BuildHandlers, TeamAndVolumeHandlers, VolumeContentHandlers, AddedHandlers})

\* The operations App does not define: the embedded type's method answers 501.
Unimplemented == Operations \ DOMAIN Handlers

(***************************************************************************)
(* The router.  A parameter matches any one segment, the empty one too     *)
(* unless it is the last; where two routes match, the first segment in     *)
(* which they differ decides, and a literal there beats a parameter.       *)
(***************************************************************************)
Matches(op, method, path) ==
  LET route == Routes[op]
  IN  /\ route[1] = method
      /\ Len(route[2]) = Len(path)
      /\ path[Len(path)] # Empty
      /\ \A i \in 1..Len(path) : route[2][i] \in {Id, path[i]}

ParameterBeats(op, other) ==  \* mutation: the parameter is looked at first
  LET p == Routes[op][2]
      q == Routes[other][2]
  IN  \E i \in 1..Len(p) : /\ p[i] = Id /\ q[i] # Id
                           /\ \A j \in 1..(i - 1) : (p[j] = Id) = (q[j] = Id)

Beats(op, other) ==
  LET p == Routes[op][2]
      q == Routes[other][2]
  IN  \E i \in 1..Len(p) : /\ p[i] # Id /\ q[i] = Id
                           /\ \A j \in 1..(i - 1) : (p[j] = Id) = (q[j] = Id)

Chosen(method, path) ==
  {op \in Operations : /\ Matches(op, method, path)
                       /\ ~\E other \in Operations : Matches(other, method, path) /\ Beats(other, op)}

BodyRefusedIfNeeded(body, sent) ==  \* mutation: an optional body is never refused
  body = "needed" /\ sent # "good"

\* bindJSON wants a JSON value of at most a mebibyte; bindOptionalJSON also
\* takes no body, announced or found empty when read.
BodyRefused(body, sent) ==
  \/ body = "needed" /\ sent # "good"
  \/ body = "optional" /\ sent \in {"malformed", "tooLarge"}

(***************************************************************************)
(* The status of an error.  A GatewayError brings its own; an error of the *)
(* engine is read by kind where a volume is concerned, an upload that was  *)
(* not stored for its token is refused, and everything else gets what the  *)
(* handler falls back to.                                                  *)
(***************************************************************************)
OfVolume(op) == op \in {row[1] : row \in VolumeContentHandlers}

StatusOf(op, error) ==
  CASE error.kind \in {"gateway", "refused"} -> error.status
    [] error.kind = "engine" /\ OfVolume(op) -> error.status
    [] OTHER -> Handlers[op].otherwise
=============================================================================
