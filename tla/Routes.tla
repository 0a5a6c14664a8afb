------------------------------- MODULE Routes -------------------------------
(***************************************************************************)
(* Which handler a request reaches (backend/internal/router/router.go) and *)
(* which role it needs (RequiredRole in backend/internal/handlers/rbac.go).*)
(* The two are switches over the path, written apart from each other, and  *)
(* in both the first case that fits decides.                               *)
(*                                                                         *)
(* A path is the sequence of its segments after /api/v1; a number is the   *)
(* segment "id".  In the shapes of the tables "*" is any one segment and   *)
(* "..." is the rest of the path, which must not be empty unless something *)
(* follows it.                                                             *)
(***************************************************************************)
EXTENDS Integers, Sequences

Methods == {"GET", "POST", "PUT", "PATCH", "DELETE", "OPTIONS"}

SegmentFits(shape, segment) == shape = "*" \/ shape = segment

Dots(shape) == {i \in DOMAIN shape : shape[i] = "..."}

Fits(shape, path) ==
    IF Dots(shape) = {}
    THEN Len(shape) = Len(path) /\ \A i \in DOMAIN path : SegmentFits(shape[i], path[i])
    ELSE LET k == CHOOSE i \in Dots(shape) : TRUE
             after == Len(shape) - k
         IN /\ Len(path) >= k - 1 + (IF after = 0 THEN 1 ELSE after)
            /\ \A i \in 1 .. k - 1 : SegmentFits(shape[i], path[i])
            /\ \A i \in 1 .. after : SegmentFits(shape[k + i], path[Len(path) - after + i])

\* Mutant: the prefixes are tried before the longer paths they are part of.
LastRow(table, path) ==
    LET rows == {i \in DOMAIN table : Fits(table[i][1], path)}
    IN IF rows = {} THEN 0 ELSE CHOOSE i \in rows : \A j \in rows : i >= j

\* The first row of a table that fits, or 0.
FirstRow(table, path) ==
    LET rows == {i \in DOMAIN table : Fits(table[i][1], path)}
    IN IF rows = {} THEN 0 ELSE CHOOSE i \in rows : \A j \in rows : i <= j
----------------------------------------------------------------------------
\* The switch of ServeHTTP.  A row without methods stands for a case whose
\* prefix fits and whose inside does not.
MessageRoutes == <<
    << <<"dashboard">>, {<<"GET", "GetDashboard">>} >>,
    << <<"dashboard", "stream">>, {<<"GET", "StreamDashboard">>} >>,
    << <<"ws">>, {<<"GET", "ServeWS">>} >>,
    << <<"conversations">>, {<<"GET", "ListConversations">>} >>,
    << <<"conversations", "summarize">>, {<<"POST", "SummarizeConversation">>} >>,
    << <<"conversations", "id", "messages">>, {<<"GET", "GetConversationMessages">>} >>,
    << <<"conversations", "...">>, {} >>,
    << <<"messages", "reply">>, {<<"POST", "ReplyMessage">>} >>,
    << <<"messages", "forward">>, {<<"POST", "ForwardMessage">>} >>,
    << <<"messages", "analyze">>, {<<"POST", "AnalyzeMessage">>} >>,
    << <<"messages", "batch-analyze">>, {<<"POST", "BatchAnalyze">>} >>,
    << <<"important-messages">>, {<<"GET", "ListImportantMessages">>} >>,
    << <<"action-items">>, {<<"GET", "ListActionItems">>, <<"POST", "CreateActionItem">>} >>,
    << <<"action-items", "id", "comments">>,
       {<<"GET", "ListActionItemComments">>, <<"POST", "CreateActionItemComment">>} >>,
    << <<"action-items", "id">>, {<<"PATCH", "UpdateActionItem">>, <<"DELETE", "DeleteActionItem">>} >>,
    << <<"action-items", "...">>, {} >>,
    << <<"daily-summary">>, {<<"GET", "GetDailySummary">>} >> >>

LLMRoutes == <<
    << <<"llm", "providers">>, {<<"POST", "CreateProvider">>, <<"GET", "ListProviders">>} >>,
    << <<"llm", "providers", "comparison">>, {<<"GET", "GetProviderComparison">>} >>,
    << <<"llm", "providers", "id", "test">>, {<<"POST", "TestProvider">>} >>,
    << <<"llm", "providers", "id", "history">>, {<<"GET", "GetProviderHistory">>} >>,
    << <<"llm", "providers", "id">>, {<<"GET", "GetProvider">>, <<"PUT", "UpdateProvider">>,
          <<"PATCH", "UpdateProvider">>, <<"DELETE", "DeleteProvider">>} >>,
    << <<"llm", "providers", "id", "...">>, {<<"GET", "GetProvider">>, <<"PUT", "UpdateProvider">>,
          <<"PATCH", "UpdateProvider">>, <<"DELETE", "DeleteProvider">>} >>,
    << <<"llm", "providers", "...">>, {} >>,
    << <<"llm", "usage">>, {<<"GET", "GetUsageStats">>} >>,
    << <<"llm", "costs">>, {<<"GET", "GetCosts">>} >>,
    << <<"llm", "analytics", "cost-breakdown">>, {<<"GET", "GetCostBreakdown">>} >>,
    << <<"llm", "analytics", "usage-by-feature">>, {<<"GET", "GetUsageByFeature">>} >>,
    << <<"llm", "health">>, {<<"GET", "GetHealthStatus">>} >>,
    << <<"llm", "features">>, {<<"GET", "GetFeatures">>} >>,
    << <<"llm", "features", "*", "assign-provider">>, {<<"POST", "AssignProviderToFeature">>} >>,
    << <<"llm", "features", "*", "providers">>, {<<"GET", "GetFeatureProviders">>} >>,
    << <<"llm", "features", "*", "providers", "id">>, {<<"DELETE", "DeleteFeatureProvider">>} >>,
    << <<"llm", "features", "...">>, {} >>,
    << <<"llm", "bulk-test">>, {<<"POST", "BulkTestProviders">>} >>,
    << <<"llm", "recommendations">>, {<<"GET", "GetRecommendations">>} >> >>

TeamRoutes == <<
    << <<"team", "users">>, {<<"POST", "AddTeamUser">>, <<"GET", "ListTeamUsers">>} >>,
    << <<"team", "users", "id", "role">>, {<<"PATCH", "UpdateTeamUserRole">>} >>,
    << <<"team", "users", "id">>, {<<"DELETE", "RemoveTeamUser">>} >>,
    << <<"team", "users", "...">>, {} >>,
    << <<"team", "invitations">>, {<<"POST", "SendInvitation">>} >>,
    << <<"team", "activity">>, {<<"GET", "GetTeamActivity">>} >>,
    << <<"workflows">>, {<<"POST", "CreateWorkflow">>, <<"GET", "ListWorkflows">>} >>,
    << <<"workflows", "id", "test">>, {<<"POST", "TestWorkflow">>} >>,
    << <<"workflows", "id", "executions">>, {<<"GET", "GetWorkflowExecutions">>} >>,
    << <<"workflows", "id">>, {<<"PATCH", "UpdateWorkflow">>, <<"DELETE", "DeleteWorkflow">>} >>,
    << <<"workflows", "id", "...">>, {<<"PATCH", "UpdateWorkflow">>, <<"DELETE", "DeleteWorkflow">>} >>,
    << <<"workflows", "...">>, {} >>,
    << <<"integrations", "id">>, {<<"POST", "ConnectIntegration">>, <<"DELETE", "DisconnectIntegration">>} >>,
    << <<"integrations", "*">>, {<<"POST", "ConnectIntegration">>} >>,
    << <<"integrations", "id", "config">>, {<<"GET", "GetIntegrationConfig">>} >>,
    << <<"integrations", "...">>, {} >>,
    << <<"integrations">>, {<<"GET", "ListIntegrations">>} >> >>

OtherRoutes == <<
    << <<"webhooks", "incoming">>, {<<"POST", "ReceiveWebhook">>} >>,
    << <<"audit-logs">>, {<<"POST", "GetAuditLogs">>} >>,
    << <<"notifications">>, {<<"POST", "ListNotifications">>} >>,
    << <<"notifications", "id">>, {<<"PATCH", "MarkNotificationRead">>} >>,
    << <<"notifications", "...">>, {} >>,
    << <<"labels">>, {<<"POST", "CreateLabel">>} >>,
    << <<"messages", "id", "labels">>, {<<"POST", "AddLabelToMessage">>} >>,
    << <<"messages", "...", "labels">>, {} >>,
    << <<"comments", "id">>, {<<"DELETE", "DeleteComment">>} >>,
    << <<"comments", "...">>, {} >>,
    << <<"auth", "login">>, {<<"POST", "Login">>} >>,
    << <<"auth", "register">>, {<<"POST", "Register">>} >>,
    << <<"auth", "whatsapp", "qr">>, {<<"GET", "StartWhatsAppAuth">>} >>,
    << <<"auth", "whatsapp", "status">>, {<<"GET", "WhatsAppAuthStatus">>} >>,
    << <<"auth", "whatsapp", "sync-contacts">>, {<<"POST", "SyncContacts">>} >>,
    << <<"auth", "logout">>, {<<"POST", "LogoutWhatsApp">>} >>,
    << <<"auth", "me">>, {<<"GET", "Me">>} >> >>

RouteTable == MessageRoutes \o LLMRoutes \o TeamRoutes \o OtherRoutes

\* The handler of a request; "none" is the 404 at the end of ServeHTTP.
Dispatch(path, method) ==
    LET row == FirstRow(RouteTable, path)
        found == IF row = 0 THEN {} ELSE {h \in RouteTable[row][2] : h[1] = method}
    IN IF found = {} THEN "none" ELSE (CHOOSE h \in found : TRUE)[2]

\* requiresAuth: these need no token.
PublicPaths == {<<"auth", "login">>, <<"auth", "register">>, <<"auth", "whatsapp", "qr">>,
                <<"auth", "whatsapp", "status">>, <<"webhooks", "incoming">>}
requiresAuth(path) == path \notin PublicPaths

\* ValidateCSRF looks at the token of these methods.
csrfMethods == {"POST", "PATCH", "DELETE"}
----------------------------------------------------------------------------
roleRank(role) ==
    CASE role = "owner" -> 5 [] role = "admin" -> 4 [] role = "manager" -> 3
      [] role = "member" -> 2 [] role = "viewer" -> 1 [] OTHER -> 0

\* RequiredRole's switch: the role for GET and the role for other methods.
RoleTable == <<
    << <<"auth", "login">>, "", "" >>, << <<"auth", "register">>, "", "" >>,
    << <<"auth", "whatsapp", "qr">>, "", "" >>, << <<"auth", "whatsapp", "status">>, "", "" >>,
    << <<"ws">>, "viewer", "viewer" >>,
    << <<"dashboard">>, "viewer", "viewer" >>, << <<"dashboard", "stream">>, "viewer", "viewer" >>,
    << <<"conversations">>, "viewer", "viewer" >>,
    << <<"conversations", "...", "messages">>, "viewer", "viewer" >>,
    << <<"messages", "reply">>, "member", "member" >>, << <<"messages", "forward">>, "member", "member" >>,
    << <<"important-messages">>, "viewer", "viewer" >>,
    << <<"messages", "...", "labels">>, "member", "member" >>,
    << <<"action-items">>, "viewer", "manager" >>,
    << <<"action-items", "...", "comments">>, "viewer", "member" >>,
    << <<"action-items", "...">>, "manager", "manager" >>,
    << <<"daily-summary">>, "viewer", "viewer" >>,
    << <<"conversations", "summarize">>, "member", "member" >>,
    << <<"llm", "providers">>, "admin", "admin" >>, << <<"llm", "providers", "...">>, "admin", "admin" >>,
    << <<"llm", "usage">>, "manager", "manager" >>, << <<"llm", "costs">>, "manager", "manager" >>,
    << <<"llm", "analytics", "cost-breakdown">>, "manager", "manager" >>,
    << <<"llm", "analytics", "usage-by-feature">>, "manager", "manager" >>,
    << <<"llm", "health">>, "manager", "manager" >>,
    << <<"llm", "features">>, "admin", "admin" >>, << <<"llm", "features", "...">>, "admin", "admin" >>,
    << <<"llm", "bulk-test">>, "admin", "admin" >>, << <<"llm", "recommendations">>, "manager", "manager" >>,
    << <<"team", "users">>, "admin", "admin" >>, << <<"team", "users", "...">>, "admin", "admin" >>,
    << <<"team", "invitations">>, "admin", "admin" >>, << <<"team", "activity">>, "manager", "manager" >>,
    << <<"workflows">>, "manager", "admin" >>,
    << <<"workflows", "...", "executions">>, "manager", "manager" >>,
    << <<"workflows", "...">>, "admin", "admin" >>,
    << <<"integrations">>, "admin", "admin" >>, << <<"integrations", "...">>, "admin", "admin" >>,
    << <<"webhooks", "incoming">>, "", "" >>,
    << <<"audit-logs">>, "admin", "admin" >>,
    << <<"notifications">>, "member", "member" >>, << <<"notifications", "...">>, "member", "member" >>,
    << <<"labels">>, "manager", "manager" >>, << <<"comments", "...">>, "member", "member" >> >>

RequiredRole(path, method) ==
    LET row == FirstRow(RoleTable, path)
    IN IF row = 0 THEN "viewer" ELSE RoleTable[row][IF method = "GET" THEN 2 ELSE 3]

\* Authorize: no role asked for, or one that does not rank above the user's.
MayUse(role, required) == required = "" \/ roleRank(role) >= roleRank(required)
============================================================================
