--------------------------- MODULE Collaboration ---------------------------
(***************************************************************************)
(* What the members of a tenant work on (backend/internal/handlers):       *)
(* action items with comments, workflows with executions, labels put on    *)
(* messages, integrations, and the notifications of assignees.  The        *)
(* handlers have one shape: the role check (TeamRoles), the statement that *)
(* changes a row, the audit row, the notification of an action item's      *)
(* assignee.  Each is a statement on its own, and the errors of the last   *)
(* two are ignored.                                                        *)
(*                                                                         *)
(* Rows of different kinds do not meet, so a behaviour is about one row,   *)
(* of any kind: an action item, a workflow, a label or an integration.     *)
(* Its child is the comment, execution or message label that refers to it. *)
(* The broadcasts that end the action item handlers are RealtimeHub's.     *)
(***************************************************************************)
EXTENDS TeamRoles

VARIABLES kind,      \* the table of the row
          row,       \* whether it exists
          child,     \* whether a row that refers to it exists
          assignee,  \* assigned_to; no foreign key
          unread,    \* accounts with an unread notification
          notified,  \* history: accounts notified since they were last assigned
          missed     \* history: accounts whose notification was lost, or who have no row

rowVars == <<kind, row, child, assignee, unread, notified, missed>>
vars == <<teamVars, rowVars>>

RowKinds == {"action_item", "workflow", "label", "integration"}

\* The handlers that change a row, with the path and the table of each.
WorkOps == {"CreateActionItem", "UpdateActionItem", "DeleteActionItem", "CreateActionItemComment",
            "DeleteComment", "CreateWorkflow", "UpdateWorkflow", "DeleteWorkflow", "TestWorkflow",
            "CreateLabel", "AddLabelToMessage", "ConnectIntegration", "DisconnectIntegration",
            "MarkNotificationRead"}

WorkEndpoint(op) ==
    CASE op = "CreateActionItem"        -> [path |-> <<"action-items">>, method |-> "POST"]
      [] op = "UpdateActionItem"        -> [path |-> <<"action-items", "id">>, method |-> "PATCH"]
      [] op = "DeleteActionItem"        -> [path |-> <<"action-items", "id">>, method |-> "DELETE"]
      [] op = "CreateActionItemComment" -> [path |-> <<"action-items", "id", "comments">>, method |-> "POST"]
      [] op = "DeleteComment"           -> [path |-> <<"comments", "id">>, method |-> "DELETE"]
      [] op = "CreateWorkflow"          -> [path |-> <<"workflows">>, method |-> "POST"]
      [] op = "UpdateWorkflow"          -> [path |-> <<"workflows", "id">>, method |-> "PATCH"]
      [] op = "DeleteWorkflow"          -> [path |-> <<"workflows", "id">>, method |-> "DELETE"]
      [] op = "TestWorkflow"            -> [path |-> <<"workflows", "id", "test">>, method |-> "POST"]
      [] op = "CreateLabel"             -> [path |-> <<"labels">>, method |-> "POST"]
      [] op = "AddLabelToMessage"       -> [path |-> <<"messages", "id", "labels">>, method |-> "POST"]
      [] op = "ConnectIntegration"      -> [path |-> <<"integrations", "other">>, method |-> "POST"]
      [] op = "DisconnectIntegration"   -> [path |-> <<"integrations", "id">>, method |-> "DELETE"]
      [] op = "MarkNotificationRead"    -> [path |-> <<"notifications", "id">>, method |-> "PATCH"]

\* The role that the role check asks for before each of them.
WorkNeeds == [op \in WorkOps |-> Needs(WorkEndpoint(op))]

\* ServeHTTP has a case for each of them.
ASSUME WorkServed == \A op \in WorkOps : Dispatch(WorkEndpoint(op).path, WorkEndpoint(op).method) = op

OpsOf(k) ==
    CASE k = "action_item" -> {"CreateActionItem", "UpdateActionItem", "DeleteActionItem",
                               "CreateActionItemComment", "DeleteComment", "MarkNotificationRead"}
      [] k = "workflow"    -> {"CreateWorkflow", "UpdateWorkflow", "DeleteWorkflow", "TestWorkflow"}
      [] k = "label"       -> {"CreateLabel", "AddLabelToMessage"}
      [] k = "integration" -> {"ConnectIntegration", "DisconnectIntegration"}

Init ==
    /\ TeamInit
    /\ kind \in RowKinds
    /\ row \in BOOLEAN
    /\ child = FALSE
    /\ assignee = NoAccount
    /\ unread = {} /\ notified = {} /\ missed = {}

Unlisted == <<tables, calls, faults, founded, torn, trail>>
----------------------------------------------------------------------------
\* A request about the row; for an action item it may name an assignee.
WorkRequest(r) ==
    /\ req[r].pc = "idle"
    /\ \E op \in OpsOf(kind), a \in Accounts :
          \E b \in IF op \in {"CreateActionItem", "UpdateActionItem"} THEN Accounts \cup {NoAccount}
                   ELSE {NoAccount} :
             Arrive(r, op, WorkNeeds[op], a, b, "none")
    /\ UNCHANGED rowVars

\* The statement changed the row, or the handler answers that it was not found.
Changed(r) == Goto(r, "audit")
NotFound(r) == Finish(r) /\ UNCHANGED rowVars

\* INSERT; an integration's is an upsert on its type, a label's name is unique.
\* A second workflow is a row of its own, and of another behaviour.
CreateRow(r) ==
    /\ req[r].pc \in {"CreateWorkflow", "CreateLabel", "ConnectIntegration"}
    /\ IF row /\ req[r].op # "ConnectIntegration" THEN NotFound(r)
       ELSE /\ row' = TRUE
            /\ Changed(r)
            /\ UNCHANGED <<kind, child, assignee, unread, notified, missed>>
    /\ UNCHANGED Unlisted

\* A new assignee of the row: whoever it is has to be told.
Assign(a) ==
    /\ assignee' = a
    /\ notified' = notified \ {a}
    /\ missed' = missed \ {a}

\* A second action item is a row of its own, and of another behaviour.
CreateActionItem(r) ==
    /\ req[r].pc = "CreateActionItem"
    /\ IF row THEN NotFound(r)
       ELSE /\ row' = TRUE
            /\ Assign(req[r].target)
            /\ Changed(r)
            /\ UNCHANGED <<kind, child, unread>>
    /\ UNCHANGED Unlisted

\* Mutant: the notification goes to the assignee of the request only.
UpdateActionItemAsAsked(r) ==
    /\ req[r].pc = "UpdateActionItem"
    /\ IF ~row THEN NotFound(r)
       ELSE /\ assignee' = IF req[r].target = NoAccount THEN assignee ELSE req[r].target
            /\ notified' = notified \ {assignee'}
            /\ missed' = missed \ {assignee'}
            /\ Changed(r)
            /\ UNCHANGED <<kind, row, child, unread>>
    /\ UNCHANGED Unlisted

\* UPDATE ... COALESCE ... RETURNING: without an assignee in the request the old
\* one stays, and it is the row's that the handler goes on with.
UpdateActionItem(r) ==
    /\ req[r].pc = "UpdateActionItem"
    /\ IF ~row THEN NotFound(r)
       ELSE LET a == IF req[r].target = NoAccount THEN assignee ELSE req[r].target IN
            /\ Assign(a)
            /\ req' = [req EXCEPT ![r].pc = "audit", ![r].target = a]
            /\ UNCHANGED <<kind, row, child, unread>>
    /\ UNCHANGED Unlisted

UpdateWorkflow(r) ==
    /\ req[r].pc = "UpdateWorkflow"
    /\ IF row THEN Changed(r) /\ UNCHANGED rowVars ELSE NotFound(r)
    /\ UNCHANGED Unlisted

\* DELETE; the foreign keys of comments and executions cascade.
DeleteRow(r) ==
    /\ req[r].pc \in {"DeleteActionItem", "DeleteWorkflow", "DisconnectIntegration"}
    /\ IF ~row THEN NotFound(r)
       ELSE /\ row' = FALSE /\ child' = FALSE /\ assignee' = NoAccount
            /\ Changed(r)
            /\ UNCHANGED <<kind, unread, notified, missed>>
    /\ UNCHANGED Unlisted

\* INSERT of a comment, an execution or a message label; the foreign key refuses
\* it without the row.  A label that is there already is no error.
CreateChild(r) ==
    /\ req[r].pc \in {"CreateActionItemComment", "TestWorkflow", "AddLabelToMessage"}
    /\ IF ~row THEN NotFound(r)
       ELSE /\ child' = TRUE
            /\ Changed(r)
            /\ UNCHANGED <<kind, row, assignee, unread, notified, missed>>
    /\ UNCHANGED Unlisted

DeleteComment(r) ==
    /\ req[r].pc = "DeleteComment"
    /\ IF ~child THEN NotFound(r)
       ELSE /\ child' = FALSE
            /\ Changed(r)
            /\ UNCHANGED <<kind, row, assignee, unread, notified, missed>>
    /\ UNCHANGED Unlisted

\* A user marks a notification of his own; it is not audited.
MarkNotificationRead(r) ==
    /\ req[r].pc = "MarkNotificationRead"
    /\ unread' = unread \ {req[r].actor}
    /\ Finish(r)
    /\ UNCHANGED <<kind, row, child, assignee, notified, missed, Unlisted>>
----------------------------------------------------------------------------
\* An action item with an assignee.
Assigns(r) == req[r].op \in {"CreateActionItem", "UpdateActionItem"} /\ req[r].target # NoAccount

\* logAudit: the handler goes on, whether the row was written or not.
AuditWork(r) ==
    /\ req[r].pc = "audit"
    /\ req[r].op \in WorkOps \cup {"ReceiveWebhook"}
    /\ UNCHANGED faults \/ (faults < MaxFaults /\ faults' = faults + 1)
    /\ IF Assigns(r) THEN Goto(r, "notify") ELSE Finish(r)
    /\ UNCHANGED <<tables, calls, founded, torn, trail, rowVars>>

\* createNotification; the foreign key refuses an assignee that is not a user.
createNotification(r) ==
    /\ req[r].pc = "notify"
    /\ \/ /\ req[r].target \in users
          /\ unread' = unread \cup {req[r].target}
          /\ notified' = notified \cup {req[r].target}
          /\ UNCHANGED <<faults, missed>>
       \/ /\ req[r].target \notin users
          /\ missed' = missed \cup {req[r].target}
          /\ UNCHANGED <<faults, unread, notified>>
       \/ /\ faults < MaxFaults
          /\ faults' = faults + 1
          /\ missed' = missed \cup {req[r].target}
          /\ UNCHANGED <<unread, notified>>
    /\ Finish(r)
    /\ UNCHANGED <<tables, calls, founded, torn, trail, kind, row, child, assignee>>

\* ReceiveWebhook needs no role: with an integration of type webhook the call is
\* logged, when its signature is the secret's or there is no secret.
ReceiveWebhook(r) ==
    /\ kind = "integration" /\ row
    /\ req[r].pc = "idle"
    /\ calls < MaxCalls
    /\ calls' = calls + 1
    /\ req' = [req EXCEPT ![r] = [Idle EXCEPT !.pc = "audit", !.op = "ReceiveWebhook", !.held = TRUE]]
    /\ UNCHANGED <<tables, faults, founded, torn, trail, rowVars>>

\* The server ends; the notifications that were still to be written are lost.
Crash ==
    /\ TeamCrash
    /\ missed' = missed \cup {req[r].target : r \in {q \in Requests : Assigns(q)}}
    /\ UNCHANGED <<kind, row, child, assignee, unread, notified>>

WorkStep(r) ==
    \/ CreateRow(r) \/ CreateActionItem(r) \/ UpdateActionItem(r) \/ UpdateWorkflow(r)
    \/ DeleteRow(r) \/ CreateChild(r) \/ DeleteComment(r) \/ MarkNotificationRead(r)
    \/ AuditWork(r) \/ createNotification(r)

Next ==
    \/ \E a \in Registrants : Register(a) /\ UNCHANGED rowVars
    \/ \E r \in Requests :
          \/ (TeamStep(r) \/ TeamRequest(r)) /\ UNCHANGED rowVars
          \/ WorkStep(r) \/ WorkRequest(r) \/ ReceiveWebhook(r)
    \/ Crash

Spec == Init /\ [][Next]_vars
----------------------------------------------------------------------------
RequestRecord ==
    [pc : {"idle", "authorize", "lookup", "invitation", "extended", "member", "log", "deleteExtended",
           "deleteMember", "count", "select", "insert", "audit", "notify"} \cup WorkOps,
     op : {"none", "login", "ReceiveWebhook"} \cup TeamOps \cup WorkOps,
     actor : Accounts \cup {NoAccount}, target : Accounts \cup {NoAccount},
     role : RolesOrNone, needs : {"", "viewer", "member", "manager", "admin"},
     held : BOOLEAN, alone : BOOLEAN]

\* The tables hold roles and accounts, and the requests are at one of their steps.
TypeOK ==
    /\ users \subseteq Accounts
    /\ {users_extended, team_members, user_roles, invitations} \subseteq [Accounts -> RolesOrNone]
    /\ req \in [Requests -> RequestRecord]
    /\ calls \in 0 .. MaxCalls /\ faults \in 0 .. MaxFaults
    /\ founded \in BOOLEAN
    /\ torn \subseteq Accounts
    /\ audited \subseteq Accounts /\ unlogged \subseteq Accounts
    /\ kind \in RowKinds
    /\ row \in BOOLEAN /\ child \in BOOLEAN
    /\ assignee \in Accounts \cup {NoAccount}
    /\ unread \subseteq Accounts /\ notified \subseteq Accounts /\ missed \subseteq Accounts

\* The account an action item is assigned to has been told since, or a request is
\* about to tell it, or its notification was lost to a failure or a restart or
\* refused because the account does not exist: whichever requests assign the item
\* at the same time, the one whose assignee stands tells that one.
AssigneeNotified ==
    assignee # NoAccount =>
        \/ assignee \in notified \cup missed
        \/ \E r \in Requests : req[r].pc \in {"audit", "notify"} /\ Assigns(r) /\ req[r].target = assignee
============================================================================
