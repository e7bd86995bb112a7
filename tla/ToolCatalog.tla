---------------------------- MODULE ToolCatalog -----------------------------
(***************************************************************************)
(* The MCP tools: what each handler of mcp/tools.py asks of the W-space    *)
(* API.  A handler first looks up what its arguments only name (the steps  *)
(* of LookupSteps, one await each), then sends the requests of Plan.       *)
(*                                                                         *)
(* The arguments of a call are a function from the names given to values;  *)
(* a name that is absent or null is not in its domain.  Beside the item,   *)
(* category and period tools, which are many and regular, the tables name  *)
(* each tool once; a PascalCase alias is the tool it stands for.           *)
(***************************************************************************)
EXTENDS SpaceApi, Sequences

Has(args, name) == name \in DOMAIN args

HasAny(args, names) == names \cap DOMAIN args # {}

Flags == {"active", "completed", "resolved", "overdue", "ai_confirm", "current", "delete"}

\* A flag may come as a word: anything but an assent is a no
CoerceBool(value) == IF value \in {"true", "yes"} THEN "true" ELSE "false"

\* Mutant: a flag is set when it is given at all
Mentioned(args, name) == Has(args, name)

Truthy(args, name) == Has(args, name) /\ CoerceBool(args[name]) = "true"

Coerced(args) ==
    [name \in DOMAIN args |-> IF name \in Flags THEN CoerceBool(args[name]) ELSE args[name]]

\* The arguments with some of them replaced, or dropped when replaced by None
Replaced(args, changes) ==
    LET names == DOMAIN args \cup DOMAIN changes
        value(name) == IF name \in DOMAIN changes THEN changes[name] ELSE args[name]
    IN [name \in {n \in names : value(n) # None} |-> value(name)]

-----------------------------------------------------------------------------
(* The families of project items: a hub that lists, reads and deletes, and *)
(* tools to add, edit and delete.  "key" is what an add must have, "rest"  *)
(* what it may have, "changes" what an edit may also have, "filters" what  *)
(* the hub hands to the list.                                              *)

Family(hub, add, edit, delete, id, collection, key, rest, filters) ==
    [ hub |-> hub, add |-> add, edit |-> edit, delete |-> delete,
      id |-> id, collection |-> collection, key |-> key, fields |-> key \cup rest,
      changes |-> {}, filters |-> filters, attaches |-> FALSE, hubAttaches |-> FALSE ]

MilestoneTools ==
    Family("project_milestones", "add_project_milestone", "edit_project_milestone",
           "delete_project_milestone", "milestone_id", Milestones,
           {"title"}, {"description", "icon", "active", "position"}, {"active"})

BottleneckTools ==
    [ Family("project_bottlenecks", "add_project_bottleneck", "edit_project_bottleneck",
             "delete_project_bottleneck", "bottleneck_id", Bottlenecks,
             {"title"}, {"description", "severity", "position", "resolved_at"}, {"severity", "active"})
        EXCEPT !.changes = {"resolved"} ]

TodoTools ==
    Family("project_todos", "add_project_todo", "edit_project_todo",
           "delete_project_todo", "todo_id", Todos,
           {"title"}, {"meta_text", "completed", "completed_at", "position"}, {"completed", "active"})

KnowledgeTools ==
    Family("project_knowledge_items", "add_project_knowledge_item", "edit_project_knowledge_item",
           "delete_project_knowledge_item", "item_id", KnowledgeItems,
           {"title", "description"}, {"badge", "active", "position"}, {"active"})

AdrTools ==
    Family("project_decision_records", "add_project_decision_record", "edit_project_decision_record",
           "delete_project_decision_record", "decision_record_id", Adrs,
           {"identifier", "title"}, {"decision_date", "status", "file_path", "active", "position"},
           {"active"})

\* The hub takes a category as well but does not hand it to the list
TakeawayTools ==
    Family("project_all_hands_takeaway", "add_project_all_hands_takeaway",
           "edit_project_all_hands_takeaway", "delete_project_all_hands_takeaway",
           "takeaway_id", Takeaways,
           {"category", "content"}, {"active", "position"}, {"active"})

ActionItemTools ==
    Family("project_all_hands_action_item", "add_project_all_hands_action_item",
           "edit_project_all_hands_action_item", "delete_project_all_hands_action_item",
           "action_item_id", ActionItems,
           {"title"}, {"assignee_name", "due_date", "completed", "completed_at", "active", "position"}, {"active"})

DecisionTools ==
    Family("project_all_hands_decision", "add_project_all_hands_decision",
           "edit_project_all_hands_decision", "delete_project_all_hands_decision",
           "decision_id", AllHandsDecisions,
           {"title"}, {"basis", "impact", "badge", "active", "position"}, {"active"})

AssetTools ==
    Family("external_knowledge_assets", "add_external_knowledge_asset", "edit_external_knowledge_asset",
           "delete_external_knowledge_asset", "asset_id", ExternalAssets,
           {"title", "url"}, {"doc_type", "icon", "source_type", "meta_text", "active", "position"},
           {"active"})

ActivityTools ==
    Family("knowledge_activity_log", "add_knowledge_activity_log", "edit_knowledge_activity_log",
           "delete_knowledge_activity_log", "activity_id", KnowledgeActivities,
           {"actor_name", "action_text"},
           {"actor_color", "target_path", "target_url", "active", "position"}, {"active"})

\* Here even the hub fetches an attachment, first of all, and can update with it
DirectoryTools ==
    [ Family("tree_based_project_directory_data", "add_tree_based_project_directory_item",
             "edit_tree_based_project_directory_item", "delete_tree_based_project_directory_item",
             "item_id", DirectoryItems, {},
             {"name", "item_type", "file_path", "parent_id", "content", "active", "position"}, {"active"})
        EXCEPT !.attaches = TRUE, !.hubAttaches = TRUE ]

SummaryTools ==
    Family("knowledge_summary_items", "add_knowledge_summary_item", "edit_knowledge_summary_item",
           "delete_knowledge_summary_item", "item_id", KnowledgeItems,
           {"title", "description"}, {"badge", "active", "position"}, {"active"})

NoteTools ==
    [ Family("project_obsidian_note", "add_project_obsidian_note", "edit_project_obsidian_note",
             "delete_project_obsidian_note", "note_id", ObsidianNotes, {},
             {"title", "tags", "content", "html_source_type", "html_source_path", "active", "position"},
             {"active"})
        EXCEPT !.attaches = TRUE ]

Families ==
    { MilestoneTools, BottleneckTools, TodoTools, KnowledgeTools, AdrTools, TakeawayTools,
      ActionItemTools, DecisionTools, AssetTools, ActivityTools, DirectoryTools, SummaryTools, NoteTools }

ToolsOf(f) == {f.hub, f.add, f.edit, f.delete}

FamilyTools == UNION {ToolsOf(f) : f \in Families}

FamilyOf == [tool \in FamilyTools |-> CHOOSE f \in Families : tool \in ToolsOf(f)]

HubRequest(f, args, t) ==
    LET place == Place(t.project, None)
    IN IF Truthy(args, "delete") /\ Has(args, f.id)
       THEN DeleteOf(f.collection, place, args[f.id])
       ELSE IF Has(args, f.id)
            THEN IF t.file # None
                 THEN UpdateOf(f.collection, place, args[f.id], {}, NoFields, t.file)
                 ELSE GetOf(f.collection, place, args[f.id])
            ELSE ListOf(f.collection, place, f.filters \cup Paging, Coerced(args))

AddRequest(f, args, t) ==
    CreateOf(f.collection, Place(t.project, None), f.fields, Coerced(args), t.file)

\* Mutant: an edit passes on what an add would
EditLikeAdd(f, args, t) ==
    UpdateOf(f.collection, Place(t.project, None), args[f.id], f.fields, Coerced(args), t.file)

EditRequest(f, args, t) ==
    UpdateOf(f.collection, Place(t.project, None), args[f.id], f.fields \cup f.changes,
             Coerced(args), t.file)

DeleteRequest(f, args, t) ==
    DeleteOf(f.collection, Place(t.project, None), args[f.id])

-----------------------------------------------------------------------------
(* Attention items: a list, an add and an edit for each category.  A room  *)
(* or a user is looked up, and sent, only when a project is given.         *)

AttentionCategories ==
    { "decisions_waiting", "blockers", "outcomes_review", "mentions", "material_changes",
      "ai_confirm", "knowledge_proposals" }

AttentionAdds ==
    [ add_decisions_waiting |-> "decisions_waiting", add_blockers |-> "blockers",
      add_outcomes_review |-> "outcomes_review", add_mentions |-> "mentions",
      add_material_changes |-> "material_changes", add_ai_confirm |-> "ai_confirm",
      add_knowledge_proposals |-> "knowledge_proposals" ]

AttentionEdits ==
    [ edit_decisions_waiting |-> "decisions_waiting", edit_blockers |-> "blockers",
      edit_outcomes_review |-> "outcomes_review", edit_mentions |-> "mentions",
      edit_material_changes |-> "material_changes", edit_ai_confirm |-> "ai_confirm",
      edit_knowledge_proposals |-> "knowledge_proposals" ]

AttentionTools == AttentionCategories \cup DOMAIN AttentionAdds \cup DOMAIN AttentionEdits

\* The arguments with the category of the tool and what was looked up
Attended(category, args, t) ==
    Replaced(Coerced(args), [ category |-> category, project_id |-> t.project,
                              room_id |-> t.room, user_id |-> t.user ])

ListAttention(category, args, t) ==
    ListOf(AttentionItems, Nowhere,
           {"category", "project_id", "room_id", "user_id", "status", "overdue", "ai_confirm"} \cup Paging,
           Attended(category, args, t))

AddAttention(category, args, t) ==
    CreateOf(AttentionItems, Nowhere, AttentionItems.creates, Attended(category, args, t), None)

EditAttention(category, args, t) ==
    UpdateOf(AttentionItems, Nowhere, args["attention_item_id"], AttentionItems.updates,
             Attended(category, args, t), None)

-----------------------------------------------------------------------------
(* Company status: the periods, and one tool per category of items that    *)
(* tells by its arguments what is wanted                                   *)

PeriodFields == {"name", "slug", "current", "starts_on", "ends_on", "position"}

EditPeriod(args) ==
    UpdateOf(StatusPeriods, Nowhere, args["period_id"], PeriodFields, Coerced(args), None)

AddPeriod(args) == CreateOf(StatusPeriods, Nowhere, PeriodFields, Coerced(args), None)

PeriodRequest(args) ==
    CASE Has(args, "period_id") /\ Truthy(args, "delete") ->
             DeleteOf(StatusPeriods, Nowhere, args["period_id"])
      [] Has(args, "period_id") /\ ~Truthy(args, "delete") /\ HasAny(args, PeriodFields) ->
             EditPeriod(args)
      [] Has(args, "period_id") /\ ~Truthy(args, "delete") /\ ~HasAny(args, PeriodFields) ->
             GetOf(StatusPeriods, Nowhere, args["period_id"])
      [] ~Has(args, "period_id") /\ Truthy(args, "current") ->
             GetOf(StatusPeriods, Nowhere, "current")
      [] ~Has(args, "period_id") /\ ~Truthy(args, "current") /\ Has(args, "slug") ->
             GetOf(PeriodsBySlug, Nowhere, args["slug"])
      [] PeriodFields \cap DOMAIN args = {"name"} /\ ~Has(args, "period_id") ->
             ListOf(PeriodsByName, Nowhere, {"name"}, args)
      [] ~HasAny(args, {"period_id", "slug"}) /\ ~Truthy(args, "current") /\ Has(args, "name")
             /\ PeriodFields \cap DOMAIN args # {"name"} ->
             AddPeriod(args)
      [] OTHER ->
             ListOf(StatusPeriods, Nowhere, {}, NoFields)

StatusCategories ==
    {"priorities", "progress", "risks", "dependencies", "changes", "decisions", "learnings"}

StatusChanges ==
    { "title", "status", "health", "badge", "summary", "details", "owner_name", "position",
      "company_status_period_id" }

StatusRequest(category, args, t) ==
    LET filed == Replaced(args, [category |-> category, project_id |-> t.project])
    IN CASE Has(args, "item_id") /\ Truthy(args, "delete") ->
                DeleteOf(StatusItems, Nowhere, args["item_id"])
         [] Has(args, "item_id") /\ ~Truthy(args, "delete") /\ HasAny(args, StatusChanges) ->
                UpdateOf(StatusItems, Nowhere, args["item_id"], StatusItems.updates, filed, None)
         [] Has(args, "item_id") /\ ~Truthy(args, "delete") /\ ~HasAny(args, StatusChanges) ->
                GetOf(StatusItems, Nowhere, args["item_id"])
         [] ~Has(args, "item_id") /\ Has(args, "title") ->
                CreateOf(StatusItems, Nowhere, StatusItems.creates, filed, None)
         [] OTHER ->
                ListOf(StatusItems, Nowhere,
                       { "company_status_period_id", "project_id", "category", "status", "health",
                         "badge", "owner_name" } \cup Paging, filed)

\* An item cannot be created without its period
NeedsPeriod(args) ==
    ~HasAny(args, {"item_id", "company_status_period_id"}) /\ Has(args, "title")

-----------------------------------------------------------------------------
(* Room tools: a sender says something in a room                           *)

\* The spinner, then whatever text was given
LoadingBody(args) == IF Has(args, "body") THEN ":spin: " \o args["body"] ELSE ":spin:"

AddMessage(args, t) ==
    CreateOf(Messages, Place(t.project, t.room), {"user_id", "body"},
             Replaced(args, [user_id |-> t.user]), t.file)

AddLoading(args, t) ==
    CreateOf(Messages, Place(t.project, t.room), {"user_id", "body"},
             [user_id |-> t.user, body |-> LoadingBody(args)], None)

EditLoading(args) ==
    UpdateOf(Messages, Nowhere, args["message_id"], {"body"}, [body |-> LoadingBody(args)], None)

DeleteLoading(args) == DeleteOf(Messages, Nowhere, args["message_id"])

AddAction(args, t) ==
    CreateOf(Actions, Place(t.project, t.room), Actions.creates,
             Replaced([action_type |-> "typing_start"], Replaced(args, [user_id |-> t.user])), None)

AddDecision(args, t) ==
    CreateOf(RoomDecisions, Place(t.project, t.room), RoomDecisions.creates,
             Replaced([decision |-> "approve"], Replaced(args, [user_id |-> t.user])), None)

-----------------------------------------------------------------------------
(* Approval requests                                                       *)

ListApprovals(args, t) == ListOf(Approvals, Place(t.project, t.room), Paging, args)

GetApproval(args, t) ==
    GetOf(Approvals, Place(t.project, t.room), args["approval_request_id"])

AddApproval(args, t) ==
    CreateOf(Approvals, Place(t.project, t.room), Approvals.creates, args, None)

EditApproval(args, t) ==
    UpdateOf(Approvals, Place(t.project, t.room), args["approval_request_id"], Approvals.updates,
             args, None)

DeleteApproval(args, t) ==
    DeleteOf(Approvals, Place(t.project, t.room), args["approval_request_id"])

\* Mutant: the approval request is made first
ApprovalThenMessage(args, t) ==
    << AddApproval(Replaced(args, [message_id |-> t.message]), t), AddMessage(args, t) >>

\* A message, and then an approval request about the message just created
ApprovalOfMessage(args, t) ==
    << AddMessage(args, t), AddApproval(Replaced(args, [message_id |-> t.message]), t) >>

-----------------------------------------------------------------------------
(* The registry: for a tool, what Python requires of its arguments, what it *)
(* looks up, in which cases it refuses then, and what it asks for          *)

PeriodTools == {"company_status_period", "add_company_status_period", "edit_company_status_period"}

SendingTools ==
    { "add_message", "add_loading_message", "add_action_message", "add_decision_message",
      "add_approve_request_with_message" }

LoadingEdits == {"edit_loading_message", "delete_loading_message"}

ApprovalTools ==
    { "approval_requests", "get_approval_request", "add_approval_request", "edit_approval_request",
      "delete_approval_request" }

TOOL_HANDLERS ==
    FamilyTools \cup AttentionTools \cup PeriodTools \cup StatusCategories \cup SendingTools
      \cup LoadingEdits \cup ApprovalTools \cup {"hello"}

\* The parameters without a default
Parameters(tool) ==
    CASE tool \in FamilyTools ->
             LET f == FamilyOf[tool]
             IN CASE tool = f.hub -> {}  []  tool = f.add -> f.key  []  OTHER -> {f.id}
      [] tool \in DOMAIN AttentionAdds -> {"title"}
      [] tool \in DOMAIN AttentionEdits -> {"attention_item_id"}
      [] tool = "add_company_status_period" -> {"name"}
      [] tool = "edit_company_status_period" -> {"period_id"}
      [] tool \in LoadingEdits -> {"message_id"}
      [] tool = "add_approve_request_with_message" -> {"body"}
      [] tool \in {"add_decision_message", "get_approval_request", "edit_approval_request",
                   "delete_approval_request"} -> {"approval_request_id"}
      [] OTHER -> {}

Binds(tool, args) == Parameters(tool) \subseteq DOMAIN args

ProjectNamed(args) == HasAny(args, {"project_id", "project_name"})

Attaches(tool) ==
    \/ /\ tool \in FamilyTools
       /\ LET f == FamilyOf[tool]
          IN \/ f.attaches /\ tool \in {f.add, f.edit}
             \/ f.hubAttaches /\ tool = f.hub
    \/ tool \in {"add_message", "add_approve_request_with_message"}

LooksUp(tool, args, kind) ==
    CASE kind = "project" ->
             \/ tool \in FamilyTools \cup SendingTools \cup ApprovalTools
             \/ tool \in AttentionTools \cup StatusCategories /\ ProjectNamed(args)
      [] kind = "room" ->
             \/ tool \in SendingTools \cup ApprovalTools
             \/ /\ tool \in AttentionTools
                /\ ProjectNamed(args) /\ HasAny(args, {"room_id", "room_name"})
      [] kind = "user" ->
             /\ tool \in AttentionTools
             /\ ProjectNamed(args) /\ HasAny(args, {"user_id", "user_name"})
      [] kind = "sender" -> tool \in SendingTools
      [] kind = "file" -> Attaches(tool)

\* What a handler looks up, in the order in which it does so
LookupSteps(tool, args) ==
    LET step(kind) == IF LooksUp(tool, args, kind) THEN <<kind>> ELSE <<>>
    IN step("project") \o step("room") \o step("user") \o step("sender") \o step("file")

\* What a handler still refuses when everything is looked up
Refuses(tool, args, t) ==
    \/ tool = "add_message" /\ ~Has(args, "body") /\ t.file = None
    \/ tool \in StatusCategories /\ NeedsPeriod(args)

FamilyRequest(f, tool, args, t) ==
    CASE tool = f.hub -> HubRequest(f, args, t)
      [] tool = f.add -> AddRequest(f, args, t)
      [] tool = f.edit -> EditRequest(f, args, t)
      [] tool = f.delete -> DeleteRequest(f, args, t)

ApprovalRequest(tool, args, t) ==
    CASE tool = "approval_requests" -> ListApprovals(args, t)
      [] tool = "get_approval_request" -> GetApproval(args, t)
      [] tool = "add_approval_request" -> AddApproval(args, t)
      [] tool = "edit_approval_request" -> EditApproval(args, t)
      [] tool = "delete_approval_request" -> DeleteApproval(args, t)

\* The one request of a tool that makes one; t holds what was looked up so far
ToolRequest(tool, args, t) ==
    CASE tool \in FamilyTools -> FamilyRequest(FamilyOf[tool], tool, args, t)
      [] tool \in AttentionCategories -> ListAttention(tool, args, t)
      [] tool \in DOMAIN AttentionAdds -> AddAttention(AttentionAdds[tool], args, t)
      [] tool \in DOMAIN AttentionEdits -> EditAttention(AttentionEdits[tool], args, t)
      [] tool = "company_status_period" -> PeriodRequest(args)
      [] tool = "add_company_status_period" -> AddPeriod(args)
      [] tool = "edit_company_status_period" -> EditPeriod(args)
      [] tool \in StatusCategories -> StatusRequest(tool, args, t)
      [] tool = "add_message" -> AddMessage(args, t)
      [] tool = "add_loading_message" -> AddLoading(args, t)
      [] tool = "edit_loading_message" -> EditLoading(args)
      [] tool = "delete_loading_message" -> DeleteLoading(args)
      [] tool = "add_action_message" -> AddAction(args, t)
      [] tool = "add_decision_message" -> AddDecision(args, t)
      [] tool \in ApprovalTools -> ApprovalRequest(tool, args, t)

\* The requests of a call, in order: hello makes none, and one tool two
Plan(tool, args, t) ==
    IF tool = "hello" THEN <<>>
    ELSE IF tool = "add_approve_request_with_message" THEN ApprovalOfMessage(args, t)
    ELSE <<ToolRequest(tool, args, t)>>

=============================================================================
