---------------------------- MODULE ToolSchemas -----------------------------
(***************************************************************************)
(* What tools/list tells an agent about each tool: the arguments its input *)
(* schema requires and those it knows.  These tables are written down from *)
(* _TOOL_METADATA alone; that the handlers of ToolCatalog do what is       *)
(* advertised here is a property of the two, not a definition.             *)
(***************************************************************************)
EXTENDS ToolCatalog

Schema(required, props) == [required |-> required, props |-> required \cup props]

ProjectIdProps == {"project_id", "project_name"}

RoomIdProps == {"room_id", "room_name"}

SenderProps == {"user_id", "user_name", "bot_id", "bot_name"}

PaginationProps == {"page", "per_page"}

AttachmentProps == {"attachment_path", "attachment_url"}

-----------------------------------------------------------------------------
(* The families: hub, add, edit and delete                                 *)

Schemas(hub, add, edit, delete) == [hub |-> hub, add |-> add, edit |-> edit, delete |-> delete]

CrudSchemas(id, filters, key, rest, more) ==
    Schemas(Schema({}, ProjectIdProps \cup {id, "delete"} \cup filters \cup PaginationProps),
            Schema(key, ProjectIdProps \cup rest),
            Schema({id}, ProjectIdProps \cup key \cup rest \cup more),
            Schema({id}, ProjectIdProps))

MilestoneSchemas ==
    CrudSchemas("milestone_id", {"active"}, {"title"}, {"description", "icon", "active", "position"}, {})

BottleneckSchemas ==
    CrudSchemas("bottleneck_id", {"severity", "active"}, {"title"},
                {"description", "severity", "position", "resolved_at"}, {"resolved"})

TodoSchemas ==
    CrudSchemas("todo_id", {"completed", "active"}, {"title"},
                {"meta_text", "completed", "completed_at", "position"}, {})

KnowledgeSchemas ==
    CrudSchemas("item_id", {"active"}, {"title", "description"}, {"badge", "active", "position"}, {})

AdrSchemas ==
    CrudSchemas("decision_record_id", {"active"}, {"identifier", "title"},
                {"decision_date", "status", "file_path", "active", "position"}, {})

TakeawaySchemas ==
    CrudSchemas("takeaway_id", {"category", "active"}, {"category", "content"},
                {"active", "position"}, {})

ActionItemSchemas ==
    CrudSchemas("action_item_id", {"active"}, {"title"},
                {"assignee_name", "due_date", "completed", "completed_at", "active", "position"}, {})

DecisionSchemas ==
    CrudSchemas("decision_id", {"active"}, {"title"},
                {"basis", "impact", "badge", "active", "position"}, {})

AssetSchemas ==
    CrudSchemas("asset_id", {"active"}, {"title", "url"},
                {"doc_type", "icon", "source_type", "meta_text", "active", "position"}, {})

ActivitySchemas ==
    CrudSchemas("activity_id", {"active"}, {"actor_name", "action_text"},
                {"actor_color", "target_path", "target_url", "active", "position"}, {})

DirectorySchemas ==
    CrudSchemas("item_id", {"active"} \cup AttachmentProps, {},
                {"name", "item_type", "file_path", "parent_id", "content", "active", "position"}
                  \cup AttachmentProps, {})

SummarySchemas ==
    CrudSchemas("item_id", {"active"}, {"title", "description"}, {"badge", "active", "position"}, {})

NoteSchemas ==
    CrudSchemas("note_id", {"active"}, {},
                {"title", "tags", "content", "html_source_type", "html_source_path", "active", "position"}
                  \cup AttachmentProps, {})

FamilySchemas ==
    [ project_milestones |-> MilestoneSchemas, project_bottlenecks |-> BottleneckSchemas,
      project_todos |-> TodoSchemas, project_knowledge_items |-> KnowledgeSchemas,
      project_decision_records |-> AdrSchemas, project_all_hands_takeaway |-> TakeawaySchemas,
      project_all_hands_action_item |-> ActionItemSchemas,
      project_all_hands_decision |-> DecisionSchemas,
      external_knowledge_assets |-> AssetSchemas, knowledge_activity_log |-> ActivitySchemas,
      tree_based_project_directory_data |-> DirectorySchemas,
      knowledge_summary_items |-> SummarySchemas, project_obsidian_note |-> NoteSchemas ]

FamilySchema(tool) ==
    LET f == FamilyOf[tool]
        all == FamilySchemas[f.hub]
    IN CASE tool = f.hub -> all.hub  []  tool = f.add -> all.add
         [] tool = f.edit -> all.edit  []  tool = f.delete -> all.delete

-----------------------------------------------------------------------------
(* Company home and company status                                         *)

\* Only one of the lists is told that it can filter by ai_confirm
AttentionListSchema(tool) ==
    Schema({}, ProjectIdProps \cup RoomIdProps \cup {"user_id", "user_name", "status", "overdue"}
                 \cup PaginationProps \cup (IF tool = "decisions_waiting" THEN {"ai_confirm"} ELSE {}))

AttentionItemCommonProps ==
    ProjectIdProps \cup RoomIdProps
      \cup { "user_id", "user_name", "meta_text", "due_at", "status", "overdue", "source_id",
             "source_type", "target_id", "target_type", "action_label", "ai_confirm" }

AttentionAddSchema == Schema({"title"}, AttentionItemCommonProps)

\* A title can be changed, but the schema does not say so
AttentionEditSchema == Schema({"attention_item_id"}, AttentionItemCommonProps)

PeriodSchema(tool) ==
    LET fields == {"name", "slug", "current", "starts_on", "ends_on", "position"}
    IN CASE tool = "company_status_period" -> Schema({}, fields \cup {"period_id", "delete"})
         [] tool = "add_company_status_period" -> Schema({"name"}, fields)
         [] tool = "edit_company_status_period" -> Schema({"period_id"}, fields)

StatusSchema ==
    Schema({}, ProjectIdProps \cup PaginationProps
                 \cup { "item_id", "company_status_period_id", "title", "status", "health", "badge",
                        "summary", "details", "owner_name", "position", "delete" })

-----------------------------------------------------------------------------
(* Room tools and approval requests                                        *)

InRoom == ProjectIdProps \cup RoomIdProps

SendingSchema(tool) ==
    LET sent == InRoom \cup SenderProps
    IN CASE tool = "add_message" -> Schema({"room_id"}, sent \cup {"body"} \cup AttachmentProps)
         [] tool = "add_loading_message" -> Schema({"room_id"}, sent \cup {"body"})
         [] tool = "add_action_message" -> Schema({"room_id"}, sent \cup {"action_type"})
         [] tool = "add_decision_message" ->
                Schema({"approval_request_id"}, sent \cup {"decision", "note"})
         [] tool = "add_approve_request_with_message" ->
                Schema({"room_id", "body"},
                       sent \cup AttachmentProps
                         \cup { "request_type", "status", "agent_id", "requested_at", "resolved_at",
                                "resolved_by_id", "payload" })

LoadingEditSchema(tool) ==
    Schema({"message_id"}, IF tool = "edit_loading_message" THEN {"body"} ELSE {})

ApprovalSchema(tool) ==
    LET fields == { "request_type", "status", "message_id", "agent_id", "requested_at",
                    "resolved_at", "resolved_by_id", "payload" }
    IN CASE tool = "approval_requests" -> Schema({}, InRoom \cup PaginationProps)
         [] tool = "add_approval_request" -> Schema({}, InRoom \cup fields)
         [] tool = "edit_approval_request" -> Schema({"approval_request_id"}, InRoom \cup fields)
         [] tool \in {"get_approval_request", "delete_approval_request"} ->
                Schema({"approval_request_id"}, InRoom)

InputSchema(tool) ==
    CASE tool \in FamilyTools -> FamilySchema(tool)
      [] tool \in AttentionCategories -> AttentionListSchema(tool)
      [] tool \in DOMAIN AttentionAdds -> AttentionAddSchema
      [] tool \in DOMAIN AttentionEdits -> AttentionEditSchema
      [] tool \in PeriodTools -> PeriodSchema(tool)
      [] tool \in StatusCategories -> StatusSchema
      [] tool \in SendingTools -> SendingSchema(tool)
      [] tool \in LoadingEdits -> LoadingEditSchema(tool)
      [] tool \in ApprovalTools -> ApprovalSchema(tool)
      [] tool = "hello" -> Schema({}, {"name"})

Advertised == [tool \in TOOL_HANDLERS |-> InputSchema(tool)]

=============================================================================
