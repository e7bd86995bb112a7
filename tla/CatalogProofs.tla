---------------------------- MODULE CatalogProofs ----------------------------
(***************************************************************************)
(* Proofs about the tables of ToolCatalog, ToolSchemas and SpaceApi, for   *)
(* every combination of arguments: what the handlers ask W-space for is    *)
(* what its client knows, and what the agent was told.                     *)
(***************************************************************************)
EXTENDS ToolTargetProofs, SequenceTheorems

-----------------------------------------------------------------------------
(* The families, one after the other *)

LEMMA NamesOfFamilies ==
  /\ MilestoneTools.delete = "delete_project_milestone" /\ MilestoneTools.id = "milestone_id"
  /\ BottleneckTools.delete = "delete_project_bottleneck" /\ BottleneckTools.id = "bottleneck_id"
  /\ TodoTools.delete = "delete_project_todo" /\ TodoTools.id = "todo_id"
  /\ KnowledgeTools.delete = "delete_project_knowledge_item" /\ KnowledgeTools.id = "item_id"
  /\ AdrTools.delete = "delete_project_decision_record" /\ AdrTools.id = "decision_record_id"
  /\ TakeawayTools.delete = "delete_project_all_hands_takeaway" /\ TakeawayTools.id = "takeaway_id"
  /\ ActionItemTools.delete = "delete_project_all_hands_action_item" /\ ActionItemTools.id = "action_item_id"
  /\ DecisionTools.delete = "delete_project_all_hands_decision" /\ DecisionTools.id = "decision_id"
  /\ AssetTools.delete = "delete_external_knowledge_asset" /\ AssetTools.id = "asset_id"
  /\ ActivityTools.delete = "delete_knowledge_activity_log" /\ ActivityTools.id = "activity_id"
  /\ DirectoryTools.delete = "delete_tree_based_project_directory_item" /\ DirectoryTools.id = "item_id"
  /\ SummaryTools.delete = "delete_knowledge_summary_item" /\ SummaryTools.id = "item_id"
  /\ NoteTools.delete = "delete_project_obsidian_note" /\ NoteTools.id = "note_id"
  BY DEF Family, MilestoneTools, BottleneckTools, TodoTools, KnowledgeTools, AdrTools, TakeawayTools,
         ActionItemTools, DecisionTools, AssetTools, ActivityTools, DirectoryTools,
         SummaryTools, NoteTools

LEMMA DeleteToolNames ==
  DeleteTools = { "delete_project_milestone", "delete_project_bottleneck",
                  "delete_project_todo", "delete_project_knowledge_item",
                  "delete_project_decision_record", "delete_project_all_hands_takeaway",
                  "delete_project_all_hands_action_item", "delete_project_all_hands_decision",
                  "delete_external_knowledge_asset", "delete_knowledge_activity_log",
                  "delete_tree_based_project_directory_item", "delete_knowledge_summary_item",
                  "delete_project_obsidian_note",
                  "delete_loading_message", "delete_approval_request" }
<1>1. {f.delete : f \in Families} = { MilestoneTools.delete, BottleneckTools.delete,
                                         TodoTools.delete, KnowledgeTools.delete,
                                         AdrTools.delete, TakeawayTools.delete,
                                         ActionItemTools.delete, DecisionTools.delete,
                                         AssetTools.delete, ActivityTools.delete,
                                         DirectoryTools.delete, SummaryTools.delete,
                                         NoteTools.delete }
  BY DEF Families
<1> DEFINE names13 == { "delete_project_milestone", "delete_project_bottleneck",
                         "delete_project_todo", "delete_project_knowledge_item",
                         "delete_project_decision_record", "delete_project_all_hands_takeaway",
                         "delete_project_all_hands_action_item", "delete_project_all_hands_decision",
                         "delete_external_knowledge_asset", "delete_knowledge_activity_log",
                         "delete_tree_based_project_directory_item", "delete_knowledge_summary_item",
                         "delete_project_obsidian_note" }
<1>2. { MilestoneTools.delete, BottleneckTools.delete,
       TodoTools.delete, KnowledgeTools.delete,
       AdrTools.delete, TakeawayTools.delete,
       ActionItemTools.delete, DecisionTools.delete,
       AssetTools.delete, ActivityTools.delete,
       DirectoryTools.delete, SummaryTools.delete,
       NoteTools.delete } = names13
  BY NamesOfFamilies
<1> HIDE DEF names13
<1>3. DeleteTools = names13 \cup {"delete_loading_message", "delete_approval_request"}
  BY <1>1, <1>2 DEF DeleteTools
<1> QED
  BY <1>3 DEF names13

LEMMA ItemIdNames ==
  ItemIds = { "milestone_id", "bottleneck_id", "todo_id", "item_id", "decision_record_id",
              "takeaway_id", "action_item_id", "decision_id", "asset_id", "activity_id",
              "note_id",
              "attention_item_id", "period_id", "message_id", "approval_request_id" }
<1>1. {f.id : f \in Families} = { MilestoneTools.id, BottleneckTools.id, TodoTools.id,
                                     KnowledgeTools.id, AdrTools.id, TakeawayTools.id,
                                     ActionItemTools.id, DecisionTools.id, AssetTools.id,
                                     ActivityTools.id, DirectoryTools.id, SummaryTools.id,
                                     NoteTools.id }
  BY DEF Families
<1> QED
  BY <1>1, NamesOfFamilies DEF ItemIds

Others ==
    AttentionTools \cup PeriodTools \cup StatusCategories \cup SendingTools \cup LoadingEdits
      \cup ApprovalTools \cup {"hello"}

LEMMA AttentionNames ==
  /\ DOMAIN AttentionAdds =
        { "add_decisions_waiting", "add_blockers", "add_outcomes_review", "add_mentions",
          "add_material_changes", "add_ai_confirm", "add_knowledge_proposals" }
  /\ DOMAIN AttentionEdits =
        { "edit_decisions_waiting", "edit_blockers", "edit_outcomes_review", "edit_mentions",
          "edit_material_changes", "edit_ai_confirm", "edit_knowledge_proposals" }
  BY DEF AttentionAdds, AttentionEdits

\* A family asks of its collection only what the client's functions declare, its schemas
\* require what Python does, and only its hub knows "delete", beside the one id
Consistent(f) ==
    /\ f.filters \cup Paging \subseteq f.collection.filters
    /\ f.fields \subseteq f.collection.creates
    /\ f.fields \cup f.changes \subseteq f.collection.updates
    /\ f.hub \notin {f.add, f.edit, f.delete} /\ f.add \notin {f.edit, f.delete} /\ f.edit # f.delete
    /\ FamilySchemas[f.hub].hub.required = {}
    /\ FamilySchemas[f.hub].add.required = f.key
    /\ FamilySchemas[f.hub].edit.required = {f.id}
    /\ FamilySchemas[f.hub].delete.required = {f.id}
    /\ FamilySchemas[f.hub].hub.props \cap ItemIds = {f.id}
    /\ "delete" \notin FamilySchemas[f.hub].add.props
    /\ "delete" \notin FamilySchemas[f.hub].edit.props
    /\ {f.hub, f.add, f.edit} \cap DeleteTools = {}
    /\ f.delete \in DeleteTools
    /\ ToolsOf(f) \cap Others = {}

LEMMA MilestoneConsistent == Consistent(MilestoneTools)
  BY DeleteToolNames, ItemIdNames, AttentionNames, SMTT(60)
  DEF Consistent, ToolsOf, Others, AttentionTools, AttentionCategories, PeriodTools, StatusCategories,
      SendingTools, LoadingEdits, ApprovalTools, MilestoneTools, Family, Milestones, Collection, Paging, Dated, FamilySchemas,
      MilestoneSchemas, CrudSchemas, Schemas, Schema, ProjectIdProps, PaginationProps,
      AttachmentProps

LEMMA BottleneckConsistent == Consistent(BottleneckTools)
  BY DeleteToolNames, ItemIdNames, AttentionNames, SMTT(60)
  DEF Consistent, ToolsOf, Others, AttentionTools, AttentionCategories, PeriodTools, StatusCategories,
      SendingTools, LoadingEdits, ApprovalTools, BottleneckTools, Family, Bottlenecks, Collection, Paging, Dated,
      FamilySchemas, BottleneckSchemas, CrudSchemas, Schemas, Schema, ProjectIdProps,
      PaginationProps, AttachmentProps

LEMMA TodoConsistent == Consistent(TodoTools)
  BY DeleteToolNames, ItemIdNames, AttentionNames, SMTT(60)
  DEF Consistent, ToolsOf, Others, AttentionTools, AttentionCategories, PeriodTools, StatusCategories,
      SendingTools, LoadingEdits, ApprovalTools, TodoTools, Family, Todos, Collection, Paging, Dated, FamilySchemas,
      TodoSchemas, CrudSchemas, Schemas, Schema, ProjectIdProps, PaginationProps,
      AttachmentProps

LEMMA KnowledgeConsistent == Consistent(KnowledgeTools)
  BY DeleteToolNames, ItemIdNames, AttentionNames, SMTT(60)
  DEF Consistent, ToolsOf, Others, AttentionTools, AttentionCategories, PeriodTools, StatusCategories,
      SendingTools, LoadingEdits, ApprovalTools, KnowledgeTools, Family, KnowledgeItems, Collection, Paging, Dated,
      FamilySchemas, KnowledgeSchemas, CrudSchemas, Schemas, Schema, ProjectIdProps,
      PaginationProps, AttachmentProps

LEMMA AdrConsistent == Consistent(AdrTools)
  BY DeleteToolNames, ItemIdNames, AttentionNames, SMTT(60)
  DEF Consistent, ToolsOf, Others, AttentionTools, AttentionCategories, PeriodTools, StatusCategories,
      SendingTools, LoadingEdits, ApprovalTools, AdrTools, Family, Adrs, Collection, Paging, Dated, FamilySchemas, AdrSchemas,
      CrudSchemas, Schemas, Schema, ProjectIdProps, PaginationProps, AttachmentProps

LEMMA TakeawayConsistent == Consistent(TakeawayTools)
  BY DeleteToolNames, ItemIdNames, AttentionNames, SMTT(60)
  DEF Consistent, ToolsOf, Others, AttentionTools, AttentionCategories, PeriodTools, StatusCategories,
      SendingTools, LoadingEdits, ApprovalTools, TakeawayTools, Family, Takeaways, Collection, Paging, Dated, FamilySchemas,
      TakeawaySchemas, CrudSchemas, Schemas, Schema, ProjectIdProps, PaginationProps,
      AttachmentProps

LEMMA ActionItemConsistent == Consistent(ActionItemTools)
  BY DeleteToolNames, ItemIdNames, AttentionNames, SMTT(60)
  DEF Consistent, ToolsOf, Others, AttentionTools, AttentionCategories, PeriodTools, StatusCategories,
      SendingTools, LoadingEdits, ApprovalTools, ActionItemTools, Family, ActionItems, Collection, Paging, Dated,
      FamilySchemas, ActionItemSchemas, CrudSchemas, Schemas, Schema, ProjectIdProps,
      PaginationProps, AttachmentProps

LEMMA DecisionConsistent == Consistent(DecisionTools)
  BY DeleteToolNames, ItemIdNames, AttentionNames, SMTT(60)
  DEF Consistent, ToolsOf, Others, AttentionTools, AttentionCategories, PeriodTools, StatusCategories,
      SendingTools, LoadingEdits, ApprovalTools, DecisionTools, Family, AllHandsDecisions, Collection, Paging, Dated,
      FamilySchemas, DecisionSchemas, CrudSchemas, Schemas, Schema, ProjectIdProps,
      PaginationProps, AttachmentProps

LEMMA AssetConsistent == Consistent(AssetTools)
  BY DeleteToolNames, ItemIdNames, AttentionNames, SMTT(60)
  DEF Consistent, ToolsOf, Others, AttentionTools, AttentionCategories, PeriodTools, StatusCategories,
      SendingTools, LoadingEdits, ApprovalTools, AssetTools, Family, ExternalAssets, Collection, Paging, Dated, FamilySchemas,
      AssetSchemas, CrudSchemas, Schemas, Schema, ProjectIdProps, PaginationProps,
      AttachmentProps

LEMMA ActivityConsistent == Consistent(ActivityTools)
  BY DeleteToolNames, ItemIdNames, AttentionNames, SMTT(60)
  DEF Consistent, ToolsOf, Others, AttentionTools, AttentionCategories, PeriodTools, StatusCategories,
      SendingTools, LoadingEdits, ApprovalTools, ActivityTools, Family, KnowledgeActivities, Collection, Paging, Dated,
      FamilySchemas, ActivitySchemas, CrudSchemas, Schemas, Schema, ProjectIdProps,
      PaginationProps, AttachmentProps

LEMMA DirectoryConsistent == Consistent(DirectoryTools)
  BY DeleteToolNames, ItemIdNames, AttentionNames, SMTT(60)
  DEF Consistent, ToolsOf, Others, AttentionTools, AttentionCategories, PeriodTools, StatusCategories,
      SendingTools, LoadingEdits, ApprovalTools, DirectoryTools, Family, DirectoryItems, Collection, Paging, Dated,
      FamilySchemas, DirectorySchemas, CrudSchemas, Schemas, Schema, ProjectIdProps,
      PaginationProps, AttachmentProps

LEMMA SummaryConsistent == Consistent(SummaryTools)
  BY DeleteToolNames, ItemIdNames, AttentionNames, SMTT(60)
  DEF Consistent, ToolsOf, Others, AttentionTools, AttentionCategories, PeriodTools, StatusCategories,
      SendingTools, LoadingEdits, ApprovalTools, SummaryTools, Family, KnowledgeItems, Collection, Paging, Dated,
      FamilySchemas, SummarySchemas, CrudSchemas, Schemas, Schema, ProjectIdProps,
      PaginationProps, AttachmentProps

LEMMA NoteConsistent == Consistent(NoteTools)
  BY DeleteToolNames, ItemIdNames, AttentionNames, SMTT(60)
  DEF Consistent, ToolsOf, Others, AttentionTools, AttentionCategories, PeriodTools, StatusCategories,
      SendingTools, LoadingEdits, ApprovalTools, NoteTools, Family, ObsidianNotes, Collection, Paging, Dated, FamilySchemas,
      NoteSchemas, CrudSchemas, Schemas, Schema, ProjectIdProps, PaginationProps,
      AttachmentProps

LEMMA FamiliesConsistent ==
  \A f \in Families : Consistent(f)
  BY MilestoneConsistent, BottleneckConsistent, TodoConsistent, KnowledgeConsistent,
     AdrConsistent, TakeawayConsistent, ActionItemConsistent, DecisionConsistent,
     AssetConsistent, ActivityConsistent, DirectoryConsistent, SummaryConsistent, NoteConsistent
  DEF Families

-----------------------------------------------------------------------------
(* The verb of a request: what the client declares is sent *)

Verbs == {"GET", "POST", "PATCH", "DELETE"}

LEMMA ListVerb ==
  ASSUME NEW c, NEW place, NEW passed, NEW args, passed \subseteq c.filters
  PROVE  ListOf(c, place, passed, args).verb = "GET"
  BY DEF ListOf, Call, Request

LEMMA GetVerb ==
  ASSUME NEW c, NEW place, NEW id
  PROVE  GetOf(c, place, id).verb = "GET"
  BY DEF GetOf, Call, Request

LEMMA CreateVerb ==
  ASSUME NEW c, NEW place, NEW passed, NEW args, NEW file, passed \subseteq c.creates
  PROVE  CreateOf(c, place, passed, args, file).verb = "POST"
  BY DEF CreateOf, Call, Request

LEMMA UpdateVerb ==
  ASSUME NEW c, NEW place, NEW id, NEW passed, NEW args, NEW file, passed \subseteq c.updates
  PROVE  UpdateOf(c, place, id, passed, args, file).verb = "PATCH"
  BY DEF UpdateOf, Call, Request

LEMMA DeleteVerb ==
  ASSUME NEW c, NEW place, NEW id
  PROVE  DeleteOf(c, place, id).verb = "DELETE" /\ DeleteOf(c, place, id).id = id
  BY DEF DeleteOf, Call, Request

LEMMA FamilyOfTool ==
  ASSUME NEW tool \in FamilyTools
  PROVE  /\ FamilyOf[tool] \in Families /\ tool \in ToolsOf(FamilyOf[tool])
         /\ tool \notin Others
<1>1. \E f \in Families : tool \in ToolsOf(f)
  BY DEF FamilyTools
<1>2. FamilyOf[tool] = CHOOSE f \in Families : tool \in ToolsOf(f)
  BY DEF FamilyOf
<1>3. tool \notin Others
  BY <1>1, FamiliesConsistent DEF Consistent
<1> QED
  BY <1>1, <1>2, <1>3

\* What the agent was told of a call, and whether it asks to delete
Told(tool, args) ==
    /\ InputSchema(tool).required \subseteq DOMAIN args
    /\ DOMAIN args \subseteq InputSchema(tool).props

Asked(tool, args) ==
    \/ tool \in DeleteTools
    \/ Truthy(args, "delete") /\ HasAny(args, ItemIds)

\* What a request r of a call does: it is known to the client, and when the call keeps
\* to its schema it deletes what was asked for and nothing else
Obeys(r, tool, args) ==
    /\ r.verb \in Verbs
    /\ Told(tool, args) =>
          /\ r.verb = "DELETE" <=> Asked(tool, args)
          /\ r.verb = "DELETE" => \E id \in ItemIds : Has(args, id) /\ r.id = args[id]

LEMMA Undeleting ==
  ASSUME NEW r, NEW tool, NEW args, r.verb \in {"GET", "POST", "PATCH"},
         tool \notin DeleteTools,
         Told(tool, args) => ~Truthy(args, "delete") \/ ~HasAny(args, ItemIds)
  PROVE  Obeys(r, tool, args)
  BY DEF Obeys, Verbs, Asked

LEMMA Deleting ==
  ASSUME NEW r, NEW tool, NEW args, NEW id \in ItemIds,
         r.verb = "DELETE", r.id = args[id],
         Told(tool, args) => Has(args, id) /\ (tool \in DeleteTools \/ Truthy(args, "delete"))
  PROVE  Obeys(r, tool, args)
  BY DEF Obeys, Verbs, Asked, HasAny, Has

LEMMA FamilyObeys ==
  ASSUME NEW tool \in FamilyTools, NEW args, NEW t
  PROVE  Obeys(FamilyRequest(FamilyOf[tool], tool, args, t), tool, args)
<1> DEFINE f == FamilyOf[tool]
           r == FamilyRequest(f, tool, args, t)
           all == FamilySchemas[f.hub]
<1> SUFFICES Obeys(r, tool, args)
  OBVIOUS
<1>1. f \in Families /\ tool \in {f.hub, f.add, f.edit, f.delete}
  BY FamilyOfTool DEF ToolsOf
<1>2. Consistent(f)
  BY <1>1, FamiliesConsistent
<1>3. f.id \in ItemIds
  BY <1>1 DEF ItemIds
<1>4. InputSchema(tool) = FamilySchema(tool)
  BY FamilyOfTool DEF InputSchema, Others, AttentionTools
<1>5. FamilySchema(tool) = CASE tool = f.hub -> all.hub  []  tool = f.add -> all.add
                             [] tool = f.edit -> all.edit  []  tool = f.delete -> all.delete
  BY DEF FamilySchema
<1> HIDE DEF f, all, r
<1>6. CASE tool = f.hub
  <2>1. r = HubRequest(f, args, t)
    BY <1>2, <1>6 DEF r, FamilyRequest, Consistent
  <2>2. tool \notin DeleteTools
    BY <1>2, <1>6 DEF Consistent
  <2>3. InputSchema(tool) = all.hub
    BY <1>2, <1>4, <1>5, <1>6 DEF Consistent
  <2>4. Told(tool, args) => (HasAny(args, ItemIds) <=> Has(args, f.id))
    BY <1>2, <1>3, <2>3 DEF Told, HasAny, Has, Consistent, all
  <2>5. CASE Truthy(args, "delete") /\ Has(args, f.id)
    <3>1. r = DeleteOf(f.collection, Place(t.project, None), args[f.id])
      BY <2>1, <2>5 DEF HubRequest
    <3>2. r.verb = "DELETE" /\ r.id = args[f.id]
      BY <3>1, DeleteVerb
    <3> QED
      BY <1>3, <2>4, <2>5, <3>2, Deleting
  <2>6. CASE ~(Truthy(args, "delete") /\ Has(args, f.id))
    <3>1. f.filters \cup Paging \subseteq f.collection.filters /\ {} \subseteq f.collection.updates
      BY <1>2 DEF Consistent
    <3>2. r.verb \in {"GET", "POST", "PATCH"}
      BY <2>1, <2>6, <3>1, ListVerb, GetVerb, UpdateVerb DEF HubRequest
    <3> QED
      BY <2>2, <2>4, <2>6, <3>2, Undeleting
  <2> QED
    BY <2>5, <2>6
<1>7. CASE tool = f.add \/ tool = f.edit
  <2>1. r \in {AddRequest(f, args, t), EditRequest(f, args, t)}
    BY <1>2, <1>7 DEF r, FamilyRequest, Consistent
  <2>2. r.verb \in {"GET", "POST", "PATCH"}
    BY <1>2, <2>1, CreateVerb, UpdateVerb DEF AddRequest, EditRequest, Consistent
  <2>3. tool \notin DeleteTools
    BY <1>2, <1>7 DEF Consistent
  <2>4. "delete" \notin InputSchema(tool).props
    BY <1>2, <1>4, <1>5, <1>7 DEF Consistent, all
  <2>5. Told(tool, args) => ~Truthy(args, "delete")
    BY <2>4 DEF Told, Truthy, Has
  <2> QED
    BY <2>2, <2>3, <2>5, Undeleting
<1>8. CASE tool = f.delete
  <2>1. r = DeleteRequest(f, args, t)
    BY <1>2, <1>8 DEF r, FamilyRequest, Consistent
  <2>2. r.verb = "DELETE" /\ r.id = args[f.id]
    BY <2>1, DeleteVerb DEF DeleteRequest
  <2>3. tool \in DeleteTools /\ InputSchema(tool).required = {f.id}
    BY <1>2, <1>4, <1>5, <1>8 DEF Consistent, all
  <2> QED
    <3>1. Told(tool, args) => Has(args, f.id)
      BY <2>3 DEF Told, Has
    <3> QED
      BY <1>3, <2>2, <2>3, <3>1, Deleting
<1> QED
  BY <1>1, <1>6, <1>7, <1>8

-----------------------------------------------------------------------------
(* The other tools, group by group *)

LEMMA AttentionObeys ==
  ASSUME NEW tool \in AttentionTools, NEW args, NEW t
  PROVE  Obeys(ToolRequest(tool, args, t), tool, args)
<1> DEFINE r == ToolRequest(tool, args, t)
<1> SUFFICES Obeys(r, tool, args)
  OBVIOUS
<1>1. tool \notin FamilyTools
  BY FamilyOfTool DEF Others
<1>2. tool \in AttentionCategories \cup DOMAIN AttentionAdds \cup DOMAIN AttentionEdits
  BY DEF AttentionTools
<1>3. /\ tool \notin DeleteTools
      /\ tool \notin PeriodTools \cup StatusCategories \cup SendingTools \cup LoadingEdits
                       \cup ApprovalTools \cup {"hello"}
      /\ tool \in AttentionCategories => tool \notin DOMAIN AttentionAdds \cup DOMAIN AttentionEdits
      /\ tool \in DOMAIN AttentionAdds => tool \notin DOMAIN AttentionEdits
  BY <1>2, DeleteToolNames, AttentionNames
  DEF AttentionCategories, PeriodTools, StatusCategories, SendingTools, LoadingEdits, ApprovalTools
<1>4. \/ r = ListAttention(tool, args, t) /\ InputSchema(tool) = AttentionListSchema(tool)
      \/ r = AddAttention(AttentionAdds[tool], args, t) /\ InputSchema(tool) = AttentionAddSchema
      \/ r = EditAttention(AttentionEdits[tool], args, t) /\ InputSchema(tool) = AttentionEditSchema
  <2>1. CASE tool \in AttentionCategories
    <3>1. r = ListAttention(tool, args, t)
      BY <1>1, <1>3, <2>1 DEF ToolRequest, PeriodTools, SendingTools, LoadingEdits
    <3> QED
      BY <1>1, <1>3, <2>1, <3>1 DEF InputSchema
  <2>2. CASE tool \in DOMAIN AttentionAdds
    <3>1. r = AddAttention(AttentionAdds[tool], args, t)
      BY <1>1, <1>3, <2>2 DEF ToolRequest, PeriodTools, SendingTools, LoadingEdits
    <3> QED
      BY <1>1, <1>3, <2>2, <3>1 DEF InputSchema
  <2>3. CASE tool \in DOMAIN AttentionEdits
    <3>1. r = EditAttention(AttentionEdits[tool], args, t)
      BY <1>1, <1>3, <2>3 DEF ToolRequest, PeriodTools, SendingTools, LoadingEdits
    <3> QED
      BY <1>1, <1>3, <2>3, <3>1 DEF InputSchema
  <2> QED
    BY <1>2, <2>1, <2>2, <2>3
<1> HIDE DEF r
<1>5. r.verb \in {"GET", "POST", "PATCH"}
  <2>1. {"category", "project_id", "room_id", "user_id", "status", "overdue", "ai_confirm"} \cup Paging
           \subseteq AttentionItems.filters
    BY DEF AttentionItems, Collection, Paging
  <2> QED
    BY <1>4, <2>1, ListVerb, CreateVerb, UpdateVerb DEF ListAttention, AddAttention, EditAttention
<1>6. "delete" \notin InputSchema(tool).props
  BY <1>4 DEF AttentionListSchema, AttentionAddSchema, AttentionEditSchema, AttentionItemCommonProps,
              Schema, ProjectIdProps, RoomIdProps, PaginationProps
<1>7. Told(tool, args) => ~Truthy(args, "delete")
  BY <1>6 DEF Told, Truthy, Has
<1> QED
  BY <1>3, <1>5, <1>7, Undeleting

LEMMA PeriodObeys ==
  ASSUME NEW tool \in PeriodTools, NEW args, NEW t
  PROVE  Obeys(ToolRequest(tool, args, t), tool, args)
<1> DEFINE r == ToolRequest(tool, args, t)
<1> SUFFICES Obeys(r, tool, args)
  OBVIOUS
<1>1. tool \notin FamilyTools
  BY FamilyOfTool DEF Others
<1>2. tool \in {"company_status_period", "add_company_status_period", "edit_company_status_period"}
  BY DEF PeriodTools
<1>3. /\ tool \notin DeleteTools
      /\ tool \notin AttentionCategories \cup DOMAIN AttentionAdds \cup DOMAIN AttentionEdits
                       \cup StatusCategories \cup SendingTools \cup LoadingEdits \cup ApprovalTools
  BY <1>2, DeleteToolNames, AttentionNames
  DEF AttentionCategories, StatusCategories, SendingTools, LoadingEdits, ApprovalTools
<1>4. InputSchema(tool) = PeriodSchema(tool)
  BY <1>1, <1>3 DEF InputSchema, PeriodTools
<1>5. r = CASE tool = "company_status_period" -> PeriodRequest(args)
            [] tool = "add_company_status_period" -> AddPeriod(args)
            [] tool = "edit_company_status_period" -> EditPeriod(args)
  BY <1>1, <1>2, <1>3 DEF ToolRequest, SendingTools, LoadingEdits
<1> HIDE DEF r
<1>6. /\ StatusPeriods.creates = PeriodFields /\ StatusPeriods.updates = PeriodFields
      /\ PeriodsByName.filters = {"name"}
  BY DEF StatusPeriods, PeriodsByName, PeriodFields, Collection, Paging
<1>7. CASE tool = "company_status_period" /\ Has(args, "period_id") /\ Truthy(args, "delete")
  <2>1. r = PeriodRequest(args)
    BY <1>5, <1>7
  <2>2. PeriodRequest(args) = DeleteOf(StatusPeriods, Nowhere, args["period_id"])
    BY <1>7, Zenon DEF PeriodRequest, HasAny, Has
  <2> QED
    BY <1>7, <2>1, <2>2, DeleteVerb, Deleting, ItemIdNames
<1>8. CASE tool = "company_status_period" /\ ~(Has(args, "period_id") /\ Truthy(args, "delete"))
  <2>1. r = PeriodRequest(args)
    BY <1>5, <1>8
  <2>2. r.verb \in {"GET", "POST", "PATCH"}
    BY <1>6, <1>8, <2>1, ListVerb, GetVerb, CreateVerb, UpdateVerb DEF PeriodRequest, AddPeriod, EditPeriod
  <2>3. Told(tool, args) => ~Truthy(args, "delete") \/ ~HasAny(args, ItemIds)
    BY <1>4, <1>8, ItemIdNames DEF Told, PeriodSchema, Schema, HasAny, Has
  <2> QED
    BY <1>3, <2>2, <2>3, Undeleting
<1>9. CASE tool \in {"add_company_status_period", "edit_company_status_period"}
  <2>1. r \in {AddPeriod(args), EditPeriod(args)}
    BY <1>5, <1>9
  <2>2. r.verb \in {"GET", "POST", "PATCH"}
    BY <1>6, <2>1, CreateVerb, UpdateVerb DEF AddPeriod, EditPeriod
  <2>3. "delete" \notin InputSchema(tool).props
    BY <1>4, <1>9 DEF PeriodSchema, Schema
  <2>4. Told(tool, args) => ~Truthy(args, "delete")
    BY <2>3 DEF Told, Truthy, Has
  <2> QED
    BY <1>3, <2>2, <2>4, Undeleting
<1> QED
  BY <1>2, <1>7, <1>8, <1>9

LEMMA StatusObeys ==
  ASSUME NEW tool \in StatusCategories, NEW args, NEW t
  PROVE  Obeys(ToolRequest(tool, args, t), tool, args)
<1> DEFINE r == ToolRequest(tool, args, t)
<1> SUFFICES Obeys(r, tool, args)
  OBVIOUS
<1>1. tool \notin FamilyTools
  BY FamilyOfTool DEF Others
<1>2. /\ tool \notin DeleteTools
      /\ tool \notin AttentionCategories \cup DOMAIN AttentionAdds \cup DOMAIN AttentionEdits
                       \cup PeriodTools \cup SendingTools \cup LoadingEdits \cup ApprovalTools
  BY DeleteToolNames, AttentionNames
  DEF AttentionCategories, StatusCategories, PeriodTools, SendingTools, LoadingEdits, ApprovalTools
<1>3. InputSchema(tool) = StatusSchema
  BY <1>1, <1>2 DEF InputSchema, StatusCategories
<1>4. r = StatusRequest(tool, args, t)
  BY <1>1, <1>2 DEF ToolRequest, PeriodTools, SendingTools, LoadingEdits
<1> HIDE DEF r
<1>5. CASE Has(args, "item_id") /\ Truthy(args, "delete")
  <2>1. r = DeleteOf(StatusItems, Nowhere, args["item_id"])
    BY <1>4, <1>5 DEF StatusRequest
  <2> QED
    BY <1>5, <2>1, DeleteVerb, Deleting, ItemIdNames
<1>6. CASE ~(Has(args, "item_id") /\ Truthy(args, "delete"))
  <2>1. { "company_status_period_id", "project_id", "category", "status", "health",
          "badge", "owner_name" } \cup Paging \subseteq StatusItems.filters
    BY DEF StatusItems, Collection, Paging
  <2>2. r.verb \in {"GET", "POST", "PATCH"}
    BY <1>4, <1>6, <2>1, ListVerb, GetVerb, CreateVerb, UpdateVerb DEF StatusRequest
  <2>3. Told(tool, args) => ~Truthy(args, "delete") \/ ~HasAny(args, ItemIds)
    BY <1>3, <1>6, ItemIdNames
    DEF Told, StatusSchema, Schema, ProjectIdProps, PaginationProps, HasAny, Has
  <2> QED
    BY <1>2, <2>2, <2>3, Undeleting
<1> QED
  BY <1>5, <1>6

LEMMA SendingNames ==
  ASSUME NEW tool \in SendingTools
  PROVE  /\ tool \notin FamilyTools /\ tool \notin DeleteTools
         /\ tool \notin AttentionCategories \cup DOMAIN AttentionAdds \cup DOMAIN AttentionEdits
                          \cup StatusCategories \cup PeriodTools \cup LoadingEdits \cup ApprovalTools
                          \cup {"hello"}
         /\ InputSchema(tool) = SendingSchema(tool)
         /\ "delete" \notin InputSchema(tool).props
<1>1. tool \notin FamilyTools
  BY FamilyOfTool DEF Others
<1>2. /\ tool \notin DeleteTools
      /\ tool \notin AttentionCategories \cup DOMAIN AttentionAdds \cup DOMAIN AttentionEdits
                       \cup StatusCategories \cup PeriodTools \cup LoadingEdits \cup ApprovalTools
                       \cup {"hello"}
  BY DeleteToolNames, AttentionNames
  DEF AttentionCategories, StatusCategories, PeriodTools, SendingTools, LoadingEdits, ApprovalTools
<1>3. InputSchema(tool) = SendingSchema(tool)
  BY <1>1, <1>2 DEF InputSchema
<1>4. "delete" \notin SendingSchema(tool).props
  BY DEF SendingTools, SendingSchema, Schema, InRoom, ProjectIdProps, RoomIdProps, SenderProps,
         AttachmentProps
<1> QED
  BY <1>1, <1>2, <1>3, <1>4

LEMMA Untold ==
  ASSUME NEW r, NEW tool, NEW args, r.verb \in {"GET", "POST", "PATCH"},
         tool \notin DeleteTools, "delete" \notin InputSchema(tool).props
  PROVE  Obeys(r, tool, args)
<1>1. Told(tool, args) => ~Truthy(args, "delete")
  BY DEF Told, Truthy, Has
<1> QED
  BY <1>1, Undeleting

LEMMA SendingObeys ==
  ASSUME NEW tool \in SendingTools \ {"add_approve_request_with_message"}, NEW args, NEW t
  PROVE  Obeys(ToolRequest(tool, args, t), tool, args)
<1> DEFINE r == ToolRequest(tool, args, t)
<1> SUFFICES Obeys(r, tool, args)
  OBVIOUS
<1>1. r \in { AddMessage(args, t), AddLoading(args, t), AddAction(args, t), AddDecision(args, t) }
  <2>1. CASE tool = "add_message"
    BY <2>1, SendingNames DEF ToolRequest, SendingTools, PeriodTools, LoadingEdits
  <2>2. CASE tool = "add_loading_message"
    BY <2>2, SendingNames DEF ToolRequest, SendingTools, PeriodTools, LoadingEdits
  <2>3. CASE tool = "add_action_message"
    BY <2>3, SendingNames DEF ToolRequest, SendingTools, PeriodTools, LoadingEdits
  <2>4. CASE tool = "add_decision_message"
    BY <2>4, SendingNames DEF ToolRequest, SendingTools, PeriodTools, LoadingEdits
  <2> QED
    BY <2>1, <2>2, <2>3, <2>4 DEF SendingTools
<1> HIDE DEF r
<1>2. {"user_id", "body"} \subseteq Messages.creates
  BY DEF Messages
<1>3. r.verb = "POST"
  BY <1>1, <1>2, CreateVerb DEF AddMessage, AddLoading, AddAction, AddDecision
<1> QED
  BY <1>3, SendingNames, Untold

LEMMA LoadingObeys ==
  ASSUME NEW tool \in LoadingEdits, NEW args, NEW t
  PROVE  Obeys(ToolRequest(tool, args, t), tool, args)
<1> DEFINE r == ToolRequest(tool, args, t)
<1> SUFFICES Obeys(r, tool, args)
  OBVIOUS
<1>1. tool \notin FamilyTools
  BY FamilyOfTool DEF Others
<1>2. tool \notin AttentionCategories \cup DOMAIN AttentionAdds \cup DOMAIN AttentionEdits
                    \cup StatusCategories \cup PeriodTools \cup SendingTools \cup ApprovalTools
                    \cup {"hello"}
  BY AttentionNames
  DEF AttentionCategories, StatusCategories, PeriodTools, SendingTools, LoadingEdits, ApprovalTools
<1>3. InputSchema(tool) = LoadingEditSchema(tool)
  BY <1>1, <1>2 DEF InputSchema
<1>4. CASE tool = "edit_loading_message"
  <2>1. r = EditLoading(args)
    BY <1>1, <1>2, <1>4 DEF ToolRequest, SendingTools, PeriodTools
  <2>2. r.verb = "PATCH"
    <3>1. {"body"} \subseteq Messages.updates
      BY DEF Messages
    <3> HIDE DEF r
    <3> QED
      BY <2>1, <3>1, UpdateVerb DEF EditLoading
  <2>3. tool \notin DeleteTools
    BY <1>4, DeleteToolNames
  <2>4. "delete" \notin InputSchema(tool).props
    BY <1>3, <1>4 DEF LoadingEditSchema, Schema
  <2> HIDE DEF r
  <2> QED
    BY <2>2, <2>3, <2>4, Untold
<1>5. CASE tool = "delete_loading_message"
  <2>1. r = DeleteOf(Messages, Nowhere, args["message_id"])
    BY <1>1, <1>2, <1>5 DEF ToolRequest, DeleteLoading, SendingTools, PeriodTools
  <2> HIDE DEF r
  <2>2. Told(tool, args) => Has(args, "message_id")
    BY <1>3, <1>5 DEF Told, Has, LoadingEditSchema, Schema
  <2>3. tool \in DeleteTools /\ "message_id" \in ItemIds
    BY <1>5, DeleteToolNames, ItemIdNames
  <2> QED
    BY <2>1, <2>2, <2>3, DeleteVerb, Deleting
<1> QED
  BY <1>4, <1>5 DEF LoadingEdits

LEMMA ApprovalsObey ==
  ASSUME NEW tool \in ApprovalTools, NEW args, NEW t
  PROVE  Obeys(ToolRequest(tool, args, t), tool, args)
<1> DEFINE r == ToolRequest(tool, args, t)
<1> SUFFICES Obeys(r, tool, args)
  OBVIOUS
<1>1. tool \notin FamilyTools
  BY FamilyOfTool DEF Others
<1>2. tool \notin AttentionCategories \cup DOMAIN AttentionAdds \cup DOMAIN AttentionEdits
                    \cup StatusCategories \cup PeriodTools \cup SendingTools \cup LoadingEdits
                    \cup {"hello"}
  BY AttentionNames
  DEF AttentionCategories, StatusCategories, PeriodTools, SendingTools, LoadingEdits, ApprovalTools
<1>3. InputSchema(tool) = ApprovalSchema(tool)
  BY <1>1, <1>2 DEF InputSchema
<1>4. r = ApprovalRequest(tool, args, t)
  BY <1>1, <1>2 DEF ToolRequest, SendingTools, PeriodTools, LoadingEdits
<1> HIDE DEF r
<1>5. CASE tool # "delete_approval_request"
  <2>1. r \in { ListApprovals(args, t), GetApproval(args, t), AddApproval(args, t), EditApproval(args, t) }
    BY <1>4, <1>5 DEF ApprovalTools, ApprovalRequest
  <2>2. Paging \subseteq Approvals.filters
    BY DEF Approvals, Collection
  <2>3. r.verb \in {"GET", "POST", "PATCH"}
    BY <2>1, <2>2, ListVerb, GetVerb, CreateVerb, UpdateVerb
    DEF ListApprovals, GetApproval, AddApproval, EditApproval
  <2>4. tool \notin DeleteTools
    BY <1>5, DeleteToolNames DEF ApprovalTools
  <2>5. "delete" \notin InputSchema(tool).props
    BY <1>3, <1>5
    DEF ApprovalTools, ApprovalSchema, Schema, InRoom, ProjectIdProps, RoomIdProps, PaginationProps
  <2> QED
    BY <2>3, <2>4, <2>5, Untold
<1>6. CASE tool = "delete_approval_request"
  <2>1. r = DeleteOf(Approvals, Place(t.project, t.room), args["approval_request_id"])
    BY <1>4, <1>6 DEF ApprovalRequest, DeleteApproval
  <2>2. Told(tool, args) => Has(args, "approval_request_id")
    BY <1>3, <1>6 DEF Told, Has, ApprovalSchema, Schema
  <2>3. tool \in DeleteTools /\ "approval_request_id" \in ItemIds
    BY <1>6, DeleteToolNames, ItemIdNames
  <2> QED
    BY <2>1, <2>2, <2>3, DeleteVerb, Deleting
<1> QED
  BY <1>5, <1>6

-----------------------------------------------------------------------------
(* Every request of every plan *)

LEMMA ToolObeys ==
  ASSUME NEW tool \in TOOL_HANDLERS \ {"hello", "add_approve_request_with_message"}, NEW args, NEW t
  PROVE  Obeys(ToolRequest(tool, args, t), tool, args)
<1>1. CASE tool \in FamilyTools
  <2>1. ToolRequest(tool, args, t) = FamilyRequest(FamilyOf[tool], tool, args, t)
    BY <1>1, FamilyOfTool
    DEF ToolRequest, Others, AttentionTools, PeriodTools, SendingTools, LoadingEdits
  <2> QED
    BY <1>1, <2>1, FamilyObeys
<1> QED
  BY <1>1, AttentionObeys, PeriodObeys, StatusObeys, SendingObeys, LoadingObeys, ApprovalsObey
  DEF TOOL_HANDLERS

LEMMA PlanObeys ==
  ASSUME NEW tool \in TOOL_HANDLERS, NEW args, NEW t, NEW n \in 1 .. Len(Plan(tool, args, t))
  PROVE  Obeys(Plan(tool, args, t)[n], tool, args)
<1>1. CASE tool = "hello"
  BY <1>1 DEF Plan
<1>2. CASE tool = "add_approve_request_with_message"
  <2>1. tool \in SendingTools
    BY <1>2 DEF SendingTools
  <2> DEFINE first == AddMessage(args, t)
             second == AddApproval(Replaced(args, [message_id |-> t.message]), t)
  <2>2. Plan(tool, args, t) = <<first, second>>
    BY <1>2 DEF Plan, ApprovalOfMessage
  <2>3. {"user_id", "body"} \subseteq Messages.creates
    BY DEF Messages
  <2>4. first.verb = "POST" /\ second.verb = "POST"
    BY <2>3, CreateVerb DEF AddMessage, AddApproval
  <2> HIDE DEF first, second
  <2>5. Plan(tool, args, t)[n] \in {first, second}
    BY <2>2
  <2> QED
    BY <2>1, <2>4, <2>5, SendingNames, Untold
<1>3. CASE tool \notin {"hello", "add_approve_request_with_message"}
  <2> DEFINE r == ToolRequest(tool, args, t)
  <2>1. Plan(tool, args, t) = <<r>>
    BY <1>3 DEF Plan
  <2>2. Obeys(r, tool, args)
    BY <1>3, ToolObeys
  <2> HIDE DEF r
  <2>3. Plan(tool, args, t)[n] = r
    BY <2>1
  <2> QED
    BY <2>2, <2>3
<1> QED
  BY <1>1, <1>2, <1>3

-----------------------------------------------------------------------------
(* What Python requires is what the schemas require *)

LEMMA FamilyParameters ==
  ASSUME NEW tool \in FamilyTools
  PROVE  Parameters(tool) \subseteq InputSchema(tool).required
<1> DEFINE f == FamilyOf[tool]
           all == FamilySchemas[f.hub]
<1>1. f \in Families /\ tool \in {f.hub, f.add, f.edit, f.delete}
  BY FamilyOfTool DEF ToolsOf
<1>2. Consistent(f)
  BY <1>1, FamiliesConsistent
<1>3. InputSchema(tool) = FamilySchema(tool)
  BY FamilyOfTool DEF InputSchema, Others, AttentionTools
<1>4. FamilySchema(tool) = CASE tool = f.hub -> all.hub  []  tool = f.add -> all.add
                             [] tool = f.edit -> all.edit  []  tool = f.delete -> all.delete
  BY DEF FamilySchema
<1>5. Parameters(tool) = CASE tool = f.hub -> {}  []  tool = f.add -> f.key  []  OTHER -> {f.id}
  BY FamilyOfTool DEF Parameters, Others, AttentionTools, PeriodTools, SendingTools, ApprovalTools
<1> HIDE DEF f, all
<1>6. CASE tool = f.hub
  BY <1>2, <1>3, <1>4, <1>5, <1>6 DEF Consistent, all
<1>7. CASE tool = f.add
  BY <1>2, <1>3, <1>4, <1>5, <1>7 DEF Consistent, all
<1>8. CASE tool = f.edit
  BY <1>2, <1>3, <1>4, <1>5, <1>8 DEF Consistent, all
<1>9. CASE tool = f.delete
  BY <1>2, <1>3, <1>4, <1>5, <1>9 DEF Consistent, all
<1> QED
  BY <1>1, <1>6, <1>7, <1>8, <1>9

LEMMA AttentionParameters ==
  ASSUME NEW tool \in DOMAIN AttentionAdds \cup DOMAIN AttentionEdits
  PROVE  Parameters(tool) \subseteq InputSchema(tool).required
<1>1. tool \notin FamilyTools
  BY FamilyOfTool DEF Others, AttentionTools
<1>2. /\ tool \notin AttentionCategories \cup PeriodTools \cup StatusCategories \cup SendingTools
                       \cup LoadingEdits \cup ApprovalTools \cup {"hello"}
      /\ tool \in DOMAIN AttentionAdds => tool \notin DOMAIN AttentionEdits
  BY AttentionNames
  DEF AttentionCategories, PeriodTools, StatusCategories, SendingTools, LoadingEdits, ApprovalTools
<1>3. CASE tool \in DOMAIN AttentionAdds
  <2>1. Parameters(tool) = {"title"}
    BY <1>1, <1>2, <1>3 DEF Parameters, PeriodTools, SendingTools, ApprovalTools
  <2>2. InputSchema(tool) = AttentionAddSchema
    BY <1>1, <1>2, <1>3 DEF InputSchema
  <2> QED
    BY <2>1, <2>2 DEF AttentionAddSchema, Schema
<1>4. CASE tool \in DOMAIN AttentionEdits
  <2>1. Parameters(tool) = {"attention_item_id"}
    BY <1>1, <1>2, <1>4 DEF Parameters, PeriodTools, SendingTools, ApprovalTools
  <2>2. InputSchema(tool) = AttentionEditSchema
    BY <1>1, <1>2, <1>4 DEF InputSchema
  <2> QED
    BY <2>1, <2>2 DEF AttentionEditSchema, Schema
<1> QED
  BY <1>3, <1>4

LEMMA PeriodParameters ==
  ASSUME NEW tool \in PeriodTools
  PROVE  Parameters(tool) \subseteq InputSchema(tool).required
<1>1. tool \notin FamilyTools
  BY FamilyOfTool DEF Others
<1>2. tool \notin AttentionCategories \cup DOMAIN AttentionAdds \cup DOMAIN AttentionEdits
                    \cup StatusCategories \cup SendingTools \cup LoadingEdits \cup ApprovalTools
                    \cup {"hello"}
  BY AttentionNames
  DEF AttentionCategories, PeriodTools, StatusCategories, SendingTools, LoadingEdits, ApprovalTools
<1>3. InputSchema(tool) = PeriodSchema(tool)
  BY <1>1, <1>2 DEF InputSchema
<1>4. Parameters(tool) = CASE tool = "add_company_status_period" -> {"name"}
                           [] tool = "edit_company_status_period" -> {"period_id"}
                           [] OTHER -> {}
  BY <1>1, <1>2 DEF Parameters, PeriodTools, SendingTools, ApprovalTools
<1>5. CASE tool = "add_company_status_period"
  BY <1>3, <1>4, <1>5 DEF PeriodSchema, Schema
<1>6. CASE tool = "edit_company_status_period"
  BY <1>3, <1>4, <1>6 DEF PeriodSchema, Schema
<1>7. CASE tool = "company_status_period"
  BY <1>4, <1>7
<1> QED
  BY <1>5, <1>6, <1>7 DEF PeriodTools

LEMMA RoomParameters ==
  ASSUME NEW tool \in SendingTools \cup LoadingEdits \cup ApprovalTools
  PROVE  Parameters(tool) \subseteq InputSchema(tool).required
<1>1. tool \notin FamilyTools
  BY FamilyOfTool DEF Others
<1>2. tool \notin AttentionCategories \cup DOMAIN AttentionAdds \cup DOMAIN AttentionEdits
                    \cup StatusCategories \cup PeriodTools \cup {"hello"}
  BY AttentionNames
  DEF AttentionCategories, PeriodTools, StatusCategories, SendingTools, LoadingEdits, ApprovalTools
<1>3. CASE tool \in LoadingEdits
  <2>1. tool \notin SendingTools \cup ApprovalTools
    BY <1>3 DEF LoadingEdits, SendingTools, ApprovalTools
  <2>2. Parameters(tool) = {"message_id"}
    BY <1>1, <1>2, <1>3, <2>1 DEF Parameters, PeriodTools, SendingTools, ApprovalTools
  <2>3. InputSchema(tool) = LoadingEditSchema(tool)
    BY <1>1, <1>2, <1>3, <2>1 DEF InputSchema
  <2> QED
    BY <2>2, <2>3 DEF LoadingEditSchema, Schema
<1>4. CASE tool \in SendingTools
  <2>1. tool \notin LoadingEdits \cup ApprovalTools
    BY <1>4 DEF LoadingEdits, SendingTools, ApprovalTools
  <2>2. Parameters(tool) = CASE tool = "add_approve_request_with_message" -> {"body"}
                             [] tool = "add_decision_message" -> {"approval_request_id"}
                             [] OTHER -> {}
    BY <1>1, <1>2, <1>4, <2>1 DEF Parameters, PeriodTools, SendingTools, ApprovalTools
  <2>3. InputSchema(tool) = SendingSchema(tool)
    BY <1>4, SendingNames
  <2> QED
    BY <1>4, <2>2, <2>3 DEF SendingTools, SendingSchema, Schema
<1>5. CASE tool \in ApprovalTools
  <2>1. tool \notin LoadingEdits \cup SendingTools
    BY <1>5 DEF LoadingEdits, SendingTools, ApprovalTools
  <2>2. Parameters(tool) = IF tool \in { "get_approval_request", "edit_approval_request",
                                         "delete_approval_request" }
                           THEN {"approval_request_id"} ELSE {}
    BY <1>1, <1>2, <1>5, <2>1 DEF Parameters, PeriodTools, SendingTools, ApprovalTools
  <2>3. InputSchema(tool) = ApprovalSchema(tool)
    BY <1>1, <1>2, <1>5, <2>1 DEF InputSchema
  <2> QED
    BY <1>5, <2>2, <2>3 DEF ApprovalTools, ApprovalSchema, Schema
<1> QED
  BY <1>3, <1>4, <1>5

LEMMA NoParameters ==
  ASSUME NEW tool \in AttentionCategories \cup StatusCategories \cup {"hello"}
  PROVE  Parameters(tool) = {}
<1>1. tool \notin FamilyTools
  BY FamilyOfTool DEF Others, AttentionTools
<1>2. tool \notin DOMAIN AttentionAdds \cup DOMAIN AttentionEdits \cup PeriodTools \cup SendingTools
                    \cup LoadingEdits \cup ApprovalTools
  BY AttentionNames
  DEF AttentionCategories, PeriodTools, StatusCategories, SendingTools, LoadingEdits, ApprovalTools
<1> QED
  BY <1>1, <1>2 DEF Parameters, PeriodTools, SendingTools, ApprovalTools

LEMMA ToldBinds ==
  ASSUME NEW tool \in TOOL_HANDLERS, NEW args, Told(tool, args)
  PROVE  Binds(tool, args)
<1>1. Parameters(tool) \subseteq InputSchema(tool).required
  BY FamilyParameters, AttentionParameters, PeriodParameters, RoomParameters, NoParameters
  DEF TOOL_HANDLERS, AttentionTools
<1> QED
  BY <1>1 DEF Told, Binds

-----------------------------------------------------------------------------
(* The calls *)

LEMMA ConformsTold ==
  ASSUME NEW s \in Slots, Conforms(s)
  PROVE  Tool(s) \in TOOL_HANDLERS /\ Told(Tool(s), Args(s))
  BY DEF Conforms, Told, Advertised

\* A call that keeps to the schema its tool advertises never fails because Python
\* misses or does not know a parameter: for every tool, whatever the arguments are and
\* whatever is looked up (tools.py:2490 and the handlers, AcceptsWhatItAdvertises)
THEOREM AcceptsCalls ==
  Spec => []AcceptsWhatItAdvertises
<1>1. Calls => AcceptsWhatItAdvertises
  <2> SUFFICES ASSUME Calls, NEW s \in Slots, Conforms(s)
               PROVE  Binds(Tool(s), Args(s)) /\ ~CannotCall(s)
    BY DEF AcceptsWhatItAdvertises
  <2>1. Binds(Tool(s), Args(s))
    BY ConformsTold, ToldBinds
  <2>2. ASSUME CannotCall(s) PROVE FALSE
    <3> DEFINE n == sent[s] + 1
    <3>1. sent[s] \in Nat /\ Len(Requests(s)) \in Nat
      BY PlanLength DEF Calls, TypeOK, Requests
    <3>2. n \in 1 .. Len(Requests(s))
      BY <2>2, <3>1 DEF CannotCall
    <3>3. Obeys(Requests(s)[n], Tool(s), Args(s))
      BY <3>2, ConformsTold, PlanObeys DEF Requests
    <3> QED
      BY <2>2, <3>3 DEF CannotCall, Obeys, Verbs, TypeErrorVerb
  <2> QED
    BY <2>1, <2>2
<1> QED
  BY <1>1, CallsInvariant, PTL

\* What a call has sent so far is part of its plan
LEMMA SentOfPlan ==
  ASSUME NEW s \in Slots, sent[s] \in 0 .. Len(Requests(s)), NEW r \in Range(Sent(s))
  PROVE  \E n \in 1 .. Len(Requests(s)) : r = Requests(s)[n]
<1> DEFINE all == Requests(s)
           part == SubSeq(all, 1, sent[s])
           S == {all[n] : n \in 1 .. Len(all)}
           most == sent[s]
<1>1. Len(all) \in Nat /\ sent[s] \in Int
  BY PlanLength DEF Requests
<1> HIDE DEF all
<1>2. \A i \in 1 .. most : all[i] \in S
  BY <1>1 DEF all
<1>3. 1 \in Int /\ most \in Int
  BY <1>1
<1> HIDE DEF S, most
<1>4. SubSeq(all, 1, most) \in Seq(S)
  BY <1>2, <1>3, SubSeqProperties
<1>5. part \in Seq(S)
  BY <1>4 DEF most
<1> HIDE DEF part
<1>6. PICK i \in DOMAIN part : r = part[i]
  BY DEF Range, Sent, part, all
<1>7. r \in S
  BY <1>5, <1>6
<1> QED
  BY <1>7 DEF S, all

\* A call that keeps to its tool's schema deletes exactly when it is told to, and then
\* the item whose id it was given: for every tool and whatever the arguments are, also
\* for the ids only some of the tools know (DeletesWhatItIsTold)
THEOREM DeletesAsTold ==
  Spec => []DeletesWhatItIsTold
<1>1. Calls /\ MessageKnown => DeletesWhatItIsTold
  <2> SUFFICES ASSUME Calls, MessageKnown, NEW s \in Slots, Conforms(s), NEW r \in Range(Sent(s))
               PROVE  /\ r.verb = "DELETE" <=> Asked(Tool(s), Args(s))
                      /\ Asked(Tool(s), Args(s)) =>
                            \E id \in ItemIds : Has(Args(s), id) /\ r.id = Args(s)[id]
    BY DEF DeletesWhatItIsTold, Asked, Truthy
  <2>1. sent[s] \in 0 .. Len(Requests(s))
    BY PlanLength DEF Calls, TypeOK, MessageKnown, Requests
  <2>2. PICK n \in 1 .. Len(Requests(s)) : r = Requests(s)[n]
    BY <2>1, SentOfPlan
  <2>3. Obeys(r, Tool(s), Args(s))
    BY <2>2, ConformsTold, PlanObeys DEF Requests
  <2> QED
    BY <2>3, ConformsTold DEF Obeys
<1> QED
  BY <1>1, CallsInvariant, KnownInvariant, PTL

=============================================================================
