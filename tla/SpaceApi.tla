------------------------------ MODULE SpaceApi ------------------------------
(***************************************************************************)
(* The client of the Rails "W-space" API: what each function of space/api  *)
(* puts on the wire.  There is one table per collection of the API and one *)
(* operator per verb; a value that was not given (None) is never sent.     *)
(*                                                                         *)
(* A request is a record                                                   *)
(*   verb     the HTTP method, or TypeErrorVerb: Python refused the call   *)
(*   on       the collection of the path                                   *)
(*   project  its /projects/<p> segment, or None                           *)
(*   room     its /rooms/<r> segment, or None                              *)
(*   id       its last segment: an item, a named view, or None             *)
(*   fields   the query or the body, by name                               *)
(*   file     the uploaded file of a multipart body, or None               *)
(***************************************************************************)
EXTENDS FiniteSets, Functions

CONSTANT None       \* Python's None: a parameter or a segment not given

TypeErrorVerb == "TypeError"

Request(verb, on, project, room, id, fields, file) ==
    [ verb |-> verb, on |-> on, project |-> project, room |-> room,
      id |-> id, fields |-> fields, file |-> file ]

\* The part of a call's arguments that was given, among the names asked for
Given(args, names) == Restrict(args, names \cap DOMAIN args)

NoFields == [name \in {} |-> None]

Writes == {"POST", "PATCH", "DELETE"}

IsWrite(request) == request.verb \in Writes

-----------------------------------------------------------------------------
(* The collections: the fields of a create and of an update, the filters   *)
(* of a list, and whether a file can be uploaded                           *)

Paging == {"page", "per_page"}

Dated == { "created_at_gt", "created_at_gte", "created_at_lt", "created_at_lte", "from",
           "starts_at", "start_date", "to", "ends_at", "end_date" }

Collection(on, fields, filters) ==
    [ on |-> on, creates |-> fields, updates |-> fields,
      filters |-> filters \cup Paging, uploads |-> FALSE ]

Milestones ==
    Collection("project_milestones", {"title", "description", "icon", "active", "position"},
               Dated \cup {"active"})

\* Mutant: not even an update can resolve one
UnresolvableBottlenecks ==
    Collection("project_bottlenecks", {"title", "description", "severity", "position", "resolved_at"},
               Dated \cup {"active", "severity"})

\* Only an update can resolve a bottleneck
Bottlenecks ==
    LET fields == {"title", "description", "severity", "position", "resolved_at"}
    IN [ Collection("project_bottlenecks", fields, Dated \cup {"active", "severity"})
           EXCEPT !.updates = fields \cup {"resolved"} ]

Todos ==
    Collection("project_todos", {"title", "meta_text", "completed", "completed_at", "position"},
               Dated \cup {"completed", "active"})

KnowledgeItems ==
    Collection("knowledge_items", {"title", "description", "badge", "active", "position"}, {"active"})

Takeaways ==
    Collection("project_all_hands_takeaways", {"category", "content", "active", "position"}, {"active"})

AllHandsDecisions ==
    Collection("project_all_hands_decisions",
               {"title", "basis", "impact", "badge", "active", "position"}, {"active"})

ActionItems ==
    Collection("project_all_hands_action_items",
               {"title", "assignee_name", "due_date", "completed", "completed_at", "active", "position"},
               {"active"})

Adrs ==
    Collection("adrs", {"identifier", "title", "decision_date", "status", "file_path", "active", "position"},
               {"active"})

ExternalAssets ==
    Collection("external_assets",
               {"title", "url", "doc_type", "icon", "source_type", "meta_text", "active", "position"},
               {"active"})

KnowledgeActivities ==
    Collection("knowledge_activities",
               {"actor_name", "action_text", "actor_color", "target_path", "target_url", "active", "position"},
               {"active"})

DirectoryItems ==
    [ Collection("directory_items",
                 {"name", "item_type", "file_path", "parent_id", "content", "active", "position"},
                 {"active"})
        EXCEPT !.uploads = TRUE ]

ObsidianNotes ==
    [ Collection("obsidian_notes",
                 {"title", "tags", "content", "html_source_type", "html_source_path", "active", "position"},
                 {"active"})
        EXCEPT !.uploads = TRUE ]

AttentionItems ==
    LET fields == { "title", "category", "meta_text", "due_at", "status", "overdue", "project_id",
                    "room_id", "user_id", "source_id", "source_type", "target_id", "target_type",
                    "action_label", "ai_confirm" }
    IN Collection("attention_items", fields, fields \cup {"id", "created_at_gt", "created_at_lt"})

StatusItems ==
    Collection("company_status_items",
               { "company_status_period_id", "title", "category", "status", "health", "badge",
                 "summary", "details", "owner_name", "position", "project_id" },
               { "company_status_period_id", "project_id", "category", "status", "health", "badge",
                 "owner_name", "source_type" })

StatusPeriods ==
    [ Collection("company_status_periods",
                 {"name", "slug", "current", "starts_on", "ends_on", "position"}, {})
        EXCEPT !.filters = {} ]

PeriodsBySlug == [StatusPeriods EXCEPT !.on = "company_status_periods/by_slug"]

PeriodsByName ==
    [StatusPeriods EXCEPT !.on = "company_status_periods/by_name", !.filters = {"name"}]

\* The sender and the body; the path names the room
Messages ==
    [ on |-> "messages", creates |-> {"user_id", "body"}, updates |-> {"body"},
      filters |-> Paging, uploads |-> TRUE ]

Approvals ==
    Collection("approval_requests",
               { "request_type", "status", "message_id", "agent_id", "requested_at", "resolved_at",
                 "resolved_by_id", "payload" }, {})

Actions == Collection("actions", {"user_id", "action_type"}, {})

RoomDecisions == Collection("decisions", {"user_id", "approval_request_id", "decision", "note"}, {})

\* Collections whose path always has a /projects/<p> segment, even for None
ProjectScoped ==
    { c.on : c \in { Milestones, Bottlenecks, Todos, KnowledgeItems, Takeaways, AllHandsDecisions,
                     ActionItems, Adrs, ExternalAssets, KnowledgeActivities, DirectoryItems,
                     ObsidianNotes, RoomDecisions } }

-----------------------------------------------------------------------------
(* One operator per verb.  "passed" are the keyword arguments the caller   *)
(* spells out, given or not; one the function does not declare is refused  *)
(* by Python before anything is sent.                                      *)

Place(project, room) == [project |-> project, room |-> room]

Nowhere == Place(None, None)

Call(verb, collection, declared, place, id, passed, args, file) ==
    Request(IF passed \subseteq declared THEN verb ELSE TypeErrorVerb,
            collection.on, place.project, place.room, id, Given(args, passed), file)

ListOf(collection, place, passed, args) ==
    Call("GET", collection, collection.filters, place, None, passed, args, None)

GetOf(collection, place, id) ==
    Call("GET", collection, {}, place, id, {}, NoFields, None)

CreateOf(collection, place, passed, args, file) ==
    Call("POST", collection, collection.creates, place, None, passed, args, file)

UpdateOf(collection, place, id, passed, args, file) ==
    Call("PATCH", collection, collection.updates, place, id, passed, args, file)

DeleteOf(collection, place, id) ==
    Call("DELETE", collection, {}, place, id, {}, NoFields, None)

=============================================================================
