----------------------------- MODULE MCMcpTools -----------------------------
(***************************************************************************)
(* Instances of McpTools for TLC: two projects, three rooms, three users   *)
(* of whom one is a bot and one is on the second page, and six names.      *)
(***************************************************************************)
EXTENDS McpTools, TLC

CONSTANTS c1, c2

MCProjects == <<"p1", "p2">>
MCRoomsOf == [p1 |-> <<"r1", "r2">>, p2 |-> <<"r3">>]
MCPeopleOf == [p1 |-> <<"u1", "b1", "u2">>, p2 |-> <<>>]
MCBots == {"b1"}

-----------------------------------------------------------------------------
(* Names.  Ratios are those of Python's SequenceMatcher                    *)

Review == "design review"
Swapped == "review design"
NoLetters == ""

MCNormal ==
    "Design Review" :> Review @@ "Design-Review" :> Review @@ "Review Design" :> Swapped
      @@ "Design" :> "design" @@ "Ops" :> "ops" @@ "???" :> NoLetters

Normals == Range(MCNormal) \ {NoLetters}

MCWordsOf == Review :> {"design", "review"} @@ Swapped :> {"design", "review"}
               @@ "design" :> {"design"} @@ "ops" :> {"ops"} @@ NoLetters :> {}

MCContains == [n \in Normals |-> IF n \in {Review, Swapped} THEN {n, "design"} ELSE {n}]

MCRatio ==
    [pair \in Normals \X Normals |->
        CASE pair[1] = pair[2] -> 999
          [] pair[1] # pair[2] /\ pair \in {Review, Swapped} \X {Review, Swapped} -> 461
          [] pair = <<"design", "ops">> \/ pair = <<"ops", "design">> -> 222
          [] "design" \in Range(pair) /\ Range(pair) \cap {Review, Swapped} # {} -> 631
          [] OTHER -> 125]

Naming(p1, p2, r1, r2, r3, u1, b1, u2) ==
    [p1 |-> p1, p2 |-> p2, r1 |-> r1, r2 |-> r2, r3 |-> r3, u1 |-> u1, b1 |-> b1, u2 |-> u2]

Plain == Naming("Design", "Ops", "Design", "Ops", "Design", "Design", "Ops", "???")
Alike == Naming("Design-Review", "Design Review", "Design", "Design Review", "Ops",
                "Design", "Design Review", "Review Design")
Mixed == Naming("Review Design", "Design Review", "Review Design", "Design-Review", "???",
                "Design Review", "Review Design", "Design")

-----------------------------------------------------------------------------
(* Messages                                                                *)

Rpc(method, params, id) == [method |-> method, params |-> params, id |-> id, tool |-> None, args |-> NoFields]

ToolCall(tool, args) ==
    [method |-> "tools/call", params |-> "object", id |-> TRUE, tool |-> tool, args |-> args]

Ping == Rpc("ping", "object", FALSE)

OtherMessages ==
    {Rpc(m, p, id) :
        m \in { "not json", "not an object", "no method", "initialize", "initialized", "tools/list",
                "tools/call", "resources/list" },
        p \in {"object", "not an object"}, id \in BOOLEAN}

Value(name) ==
    CASE name \in Flags -> "true"
      [] name = "project_id" -> "p1"
      [] name = "room_id" -> "r1"
      [] name = "user_id" -> "u1"
      [] name = "bot_id" -> "b1"
      [] name \in {"project_name", "room_name", "user_name", "bot_name"} -> "Design Review"
      [] OTHER -> name

With(given) == [name \in given |-> Value(name)]

\* What a tool needs beside the required arguments to get through its lookups
Needs(tool) ==
    CASE tool \in FamilyTools -> {"project_id"}
      [] tool \in SendingTools -> {"project_id", "room_id", "user_id"}
      [] tool \in ApprovalTools -> {"project_id", "room_id"}
      [] OTHER -> {}

\* The tools that tell by their arguments what to do
Versatile == {f.hub : f \in Families} \cup StatusCategories \cup {"company_status_period"}

\* Every tool with each of its arguments, the versatile ones with each two of them
CatalogCalls ==
    UNION { LET schema == Advertised[tool]
            IN {ToolCall(tool, With(Needs(tool) \cup schema.required \cup some)) :
                    some \in {{a, b} : a \in schema.props,
                                       b \in IF tool \in Versatile THEN schema.props ELSE schema.required}
                             \cup {{a} : a \in schema.props}}
            : tool \in TOOL_HANDLERS }

\* A flag that says no
DeniedCalls ==
    {ToolCall(f.hub, With({"project_id", f.id}) @@ ("delete" :> "no")) : f \in Families}

\* A hub that is given an item, a file for it, and something to list by
FilingCalls ==
    {ToolCall(f.hub, With({"project_id", f.id, "attachment_url"} \cup f.filters)) : f \in Families}

\* What a call may lack, or name
MissingCalls ==
    { ToolCall("no_such_tool", NoFields), ToolCall("add_blockers", NoFields),
      ToolCall("add_message", With({"room_id", "body"})),
      ToolCall("add_message", With({"project_id", "body", "user_id"})),
      ToolCall("add_message", With({"room_id", "user_name", "body"})),
      ToolCall("risks", With({"title"})) }

NamingCalls ==
    {ToolCall(tool, With(extra) @@ (place :> name) @@ (who :> name)) :
        tool \in {"add_message", "add_approve_request_with_message"},
        extra \in {{"project_id", "body"}, {"project_name", "body"}},
        place \in {"room_name"}, who \in {"user_name", "bot_name"},
        name \in DOMAIN MCNormal}
    \cup
    {ToolCall(tool, With(extra) @@ ("room_name" :> name)) :
        tool \in {"decisions_waiting", "approval_requests"},
        extra \in {{"project_id"}, {"project_name", "user_name"}, {}},
        name \in DOMAIN MCNormal}

Pairs ==
    { <<ToolCall("add_approve_request_with_message", With({"project_id", "room_id", "user_id", "body"})),
        ToolCall("add_loading_message", With({"room_id", "bot_id"}))>>,
      <<ToolCall("delete_project_todo", With({"project_id", "todo_id"})),
        ToolCall("edit_project_todo", With({"project_id", "todo_id", "title"}))>> }

-----------------------------------------------------------------------------

Start(first, second, naming, db) ==
    [messages |-> (c1 :> first @@ c2 :> second), names |-> naming, database |-> db]

MCWorkloads ==
    {Start(m, Ping, Plain, "up") : m \in CatalogCalls \cup DeniedCalls \cup FilingCalls \cup MissingCalls \cup OtherMessages}
    \cup {Start(m, Ping, naming, "up") : m \in NamingCalls, naming \in {Plain, Alike, Mixed}}
    \cup {Start(pair[1], pair[2], Plain, db) : pair \in Pairs, db \in {"up", "down"}}

=============================================================================
