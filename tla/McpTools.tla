------------------------------ MODULE McpTools ------------------------------
(***************************************************************************)
(* The MCP endpoint at work: a JSON-RPC message is routed (mcp/server.py), *)
(* a tool call is logged and guarded (mcp/core.py), its handler looks up   *)
(* what the arguments name and sends its requests to W-space, which may    *)
(* serve, refuse or lose each of them.                                     *)
(*                                                                         *)
(* Calls run as coroutines of one loop: they interleave at their awaits,   *)
(* which are the lookups and the requests.  A lookup that needs no request *)
(* is a step as well; it reads nothing another call writes.                *)
(***************************************************************************)
EXTENDS ToolSchemas, FuzzyMatch

CONSTANTS
    Slots,          \* bounds the messages of a behaviour
    Workloads,      \* what it may start from: the messages to arrive, the names
                    \* in W-space, and whether the database takes writes
    Projects,       \* W-space's projects, as it lists them
    RoomsOf,        \* project -> its rooms, as it lists them
    PeopleOf,       \* project -> its users, people and bots, as it lists them
    Bots,           \* the users that are bots
    PageSize,       \* how many users W-space lists at once
    MaxRestarts     \* bounds the restarts of the process

ASSUME WorkloadAssumption ==
    \A w \in Workloads : DOMAIN w.messages = Slots /\ w.database \in {"up", "down"}

ASSUME PageAssumption == PageSize \in Nat \ {0}

ASSUME RestartAssumption == MaxRestarts \in Nat

\* What W-space can list, in the order in which it does
Records ==
    Range(Projects) \cup UNION {Range(RoomsOf[p]) : p \in DOMAIN RoomsOf}
      \cup UNION {Range(PeopleOf[p]) : p \in DOMAIN PeopleOf}

ASSUME RecordAssumption ==
    /\ None \notin Records
    /\ \A w \in Workloads : \A r \in Records : w.names[r] \in DOMAIN Normal

ASSUME ListAssumption ==
    /\ Projects \in Seq(Records)
    /\ \A p \in DOMAIN RoomsOf : RoomsOf[p] \in Seq(Records)
    /\ \A p \in DOMAIN PeopleOf : PeopleOf[p] \in Seq(Records)

\* A call stands for the id of the message it creates. W-space answers a creation with
\* it: the handler takes it from the answer without asking whether it is there
ASSUME SlotAssumption == None \notin Slots

\* What is given is given: null is a name not given, and no file or flag is null
ASSUME GivenAssumption ==
    /\ None \notin {"file", "true", "false"}
    /\ \A w \in Workloads, s \in Slots :
          \A name \in DOMAIN w.messages[s].args : w.messages[s].args[name] # None

VARIABLES
    message,        \* slot -> the message to arrive
    phase,          \* slot -> "new", "working" or "done"
    todo,           \* slot -> the lookups its handler has left
    target,         \* slot -> what was looked up
    sent,           \* slot -> how many requests were sent
    served,         \* slot -> how many of them W-space has served
    wire,           \* slot -> where the last of them is: "idle", "sent", "served"
    doubt,          \* slot -> whether a lost one may still be served
    answer,         \* slot -> what the agent was told
    trail,          \* slot -> the rows it left in the bridge's database
    names,          \* record -> its name in W-space
    database,       \* whether the bridge's database takes writes: "up", "down"
    restarts        \* how often the process has been restarted

vars == << message, phase, todo, target, sent, served, wire, doubt, answer, trail, names,
           database, restarts >>

world == <<message, names, database, restarts>>

-----------------------------------------------------------------------------
(* Messages                                                                *)

Unknown == [project |-> None, room |-> None, user |-> None, file |-> None, message |-> None]

NoRows == [log |-> <<>>, tool |-> 0, api |-> 0]

\* What a message that is no well-formed tool call is answered, in the order
\* of the checks: a notification has no id, and none of these is an error to it
RpcAnswer(m) ==
    CASE m.method = "not json" -> "parse error"
      [] m.method \in {"not an object", "no method"} -> "invalid request"
      [] m.method \notin {"not json", "not an object", "no method"} /\ m.params = "not an object" ->
             "invalid params"
      [] m.params # "not an object" /\ m.method \in {"initialize", "ping", "tools/list"} -> "result"
      [] m.params # "not an object" /\ m.method \in {"notifications/initialized", "initialized"} ->
             IF m.id THEN "result" ELSE "nothing"
      [] m.params # "not an object" /\ m.method = "tools/call" -> "invalid params"
      [] OTHER -> IF m.id THEN "method not found" ELSE "nothing"

IsToolCall(m) ==
    /\ m.method = "tools/call"
    /\ m.params = "object"
    /\ m.tool # None

Tool(s) == message[s].tool

Args(s) == message[s].args

Requests(s) == Plan(Tool(s), Args(s), target[s])

Current(s) == Requests(s)[sent[s]]

-----------------------------------------------------------------------------
(* The end of a call: the answer, and the rows written first.  What cannot *)
(* be written is dropped without a word.                                   *)

\* Mutant: the row of the call log is not written in a finally
WrittenIfGood(s, error, tool, api) ==
    [ trail EXCEPT ![s] = [ log |-> IF error THEN @.log ELSE Append(@.log, "ok"),
                            tool |-> @.tool + tool, api |-> @.api + api ] ]

Written(s, error, tool, api) ==
    IF database = "up"
    THEN [ trail EXCEPT ![s] = [ log |-> Append(@.log, IF error THEN "error" ELSE "ok"),
                                 tool |-> @.tool + tool, api |-> @.api + api ] ]
    ELSE trail

Ends(s, result) ==
    /\ phase' = [phase EXCEPT ![s] = "done"]
    /\ answer' = [answer EXCEPT ![s] = result]
    /\ todo' = [todo EXCEPT ![s] = <<>>]
    /\ wire' = [wire EXCEPT ![s] = "idle"]
    /\ UNCHANGED <<target, sent, world>>

Succeeds(s) ==
    /\ Ends(s, "ok")
    /\ trail' = Written(s, FALSE, 0, 0)

\* An exception of the handler; api counts the row of a failed request
Raises(s, api) ==
    /\ Ends(s, "error")
    /\ trail' = Written(s, TRUE, 1, api)

-----------------------------------------------------------------------------
(* handle_mcp_request and call_tool                                        *)

AnswerMessage(s) ==
    /\ phase[s] = "new"
    /\ ~IsToolCall(message[s])
    /\ Ends(s, RpcAnswer(message[s]))
    /\ UNCHANGED <<served, doubt, trail>>

UnknownTool(s) ==
    /\ phase[s] = "new"
    /\ IsToolCall(message[s])
    /\ Tool(s) \notin TOOL_HANDLERS
    /\ Ends(s, "error")
    /\ trail' = Written(s, TRUE, 0, 0)
    /\ UNCHANGED <<served, doubt>>

\* Python misses a parameter: nothing of the handler runs
MissesParameter(s) ==
    /\ phase[s] = "new"
    /\ IsToolCall(message[s])
    /\ Tool(s) \in TOOL_HANDLERS
    /\ ~Binds(Tool(s), Args(s))
    /\ Raises(s, 0)
    /\ UNCHANGED <<served, doubt>>

CallTool(s) ==
    /\ phase[s] = "new"
    /\ IsToolCall(message[s])
    /\ Tool(s) \in TOOL_HANDLERS
    /\ Binds(Tool(s), Args(s))
    /\ phase' = [phase EXCEPT ![s] = "working"]
    /\ todo' = [todo EXCEPT ![s] = LookupSteps(Tool(s), Args(s))]
    /\ UNCHANGED <<target, sent, served, wire, doubt, answer, trail, world>>

-----------------------------------------------------------------------------
(* The lookups.  None stands for nothing found, or nothing asked for.      *)

\* The records an id or a name stands for, the id first; a name is matched with
\* those of the records that W-space answers with
ById(args, id, name, records, answers) ==
    IF Has(args, id) THEN {args[id]}
    ELSE IF Has(args, name) THEN {PickBestMatch(args[name], records, listed, names) : listed \in answers}
    ELSE {None}

PickProject(args) == ById(args, "project_id", "project_name", Projects, {Range(Projects)})

Rooms(project) == IF project \in DOMAIN RoomsOf THEN RoomsOf[project] ELSE <<>>

\* A search finds at least the rooms that have the text for a name; when it finds
\* none, or fails, all rooms of the project are listed
RoomAnswers(project, text) ==
    LET rooms == Range(Rooms(project))
        named == {r \in rooms : names[r] = text}
    IN {hits \in SUBSET rooms : named \subseteq hits /\ hits # {}} \cup {rooms}

PickRoom(args, project) ==
    ById(args, "room_id", "room_name", Rooms(project), RoomAnswers(project, args["room_name"]))

Least(a, b) == IF a <= b THEN a ELSE b

\* The first page of a project's users
People(project) ==
    IF project \in DOMAIN PeopleOf
    THEN SubSeq(PeopleOf[project], 1, Least(PageSize, Len(PeopleOf[project]))) ELSE <<>>

PickUser(args, project) ==
    ById(args, "user_id", "user_name", People(project), {Range(People(project))})

PickBot(args, project) == ById(args, "bot_id", "bot_name", People(project), {Bots})

PickSender(args, project) ==
    IF HasAny(args, {"user_id", "user_name"}) THEN PickUser(args, project) ELSE PickBot(args, project)

\* A path or a URL, not both
PickFile(args) ==
    CASE {"attachment_path", "attachment_url"} \subseteq DOMAIN args -> {}
      [] ~HasAny(args, {"attachment_path", "attachment_url"}) -> {None}
      [] OTHER -> {"file"}

Found(s) ==
    LET args == Args(s)
        project == target[s].project
    IN CASE Head(todo[s]) = "project" -> PickProject(args)
         [] Head(todo[s]) = "room" -> PickRoom(args, project)
         [] Head(todo[s]) = "user" -> PickUser(args, project)
         [] Head(todo[s]) = "sender" -> PickSender(args, project)
         [] Head(todo[s]) = "file" -> PickFile(args)

\* A project that nothing names is none, and an attachment may be missing
MayBeNone(s) ==
    \/ Head(todo[s]) = "project" /\ ~ProjectNamed(Args(s))
    \/ Head(todo[s]) = "file"

FieldOf(step) == IF step \in {"user", "sender"} THEN "user" ELSE step

LookUp(s) ==
    /\ phase[s] = "working"
    /\ todo[s] # <<>>
    /\ \E found \in Found(s) :
          /\ found # None \/ MayBeNone(s)
          /\ target' = [target EXCEPT ![s][FieldOf(Head(todo[s]))] = found]
    /\ todo' = [todo EXCEPT ![s] = Tail(@)]
    /\ UNCHANGED <<phase, sent, served, wire, doubt, answer, trail, world>>

\* Mutant: the handler waits until something is found
WaitsForName(s) == FALSE

\* Nothing is close enough, nothing was named, or no project to look in
FindsNothing(s) ==
    /\ phase[s] = "working"
    /\ todo[s] # <<>>
    /\ None \in Found(s) /\ ~MayBeNone(s)
    /\ Raises(s, 0)
    /\ UNCHANGED <<served, doubt>>

\* No file at the path, or both a path and a URL
HasNoFile(s) ==
    /\ phase[s] = "working"
    /\ todo[s] # <<>>
    /\ Head(todo[s]) = "file" /\ Has(Args(s), "attachment_path")
    /\ Raises(s, 0)
    /\ UNCHANGED <<served, doubt>>

\* Whether the step needs a request of its own
AsksFor(s) ==
    LET asks(id, name) == Has(Args(s), name) /\ ~Has(Args(s), id)
        inProject == target[s].project # None
    IN CASE Head(todo[s]) = "project" -> asks("project_id", "project_name")
         [] Head(todo[s]) = "room" -> inProject /\ asks("room_id", "room_name")
         [] Head(todo[s]) = "user" -> inProject /\ asks("user_id", "user_name")
         [] Head(todo[s]) = "sender" ->
                /\ inProject /\ ~Has(Args(s), "user_id")
                /\ asks("user_id", "user_name") \/ asks("bot_id", "bot_name")
         [] Head(todo[s]) = "file" -> asks("attachment_path", "attachment_url")

\* A failed search is swallowed, and all rooms are listed. A row tells of it unless the
\* answer was no JSON, which is no HTTP error
SearchFails(s) ==
    /\ phase[s] = "working"
    /\ todo[s] # <<>>
    /\ Head(todo[s]) = "room" /\ AsksFor(s)
    /\ LET rooms == Rooms(target[s].project)
           found == PickBestMatch(Args(s)["room_name"], rooms, Range(rooms), names)
       IN /\ found # None
          /\ target' = [target EXCEPT ![s].room = found]
    /\ \E api \in {0, 1} :
          trail' = IF database = "up" THEN [trail EXCEPT ![s].api = @ + api] ELSE trail
    /\ todo' = [todo EXCEPT ![s] = Tail(@)]
    /\ UNCHANGED <<phase, sent, served, wire, doubt, answer, world>>

\* The request of a lookup fails: a list, or the fetch of an attachment. Of a list that
\* is no JSON, or a URL that is none, no row tells
LookupFails(s) ==
    /\ phase[s] = "working"
    /\ todo[s] # <<>>
    /\ AsksFor(s)
    /\ \E api \in {0, 1} : Raises(s, api)
    /\ UNCHANGED <<served, doubt>>

-----------------------------------------------------------------------------
(* The requests                                                            *)

\* Everything is looked up and nothing is under way
Ready(s) == phase[s] = "working" /\ todo[s] = <<>> /\ wire[s] = "idle"

\* Python does not know a parameter of the client's function
CannotCall(s) ==
    sent[s] < Len(Requests(s)) /\ Requests(s)[sent[s] + 1].verb = TypeErrorVerb

RefusesCall(s) ==
    /\ Ready(s)
    /\ Refuses(Tool(s), Args(s), target[s]) \/ CannotCall(s)
    /\ Raises(s, 0)
    /\ UNCHANGED <<served, doubt>>

\* A tool that asks for nothing answers at once
NeedsNothing(s) ==
    /\ Ready(s)
    /\ Requests(s) = <<>>
    /\ Succeeds(s)
    /\ UNCHANGED <<served, doubt>>

\* Mutant: the agent is answered before W-space has
SendAndForget(s) ==
    /\ Ready(s)
    /\ sent[s] < Len(Requests(s))
    /\ sent' = [sent EXCEPT ![s] = @ + 1]
    /\ wire' = [wire EXCEPT ![s] = "sent"]
    /\ phase' = [phase EXCEPT ![s] = "done"]
    /\ answer' = [answer EXCEPT ![s] = "ok"]
    /\ trail' = Written(s, FALSE, 0, 0)
    /\ UNCHANGED <<todo, target, served, doubt, world>>

SendRequest(s) ==
    /\ Ready(s)
    /\ ~Refuses(Tool(s), Args(s), target[s])
    /\ sent[s] < Len(Requests(s)) /\ ~CannotCall(s)
    /\ sent' = [sent EXCEPT ![s] = @ + 1]
    /\ wire' = [wire EXCEPT ![s] = "sent"]
    /\ UNCHANGED <<phase, todo, target, served, doubt, answer, trail, world>>

\* Below no project there is nothing to serve
Addressed(request) == request.on \in ProjectScoped => request.project # None

Serve(s) ==
    /\ wire[s] = "sent"
    /\ Addressed(Current(s))
    /\ served' = [served EXCEPT ![s] = @ + 1]
    /\ wire' = [wire EXCEPT ![s] = "served"]
    /\ UNCHANGED <<phase, todo, target, sent, doubt, answer, trail, world>>

Refuse(s) ==
    /\ wire[s] = "sent"
    /\ Raises(s, 1)
    /\ UNCHANGED <<served, doubt>>

\* Mutant: a request that got no answer is sent again
LoseAndRetry(s) ==
    /\ wire[s] \in {"sent", "served"}
    /\ sent[s] = served[s]
    /\ wire' = [wire EXCEPT ![s] = "sent"]
    /\ UNCHANGED <<phase, todo, target, sent, served, doubt, answer, trail, world>>

\* The connection breaks or the timeout passes, before or after it is served
Lose(s) ==
    /\ wire[s] \in {"sent", "served"}
    /\ Raises(s, 1)
    /\ doubt' = [doubt EXCEPT ![s] = wire[s] = "sent" /\ IsWrite(Current(s))]
    /\ UNCHANGED served

\* W-space names the message it created after the call
Reply(s) ==
    /\ wire[s] = "served"
    /\ sent[s] < Len(Requests(s))
    /\ target' = [target EXCEPT ![s].message = s]
    /\ wire' = [wire EXCEPT ![s] = "idle"]
    /\ UNCHANGED <<phase, todo, sent, served, doubt, answer, trail, world>>

\* Mutant: the first answer is taken for the last
FirstReply(s) ==
    /\ wire[s] = "served"
    /\ Succeeds(s)
    /\ UNCHANGED <<served, doubt>>

LastReply(s) ==
    /\ wire[s] = "served"
    /\ sent[s] = Len(Requests(s))
    /\ Succeeds(s)
    /\ UNCHANGED <<served, doubt>>

\* The answer is no JSON, or is empty where the handler reads an id of it:
\* neither is an HTTP error, so no row tells of the request
ReplyUnreadable(s) ==
    /\ wire[s] = "served"
    /\ Raises(s, 0)
    /\ UNCHANGED <<served, doubt>>

ServeLate(s) ==
    /\ doubt[s]
    /\ Addressed(Current(s))
    /\ doubt' = [doubt EXCEPT ![s] = FALSE]
    /\ served' = [served EXCEPT ![s] = @ + 1]
    /\ UNCHANGED <<message, phase, todo, target, sent, wire, answer, trail, names, database, restarts>>

-----------------------------------------------------------------------------
(* The process                                                             *)

\* Every call under way is cut off; no row tells of it
Restart ==
    /\ restarts < MaxRestarts
    /\ restarts' = restarts + 1
    /\ phase' = [s \in Slots |-> IF phase[s] = "working" THEN "done" ELSE phase[s]]
    /\ answer' = [s \in Slots |-> IF phase[s] = "working" THEN "cut off" ELSE answer[s]]
    /\ doubt' = [s \in Slots |-> doubt[s] \/ (wire[s] = "sent" /\ IsWrite(Current(s)))]
    /\ todo' = [s \in Slots |-> <<>>]
    /\ wire' = [s \in Slots |-> "idle"]
    /\ UNCHANGED <<message, target, sent, served, trail, names, database>>

Init ==
    /\ \E w \in Workloads :
          message = w.messages /\ names = w.names /\ database = w.database
    /\ restarts = 0
    /\ phase = [s \in Slots |-> "new"]
    /\ todo = [s \in Slots |-> <<>>]
    /\ target = [s \in Slots |-> Unknown]
    /\ sent = [s \in Slots |-> 0]
    /\ served = [s \in Slots |-> 0]
    /\ wire = [s \in Slots |-> "idle"]
    /\ doubt = [s \in Slots |-> FALSE]
    /\ answer = [s \in Slots |-> "none"]
    /\ trail = [s \in Slots |-> NoRows]

Step(s) ==
    \/ AnswerMessage(s) \/ UnknownTool(s) \/ MissesParameter(s) \/ CallTool(s)
    \/ LookUp(s) \/ FindsNothing(s) \/ HasNoFile(s) \/ SearchFails(s) \/ LookupFails(s)
    \/ RefusesCall(s) \/ NeedsNothing(s) \/ SendRequest(s)
    \/ Serve(s) \/ Refuse(s) \/ Lose(s) \/ Reply(s) \/ LastReply(s) \/ ReplyUnreadable(s)

Next ==
    \/ \E s \in Slots : Step(s) \/ ServeLate(s)
    \/ Restart

\* Every await of a handler ends: a request ends with its timeout
Spec == Init /\ [][Next]_vars /\ \A s \in Slots : WF_vars(Step(s))

-----------------------------------------------------------------------------
(* Properties                                                              *)

\* Type correctness, with what can be counted on about the counters: only the
\* last request can be unserved, and one in doubt belongs to a call that ended
TypeOK ==
    /\ database \in {"up", "down"} /\ restarts \in 0 .. MaxRestarts
    /\ phase \in [Slots -> {"new", "working", "done"}]
    /\ sent \in [Slots -> Nat] /\ served \in [Slots -> Nat]
    /\ wire \in [Slots -> {"idle", "sent", "served"}]
    /\ doubt \in [Slots -> BOOLEAN]
    /\ \A s \in Slots :
          /\ phase[s] = "done" <=> answer[s] # "none"
          /\ served[s] \in {sent[s], sent[s] - 1}
          /\ wire[s] # "idle" => phase[s] = "working"
          /\ wire[s] = "sent" => served[s] = sent[s] - 1
          /\ phase[s] # "done" /\ wire[s] # "sent" => served[s] = sent[s]
          /\ doubt[s] => phase[s] = "done" /\ served[s] = sent[s] - 1

\* The agent's view of a call
Verdict ==
    [s \in Slots |-> IF phase[s] # "done" THEN "open"
                     ELSE IF answer[s] \in {"ok", "result", "nothing"} THEN "succeeded" ELSE "failed"]

Promise == INSTANCE ToolPromise WITH Calls <- Slots, verdict <- Verdict, done <- served, owed <- doubt

\* The calls keep the promise of ToolPromise: one request of a call is served after
\* the other and none twice, a success leaves nothing open, and a failure or a
\* restart at most the one request that was lost (mcp/core.py:105, _client.py:89)
CallPromise == Promise!PromiseSpec

\* A call answered as a success has had every one of its requests served: the
\* message and the approval request of add_approve_request_with_message, say
SuccessIsDone ==
    \A s \in Slots : IsToolCall(message[s]) /\ answer[s] = "ok" => served[s] = Len(Requests(s))

\* While the database takes writes, an answered tool call has left one row in the
\* call log that agrees with its answer and, if its handler failed, one exception;
\* if a write may still be served, a row of the API tells which (core.py:141)
TrailAgrees ==
    \A s \in Slots :
        IsToolCall(message[s]) /\ database = "up" /\ answer[s] \in {"ok", "error"} =>
            /\ trail[s].log = <<answer[s]>>
            /\ trail[s].tool = IF answer[s] = "error" /\ Tool(s) \in TOOL_HANDLERS THEN 1 ELSE 0
            /\ doubt[s] => trail[s].api > 0

\* The approval request of add_approve_request_with_message is made only once its
\* message is there, names it, and is in the message's room (tools.py:2107)
ApprovalFollowsMessage ==
    \A s \in Slots :
        IsToolCall(message[s]) /\ sent[s] = 2 =>
            LET post == Requests(s)[1]
                approval == Requests(s)[2]
            IN /\ served[s] >= 1
               /\ post.on = "messages" /\ approval.on = "approval_requests"
               /\ approval.fields["message_id"] = s
               /\ approval.room = post.room /\ approval.project = post.project

Calling(s) ==
    IsToolCall(message[s]) /\ phase[s] # "new" /\ Tool(s) \in TOOL_HANDLERS /\ Binds(Tool(s), Args(s))

Sent(s) == SubSeq(Requests(s), 1, sent[s])

ItemIds ==
    {f.id : f \in Families} \cup {"attention_item_id", "period_id", "message_id", "approval_request_id"}

DeleteTools ==
    {f.delete : f \in Families} \cup {"delete_loading_message", "delete_approval_request"}

Conforms(s) ==
    /\ IsToolCall(message[s]) /\ Tool(s) \in TOOL_HANDLERS
    /\ Advertised[Tool(s)].required \subseteq DOMAIN Args(s)
    /\ DOMAIN Args(s) \subseteq Advertised[Tool(s)].props

\* Something is deleted exactly when a delete tool is called, or a hub with delete
\* set and an id; it is the one with that id, and nothing is written beside it.  Of a
\* call that keeps to the schema, that is: an id the tool does not know is ignored
DeletesWhatItIsTold ==
    \A s \in Slots :
        Conforms(s) /\ Calling(s) =>
            LET args == Args(s)
                asked == \/ Tool(s) \in DeleteTools
                         \/ /\ Has(args, "delete") /\ CoerceBool(args["delete"]) = "true"
                            /\ HasAny(args, ItemIds)
            IN \A r \in Range(Sent(s)) :
                  /\ r.verb = "DELETE" <=> asked
                  /\ asked => \E id \in ItemIds : Has(args, id) /\ r.id = args[id]

\* A call that keeps to the tool's advertised input schema never fails because
\* Python misses or does not know a parameter (tools.py:2490 and the handlers)
AcceptsWhatItAdvertises ==
    \A s \in Slots :
        Conforms(s) =>
            /\ Binds(Tool(s), Args(s))
            /\ Calling(s) /\ Ready(s) => ~CannotCall(s)

\* Where an argument of a call is found in a request
Arrived(args, name, r) ==
    LET value == Coerced(args)[name]
        field(f) == IF f \in DOMAIN r.fields THEN r.fields[f] ELSE None
    IN \/ field(name) = value
       \/ name = "body" /\ field("body") = LoadingBody(args)
       \/ name = "project_id" /\ r.project = value
       \/ name = "room_id" /\ r.room = value
       \/ name \in {"user_id", "bot_id"} /\ field("user_id") = value
       \/ name \in ItemIds /\ r.id = value
       \/ name \in AttachmentProps /\ r.file # None

IsHub(tool) == tool \in FamilyTools /\ tool = FamilyOf[tool].hub

\* Arguments that only say what to look up, to list or to do, and those another one
\* overrides; an attention item without a project also loses its room and its user
Consumed(tool, args) ==
    {"project_name", "room_name", "user_name", "bot_name", "delete"} \cup PaginationProps
      \cup (IF HasAny(args, {"user_id", "user_name"}) THEN {"bot_id"} ELSE {})
      \cup (IF tool \in AttentionTools /\ ~ProjectNamed(args) THEN {"room_id", "user_id"} ELSE {})
      \cup (IF IsHub(tool) THEN FamilyOf[tool].filters ELSE {})

\* What an agent gives a tool to write, by the names its schema advertises, is in
\* what W-space is sent: no handler drops an argument on the way (tools.py:2490)
ArgumentsArrive ==
    \A s \in Slots :
        /\ Conforms(s) /\ answer[s] = "ok"
        /\ \E r \in Range(Sent(s)) : r.verb \in {"POST", "PATCH"}
        => \A name \in DOMAIN Args(s) \ Consumed(Tool(s), Args(s)) :
              \E r \in Range(Sent(s)) : Arrived(Args(s), name, r)

\* The name the next lookup goes by, and the records it is meant for
NamedIn(s) ==
    LET args == Args(s)
    IN CASE Head(todo[s]) = "project" -> [text |-> args["project_name"], of |-> Range(Projects)]
         [] Head(todo[s]) = "room" ->
                [text |-> args["room_name"], of |-> Range(Rooms(target[s].project))]
         [] Head(todo[s]) \in {"user", "sender"} /\ Has(args, "user_name") ->
                [text |-> args["user_name"], of |-> Range(People(target[s].project))]
         [] Head(todo[s]) = "sender" /\ ~Has(args, "user_name") ->
                [text |-> args["bot_name"], of |-> Range(People(target[s].project)) \cap Bots]

\* When a record bears exactly the name given, a lookup succeeds, and what it finds
\* bears a name of the same words, whatever the others are called and however the
\* search answers; for people, within the page that is read (mcp/helpers.py:56)
ExactNameWins ==
    \A s \in Slots :
        /\ phase[s] = "working" /\ todo[s] # <<>>
        /\ Head(todo[s]) \in {"project", "room", "user", "sender"} /\ AsksFor(s)
        => LET named == NamedIn(s)
           IN /\ Normal[named.text] # Blank
              /\ \E e \in named.of : names[e] = named.text
              => \A found \in Found(s) : found # None /\ SameWords(named.text, names[found])

\* Every message is dealt with, if only by a restart: a lookup or a request that W-space
\* never answers ends with the timeout of the client (_client.py:27)
EveryCallAnswered == \A s \in Slots : <>(phase[s] = "done")

=============================================================================
