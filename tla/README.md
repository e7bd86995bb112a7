# A TLA+ verification of W-bridge

W-bridge sits between a Rails chat application ("W-space") and an agent gateway
("Hermes"). Rails posts *space events* to the bridge; the bridge stores them,
groups those that belong to one user action into a *routing unit*, and makes one
Hermes call for each unit. The agents answer by calling the bridge's MCP tools,
which act on W-space through its REST API.

This directory holds TLA+ modules that model the bridge, TLC configurations that
check them on small instances, and proofs checked by TLAPS. `PROJECT.json` is
the index: runs, the source lines of each definition, findings, hazards,
theorems.

To run a configuration or the proofs, in this directory:

    tlc -config SpaceEvents_hazards.cfg MCSpaceEvents
    tlc -config McpTools.cfg MCMcpTools
    tlc -config EventPayload.cfg MCEventPayload
    tlapm SpaceEventsProofs.tla
    tlapm RecoveryProofs.tla
    tlapm CallProofs.tla
    tlapm McpToolsProofs.tla
    tlapm ToolTargetProofs.tla
    tlapm CatalogProofs.tla
    tlapm ArrivalProofs.tla
    tlapm PayloadProofs.tla

## 1. Inventory

| Component | Source | State | Operations | Hard behaviour |
| --- | --- | --- | --- | --- |
| ingest | `main.py` | the two tables | `POST /space_events`: store, claim, mark duplicate or queue | three transactions with a possible crash or failure between any two |
| dedupe | `bus/dedupe.py`, `db/models.py` | tables `space_events`, `space_event_dispatch_groups` | claim, duplicate mark, member resolution, merge window, dispatch and failure record, exactly-once guard, recovery scan, legacy backfill | shared by the event loop and a thread; commits that fail silently; a window read on the wall clock |
| queue, executors | `bus/queues.py`, `bus/executors.py` | in-memory queue, detached tasks | defer, run inline or detached, guard, call, record | rows read before a call and written after it; several calls at once |
| cron | `bus/cron.py` | cron task, recovery task | tick, status gate, drain one item, requeue lost work at start | recovery overlaps the webhooks; everything in memory dies with the process |
| hermes client | `agent/hermes.py`, `agent/hermes_logic.py` | none | requests, streams, sessions, jobs | errors persisted, then raised; no timeout on the dispatch call |
| payload | `bus/dedupe.py`, `bus/executors.py`, `agent/hermes.py` | none of its own | the key of a unit, the merge of its payloads, the search, download and upload of attachments, the summary of the rest | members in any order; a download that fails half way; limits |
| mcp server | `mcp/server.py`, `mcp/core.py`, `db/exception_store.py` | call log, exception log | JSON-RPC routing, `call_tool` | a log row for every call, whatever happens in the handler |
| mcp tools | `mcp/tools.py`, `mcp/helpers.py` | none of their own; Rails' records | 96 tools: list/get/add/edit/delete of some twenty kinds of records, messages, approvals; name resolution | several requests per tool, which can fail half way; names resolved by best fuzzy match |
| space api | `space/api/*` | one shared HTTP client | one function per endpoint | a failed request is recorded on the way to being raised, by callers that may swallow it |
| the rest | `space/schema`, `schemas`, `helpers/environment.py`, `alembic`, `application`, `helpers/upload.py` | - | types, constants, migrations, stubs; `upload.py` is imported by nothing | - |

What each must do:

- **ingest, dedupe, executors, cron** together: one call per unit; no stored
  event forgotten; a call carries every member that arrived in time; a recorded
  outcome is neither invented nor taken back; every unit gets an outcome.
- **payload**: a unit is one message or one fact, and all of it; the payload says
  what any member says, in whatever order they came; no attachment is forgotten
  between the download and the summary.
- **mcp server**: one response per request and none per notification; exactly
  one log row per tool call.
- **mcp tools**: the record that is changed is the one that was named; a success
  means that everything was done, a failure that at most one more thing may be;
  what the schema advertises is accepted and passed on; nothing is deleted that
  was not to be.
- **space api, hermes clients**: an error is recorded once and always raised.
  (`aclose_client` is exported but called by nothing, so no request can meet a
  closed client.)

How they interact: Rails calls ingest; ingest writes the tables and the queue;
cron reads Hermes's status and hands the head of the queue to the executors,
which read and write the tables around the call to Hermes; the recovery task
reads and writes the tables in a thread and ends on the loop by writing the
queue. Hermes's agents call the MCP server, which calls a tool, which calls the
space api. The two halves share only the database engine.

## 2. What is modelled

### `SpaceEvents.tla`: the bus

Ingest, dedupe, executors, cron and recovery interact through the two tables and
the queue so closely that they are one module.

| Variable | In the code |
| --- | --- |
| `rows` | table `space_events`; the index is the row id. `status` is what `_result_status` reads from `result` ("response" for the lead's own answer), `sent` is `sent_date` being set. `early` and `carried` are history |
| `groups` | table `space_event_dispatch_groups` by its UNIQUE key; `absent` is no row |
| `open` | message units whose `created_at` is less than `SPACE_EVENT_MERGE_SETTLE_SECONDS` ago |
| `legacyRecent` | whether dispatches of legacy rows are inside `SPACE_EVENT_LEGACY_DISPATCH_LOOKBACK_SECONDS` |
| `queue` | `space_events_queue` |
| `handler` | the webhook that the loop is in the middle of |
| `cron` | the cron loop: idle, waiting for the status, or in an inline run |
| `tasks` | runs of `run_space_event`, detached or inline |
| `rec` | `_requeue_lost_work` and `pending_dispatch_items` |
| `delivered`, `crashes` | bounds: webhooks sent by Rails, restarts |
| `calls`, `lost`, `refused` | history: Hermes calls of a unit in this process life, dropped events, and the rows whose webhook this process life answered with an error |

An event stands for its payload, its type and its Rails id; `KeyOf` stands for
`build_dedupe_key`, so two events of a unit are two events that `KeyOf` maps to
one key, and a redelivered webhook is the same event again.

**Grain of the steps.** All coroutines share one event loop and suspend only at
an `await` that really waits: the status request, the call to Hermes, the
thread. Putting into the unbounded queue and the synchronous database calls do
not suspend. So among coroutines a segment up to such an `await` is atomic:
`LoopTurns` and `LoopFree` let no other coroutine run while the handler, or a
run between the two queries of its guard, is in the middle of one. The recovery
thread and a crash can come in between any two commits of such a segment, hence
`Persist`, `Claim`, `RecordDuplicateMember` and `Submit` are steps of their own.
Two reads of a coroutine are separate steps where the thread can make them
disagree: the guard reads keyed siblings (`NoDispatchedSibling`) and then
keyless ones (`CallHermes`), and the backfill moves a row from one kind to the
other. The reads of a call's members and the last read of the guard stay in one
step: only the backfill changes the members meanwhile, and moving it before or
after both changes the second query's answer or nothing. The thread is split the
same way: the window, the backfill, and for each row the reads of the row, of
its siblings and of its owner, and each of its writes.

The thread's session keeps loaded rows until one of its commits expires them,
so it decides on `rec.snap`, the rows as of the window query, until `rec.fresh`;
`SeekSibling` caches the row it looks at. Every query is a fresh read of the
database: SQLite, the default, autocommits reads, and PostgreSQL's default
isolation reads what is committed. One object is an exception: a claim that the
scan's session has loaded (`_load_group`) may come from its cache when a later row of
the unit asks for its owner (`Owner`). Its lead never changes, and its status can differ
only if the unit is dispatched in between, by a webhook that overlaps the scan; then a
member is marked through `OwnedByAnother` and not put aside by `SkipDispatchedUnit`, and
no property tells the two apart.

**What can go wrong** is chosen by the constant `Hazards`, so that each run says
which failures its properties survive: a webhook during the recovery scan
(`overlap`), a row that cannot be stored, or is stored but not read back
(`persist`), a claim that fails with another error (`claim`: `ClaimFails` before the
commit or at the conflict's own read; `ClaimUnseen` after it, when `group.id`, which the
commit has expired, is read back - a 500 for a claim that stands), a query of the executors that raises (`read`: before the guard is
through the run just ends; after the call it turns the dispatch into a failure
whose commit also writes the stamps of the dispatch, `RecordRaises`), a commit
that `_commit` swallows (`commit`), a scan that raises (`scan`), rows that
outgrow a window (`age`).
Crashes, failing calls and busy or unreachable status requests are always
possible.

### `RoutingUnit.tla`: the promise

A unit is claimed once; at most one call is under way for it; none starts after
one was dispatched; a failed unit may be tried again. `UnitPromise` in
`SpaceEvents` is its specification under the mapping `phase <- groups[k].status`,
`inflight <- ` "a task is calling for k". The runs `detached` and `inline` show
that the bus implements it when no hazard but a restart occurs; the findings
show which hazards break it.

### `McpTools.tla` and the modules it is built from: the MCP endpoint

The handlers are many and regular, and what a handler asks for is a function of
its arguments. So the data are modules without variables, and the control is one
module over them:

| Module | Stands for |
| --- | --- |
| `SpaceApi` | `space/api`: one table per collection (which fields a create, an update and a list take) and one operator per verb. A request is a record of verb, collection, path, fields and file; a parameter the client's function does not declare makes it a `TypeError` |
| `ToolCatalog` | `mcp/tools.py`, the handlers: which parameters are required, what is looked up and in which order (`LookupSteps`), what is refused, and the requests that are sent (`Plan`). The thirteen kinds of project items are `Family` records, each translated from its own four handlers; attention items, company status, room tools and approval requests are written out |
| `ToolSchemas` | `mcp/tools.py`, `_TOOL_METADATA`: what `tools/list` advertises. Written down from that table alone, so that its agreement with the handlers is something to check |
| `FuzzyMatch` | `mcp/helpers.py`, `_score_fuzzy_match` and `_pick_best_match`. What they read of a text (its normal form, words, parts, similarity) is constant; scores are in thousandths |
| `McpTools` | `mcp/server.py`, `mcp/core.py`, the resolvers, the shared `request` |
| `ToolPromise` | nothing in the code: what an agent may conclude from an answer |

| Variable of `McpTools` | In the code |
| --- | --- |
| `message` | the JSON body of one `POST /mcp`: method, params, tool and arguments |
| `phase` | whether `handle_mcp_request` has been entered, and left |
| `todo`, `target` | the resolvers a handler has still to await, and what they returned |
| `sent`, `wire` | how many requests the handler has awaited, and where the last is |
| `served`, `doubt` | W-space: how many of them it has served; whether one the bridge gave up on may still be |
| `answer` | the JSON-RPC response |
| `trail` | the rows in `McpCallLog`, `McpException` and `ApiException` |
| `names` | what W-space's records are called |
| `database` | whether a commit succeeds; `exception_store` swallows one that does not |
| `restarts` | bound |

Calls are coroutines of one loop, and suspend at each lookup and each request, so
these are the steps; between them a handler touches nothing shared. A request is
a step to send it, a step of W-space to serve or refuse it, and a step to take the
answer; the connection can break before or after it is served (`Lose`), and what
was not served when the bridge gave up may be served later (`ServeLate`). The
row of the call log and the exception row are written in the same segment in which
the answer is decided, so they belong to the step that ends the call. The answer
of a room search is a set of rooms that has at least those of the given name; if
it is empty or the search fails, the code lists all rooms (`RoomAnswers`,
`SearchFails`). Users are searched on the first page only (`People`). A failed lookup leaves an
`ApiException` row if it is an `httpx.HTTPError`, and none if the answer is no JSON: `LookupFails`
and `SearchFails` write one row or none.

An argument is present or absent; null is absent, as the handlers treat it. (Of a *required*
argument that is null Python would say that it is there, and go on with `None`, which `tools.py:1996`
turns into text; no schema allows it, and it is left out.) Values
are opaque but for flags, which may come as words (`CoerceBool`). The 73
aliases (PascalCase names, and `external_assets`) are the tools they stand for; fourteen, such as
`AddBlockers`, are registered as handlers but have no schema in `tools/list`.

`CallPromise` says that the endpoint implements `ToolPromise` under the mapping
`done <- served`, `owed <- doubt`, and the agent's verdict: open until the call is
answered or cut off, then succeeded or failed.

### `EventPayload.tla`: what a dispatch carries

`SpaceEvents` leaves the content of events open. `EventPayload` leaves the life
of a claim open (a claimed unit is started once, at any moment, while webhooks
arrive) and models the content.

| Variable | In the code |
| --- | --- |
| `rows` | table `space_events`, with the payloads |
| `lead` | for each key, the webhook that claimed it: the queued item |
| `run` | for each key, the local variables of `_run_space_event_and_update`: members, merged type and data, attachments found, downloaded and unresolved, and the request |
| `settings` | `HERMES_EVENT_*` |

A payload, a tree of dicts in the code, is a function from the paths in it to what
stands there: a text, a flag, a null, a list of opaque items, or a dict, whose keys are
paths of their own. So `DeepMerge` is one function over the paths of both payloads
where `_deep_merge` is a recursion: a path keeps what the base has unless the overlay
has something there that is not null, or something other than a dict on the way to it.
The dicts inside the items of a list are a constant (`Inside`). That this comes to what
Python's recursion does, for the merge and for the search, is itself a property,
`PathsAreTrees`, against `JsonTrees`, where the recursion is written down as in the code.

`Key` is `build_dedupe_key` (the fingerprint is the data itself: SHA-256 is taken to be
injective), `Overlay` and `MergedData` are `merge_group_events` (rank by rank, and rows of one
rank in the order they were stored), `Attachments` and `Extracts` are
`_extract_event_attachments`. Each attachment is prepared in a step of its own, as
each download is an await; webhooks stored meanwhile are no longer members. Which
attachments fall to the limit depends on the order of JSON keys and is left open. A limit below
one is one: the loop that fills the list looks at it after it has added an attachment (`Limit`).

### The modules around these

| Module | Holds |
| --- | --- |
| `BusInvariants` | the inductive invariants behind those promises of `SpaceEvents` that hold only without some of the hazards. The runs check them, the proofs use them |
| `SpaceEventsProofs`, `RecoveryProofs`, `CallProofs` | theorems about the bus, section 5 |
| `McpToolsProofs`, `ToolTargetProofs`, `CatalogProofs`, `ArrivalProofs` | theorems about the MCP endpoint, section 5 |
| `PayloadProofs` | theorems about the payload, section 5 |
| `JsonTrees` | payloads as nested dicts, with the recursive functions of the code; no theorems |
| `MCSpaceEvents`, `MCMcpTools`, `MCEventPayload` | the values of the constants for TLC |

## 3. Runs

The bus. Every run of this table is of `MCSpaceEvents`. Events: `created`, `asked` and `uploaded` are
the members of one message; `settings` is an event of its own family, without a
merge window; `untyped` has no key.

| Run | Instance | Shows |
| --- | --- | --- |
| `detached` | 4 events once, 2 slots, 1 restart, fair | at most one call per unit and process life (`OneCallPerUnit`), since whatever waits for a unit is its lead row's item (`LeadItems`) and nothing waits once it was called (`CalledOnce`); implements `RoutingUnit`; every unit settles and every row is decided |
| `redelivery` | 2 members twice, 2 slots, 2 restarts, `claim` | no undecided event and no pending claim is ever without something in the process that will serve it, but for a webhook this process life answered with an error (`NothingForgotten`, `ClaimNotSwallowed`); the next recovery would find the lead of every pending claim (`PendingRecoverable`); the invariant that makes it so (`WorkInvariant`); a unit with a sent member has an outcome (`SentIsSettled`) |
| `inline` | 3 events twice, inline, 2 slots, 1 restart | no two runs together although there is room for two (`InlineOK`); no call starts for a unit with a sent member (`NoCallAfterDispatch`); implements `RoutingUnit` |
| `hazards` | 2 members once, 2 slots, 1 restart, all hazards | the merge window's promise, no stamp on hearsay, the finality of a dispatch, the invariant of the proofs |
| `legacy` | two legacy pairs, one waiting and one half routed, a third member and a new unit, each once, 2 slots, 2 restarts, `read`, `claim`, `scan`, `age` | the waiting pair becomes one call, the rest of the other is not routed again while the lookback lasts, and a member that has its key bars a call also after it (`NoCallAfterDispatch`); no row with a unit stays without its key (`KeylessOK`), no row has two items (`CallInvariant`); whatever an item dropped, a claim that raised, a scan that broke off or a crash left behind: a scan that gets through hands over an item of each undecided row of its window (`ScanMissesNothing`) |

Why these bounds are enough to be worth something: two members are what makes a
unit (three where a legacy pair meets a new member); a second unit and a keyless
event are there to compete for the queue and the slots; two slots allow a second
call of a unit while the first is under way; one restart puts the recovery on
every state the first life can leave, and a second puts it on what a cut-off
recovery leaves; two deliveries give two rows with one Rails id. `Slots`, `MaxDeliveries` and
`MaxCrashes` are the only bounds in guards. A task waits in the model for a free
slot where the code would start it at once; the number of slots is therefore
also the largest number of concurrent runs examined. Slots are interchangeable,
so the runs without fairness and with more than one use symmetry.

The server rests when Rails has nothing more to send, so deadlock is not checked
as such; the liveness properties show that it does not rest too early.

**The MCP endpoint.** `mcp_calls` (`MCMcpTools`) starts from one of some 2,100
workloads: each tool with each of its advertised arguments (and each two, for the tools that
choose by their arguments what to do); hubs with `delete` set to "no", and hubs given a file with every filter; messages
of every malformed shape; unknown tools, missing arguments; names that match
exactly, in another order or spelling, in part, or not at all, against three ways
of naming the records; and pairs of writing calls that interleave, with a database
that takes writes or not. There are two projects, three rooms, three users of whom
one is a bot and one is beyond the page, one restart. All arguments of a tool are
independent but for those a handler combines, which is why one or two at a time
are enough; the calls share nothing but W-space, so two at once are enough.
It shows that

- `SuccessIsDone`: a success means every request was served, `CallPromise`: and
  nothing is done twice or after it;
- `TrailAgrees`: the rows agree with the answer; `EveryCallAnswered`: there is one;
- `ApprovalFollowsMessage`: the approval request names the message just created,
  in its room;
- `DeletesWhatItIsTold`, `ArgumentsArrive`, `AcceptsWhatItAdvertises`: schemas,
  handlers and client functions, three hand-written lists, agree, for calls that keep
  to the schema. (A call that does not may give a hub an id it does not know; the
  handler's `**kwargs` takes it and the hub then deletes or lists something else.)
  `ArgumentsArrive` has to except three cases (`Consumed`): an attention item without
  a project loses its room and user, a bot is ignored when a user is given, and a hub
  that is given a file uploads it and drops its filters (`tools.py:1667`);
- `ExactNameWins`: a record that bears the given name exactly is found, or one
  whose name has the same words.

Fairness is weak, for the steps of each call: a runnable coroutine is run, and a
request ends with the client's timeout (`OUTPUT_HTTP_TIMEOUT`). W-space need not
serve anything, and late service is not fair. Calls that are all answered leave
nothing to do, hence `CHECK_DEADLOCK FALSE`.

**The payload.** `payload` (`MCEventPayload`): any sequence of three of six
webhooks, with repetitions - the three events of a message with a file that asks a bot, a
second message of the same action, and two account events that share group, type
and id - under four environments: the defaults, upload with and without download,
and limits of five, one and zero attachments. Three is what a message can have. The three
disagree wherever a merge can go wrong: a dict against a text at one path, a null over
a value and a value over a null, lists with items in common and one item twice, a key that
only one of them has, two links in one dict, the message named in another place by each.

- `CarriesItsUnit`: keys tell apart exactly what is not one message or fact, and a
  dispatch has every row of its unit stored when it started;
- `MergeKeepsAll`: against a definition of its own, by what a payload says rather
  than by how it is merged, the merged payload says exactly what its members say, but for what a
  member of a higher rank says otherwise, whatever the order;
- `AttachmentsReachHermes`: with the fallback on, every link that is not overruled reaches Hermes
  once, up to the limit. A dict that gives several links gives one: the code takes the first of
  `UrlKeys` (`executors.py:20`);
- `PathsAreTrees`: the payload of every dispatch, and the dicts searched for attachments, are those of
  the recursion over nested dicts.

There is no liveness here: a call of Hermes has no timeout by default
(`SPACE_EVENT_HERMES_TIMEOUT`). A dispatched unit rests, hence `CHECK_DEADLOCK FALSE`.
The run also shows a branch nobody may have wanted: with upload on and no file
obtained, `upload_files` is `{}` and not `None`, and Hermes gets the payload as a
form field (`Encoding`, `agent/hermes.py:250`). No statement of the repository
says otherwise, so it is no finding.

**Fairness of the bus** (`FairSpec`, in `detached` only). Weak fairness for the steps of the
handler, of each started task, of the recovery and for the cron's tick: a
runnable coroutine, or the thread, is eventually run. Weak fairness for the end
of a call: an assumption about Hermes, since the code sets no timeout by default.
Weak fairness for the end of a merge window: the clock advances. Strong fairness
for serving the head of the queue: the status request is repeated every tick,
and it answers "not busy" again and again - busy for ever is not refutable by
the code. Arrivals, failures and restarts are not fair. The deferral rotates the
queue; that this starves nobody is what the run checks.

## 4. Findings

Each of these runs checks one property that the repository states and that TLC
finds violated; `PROJECT.json` quotes the statements.

| Run | What happens |
| --- | --- |
| `overlap_twice` | `start_cron` starts the recovery thread and lets webhooks in. A row stored before the scan is queued by its handler and by the recovery, and its unit is called twice |
| `overlap_swallowed` | The recovery claims for a row whose handler has not claimed yet; the handler meets "its own" claim, marks the row as a duplicate; the process stops. The claim is pending for ever and no later recovery serves it |
| `late_member` | A member stored too late for the call is stamped by the next recovery as handled by it |
| `unstored` | An event whose row could not be stored is dropped by the path that is meant not to lose it |
| `guard_race` | The backfill commits between the guard's two queries: the sent legacy sibling is keyless for the first and keyed for the second. Needs a webhook for a unit with a sent legacy member during the scan |

Two more follow from the same causes and have no run of their own. The guard
excludes the drained row from its query (`dedupe.py:349`), so of two items of one
row the second is called for even after the first call was recorded: inline, the
trace of `overlap_twice` calls one after the other. And the recovery tells a
claim's owner by its Rails id (`dedupe.py:712`), which a redelivered webhook
shares, so a restart between storing such a row and marking it queues both rows
for the one claim.

## 5. Proofs

Each theorem holds for all values of the constants that satisfy the assumptions
of the modules; what a theorem assumes beyond these is in its own column, and why
is said below the table.

### The bus, whatever goes wrong

`SpaceEventsProofs` proves, from `ConstantsAssumption` alone - any events, keys,
legacy table, mode, hazards, slots, deliveries and restarts -

| Theorem | States |
| --- | --- |
| `InductiveInvariance` | `Spec => []Inductive` |
| `TypeCorrectness` | `Spec => []TypeOK` |
| `WindowIsCovered` | `Spec => []DispatchCoversWindow`: a recorded dispatch carried and stamped every member stored before the window closed |
| `SentIsCarried` | `Spec => []SentHasCarrier`: a stamp has an answered call of its unit behind it |
| `DispatchIsFinal` | `Spec => DispatchedIsFinal`: no step takes a dispatch back |

The argument for `WindowIsCovered`. An early member is stored while its unit is
unclaimed or its window open. While the window is open no run of the unit starts
(`WindowOK`: the deferral), so every early member is stored before any call of
the unit reads the members, and a call under way carries all of them. A dispatch
is recorded together with the stamps of exactly those members. What has to be
excluded is that something else changes a member's key, or a claim's status,
meanwhile. Rows only grow: a key once set stays the event's own (`RowsOK`), so
neither the backfill nor a duplicate mark moves a row out of its unit or an
early row into it (`NoLateEarlyRow`, `RowsGrow`); the recovery works on stale
rows, but stale only in their outcome, not in their identity (`RecoveryOK`); the
key of an item is the key of its row and its unit is claimed (`ItemsOK`), so
the group that an answered call updates is the group of the members it carried.
`SentHasCarrier` needs, besides, that a run past its first query guards for the
unit of its own row (`StartedOK`), because the guard stamps on the evidence of a
sibling it found by key. `Inductive` is the conjunction; the run `hazards` checks
it with every hazard switched on.

The proofs of this module are laid out as: lemmas on the operators that write the tables; frame
lemmas by kind of step (`TablesStep`, `RecoveryFrame`, `UnitMoves`, `WhoStamps`,
`ScanMoves`); `InitInductive`; `StepInductive`, one step per conjunct; the
theorems by PTL.

### The bus, without some of the hazards

The repository's own promises - nothing is forgotten, no claim is swallowed, one
call for each unit - fail under some hazards, as the findings show. What can be
proved is under which they hold. Each theorem is for any number of events, units,
slots, deliveries and restarts, and for any hazard its hypothesis does not exclude.

| `RecoveryProofs` | States | Where |
| --- | --- | --- |
| `WorkInvariance` | `WorkInvariant` | `Orderly` |
| `SentUnitsAreSettled` | `SentIsSettled`: a unit with a sent member has an outcome | `Orderly`, `RoutedKeyless = {NoKey}` |
| `PendingIsRecoverable` | `PendingRecoverable`: after a crash at any moment the next recovery finds the lead row of every pending claim undecided | `Orderly`, `RoutedKeyless = {NoKey}` |
| `NextStartHeals` | `ScanMissesNothing`: a scan that gets through hands over an item of every undecided row of its window | `CommitsHold` |
| `NothingIsForgotten` | `NothingForgotten`: a stored event without an outcome is held by the handler, the queue, a run or the recovery, or its webhook was answered with an error in this process life | `Hazards \subseteq {"claim"}` |
| `ClaimsAreNotSwallowed` | `ClaimNotSwallowed`: the lead row of a pending claim has an item, or its webhook was answered with an error in this process life | `Hazards \subseteq {"claim"}`, `RoutedKeyless = {NoKey}` |

| `CallProofs` | States | Where |
| --- | --- | --- |
| `CallInvariance` | `CallInvariant`: one item per row; a stamped row that waits has a stamped sibling; nothing comes between guard and call | `Orderly` |
| `KeylessInvariance` | `KeylessOK` | `Orderly` |
| `GuardKeepsItsPromise` | `NoCallAfterDispatch`: no call starts for a unit with a sent member, keyed or, within the lookback, legacy | `Orderly`, `RoutedKeyless \subseteq MessageKeys \cup {NoKey}` |
| `LeadItemsInvariance` | `LeadItems`: what waits for a unit is the item of its lead row | `Orderly`, `SentOnce` |
| `CalledUnitsWaitNoMore` | `CalledOnce`: a unit that was called has nothing waiting | `Orderly`, `SentOnce`, `LooseKeys = {NoKey}` |
| `UnitsAreCalledOnce` | `OneCallPerUnit` | the same |
| `InlineInvariance` | `InlineOK`: inline, there is one run at a time | - |
| `KeepsUnitPromise` | `Spec => UnitPromise`: the bus implements `RoutingUnit` | `Orderly`, and `FireAndForget => SentOnce /\ Hazards \cap {"read", "commit"} = {}` |

What the hypotheses mean and why they are there:

- `Orderly`: neither `overlap` nor `persist`. Without the first the recovery works
  alone, which almost everything here rests on; the runs `overlap_twice`,
  `overlap_swallowed` and `guard_race` show the promises broken with it, `unstored`
  with the second.
- `CommitsHold`: moreover no commit is swallowed. Whatever else goes wrong - an item
  dropped when the merge window cannot be read, a claim or a query that raises, a scan that breaks
  off, rows that age out - the next scan that gets through takes up all that is left in its
  window. A swallowed mark does not break this for good but for the scan it happens in: the row
  is passed as decided, and is not.
- `Hazards \subseteq {"claim"}`: a claim that raises, before or after its commit, leaves a
  row, and perhaps a pending claim, that nothing holds until the next restart, but Rails was told
  (`refused`). Nobody is told of what the other hazards leave: a scan that raises, a row too old
  for the window, a swallowed commit or a run that ends at a failed query each leave one for good or
  until then, so that `NothingForgotten` is not to be had with them.
- `SentOnce`: each event is delivered, or was a legacy row, once. A redelivered member has a row, and after a restart an item, of its own under the same
  claim. The guard then stands alone between the unit and a second call, and detached it reads before
  the first call is recorded.
- `LooseKeys = {NoKey}`: no legacy rows, or no swallowed commits. A backfill whose
  commit is lost leaves several keyless items of one unit.
- `RoutedKeyless = {NoKey}`: moreover, no legacy row with a unit was sent before the deployment. A
  sent keyless row makes the scan, or the guard, mark the lead row of a pending claim as a duplicate;
  the claim then stays pending with nobody to decide it.
  `GuardKeepsItsPromise` needs less, since the guard's second query finds keyless
  siblings, if only of messages (`dedupe.py:416`).
- Inline the promise of a unit survives the failure of any query and commit.
  Detached it does not: with a lost commit or a failed read a claim stays `pending`
  after its call, or a dispatch is recorded as failed.

None of the hypotheses is empty: the runs `detached`, `redelivery`, `inline` and
`legacy` are instances of them, and check the invariants the proofs go by.

The arguments. `WorkInvariant` says what process and tables agree on between
steps: the recovery is alone, an item names a stored row, a claim is led by a row of its own unit,
a webhook under way has an undecided row, and what the scan's session has cached is
not stale for the rows still ahead of it. It is inductive together with
`Inductive`, and needs no other hypothesis than `Orderly`. From it, `ScanMissesNothing`: each branch of
the scan either decides the row it is at or puts it on its list (`LeftBehind`), nobody undoes a
decision (`RowMoves`), and the list only grows (`RecoveredStay`). The one branch that does neither,
`SkipDispatchedUnit`, meets no undecided row: the lead row of a recorded dispatch was sent
(`LeadsOK`), so that a member is marked before its owner is looked at. Then `NothingForgotten`,
with `claim` as the one hazard, inductive together with `FromTheStart` (the window of a scan
reaches back to the first row): while the recovery is at work it answers for every row; publishing
moves its list to the queue; and a tick, a run and a webhook only ever put a row down by
deciding it or by answering with an error, which stays on record (`RefusedStays`).
`ClaimNotSwallowed` is then `NothingForgotten` for the lead row of a pending claim, which is
undecided by `PendingRecoverable`.
`PendingRecoverable` has to exclude that a lead row is decided without its claim:
the marks of duplicates go to rows with a sent sibling, and a unit with a sent
member is settled (`SentIsSettled`). For the calls: one item per row, the
freshness of the guard's answer (`CheckedOK`, which is `LoopFree` at work) and a sent
sibling for each sent row that waits make up for the guard not looking at the row
itself (`dedupe.py:349`). With that the guard is right for any number of
redeliveries as long as outcomes are recorded; and if each event comes once, only the
lead row of a unit ever has an item (`LeadItems`), so that a call uses up the only
one (`CalledOnce`). In `KeepsUnitPromise` every step is mapped: a claim is `Claim`, `CallHermes` is a
start, which needs `calls` or the guard, and an answer, a failure or a restart ends it.

### The MCP endpoint

`McpToolsProofs`, `ToolTargetProofs`, `CatalogProofs` and `ArrivalProofs` prove, for
any messages, arguments, projects, rooms, people and names, any page size and
number of restarts, without further hypotheses -

| Theorem | States |
| --- | --- |
| `TypesHold` | `Spec => []TypeOK`, which includes that only the last request of a call can be unserved |
| `SuccessHolds` | `Spec => []SuccessIsDone` |
| `KeepsPromise` | `Spec => CallPromise`: the endpoint implements `ToolPromise` |
| `TrailHolds` | `Spec => []TrailAgrees` |
| `ApprovalsFollowMessages` | `Spec => []ApprovalFollowsMessage`: an approval request names the message created before it, in its room |
| `ExactNamesAreFound` | `Spec => []ExactNameWins`: the lookup of an exact name finds a record of the same words |
| `AcceptsCalls` | `Spec => []AcceptsWhatItAdvertises`: a call that keeps to the schema never misses a parameter nor has one too many |
| `DeletesAsTold` | `Spec => []DeletesWhatItIsTold`: such a call deletes when it is told to, and what it is told to |
| `ArgumentsAllArrive` | `Spec => []ArgumentsArrive`: every argument of such a call that writes is in a request |

The assumptions: workloads are functions on the slots (`WorkloadAssumption`), bounds are numbers
(`PageAssumption`, `RestartAssumption`), every record bears a name whose normal form is known
(`RecordAssumption`), lists are lists of records (`ListAssumption`), the value that
stands for null is neither a slot nor a given value (`SlotAssumption`,
`GivenAssumption`). Of texts: a normal form that is not blank has a word
(`WordsAssumption`: `_normalize_match_text` leaves words parted by blanks), and two
different normal forms have a ratio in 0..999 (`RatioAssumption`:
`SequenceMatcher.ratio` is twice the length of the matching blocks by the length of both
texts, and reaches 1 only if a block is all of both). TLC evaluates them in `mcp_calls`.

The arguments. `SuccessIsDone` is not inductive: what a call asks for is computed
from what it has looked up, so a later lookup could change the length of the plan
under a request already sent. `PlanLength` excludes it: the number of requests
depends on the tool alone. `Calls` adds that a call sends nothing before its
lookups are over and never more than its plan (`Progress`), and is shown to be
preserved step by step through four lemmas on how a call moves: it ends
(`CallEnds`), goes on (`CallGoesOn`), a request is served, or the process
restarts. With `Calls`, each step of `McpTools` is a step of `ToolPromise` or a
stutter: `Serve` is `Effect`, an end is `Succeed` or `Fail` according to its
answer (`VerdictOfCall`), `Restart` is `CutOff`, `ServeLate` is `LateEffect`, and
the rest changes nothing the agent or W-space can see. For `TrailHolds`, a call
that has not ended has no row in the log (`NoRowsLeft`), each way to end writes
its one row (`EndLeavesRows`), and nothing else writes to the log.

`ApprovalsFollowMessages`: the id of the message becomes known only when its
request was answered (`MessageKnown`), and the second request is built from it.

`ExactNamesAreFound`: an exact name scores 1000, so the best match scores at
least that. A record can score 1000 by the same normal form or by `Overlap`; the rest stays below:
a part of a name counts 900 and a ratio at most 999. `Overlap` reaches 1000 only
for the same words, by the cardinality of the intersection and of the union.

`AcceptsCalls`, `DeletesAsTold`, `ArgumentsAllArrive` are statements about some
hundred tools, each with sets of literal names. The proofs go family by family:
`Consistent(f)` and `Complete(f)` say of one `Family` record that its schemas, handlers
and client functions agree, and thirteen lemmas each prove them from one
record; the arguments from a consistent, or complete, family to its tools are made once. Attention items,
company status, room tools, messages and approvals are proved apart.
`ArgumentsAllArrive` also needs what was looked up: an id that was given is what the
lookup returns (`LookedUp`, inductive, with the lookups a handler has left as a suffix of its
`LookupSteps`), and no null reaches the wire (`NullsLeftOut`).

### The payload of a dispatch

`PayloadProofs` proves, for any webhooks and payloads, of any depth, any environments and any
number of rows -

| Theorem | States |
| --- | --- |
| `DispatchesInvariant` | `Spec => []Dispatches`: the inductive invariant |
| `PayloadTypes` | `Spec => []TypeOK`, which includes that no attachment is in two places and none is lost between found, file and unresolved |
| `UnitsAreKeptApart` | `Spec => []CarriesItsUnit`: rows share a key exactly if they are about one message or one fact; a dispatch has all of its unit and nothing else |
| `NothingIsLostInTheMerge` | `Spec => []MergeKeepsAll`: the payload says exactly what the members say that no higher one overrules |
| `LinksReachHermes` | `Spec => []AttachmentsReachHermes`: every such link reaches Hermes once, as a file or in the summary, up to the limit |

The assumptions: `WebhookAssumption` (a payload is JSON with a dict at the top),
`SettingsAssumption`, `BoundAssumption`, `LinkAssumption` (None is no address), and
`RailsAssumption`, what the bridge takes Rails to send: the
webhooks of a message share group and room and name the message by one id, in whichever
of three places (`dedupe.py:6`), and a fact is told again only by the same event. It is what makes
the key right; `CarriesItsUnit` would be false of a message named by two ids. TLC evaluates
all of them in `payload`.

The argument. The folds of the code, over the items of a list and over the rows of a rank,
are recursive functions on 0..n. The library's induction theorems cannot be instantiated here, but
induction over a *set* of numbers can be stated without an operator parameter:
`InductionOverNat` says that a set which has 0 and with n also n + 1 has all numbers, and is
proved from the least number outside (`NatMinimum`). A recursive function is to TLAPS a
choice among the functions that satisfy its equation, so that there is one has to
be shown first (`UnionExists`, `OverlayExists`): the set of n up to which there is one is
such a set. With that the equations can be used (`UnionSteps`, `OverlaySteps`).

`MergeSays` is the lemma on one merge: what `DeepMerge(base, overlay)` says is what the overlay
says and what the base says that the overlay does not contradict. It goes path by path;
the case that is easily missed is a dict that is replaced, with which goes what was in it
(`Replaced`), and a path below a place that only one of the two has. For a whole unit, `LaidOver` says of a
payload that it says exactly what is said in the base or by the rows laid over it so far and is not
contradicted by a later one of these. `OneMoreRow` carries it through a row, `OverlayChain`
through a rank, `OneMoreRank` from rank to rank; at the fourth rank "later" is `Overrides`. The
base is the queued webhook, which is itself among the rows laid over it, so it says nothing of its own
in the end (`MergedSays`).

`Dispatches` adds to `TypeOK` what a dispatch keeps of the moment it started: its members
are those of its key among the first rows (rows only grow, so this stays true while webhooks
arrive that are no longer members), its payload says what these say, what it found is all of the
attachments or reaches the limit, and once the request is made, the summary names all that is unresolved.
`LinksReachHermes` follows: a link that is not overruled is said by the payload, stands in
one of its dicts, hence in what was found, hence in a file or in the summary (`LinksAreFound`).

### What the proofs changed

Attempts that failed showed where the model, or a property, was not what it should be:

- `People` took a page beyond the end of a short list, an undefined value that
  TLC never met: now the page ends with the list.
- `DeletesWhatItIsTold` was stated of all calls. It is false of a call with an id the
  hub does not know, which `**kwargs` swallows; the workloads had none. It is now
  stated of calls that keep to the schema.
- `ArgumentsArrive` was false of a hub given a file and a filter, which `mcp_calls`
  did not try; it does now (`FilingCalls`), and the exception is named in `Consumed`.
- `RatioAssumption` spoke of the pairs of a table, and of names outside it nothing was
  known; it now speaks of all pairs of different normal forms.
- The first invariants of the bus took redelivered members and keyless rows to be
  harmless; the hypotheses above are what TLC's counterexamples made of that.

- `UnionLists` took an item that the overlay has twice twice; `_deep_merge`
  (`dedupe.py:499`) asks the list it is filling. The lemma on what a union says would have held of both,
  `PathsAreTrees` does not.
- A limit of attachments below one is one, not none, which `MCSettings` now tries.
- `NothingForgotten` and the promise about the scan were one invariant, which held for `claim` alone.
  Taken apart, the half about the scan (`ScanMissesNothing`) holds under every hazard but `overlap`, `persist` and `commit`,
  and is what the code promises of failures that it leaves to the next start.

### Only model-checked

- `PathsAreTrees`: the recursion over nested dicts itself, in `JsonTrees`, is out of the
  prover's reach. What is proved of payloads is proved of their paths.
- Liveness: `UnitSettles`, `EveryRowDecided`, `EveryCallAnswered`.
- The five findings, each a counterexample of TLC.

## 6. Abstractions

- In `SpaceEvents` payloads and keys are opaque: the content of an event does not
  influence which call is made. `EventPayload` has the content, and checks what
  `SpaceEvents` assumes of `KeyOf`. Every event has its Rails id. The schema lets it be missing
  (`schemas/pydantic.py:10`), and two events without one would look like one to the recovery, for
  which `None == None` (`dedupe.py:712`). The model takes Rails to send none. An event without a type, which has no key, is
  only in `SpaceEvents`.
- Texts are opaque, in all modules: blanks are trimmed, numbers and texts of
  the same digits are one. A flag as a message id (which `executors.py` would take
  for a text) is left out. The message text that `build_space_event_message` lays
  out and the layout of a tool's result (`_format_result`, `_build_directory_tree`,
  where items whose parents form a cycle appear nowhere) are not modelled.
- Empty texts given as a name or a path count as not given.
- The two requests of a room lookup are one step, as are the two downloads of an
  attachment: nothing the bridge keeps changes between them. The row that a failed
  download through the space api leaves is not modelled.
- W-space does not rename or remove records in the course of a call. It answers a creation with
  the id of what it created: `tools.py:2113` takes `message.get("id")` without a check, so a JSON answer
  that lacks it would make the approval request name no message. An empty answer, or one that is no
  object, fails the call and is modelled (`ReplyUnreadable`).
- In the code of `hermes client` only what the bridge calls is modelled; the shared
  httpx client of `space/api` is created on first use and never closed
  (`aclose_client` has no caller), so it has no state worth a variable.
- `SPACE_EVENT_MERGE_SETTLE_SECONDS <= 0` (no window) and
  `SPACE_EVENT_RECOVERY_MAX_AGE_SECONDS <= 0` (no recovery) are not modelled.
- A read that raises while a run prepares its call is recorded as a failed call;
  in the model it is one (`CallHermes`, then `HermesFails`), counted in `calls`.
- `stop_cron` waits for the tick and leaves detached tasks to the closing loop:
  what remains is the database, as after `Restart`.
- One process: the bridge is started as one worker (`start.sh`), and the queue is
  in memory.

- **Not modelled**: `space/schema`, `schemas` (type declarations), `alembic`
  (migrations, run before the process), `helpers/environment.py` (constants),
  `application` (stubs), `helpers/upload.py` (imported by nothing), the sessions,
  runs, jobs, files and streams of `agent/hermes.py` (called by nothing), the
  functions of `space/api` that no tool calls.

## 7. Plan

Done: the bus with its promise; the MCP endpoint with all tools and its promise; the
content of a dispatch; proofs of every safety property that a passing run checks, but `PathsAreTrees`.
What could follow:

1. Weaker hypotheses where the proofs leave room: `NothingForgotten` with `read` and
   `commit` for the rows that are not touched by them.
2. A graceful stop in `SpaceEvents`: `stop_cron` waits for the tick.
3. Records that are renamed or removed between two requests of one call (`tools.py:163`).
