---------------------------- MODULE SpaceEvents ----------------------------
(***************************************************************************)
(* The space-event bus of W-bridge: webhooks of a Rails "W-space" are      *)
(* stored, grouped into routing units by a dedupe key, queued in memory    *)
(* and drained by a cron loop into one Hermes call per unit; a thread      *)
(* started with the process re-queues what a previous process lost.        *)
(*                                                                         *)
(* Three kinds of steps interleave: the coroutines of the one asyncio loop *)
(* (webhook handler, cron, detached tasks), the recovery thread, and the   *)
(* outside world (Rails, Hermes, the clock, a crash).  A coroutine is      *)
(* atomic up to its next await or database commit, and the loop runs one   *)
(* segment at a time; the recovery thread runs between any two commits and *)
(* between two reads of a table that disagree if it changed in between.    *)
(***************************************************************************)
EXTENDS Naturals, Sequences, FiniteSets

CONSTANTS
    Events,         \* Rails space events; an event is its own Rails id
    Keys,           \* dedupe keys: one per routing unit
    NoKey,          \* the NULL dedupe_key
    KeyOf,          \* build_dedupe_key: the key of an event, or NoKey
    MessageKeys,    \* the "message:" family: its units wait for siblings
    LegacyRows,     \* rows stored before the dedupe feature, still keyless
    FireAndForget,  \* SPACE_EVENT_FIRE_AND_FORGET
    Slots,          \* bounds the calls that can be in flight together
    Hazards,        \* what may go wrong in a run, see HazardKinds
    MaxDeliveries,  \* bounds the webhooks Rails sends for one event
    MaxCrashes      \* bounds the restarts of the process

HazardKinds ==
    { "overlap",    \* webhooks arrive before the recovery scan has finished
      "persist",    \* the event row cannot be stored, or not read back
      "claim",      \* a claim or its reply raises, committed or not
      "read",       \* a query of the executors raises
      "commit",     \* a _commit fails and is only logged
      "scan",       \* the recovery scan raises
      "age" }       \* rows grow older than the recovery and lookback windows

ASSUME ConstantsAssumption ==
    /\ NoKey \notin Keys
    /\ KeyOf \in [Events -> Keys \cup {NoKey}]
    /\ MessageKeys \subseteq Keys
    /\ LegacyRows \in Seq([event : Events, sent : BOOLEAN])
    /\ FireAndForget \in BOOLEAN
    /\ Hazards \subseteq HazardKinds
    /\ MaxDeliveries \in Nat
    /\ MaxCrashes \in Nat

VARIABLES
    rows,           \* table space_events; the index is the row id
    groups,         \* table space_event_dispatch_groups, by dedupe_key
    open,           \* keys whose settle window has not elapsed
    legacyRecent,   \* dispatches of legacy rows are inside the lookback
    queue,          \* space_events_queue
    handler,        \* the webhook the loop is in the middle of
    cron,           \* the cron loop
    tasks,          \* started runs of run_space_event, by slot
    rec,            \* the startup recovery
    delivered,      \* webhooks sent so far, by event
    crashes,        \* restarts so far
    calls,          \* history: Hermes calls of a unit in this process life
    lost,           \* history: events dropped for want of a row
    refused         \* history: rows whose webhook this process answered with an error

database == <<rows, groups, open, legacyRecent>>
memory   == <<queue, handler, cron, tasks, rec>>
world    == <<delivered, crashes>>
history  == <<calls, lost, refused>>
vars     == <<database, memory, world, history>>

-----------------------------------------------------------------------------
(* Types *)

NoRow == 0
Key   == Keys \cup {NoKey}

\* early and carried are history: was the row stored while its unit could
\* still absorb it, and was it in the payload of a call that Hermes answered.
Row ==
    [ event : Events, key : Key, sent : BOOLEAN,
      status : {"none", "duplicate", "error", "response"},
      early : BOOLEAN, carried : BOOLEAN ]

Group ==
    [ status : {"absent", "pending", "dispatched", "failed"}, leadRow : Nat ]

Item == [ event : Events, key : Key, row : Nat ]

Task == [ pc : {"ready", "checked", "calling"}, item : Item, row : Nat, members : SUBSET Nat ]
Free == [ pc |-> "free" ]

Recovery ==
    [ pc : {"scan", "backfill", "row", "sibling", "owner", "mark", "claim", "conflict",
            "publish", "idle"},
      lo : Nat, at : Nat, top : Nat, snap : Seq(Row), fresh : BOOLEAN, items : Seq(Item) ]

TypeOK ==
    /\ rows \in Seq(Row)
    /\ groups \in [Keys -> Group]
    /\ open \subseteq Keys
    /\ legacyRecent \in BOOLEAN
    /\ queue \in Seq(Item)
    /\ handler \in [pc : {"idle", "claim", "conflict", "enqueue"}, row : Nat]
    /\ cron \in {"idle", "status", "busy"}
    /\ tasks \in [Slots -> Task \cup {Free}]
    /\ rec \in Recovery
    /\ delivered \in [Events -> Nat]
    /\ crashes \in Nat
    /\ calls \in [Keys -> Nat]
    /\ lost \subseteq Events
    /\ refused \subseteq Nat

-----------------------------------------------------------------------------
(* Reading the database *)

RowIds == DOMAIN rows

\* Mutant: any stored sibling counts, dispatched or not
StoredSibling(k, r) == \E q \in RowIds \ {r} : rows[q].key = k

\* Mutant: the sibling query is missing
NoSibling(k, r) == FALSE

\* _dispatched_sibling
DispatchedSibling(k, r) ==
    k # NoKey /\ \E q \in RowIds \ {r} : rows[q].key = k /\ rows[q].sent

\* Mutant: keyless rows are not compared
NoLegacySibling(k, r) == FALSE

\* _legacy_dispatched_sibling: only a keyless row of the same message unit
LegacyDispatchedSibling(k, r) ==
    /\ legacyRecent
    /\ k \in MessageKeys
    /\ \E q \in RowIds \ {r} :
          rows[q].key = NoKey /\ rows[q].sent /\ KeyOf[rows[q].event] = k

\* resolve_group_events
ResolveGroupEvents(k, r) ==
    LET stored == {q \in RowIds : k # NoKey /\ rows[q].key = k}
    IN  IF stored = {} THEN {r} ELSE stored

\* Mutant: the merge window is ignored
NeverSettling(k) == FALSE

\* group_is_settling
GroupIsSettling(k) ==
    k \in MessageKeys /\ groups[k].status = "pending" /\ k \in open

\* _load_space_event: by row id, else the first row with the Rails id
RowsOfEvent(e) == {q \in RowIds : rows[q].event = e}

LoadSpaceEvent(item) ==
    IF item.row \in RowIds THEN item.row
    ELSE IF RowsOfEvent(item.event) = {} THEN NoRow
    ELSE CHOOSE q \in RowsOfEvent(item.event) :
             \A p \in RowsOfEvent(item.event) : q <= p

\* The guard of a drained item: its own key, else the one derived from its row
GuardKey(item, r) ==
    IF item.key # NoKey THEN item.key ELSE KeyOf[rows[r].event]

-----------------------------------------------------------------------------
(* Writing the database.  Each operator is the value of a table after one  *)
(* transaction; Commits says whether the transaction can fail silently.    *)

Commits == IF "commit" \in Hazards THEN BOOLEAN ELSE {TRUE}

IfCommitted(ok, new, old) == IF ok THEN new ELSE old

\* The unit of a row about to be stored can still absorb it
StillMerges(k) == k \in Keys /\ (groups[k].status = "absent" \/ k \in open)

StoredRow(e) ==
    [ event |-> e, key |-> KeyOf[e], sent |-> FALSE, status |-> "none",
      early |-> StillMerges(KeyOf[e]), carried |-> FALSE ]

\* Mutant: the loser of a claim is not recorded
NotMarked(r, k, handled) == rows

\* Mutant: every duplicate is stamped as handled
AlwaysHandled(r, k, handled) ==
    [rows EXCEPT ![r] = [@ EXCEPT !.status = "duplicate", !.sent = TRUE]]

\* _mark_row_duplicate
MarkedRow(r, k, handled) ==
    [rows[r] EXCEPT !.key = IF rows[r].key = NoKey THEN k ELSE rows[r].key,
                    !.status = "duplicate",
                    !.sent = rows[r].sent \/ handled]

MarkedDuplicate(r, k, handled) == [rows EXCEPT ![r] = MarkedRow(r, k, handled)]

\* Mutant: the dedupe_key column is not UNIQUE
NotUnique(k) == TRUE

\* The UNIQUE dedupe_key: the insert succeeds only where there is no claim
ClaimFree(k) == groups[k].status = "absent"

Claimed(k, r) == [groups EXCEPT ![k] = [status |-> "pending", leadRow |-> r]]

\* The claim row's created_at opens the settle window of a message unit
OpenedBy(k) == open \cup ({k} \cap MessageKeys)

\* record_group_dispatch: what the call carried stays true when the commit fails
RecordedRow(r, lead, ok) ==
    IF ok
    THEN [rows[r] EXCEPT !.sent = TRUE, !.carried = TRUE,
                         !.status = IF r = lead THEN "response" ELSE "duplicate"]
    ELSE [rows[r] EXCEPT !.carried = TRUE]

\* Mutant: the row the call was made for is left as it was
OthersDispatched(members, lead, ok) ==
    [r \in RowIds |-> IF r \in members \ {lead} THEN RecordedRow(r, lead, ok) ELSE rows[r]]

DispatchedRows(members, lead, ok) ==
    [r \in RowIds |-> IF r \in members THEN RecordedRow(r, lead, ok) ELSE rows[r]]

\* Mutant: the claim of a recorded dispatch stays pending
ForgottenDispatch(k) == groups

DispatchedGroup(k) ==
    [g \in Keys |-> IF g = k THEN [groups[g] EXCEPT !.status = "dispatched"]
                             ELSE groups[g]]

\* Mutant: a group status written to a row
MisnamedFailure(members) ==
    [r \in RowIds |-> IF r \in members THEN [rows[r] EXCEPT !.status = "failed"]
                                       ELSE rows[r]]

\* record_group_failure
FailedRows(members) ==
    [r \in RowIds |-> IF r \in members THEN [rows[r] EXCEPT !.status = "error"]
                                       ELSE rows[r]]

\* The failure of a unit whose dispatch was about to be recorded
StampedAsFailed(members, failed, ok) ==
    [r \in RowIds |->
        [rows[r] EXCEPT !.carried = @ \/ r \in members,
                        !.sent = @ \/ (ok /\ r \in members),
                        !.status = IF ok /\ r \in members \cup failed THEN "error" ELSE @]]

\* Mutant: the group of a failed call stays pending
ForgottenFailure(k) == groups

\* Mutant: a failure takes back a dispatch
UnguardedFailure(k) ==
    [g \in Keys |-> IF g = k THEN [groups[g] EXCEPT !.status = "failed"] ELSE groups[g]]

\* The members share one outcome, but a dispatched unit stays dispatched
FailedGroup(k) ==
    [g \in Keys |-> IF g = k /\ groups[g].status # "dispatched"
                    THEN [groups[g] EXCEPT !.status = "failed"]
                    ELSE groups[g]]

\* Rows without a claim have no group to update
IfClaimed(k, new) == IF k \in Keys /\ groups[k].status # "absent" THEN new ELSE groups

\* Mutant: legacy rows stay keyless
NotBackfilled(lo, top) == rows

\* _backfill_legacy_keys
Backfilled(lo, top) ==
    [r \in RowIds |-> IF r \in lo + 1 .. top /\ rows[r].key = NoKey
                      THEN [rows[r] EXCEPT !.key = KeyOf[rows[r].event]]
                      ELSE rows[r]]

-----------------------------------------------------------------------------
(* Initially the process has just started on a database of legacy rows *)

LegacyRow(l) ==
    [ event |-> l.event, key |-> NoKey, sent |-> l.sent,
      status |-> IF l.sent THEN "response" ELSE "none",
      early |-> FALSE, carried |-> l.sent ]

Started(lo) ==
    [ pc |-> "scan", lo |-> lo, at |-> 0, top |-> 0, snap |-> <<>>,
      fresh |-> FALSE, items |-> <<>> ]

IdleHandler == [pc |-> "idle", row |-> NoRow]

LegacyIdsOf(e) == {i \in DOMAIN LegacyRows : LegacyRows[i].event = e}

Init ==
    /\ rows = [i \in DOMAIN LegacyRows |-> LegacyRow(LegacyRows[i])]
    /\ groups = [k \in Keys |-> [status |-> "absent", leadRow |-> NoRow]]
    /\ open = {}
    /\ legacyRecent = TRUE
    /\ queue = <<>>
    /\ handler = IdleHandler
    /\ cron = "idle"
    /\ tasks = [s \in Slots |-> Free]
    /\ rec = Started(0)
    /\ delivered = [e \in Events |-> Cardinality(LegacyIdsOf(e))]
    /\ crashes = 0
    /\ calls = [k \in Keys |-> 0]
    /\ lost = {}
    /\ refused = {}

-----------------------------------------------------------------------------
(* The webhook handler, POST /space_events.  It never suspends, so the     *)
(* loop runs nothing else until it returns.                                *)

\* No coroutine is in the middle of a segment
LoopTurns == handler.pc = "idle" /\ \A s \in Slots : tasks[s].pc # "checked"

\* Inline, a drained item runs on in the cron's own segment up to its call
LoopFree ==
    /\ LoopTurns
    /\ FireAndForget \/ \A s \in Slots : tasks[s].pc # "ready"

Receive(e) ==
    /\ LoopFree
    /\ delivered[e] < MaxDeliveries
    /\ rec.pc = "idle" \/ "overlap" \in Hazards
    /\ delivered' = [delivered EXCEPT ![e] = @ + 1]

\* The row is stored
Persist(e) ==
    /\ Receive(e)
    /\ rows' = Append(rows, StoredRow(e))
    /\ handler' = [ pc |-> IF KeyOf[e] = NoKey THEN "enqueue" ELSE "claim",
                    row |-> Len(rows) + 1 ]
    /\ UNCHANGED <<groups, open, legacyRecent, queue, cron, tasks, rec, crashes, history>>

\* The row cannot be stored: the item is queued without a row and a key
PersistFails(e) ==
    /\ "persist" \in Hazards
    /\ Receive(e)
    /\ queue' = Append(queue, [event |-> e, key |-> NoKey, row |-> NoRow])
    /\ UNCHANGED <<database, handler, cron, tasks, rec, crashes, history>>

\* The row is stored but cannot be read back: the same item
PersistUnseen(e) ==
    /\ "persist" \in Hazards
    /\ Receive(e)
    /\ rows' = Append(rows, StoredRow(e))
    /\ queue' = Append(queue, [event |-> e, key |-> NoKey, row |-> NoRow])
    /\ UNCHANGED <<groups, open, legacyRecent, handler, cron, tasks, rec, crashes, history>>

Claim ==
    /\ handler.pc = "claim"
    /\ LET k == rows[handler.row].key IN
          IF ClaimFree(k)
          THEN /\ groups' = Claimed(k, handler.row)
               /\ open' = OpenedBy(k)
               /\ handler' = [handler EXCEPT !.pc = "enqueue"]
          ELSE /\ handler' = [handler EXCEPT !.pc = "conflict"]
               /\ UNCHANGED <<groups, open>>
    /\ UNCHANGED <<rows, legacyRecent, queue, cron, tasks, rec, world, history>>

\* The webhook answers 500; nothing is queued, and Rails may deliver it again
Refuse ==
    /\ handler' = IdleHandler
    /\ refused' = refused \cup {handler.row}
    /\ UNCHANGED <<queue, cron, tasks, rec, world, calls, lost>>

\* Any other database error: the row stays, unclaimed or unmarked
ClaimFails ==
    /\ "claim" \in Hazards
    /\ handler.pc \in {"claim", "conflict"}
    /\ Refuse
    /\ UNCHANGED database

\* The claim is committed but cannot be read back: group.id is a new query
ClaimUnseen ==
    /\ "claim" \in Hazards
    /\ handler.pc = "claim"
    /\ LET k == rows[handler.row].key IN
          /\ ClaimFree(k)
          /\ groups' = Claimed(k, handler.row)
          /\ open' = OpenedBy(k)
    /\ Refuse
    /\ UNCHANGED <<rows, legacyRecent>>

RecordDuplicateMember ==
    /\ handler.pc = "conflict"
    /\ \E ok \in Commits :
          rows' = IfCommitted(ok,
                      MarkedDuplicate(handler.row, rows[handler.row].key, FALSE), rows)
    /\ handler' = IdleHandler
    /\ UNCHANGED <<groups, open, legacyRecent, queue, cron, tasks, rec, world, history>>

Submit ==
    /\ handler.pc = "enqueue"
    /\ queue' = Append(queue, [ event |-> rows[handler.row].event,
                                key |-> rows[handler.row].key,
                                row |-> handler.row ])
    /\ handler' = IdleHandler
    /\ UNCHANGED <<database, cron, tasks, rec, world, history>>

-----------------------------------------------------------------------------
(* The cron loop *)

\* A tick that finds work asks Hermes for its status
CronTick ==
    /\ LoopFree
    /\ cron = "idle"
    /\ queue # <<>>
    /\ cron' = "status"
    /\ UNCHANGED <<database, queue, handler, tasks, rec, world, history>>

\* The request failed, or every agent is busy: wait for the next tick
StatusUnavailable ==
    /\ LoopFree
    /\ cron = "status"
    /\ cron' = "idle"
    /\ UNCHANGED <<database, queue, handler, tasks, rec, world, history>>

\* Mutant: the deferred item is taken off the queue and not put back
DeferAndDrop ==
    /\ LoopFree
    /\ cron = "status"
    /\ GroupIsSettling(Head(queue).key)
    /\ queue' = Tail(queue)
    /\ cron' = "idle"
    /\ UNCHANGED <<database, handler, tasks, rec, world, history>>

\* Mutant: the deferred item is put back without being taken off
DeferAndKeep ==
    /\ LoopFree
    /\ cron = "status"
    /\ GroupIsSettling(Head(queue).key)
    /\ queue' = Append(queue, Head(queue))
    /\ cron' = "idle"
    /\ UNCHANGED <<database, handler, tasks, rec, world, history>>

\* _defer_while_group_settles: back to the tail of the queue
Defer ==
    /\ LoopFree
    /\ cron = "status"
    /\ GroupIsSettling(Head(queue).key)
    /\ queue' = Append(Tail(queue), Head(queue))
    /\ cron' = "idle"
    /\ UNCHANGED <<database, handler, tasks, rec, world, history>>

\* The window cannot be read: the item is gone from the queue
DeferRaises ==
    /\ "read" \in Hazards
    /\ LoopFree
    /\ cron = "status"
    /\ Head(queue).key \in MessageKeys
    /\ queue' = Tail(queue)
    /\ cron' = "idle"
    /\ UNCHANGED <<database, handler, tasks, rec, world, history>>

\* Mutant: the cron does not wait for an inline run
RunAndMoveOn(s) ==
    /\ LoopFree
    /\ cron = "status"
    /\ ~GroupIsSettling(Head(queue).key)
    /\ tasks[s] = Free
    /\ tasks' = [tasks EXCEPT ![s] =
                    [pc |-> "ready", item |-> Head(queue), row |-> NoRow, members |-> {}]]
    /\ queue' = Tail(queue)
    /\ cron' = "idle"
    /\ UNCHANGED <<database, handler, rec, world, history>>

\* run_space_event, up to the start of its task (or of its inline body)
RunSpaceEvent(s) ==
    /\ LoopFree
    /\ cron = "status"
    /\ ~GroupIsSettling(Head(queue).key)
    /\ tasks[s] = Free
    /\ tasks' = [tasks EXCEPT ![s] =
                    [pc |-> "ready", item |-> Head(queue), row |-> NoRow, members |-> {}]]
    /\ queue' = Tail(queue)
    /\ cron' = IF FireAndForget THEN "idle" ELSE "busy"
    /\ UNCHANGED <<database, handler, rec, world, history>>

-----------------------------------------------------------------------------
(* A started run, detached or inline *)

Starting(s) == LoopTurns /\ tasks[s].pc = "ready"

RunEnds(s) ==
    /\ tasks' = [tasks EXCEPT ![s] = Free]
    /\ cron' = IF FireAndForget THEN cron ELSE "idle"

\* The row or a sibling cannot be read: the run ends, its row stays undecided
RunRaises(s) ==
    /\ "read" \in Hazards
    /\ Starting(s) \/ tasks[s].pc = "checked"
    /\ RunEnds(s)
    /\ UNCHANGED <<database, queue, handler, rec, world, history>>

DropMissing(s) ==
    /\ Starting(s)
    /\ LoadSpaceEvent(tasks[s].item) = NoRow
    /\ RunEnds(s)
    /\ lost' = lost \cup {tasks[s].item.event}
    /\ UNCHANGED <<database, queue, handler, rec, world, calls, refused>>

\* The row of the run is marked as a member of a unit already dispatched
MarkSkipped(s, r) ==
    /\ \E ok \in Commits :
          rows' = IfCommitted(ok, MarkedDuplicate(r, GuardKey(tasks[s].item, r), TRUE), rows)
    /\ RunEnds(s)
    /\ UNCHANGED <<groups, open, legacyRecent, queue, handler, rec, world, history>>

\* The first query of unit_already_dispatched: a keyed sibling ...
SkipIfUnitAlreadyDispatched(s) ==
    /\ Starting(s)
    /\ LET r == LoadSpaceEvent(tasks[s].item)
       IN  /\ r # NoRow
           /\ DispatchedSibling(GuardKey(tasks[s].item, r), r)
           /\ MarkSkipped(s, r)

\* ... there is none
NoDispatchedSibling(s) ==
    /\ Starting(s)
    /\ LET r == LoadSpaceEvent(tasks[s].item)
       IN  /\ r # NoRow
           /\ ~DispatchedSibling(GuardKey(tasks[s].item, r), r)
           /\ tasks' = [tasks EXCEPT ![s] =
                  [pc |-> "checked", item |-> tasks[s].item, row |-> r, members |-> {}]]
    /\ UNCHANGED <<database, queue, handler, cron, rec, world, history>>

\* Its second query: a keyless one
LegacyUnit(s) == LegacyDispatchedSibling(GuardKey(tasks[s].item, tasks[s].row), tasks[s].row)

SkipIfLegacyDispatched(s) ==
    /\ tasks[s].pc = "checked"
    /\ LegacyUnit(s)
    /\ MarkSkipped(s, tasks[s].row)

\* The members are read here; they are written to after the call
CallHermes(s) ==
    /\ tasks[s].pc = "checked"
    /\ ~LegacyUnit(s)
    /\ LET item == tasks[s].item
           r == tasks[s].row
           unit == KeyOf[rows[r].event]
       IN  /\ tasks' = [tasks EXCEPT ![s] =
                  [ pc |-> "calling", item |-> item, row |-> r,
                    members |-> ResolveGroupEvents(item.key, r) ]]
           /\ calls' = [k \in Keys |-> IF k = unit THEN calls[k] + 1 ELSE calls[k]]
    /\ UNCHANGED <<database, queue, handler, cron, rec, world, lost, refused>>

Answered(s) ==
    /\ LoopTurns
    /\ tasks[s].pc = "calling"
    /\ RunEnds(s)

HermesAnswers(s) ==
    /\ Answered(s)
    /\ LET k == tasks[s].item.key IN
       \E ok \in Commits :
          /\ rows' = DispatchedRows(tasks[s].members, tasks[s].row, ok)
          /\ groups' = IfCommitted(ok, IfClaimed(k, DispatchedGroup(k)), groups)
    /\ UNCHANGED <<open, legacyRecent, queue, handler, rec, world, history>>

\* _mark_space_event_failure resolves the members a second time
HermesFails(s) ==
    /\ Answered(s)
    /\ LET k == tasks[s].item.key IN
       \E ok \in Commits :
          /\ rows' = IfCommitted(ok,
                         FailedRows(ResolveGroupEvents(k, tasks[s].row)), rows)
          /\ groups' = IfCommitted(ok, IfClaimed(k, FailedGroup(k)), groups)
    /\ UNCHANGED <<open, legacyRecent, queue, handler, rec, world, history>>

\* Hermes answered but the group cannot be read: the exception is treated as a
\* failed call while the session still holds the stamps of the dispatch, and
\* the commit of the failure writes both
RecordRaises(s) ==
    /\ "read" \in Hazards
    /\ Answered(s)
    /\ LET k == tasks[s].item.key
           failed == ResolveGroupEvents(k, tasks[s].row)
       IN  /\ k # NoKey
           /\ \E ok \in BOOLEAN :
                 /\ rows' = StampedAsFailed(tasks[s].members, failed, ok)
                 /\ groups' = IfCommitted(ok, IfClaimed(k, FailedGroup(k)), groups)
    /\ UNCHANGED <<open, legacyRecent, queue, handler, rec, world, history>>

-----------------------------------------------------------------------------
(* The startup recovery: _requeue_lost_work runs pending_dispatch_items in *)
(* a thread and queues what it returns.  The thread's session caches the   *)
(* rows it loaded until its next commit (rec.fresh) expires them.          *)

InThread(pc) == rec.pc = pc

ThreadOnly == UNCHANGED <<queue, handler, cron, tasks, world, history>>

NextRow == [rec EXCEPT !.pc = "row", !.at = @ + 1]

ThisRow == IF rec.fresh THEN rows[rec.at] ELSE rec.snap[rec.at]

\* Mutant: the scan decides and queues nothing
NotRecovered(k) == NextRow

Recovered(k) ==
    [ NextRow EXCEPT !.items =
        Append(@, [event |-> rows[rec.at].event, key |-> k, row |-> rec.at]) ]

\* The rows of the recent past; what is too old stays too old
ScanWindow ==
    /\ InThread("scan")
    /\ \E lo \in IF "age" \in Hazards THEN rec.lo .. Len(rows) ELSE {rec.lo} :
          rec' = [rec EXCEPT !.pc = "backfill", !.lo = lo, !.at = lo,
                             !.top = Len(rows), !.snap = rows]
    /\ UNCHANGED database
    /\ ThreadOnly

BackfillLegacyKeys ==
    /\ InThread("backfill")
    /\ LET changed == \E r \in rec.lo + 1 .. rec.top :
                          rec.snap[r].key = NoKey /\ KeyOf[rec.snap[r].event] # NoKey
       IN  /\ rec' = [NextRow EXCEPT !.fresh = changed]
           /\ \E ok \in Commits :
                 rows' = IfCommitted(changed /\ ok, Backfilled(rec.lo, rec.top), rows)
    /\ UNCHANGED <<groups, open, legacyRecent>>
    /\ ThreadOnly

AtRow == InThread("row") /\ rec.at <= rec.top

\* It was sent, it failed, or it is the duplicate of no unit
SkipRow ==
    /\ AtRow
    /\ \/ ThisRow.sent
       \/ ThisRow.status \notin {"none", "duplicate"}
       \/ ThisRow.status = "duplicate" /\ ThisRow.key = NoKey
    /\ rec' = NextRow
    /\ UNCHANGED database
    /\ ThreadOnly

RecoverKeyless ==
    /\ AtRow
    /\ ~ThisRow.sent
    /\ ThisRow.status = "none"
    /\ ThisRow.key = NoKey
    /\ rec' = Recovered(NoKey)
    /\ UNCHANGED database
    /\ ThreadOnly

\* Undecided or a duplicate: was its unit dispatched?
SeekSibling ==
    /\ AtRow
    /\ ~ThisRow.sent
    /\ ThisRow.status \in {"none", "duplicate"}
    /\ ThisRow.key # NoKey
    /\ rec' = [rec EXCEPT !.pc = "sibling", !.snap = [@ EXCEPT ![rec.at] = ThisRow]]
    /\ UNCHANGED database
    /\ ThreadOnly

\* The row as the session has cached it
SeenRow == rec.snap[rec.at]

MarkAlreadyDispatched ==
    /\ InThread("sibling")
    /\ DispatchedSibling(SeenRow.key, rec.at)
    /\ \E ok \in Commits :
          rows' = IfCommitted(ok, MarkedDuplicate(rec.at, SeenRow.key, TRUE), rows)
    /\ rec' = [NextRow EXCEPT !.fresh = TRUE]
    /\ UNCHANGED <<groups, open, legacyRecent>>
    /\ ThreadOnly

SkipDuplicate ==
    /\ InThread("sibling")
    /\ ~DispatchedSibling(SeenRow.key, rec.at)
    /\ SeenRow.status = "duplicate"
    /\ rec' = NextRow
    /\ UNCHANGED database
    /\ ThreadOnly

\* The unit has no dispatched sibling: who owns it?
SeekOwner ==
    /\ InThread("sibling")
    /\ ~DispatchedSibling(SeenRow.key, rec.at)
    /\ SeenRow.status = "none"
    /\ rec' = [rec EXCEPT !.pc = "owner"]
    /\ UNCHANGED database
    /\ ThreadOnly

Unit  == SeenRow.key
Owner == groups[Unit]

\* Mutant: every member of a unit is recovered
EveryoneOwns == TRUE

\* Owners are compared by Rails id, not by row id
OwnsUnit == rows[Owner.leadRow].event = SeenRow.event

NoOwner ==
    /\ InThread("owner")
    /\ Owner.status = "absent"
    /\ rec' = [rec EXCEPT !.pc = "claim"]
    /\ UNCHANGED database
    /\ ThreadOnly

RecoveryClaims ==
    /\ InThread("claim")
    /\ IF ClaimFree(Unit)
       THEN /\ groups' = Claimed(Unit, rec.at)
            /\ open' = OpenedBy(Unit)
            /\ rec' = [rec EXCEPT !.pc = "owner"]
       ELSE /\ rec' = [rec EXCEPT !.pc = "conflict"]
            /\ UNCHANGED <<groups, open>>
    /\ UNCHANGED <<rows, legacyRecent>>
    /\ ThreadOnly

\* The claim's own session marks the row; the scan's session stays cached
RecoveryLosesClaim ==
    /\ InThread("conflict")
    /\ \E ok \in Commits :
          rows' = IfCommitted(ok, MarkedDuplicate(rec.at, Unit, FALSE), rows)
    /\ rec' = NextRow
    /\ UNCHANGED <<groups, open, legacyRecent>>
    /\ ThreadOnly

\* Mutant: a unit someone has claimed is left to its claim
SkipClaimedUnit ==
    /\ InThread("owner")
    /\ Owner.status \in {"pending", "dispatched"}
    /\ rec' = NextRow
    /\ UNCHANGED database
    /\ ThreadOnly

SkipDispatchedUnit ==
    /\ InThread("owner")
    /\ Owner.status = "dispatched"
    /\ rec' = NextRow
    /\ UNCHANGED database
    /\ ThreadOnly

OwnedByAnother ==
    /\ InThread("owner")
    /\ Owner.status \in {"pending", "failed"}
    /\ ~OwnsUnit
    /\ rec' = [rec EXCEPT !.pc = "mark"]
    /\ UNCHANGED database
    /\ ThreadOnly

MarkMember ==
    /\ InThread("mark")
    /\ \E ok \in Commits :
          rows' = IfCommitted(ok, MarkedDuplicate(rec.at, Unit, FALSE), rows)
    /\ rec' = [NextRow EXCEPT !.fresh = TRUE]
    /\ UNCHANGED <<groups, open, legacyRecent>>
    /\ ThreadOnly

RecoverOwner ==
    /\ InThread("owner")
    /\ Owner.status \in {"pending", "failed"}
    /\ OwnsUnit
    /\ rec' = Recovered(Unit)
    /\ UNCHANGED database
    /\ ThreadOnly

ScanDone ==
    /\ InThread("row")
    /\ rec.at > rec.top
    /\ rec' = [rec EXCEPT !.pc = "publish"]
    /\ UNCHANGED database
    /\ ThreadOnly

\* An exception: nothing the scan decided is queued
ScanFails ==
    /\ "scan" \in Hazards
    /\ rec.pc \notin {"publish", "idle"}
    /\ rec' = [Started(rec.lo) EXCEPT !.pc = "idle"]
    /\ UNCHANGED database
    /\ ThreadOnly

\* Back on the loop: the items are queued in one segment
RequeueLostWork ==
    /\ LoopFree
    /\ InThread("publish")
    /\ queue' = queue \o rec.items
    /\ rec' = [Started(rec.lo) EXCEPT !.pc = "idle"]
    /\ UNCHANGED <<database, handler, cron, tasks, world, history>>

-----------------------------------------------------------------------------
(* The clock and the process *)

CloseWindow(k) ==
    /\ k \in open
    /\ open' = open \ {k}
    /\ UNCHANGED <<rows, groups, legacyRecent, memory, world, history>>

LookbackElapses ==
    /\ "age" \in Hazards
    /\ legacyRecent
    /\ legacyRecent' = FALSE
    /\ UNCHANGED <<rows, groups, open, memory, world, history>>

\* A crash, or a stop, and the next start: only the database survives
Restart ==
    /\ crashes < MaxCrashes
    /\ crashes' = crashes + 1
    /\ queue' = <<>>
    /\ handler' = IdleHandler
    /\ cron' = "idle"
    /\ tasks' = [s \in Slots |-> Free]
    /\ rec' = Started(rec.lo)
    /\ calls' = [k \in Keys |-> 0]
    /\ refused' = {}
    /\ UNCHANGED <<database, delivered, lost>>

-----------------------------------------------------------------------------
(* The system *)

HandlerStep == Claim \/ ClaimFails \/ ClaimUnseen \/ RecordDuplicateMember \/ Submit

CronStep ==
    CronTick \/ StatusUnavailable \/ Defer \/ DeferRaises \/ \E s \in Slots : RunSpaceEvent(s)

TaskStarts(s) ==
    \/ RunRaises(s) \/ DropMissing(s) \/ SkipIfUnitAlreadyDispatched(s) \/ NoDispatchedSibling(s)
    \/ SkipIfLegacyDispatched(s) \/ CallHermes(s)

TaskEnds(s)   == HermesAnswers(s) \/ HermesFails(s) \/ RecordRaises(s)

RecoveryStep ==
    \/ ScanWindow \/ BackfillLegacyKeys \/ SkipRow \/ RecoverKeyless \/ SeekSibling
    \/ MarkAlreadyDispatched \/ SkipDuplicate \/ SeekOwner \/ NoOwner
    \/ RecoveryClaims \/ RecoveryLosesClaim \/ SkipDispatchedUnit
    \/ OwnedByAnother \/ MarkMember \/ RecoverOwner \/ ScanDone \/ ScanFails
    \/ RequeueLostWork

Next ==
    \/ \E e \in Events : Persist(e) \/ PersistFails(e) \/ PersistUnseen(e)
    \/ HandlerStep
    \/ CronStep
    \/ \E s \in Slots : TaskStarts(s) \/ TaskEnds(s)
    \/ RecoveryStep
    \/ \E k \in Keys : CloseWindow(k)
    \/ LookbackElapses
    \/ Restart

Spec == Init /\ [][Next]_vars

\* The loop and the thread keep running, the clock advances, every call to
\* Hermes ends, and Hermes reports a free agent again and again: a run of the
\* queue's head is not put off for ever by a status that is always busy.
Fairness ==
    /\ WF_vars(HandlerStep)
    /\ WF_vars(CronTick)
    /\ SF_vars(Defer \/ \E s \in Slots : RunSpaceEvent(s))
    /\ \A s \in Slots : WF_vars(TaskStarts(s)) /\ WF_vars(TaskEnds(s))
    /\ WF_vars(RecoveryStep)
    /\ \A k \in Keys : WF_vars(CloseWindow(k))

FairSpec == Spec /\ Fairness

-----------------------------------------------------------------------------
(* Properties *)

\* The merge window keeps its promise: once a unit is recorded as dispatched,
\* every member that was stored before its window closed travelled in a call
\* that Hermes answered, and is stamped as sent (bus/dedupe.py group_is_settling
\* with resolve_group_events and record_group_dispatch).
DispatchCoversWindow ==
    \A k \in Keys : groups[k].status = "dispatched" =>
        \A r \in RowIds : rows[r].key = k /\ rows[r].early =>
            rows[r].sent /\ rows[r].carried

\* No row is stamped as sent on hearsay: it, or another member of its unit,
\* was in the payload of a call that Hermes answered - whichever of the drain
\* guard, the recovery and the dispatch itself did the stamping.
SentHasCarrier ==
    \A r \in RowIds : rows[r].sent =>
        \/ rows[r].carried
        \/ \E q \in RowIds : /\ rows[q].carried
                             /\ KeyOf[rows[q].event] = KeyOf[rows[r].event]
                             /\ KeyOf[rows[r].event] # NoKey

\* A dispatched unit is never taken back, whatever late failures of a second
\* call of the same unit report (the guard in record_group_failure).
DispatchedIsFinal ==
    [][\A k \in Keys :
          groups[k].status = "dispatched" => groups'[k].status = "dispatched"]_vars

\* Work the process holds: queued, started, being submitted, or still unread
\* by the recovery
Tracked(r) ==
    \/ \E i \in DOMAIN queue : queue[i].row = r
    \/ \E s \in Slots : tasks[s].pc # "free" /\ tasks[s].item.row = r
    \/ handler.pc # "idle" /\ handler.row = r
    \/ rec.pc # "idle"

\* "A claimed group can never be swallowed by its own claim" (bus/dedupe.py:67):
\* the lead row of a pending claim is somewhere in the process, or its webhook
\* was answered with an error in this process life.  It holds where webhooks
\* wait for the recovery scan; a scan that overlaps one can swallow its claim.
ClaimNotSwallowed ==
    \A k \in Keys : groups[k].status = "pending" =>
        groups[k].leadRow \in refused \/ Tracked(groups[k].leadRow)

\* The same without the memory: if the process stopped now, the next recovery
\* would find the lead row of every pending claim still undecided.
PendingRecoverable ==
    \A k \in Keys : groups[k].status = "pending" =>
        /\ rows[groups[k].leadRow].status = "none"
        /\ ~rows[groups[k].leadRow].sent

\* No stored event falls between the claim, the queue and the recovery: a row
\* without an outcome is held by the process, but for one whose webhook this
\* very process life has refused - Rails knows, and the next start takes it up.
NothingForgotten ==
    \A r \in RowIds : rows[r].status = "none" /\ ~rows[r].sent =>
        r \in refused \/ Tracked(r)

\* "Exactly one Hermes call per key" (docs/space_event_dedupe.md), for the
\* calls one process makes.
OneCallPerUnit == \A k \in Keys : calls[k] <= 1

\* "Any later member - including a member re-queued by the restart recovery or
\* by a duplicate enqueue - is skipped" (unit_already_dispatched): no call
\* starts for a unit of which a member was sent.  Only a legacy member still
\* without its key ceases to count, once it is past the lookback window.
NoCallAfterDispatch ==
    [][\A k \in Keys : calls'[k] > calls[k] =>
          \A r \in RowIds :
              KeyOf[rows[r].event] = k /\ (legacyRecent \/ rows[r].key # NoKey) => ~rows[r].sent]_vars

\* "The member was carried by the unit's single dispatch" (_mark_row_duplicate)
HandledWasCarried ==
    \A r \in RowIds :
        rows[r].status = "duplicate" /\ rows[r].sent => rows[r].carried

\* "Fall back to the historical (undeduped) path instead of losing the event"
\* (claim_dispatch_group)
NothingLost == lost = {}

\* Every claimed unit is eventually dispatched or failed, across restarts
UnitSettles ==
    \A k \in Keys :
        groups[k].status = "pending" ~> groups[k].status \in {"dispatched", "failed"}

\* Every stored event eventually has an outcome of its own, across restarts
RowIdBound == Len(LegacyRows) + Cardinality(Events) * MaxDeliveries

EveryRowDecided ==
    \A r \in 1 .. RowIdBound :
        r \in RowIds ~> r \in RowIds /\ (rows[r].status # "none" \/ rows[r].sent)

\* The bus implements the promise of RoutingUnit
UnitPhase == [k \in Keys |-> groups[k].status]

UnitInflight ==
    [k \in Keys |-> \E s \in Slots : tasks[s].pc = "calling" /\ tasks[s].item.key = k]

Promise == INSTANCE RoutingUnit WITH phase <- UnitPhase, inflight <- UnitInflight

UnitPromise == Promise!UnitSpec

-----------------------------------------------------------------------------
(* The inductive invariant: why the merge window can be relied on *)

\* A key, once set, is the event's own; only keyed rows can be early
RowsOK ==
    \A r \in RowIds :
        /\ rows[r].key # NoKey => rows[r].key = KeyOf[rows[r].event]
        /\ rows[r].early => rows[r].key # NoKey

\* A keyed item names a stored row of its unit, and its unit is claimed
ItemOK(item) ==
    item.key # NoKey =>
        /\ item.row \in RowIds
        /\ rows[item.row].key = item.key
        /\ groups[item.key].status # "absent"

ItemsOK ==
    /\ \A i \in DOMAIN queue : ItemOK(queue[i])
    /\ \A i \in DOMAIN rec.items : ItemOK(rec.items[i])
    /\ \A s \in Slots : tasks[s].pc # "free" => ItemOK(tasks[s].item)

\* A run past its first query has a stored row, of the unit of its guard
StartedOK ==
    \A s \in Slots : tasks[s].pc = "checked" =>
        /\ tasks[s].row \in RowIds
        /\ GuardKey(tasks[s].item, tasks[s].row) = KeyOf[rows[tasks[s].row].event]

\* The status of Hermes is only asked for when there is work, and only the
\* cron takes work away
CronOK == cron = "status" => queue # <<>>

HandlerOK ==
    handler.pc # "idle" =>
        /\ handler.row \in RowIds
        /\ rows[handler.row].key = KeyOf[rows[handler.row].event]
        /\ handler.pc # "enqueue" => rows[handler.row].key # NoKey
        /\ handler.pc = "enqueue" /\ rows[handler.row].key # NoKey =>
              groups[rows[handler.row].key].status # "absent"

\* What the scan's session has cached is stale only in the outcome of a row
RecoveryOK ==
    rec.pc \in {"backfill", "row", "sibling", "owner", "mark", "claim", "conflict"} =>
        /\ Len(rec.snap) = rec.top
        /\ rec.top <= Len(rows)
        /\ \A r \in 1 .. rec.top :
              /\ rec.snap[r].event = rows[r].event
              /\ rec.snap[r].key # NoKey => rows[r].key = rec.snap[r].key
        /\ rec.pc # "backfill" => rec.at >= 1
        /\ rec.pc \in {"sibling", "owner", "mark", "claim", "conflict"} =>
              rec.at <= rec.top /\ SeenRow.key # NoKey

\* An open window belongs to a pending message unit, and no run of the unit
\* has started; a call under way carries every early member of its unit.
WindowOK ==
    /\ open \subseteq MessageKeys
    /\ \A k \in open : groups[k].status = "pending"
    /\ \A s \in Slots : tasks[s].pc # "free" => tasks[s].item.key \notin open
    /\ \A s \in Slots : tasks[s].pc = "calling" /\ tasks[s].item.key # NoKey =>
          \A r \in RowIds : rows[r].key = tasks[s].item.key /\ rows[r].early =>
              r \in tasks[s].members

Inductive ==
    /\ TypeOK
    /\ RowsOK
    /\ ItemsOK
    /\ StartedOK
    /\ CronOK
    /\ HandlerOK
    /\ RecoveryOK
    /\ WindowOK
    /\ SentHasCarrier
    /\ DispatchCoversWindow

=============================================================================
