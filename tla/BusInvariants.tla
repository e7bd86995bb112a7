--------------------------- MODULE BusInvariants ---------------------------
(***************************************************************************)
(* The inductive invariants behind the promises of SpaceEvents that hold   *)
(* only while webhooks wait for the recovery scan and every event row is   *)
(* stored: nothing is forgotten, and no unit is called twice.              *)
(***************************************************************************)
EXTENDS SpaceEvents

-----------------------------------------------------------------------------
(* The work the process holds *)

\* Webhooks wait for the recovery scan, and every event row is stored
Orderly == Hazards \cap {"overlap", "persist"} = {}

Scanning == rec.pc \in {"backfill", "row", "sibling", "owner", "mark", "claim", "conflict"}

Undecided(r) == rows[r].status = "none" /\ ~rows[r].sent

\* While the recovery scans, nobody else is at work
RecoveryAlone ==
    rec.pc # "idle" =>
        /\ queue = <<>>
        /\ handler.pc = "idle"
        /\ cron = "idle"
        /\ \A s \in Slots : tasks[s].pc = "free"
        /\ \A k \in Keys : calls[k] = 0

HeldItems ==
    {queue[i] : i \in DOMAIN queue} \cup {rec.items[i] : i \in DOMAIN rec.items} \cup
    {tasks[s].item : s \in {t \in Slots : tasks[t].pc # "free"}}

\* Every item names a stored row
ItemsStored == \A item \in HeldItems : item.row \in RowIds

\* The lead row of a claim is a member of its unit; a dispatch stamped it
LeadsOK ==
    \A k \in Keys : groups[k].status # "absent" =>
        /\ groups[k].leadRow \in RowIds
        /\ rows[groups[k].leadRow].key = k
        /\ groups[k].status = "dispatched" => rows[groups[k].leadRow].sent

\* A run works on the row of its item; a call of a unit carries the lead row
RunsOK ==
    \A s \in Slots :
        /\ tasks[s].pc \in {"checked", "calling"} => tasks[s].row = tasks[s].item.row
        /\ tasks[s].pc = "calling" =>
              /\ tasks[s].row \in tasks[s].members
              /\ IF tasks[s].item.key = NoKey
                 THEN tasks[s].members = {tasks[s].row}
                 ELSE /\ groups[tasks[s].item.key].leadRow \in tasks[s].members
                      /\ \A r \in tasks[s].members :
                            r \in RowIds /\ rows[r].key = tasks[s].item.key

\* The row of a webhook being handled is undecided, and leads only the claim just made
HandlingOK ==
    handler.pc # "idle" =>
        /\ Undecided(handler.row)
        /\ \A s \in Slots : tasks[s].pc # "checked"
        /\ handler.pc # "enqueue" =>
              \A k \in Keys : groups[k].status # "absent" => groups[k].leadRow # handler.row
        /\ handler.pc = "enqueue" /\ rows[handler.row].key # NoKey =>
              groups[rows[handler.row].key].leadRow = handler.row

\* What the scan's session has cached is not stale for the rows still to be
\* decided, and the claims do not change under it
ScanningOK ==
    Scanning =>
        /\ rec.top = Len(rows)
        /\ rec.pc # "conflict"
        /\ IF rec.pc = "backfill" THEN rec.at = rec.lo ELSE rec.lo < rec.at
        /\ \A r \in RowIds : r >= rec.at =>
              rec.snap[r].status = rows[r].status /\ rec.snap[r].sent = rows[r].sent
        /\ rec.pc \in {"sibling", "owner", "mark", "claim"} => ~rows[rec.at].sent
        /\ rec.pc \in {"owner", "mark", "claim"} =>
              rows[rec.at].status = "none" /\ ~DispatchedSibling(Unit, rec.at)
        /\ rec.pc = "claim" => Owner.status = "absent"
        /\ rec.pc = "mark" => Owner.status # "absent" /\ Owner.leadRow # rec.at

\* What the process and its database agree on between any two steps: the recovery works
\* alone before the server serves (cron.py:103), every item names a stored row, a claim
\* is led by a row of its unit that a dispatch has stamped (dedupe.py:578), a run keeps
\* to its item, a webhook under way has an undecided row, and the scan judges rows by
\* what they still are (dedupe.py:650)
WorkInvariant ==
    RecoveryAlone /\ ItemsStored /\ LeadsOK /\ RunsOK /\ HandlingOK /\ ScanningOK

-----------------------------------------------------------------------------
(* Nothing is forgotten *)

Recovers(r) == \E i \in DOMAIN rec.items : rec.items[i].row = r

\* The scan leaves no undecided row of its window behind it, and hands over an item of
\* every one: whatever fell by the wayside before, an item dropped when the merge window
\* could not be read (executors.py:390), a webhook that could not claim or not read its
\* claim back (dedupe.py:246, 257), a scan that broke off (cron.py:120) or a crash, the next
\* start that gets through takes up
ScanMissesNothing ==
    /\ Scanning => \A r \in RowIds : rec.lo < r /\ r < rec.at /\ Undecided(r) => Recovers(r)
    /\ rec.pc = "publish" => \A r \in RowIds : rec.lo < r /\ Undecided(r) => Recovers(r)

-----------------------------------------------------------------------------
(* Keyless rows: only a legacy row, and only until the backfill            *)

LegacyKeys     == {KeyOf[LegacyRows[i].event] : i \in DOMAIN LegacyRows}
SentLegacyKeys == {KeyOf[LegacyRows[i].event] : i \in {j \in DOMAIN LegacyRows : LegacyRows[j].sent}}

\* The units of which a keyless item may be queued
LooseKeys == {NoKey} \cup IF "commit" \in Hazards THEN LegacyKeys ELSE {}

\* The units of which a keyless row may be sent
RoutedKeyless == LooseKeys \cup SentLegacyKeys

Loose(item) == item.key = NoKey => KeyOf[rows[item.row].event] \in LooseKeys

\* A row without a key is of an event without one or a legacy row; once the backfill has
\* filled in the keys of a window (dedupe.py:739), none that has a unit is left in it, so
\* that no item of such a row is ever queued
KeylessOK ==
    /\ \A r \in RowIds : rows[r].key = NoKey =>
          /\ KeyOf[rows[r].event] \in {NoKey} \cup LegacyKeys
          /\ rows[r].sent => KeyOf[rows[r].event] \in RoutedKeyless
    /\ \A item \in HeldItems : Loose(item)
    /\ rec.pc = "backfill" => rec.snap = rows
    /\ Scanning /\ rec.pc # "backfill" =>
          \A r \in RowIds :
              r > rec.lo /\ (rows[r].key = NoKey \/ (~rec.fresh /\ rec.snap[r].key = NoKey))
                 => KeyOf[rows[r].event] \in LooseKeys

\* A unit of which a member was sent has an outcome: the stamp of a row and of its claim
\* come in one commit (dedupe.py:554), so that the next scan can trust either
SentIsSettled ==
    \A r \in RowIds : rows[r].sent /\ rows[r].key # NoKey =>
        groups[rows[r].key].status \in {"dispatched", "failed"}

-----------------------------------------------------------------------------
(* No second call *)

\* A row has one item at most
OneItemPerRow ==
    /\ \A i, j \in DOMAIN queue : queue[i].row = queue[j].row => i = j
    /\ \A i, j \in DOMAIN rec.items : rec.items[i].row = rec.items[j].row => i = j
    /\ \A s, t \in Slots :
          tasks[s].pc # "free" /\ tasks[t].pc # "free" /\ tasks[s].item.row = tasks[t].item.row
             => s = t
    /\ \A i \in DOMAIN queue, s \in Slots :
          tasks[s].pc # "free" => queue[i].row # tasks[s].item.row
    /\ handler.pc # "idle" =>
          /\ \A i \in DOMAIN queue : queue[i].row # handler.row
          /\ \A s \in Slots : tasks[s].pc # "free" => tasks[s].item.row # handler.row
    /\ rec.pc \in {"idle", "scan", "backfill"} => rec.items = <<>>
    /\ Scanning => \A i \in DOMAIN rec.items : rec.items[i].row < rec.at

\* A row sent while its item waits was sent with a sibling
SentHasSibling ==
    \A item \in HeldItems :
        rows[item.row].sent => DispatchedSibling(rows[item.row].key, item.row)

\* Nothing comes between the two queries of the guard and the call
CheckedOK ==
    \A s \in Slots : tasks[s].pc = "checked" =>
        /\ \A t \in Slots \ {s} : tasks[t].pc # "checked"
        /\ ~DispatchedSibling(GuardKey(tasks[s].item, tasks[s].row), tasks[s].row)

\* A row has one item at most, wherever it waits; an item whose row was sent has a sent
\* sibling, so that the guard, which does not look at the row itself (dedupe.py:349),
\* skips it; and what the guard found still holds when the call starts (executors.py:434)
CallInvariant == OneItemPerRow /\ SentHasSibling /\ CheckedOK

LeadItem(item) == item.key # NoKey => item.row = groups[item.key].leadRow

\* Where every event is stored once, only the row a claim was made for has an item, be it
\* queued by its handler or by the recovery (main.py:80, dedupe.py:712)
LeadItems ==
    /\ \A q, r \in RowIds : rows[q].event = rows[r].event => q = r
    /\ \A r \in RowIds : delivered[rows[r].event] >= 1
    /\ \A item \in HeldItems : LeadItem(item)

Waits(r) ==
    \/ \E i \in DOMAIN queue : queue[i].row = r
    \/ \E s \in Slots : tasks[s].pc \in {"ready", "checked"} /\ tasks[s].item.row = r
    \/ handler.pc # "idle" /\ handler.row = r

\* A unit is called at most once, and from then on no item of it waits: neither in the
\* queue nor in a run before its call nor in a handler about to submit it
CalledOnce ==
    \A k \in Keys :
        /\ calls[k] <= 1
        /\ calls[k] = 1 => groups[k].status # "absent" /\ ~Waits(groups[k].leadRow)

\* Inline, the cron waits for the run it started: there is never a second (cron.py:26)
InlineOK ==
    ~FireAndForget =>
        \A s \in Slots : tasks[s].pc # "free" =>
            cron = "busy" /\ \A t \in Slots \ {s} : tasks[t].pc = "free"

=============================================================================
