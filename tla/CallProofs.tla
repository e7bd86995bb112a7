----------------------------- MODULE CallProofs -----------------------------
(***************************************************************************)
(* Proofs of what the bus promises about calls: none starts for a unit of  *)
(* which a member was sent, and where every event is delivered once a unit *)
(* is called once and the bus implements RoutingUnit.                      *)
(***************************************************************************)
EXTENDS RecoveryProofs

-----------------------------------------------------------------------------
(* Sequences of items, a row once *)

RowOnce(q) == \A i, j \in DOMAIN q : q[i].row = q[j].row => i = j

LEMMA AppendedOnce ==
  ASSUME NEW q \in Seq(Item), NEW x \in Item, RowOnce(q),
         \A y \in Entries(q) : y.row # x.row
  PROVE  RowOnce(Append(q, x))
<1> DEFINE t == Append(q, x)
<1>1. /\ DOMAIN t = 1 .. Len(q) + 1 /\ DOMAIN q = 1 .. Len(q) /\ Len(q) \in Nat
      /\ \A i \in 1 .. Len(q) : t[i] = q[i]
      /\ t[Len(q) + 1] = x
  BY AppendProperties, LenProperties
<1> HIDE DEF t
<1>2. \A i \in 1 .. Len(q) : t[i].row # x.row
  BY <1>1 DEF Entries
<1> SUFFICES ASSUME NEW i \in 1 .. Len(q) + 1, NEW j \in 1 .. Len(q) + 1, t[i].row = t[j].row
             PROVE  i = j
  BY <1>1 DEF RowOnce, t
<1>3. CASE i \in 1 .. Len(q) /\ j \in 1 .. Len(q)
  BY <1>1, <1>3 DEF RowOnce
<1>4. CASE i = Len(q) + 1 /\ j \in 1 .. Len(q)
  BY <1>1, <1>2, <1>4
<1>5. CASE i \in 1 .. Len(q) /\ j = Len(q) + 1
  BY <1>1, <1>2, <1>5
<1> QED
  BY <1>1, <1>3, <1>4, <1>5

LEMMA TakenOnce ==
  ASSUME NEW q \in Seq(Item), q # <<>>, RowOnce(q)
  PROVE  /\ RowOnce(Tail(q))
         /\ \A y \in Entries(Tail(q)) : y.row # Head(q).row
         /\ RowOnce(Append(Tail(q), Head(q)))
<1> DEFINE t == Tail(q)
           x == Head(q)
<1>1. /\ DOMAIN q = 1 .. Len(q) /\ Len(q) \in Nat /\ Len(q) >= 1
      /\ x = q[1] /\ x \in Item
      /\ t \in Seq(Item) /\ Len(t) = Len(q) - 1
      /\ \A i \in 1 .. Len(t) : t[i] = q[i + 1]
  BY HeadTailProperties, LenProperties, EmptySeq
<1>2. DOMAIN t = 1 .. Len(q) - 1
  BY <1>1, LenProperties
<1> HIDE DEF t, x
<1>3. RowOnce(t)
  <2> SUFFICES ASSUME NEW i \in 1 .. Len(q) - 1, NEW j \in 1 .. Len(q) - 1, t[i].row = t[j].row
               PROVE  i = j
    BY <1>2 DEF RowOnce
  <2>1. i + 1 \in DOMAIN q /\ j + 1 \in DOMAIN q /\ q[i + 1].row = q[j + 1].row
    BY <1>1
  <2>2. i + 1 = j + 1
    BY <2>1 DEF RowOnce
  <2> QED
    BY <1>1, <2>2
<1>4. \A y \in Entries(t) : y.row # x.row
  <2> SUFFICES ASSUME NEW i \in 1 .. Len(q) - 1, t[i].row = x.row
               PROVE  FALSE
    BY <1>2 DEF Entries
  <2>1. i + 1 \in DOMAIN q /\ 1 \in DOMAIN q /\ q[i + 1].row = q[1].row
    BY <1>1
  <2>2. i + 1 = 1
    BY <2>1 DEF RowOnce
  <2> QED
    BY <1>1, <2>2
<1>5. RowOnce(Append(t, x))
  BY <1>1, <1>3, <1>4, AppendedOnce
<1> QED
  BY <1>3, <1>4, <1>5 DEF t, x

LEMMA EmptyOnce == RowOnce(<<>>)
  BY DEF RowOnce

-----------------------------------------------------------------------------
(* A row has one item at most *)

\* In the queue, the runs and the hand of the webhook
LoopOnce ==
    /\ RowOnce(queue)
    /\ \A s, t \in Slots :
          tasks[s].pc # "free" /\ tasks[t].pc # "free" /\ tasks[s].item.row = tasks[t].item.row
             => s = t
    /\ \A x \in Entries(queue), s \in Slots : tasks[s].pc # "free" => x.row # tasks[s].item.row
    /\ handler.pc # "idle" =>
          /\ \A x \in Entries(queue) : x.row # handler.row
          /\ \A s \in Slots : tasks[s].pc # "free" => tasks[s].item.row # handler.row

\* In the hand of the recovery
ScanOnce ==
    /\ RowOnce(rec.items)
    /\ rec.pc \in {"idle", "scan", "backfill"} => rec.items = <<>>
    /\ Scanning => \A x \in Entries(rec.items) : x.row < rec.at

LEMMA OneItemUnfolded ==
  /\ OneItemPerRow <=> LoopOnce /\ ScanOnce
  /\ OneItemPerRow' <=> LoopOnce' /\ ScanOnce'
  BY DEF OneItemPerRow, LoopOnce, ScanOnce, RowOnce, Entries

\* Items are only taken away
LEMMA FewerItems ==
  ASSUME LoopOnce, RowOnce(queue'), Entries(queue') \subseteq Entries(queue),
         \A s \in Slots : tasks'[s].pc # "free" =>
            tasks[s].pc # "free" /\ tasks'[s].item = tasks[s].item,
         handler'.pc = "idle" \/ (handler.pc # "idle" /\ handler'.row = handler.row)
  PROVE  LoopOnce'
  BY DEF LoopOnce

LEMMA ScanOnceStep ==
  ASSUME Orderly, Inductive, WorkInvariant, ScanOnce, [Next]_vars
  PROVE  ScanOnce'
<1>0. /\ rec \in Recovery /\ rec.items \in Seq(Item) /\ rows \in Seq(Row) /\ rec.at \in Nat
      /\ \A x \in Entries(rec.items) : x.row \in Nat
  <2>1. rec.items \in Seq(Item)
    BY DEF Inductive, TypeOK, Recovery
  <2>2. \A x \in Entries(rec.items) : x \in Item
    BY <2>1, ElementOfSeq, LenProperties DEF Entries
  <2> QED
    BY <2>1, <2>2 DEF Inductive, TypeOK, Recovery, Item
<1>1. CASE rec' = rec
  BY <1>1 DEF ScanOnce, Scanning
<1>2. CASE ScanStarts
  BY <1>2, EmptyOnce DEF ScanStarts, ScanOnce, Scanning
<1>3. CASE ScanWindow
  <2>1. PICK lo : rec' = [rec EXCEPT !.pc = "backfill", !.lo = lo, !.at = lo,
                                     !.top = Len(rows), !.snap = rows]
    BY <1>3 DEF ScanWindow
  <2>2. rec'.items = rec.items
    BY <1>0, <2>1 DEF Recovery
  <2>3. rec.items = <<>>
    BY <1>3 DEF ScanWindow, InThread, ScanOnce
  <2> QED
    BY <2>2, <2>3, EmptyOnce, EntriesOfEmpty DEF ScanOnce
<1>4. CASE ScanDone
  <2>1. rec' = [rec EXCEPT !.pc = "publish"]
    BY <1>4 DEF ScanDone
  <2>2. rec'.items = rec.items /\ rec'.pc = "publish"
    BY <1>0, <2>1 DEF Recovery
  <2> QED
    BY <2>2 DEF ScanOnce, Scanning
<1>5. CASE Scanning' /\ ~Ticks /\ ~ScanWindow
  <2>1. Scanning /\ rec'.pc \notin {"idle", "scan", "backfill"}
    BY <1>5, ScanGoesOn, Zenon DEF Scanning
  <2>2. CASE rec'.items = rec.items /\ (rec'.at = rec.at \/ rec'.at = rec.at + 1)
    BY <1>0, <2>1, <2>2 DEF ScanOnce
  <2>3. CASE RecoverKeyless \/ RecoverOwner
    <3>1. PICK k \in Key : rec' = Recovered(k) /\ rec.at \in RowIds
      BY <2>3, ScannedRow DEF RecoverKeyless, RecoverOwner, AtRow, InThread, Key
    <3>2. /\ RecoveredItem(k) \in Item /\ RecoveredItem(k).row = rec.at
          /\ rec'.items = Append(rec.items, RecoveredItem(k)) /\ rec'.at = rec.at + 1
      BY <1>0, <3>1, RecoveredType DEF RecoveredItem
    <3>3. Entries(rec'.items) = Entries(rec.items) \cup {RecoveredItem(k)}
      BY <1>0, <3>2, AppendedEntries
    <3>4. RowOnce(rec'.items)
      BY <1>0, <2>1, <3>2, AppendedOnce DEF ScanOnce
    <3> QED
      BY <1>0, <2>1, <3>2, <3>3, <3>4 DEF ScanOnce
  <2>4. CASE \/ BackfillLegacyKeys \/ SkipRow \/ SkipDuplicate \/ MarkAlreadyDispatched
             \/ SkipDispatchedUnit \/ MarkMember
    <3>1. rec' = NextRow \/ \E fresh \in BOOLEAN : rec' = [NextRow EXCEPT !.fresh = fresh]
      BY <2>4 DEF BackfillLegacyKeys, SkipRow, SkipDuplicate, MarkAlreadyDispatched,
                  SkipDispatchedUnit, MarkMember
    <3> QED
      BY <1>0, <2>2, <3>1, NextRowType
  <2> QED
    BY <1>5, <2>2, <2>3, <2>4, ScanGoesOn
<1>6. CASE Ticks
  BY <1>1, <1>6 DEF Ticks, memory
<1>7. CASE RecoveryStep /\ ~Scanning'
  <2>1. ASSUME ScanFails \/ RequeueLostWork
        PROVE  ScanStarts
    BY <2>1 DEF ScanFails, RequeueLostWork, Started, ScanStarts
  <2> QED
    BY <1>2, <1>4, <1>7, <2>1, ScanLeaves
<1> QED
  BY <1>1, <1>2, <1>3, <1>5, <1>6, <1>7, ScanFrame

LEMMA LoopOnceStep ==
  ASSUME Orderly, Inductive, WorkInvariant, LoopOnce, ScanOnce, [Next]_vars
  PROVE  LoopOnce'
<1>0. /\ queue \in Seq(Item) /\ rows \in Seq(Row) /\ tasks \in [Slots -> Task \cup {Free}]
      /\ handler \in [pc : {"idle", "claim", "conflict", "enqueue"}, row : Nat]
      /\ rec.items \in Seq(Item)
  BY DEF Inductive, TypeOK, Recovery
<1>1. /\ \A x \in Entries(queue) : x.row \in RowIds
      /\ \A s \in Slots : tasks[s].pc # "free" => tasks[s].item.row \in RowIds
  BY HeldEntries DEF WorkInvariant, ItemsStored
\* Nothing is queued, and no run takes up an item
<1>2. ASSUME queue' = queue,
             \A s \in Slots : tasks'[s] = tasks[s] \/ tasks'[s] = Free
                              \/ (tasks[s].pc # "free" /\ tasks'[s].item = tasks[s].item),
             handler'.pc = "idle" \/ (handler.pc # "idle" /\ handler'.row = handler.row)
      PROVE  LoopOnce'
  <2>1. \A s \in Slots : tasks'[s].pc # "free" =>
           tasks[s].pc # "free" /\ tasks'[s].item = tasks[s].item
    BY <1>2 DEF Free
  <2> QED
    BY <1>2, <2>1, FewerItems DEF LoopOnce
<1>3. ASSUME NEW e \in Events, Persist(e)
      PROVE  LoopOnce'
  <2>1. /\ queue' = queue /\ tasks' = tasks /\ handler'.row = Len(rows) + 1
        /\ Len(rows) + 1 \notin RowIds
    BY <1>0, <1>3, RowIdsAreIndices DEF Persist
  <2> QED
    BY <1>1, <2>1 DEF LoopOnce
<1>4. CASE Submit
  <2>1. /\ SubmittedItem \in Item /\ SubmittedItem.row = handler.row
        /\ handler.pc = "enqueue" /\ handler' = IdleHandler /\ tasks' = tasks
        /\ queue' = Append(queue, SubmittedItem)
    BY <1>0, <1>4, HandledRow, StoredItem DEF Submit, SubmittedItem
  <2>2. Entries(queue') = Entries(queue) \cup {SubmittedItem}
    BY <1>0, <2>1, AppendedEntries
  <2>3. RowOnce(queue')
    BY <1>0, <2>1, AppendedOnce DEF LoopOnce
  <2> QED
    BY <2>1, <2>2, <2>3 DEF LoopOnce, IdleHandler
<1>5. CASE Defer \/ DeferRaises
  <2>1. /\ queue # <<>> /\ tasks' = tasks /\ handler' = handler
        /\ queue' = Tail(queue) \/ queue' = Append(Tail(queue), Head(queue))
    BY <1>5 DEF Inductive, CronOK, Defer, DeferRaises
  <2>2. RowOnce(queue') /\ Entries(queue') \subseteq Entries(queue)
    <3>1. RowOnce(Tail(queue)) /\ RowOnce(Append(Tail(queue), Head(queue)))
      BY <1>0, <2>1, TakenOnce DEF LoopOnce
    <3>2. /\ Entries(Tail(queue)) \subseteq Entries(queue)
          /\ Entries(Append(Tail(queue), Head(queue))) = Entries(queue)
      BY <1>0, <2>1, RotatedEntries, EntriesOfHeadTail
    <3> QED
      BY <2>1, <3>1, <3>2
  <2> QED
    BY <2>1, <2>2, FewerItems
<1>6. ASSUME NEW s \in Slots, RunSpaceEvent(s)
      PROVE  LoopOnce'
  <2>1. /\ queue # <<>> /\ queue' = Tail(queue) /\ handler' = handler
        /\ tasks'[s].item = Head(queue)
        /\ \A t \in Slots \ {s} : tasks'[t] = tasks[t]
    BY <1>0, <1>6 DEF Inductive, CronOK, RunSpaceEvent
  <2>2. /\ RowOnce(queue') /\ Entries(queue') \subseteq Entries(queue)
        /\ Head(queue) \in Entries(queue)
        /\ \A y \in Entries(queue') : y.row # Head(queue).row
    BY <1>0, <2>1, TakenOnce, EntriesOfHeadTail DEF LoopOnce
  <2>3. \A x \in Entries(queue'), t \in Slots : tasks'[t].pc # "free" => x.row # tasks'[t].item.row
    BY <2>1, <2>2 DEF LoopOnce
  <2>4. \A t \in Slots \ {s} : tasks'[t].pc # "free" => tasks'[t].item.row # tasks'[s].item.row
    BY <2>1, <2>2 DEF LoopOnce
  <2>5. ASSUME NEW t \in Slots, NEW u \in Slots, tasks'[t].pc # "free", tasks'[u].pc # "free",
               tasks'[t].item.row = tasks'[u].item.row
        PROVE  t = u
    BY <2>1, <2>4, <2>5 DEF LoopOnce
  <2>6. handler'.pc # "idle" =>
          /\ \A x \in Entries(queue') : x.row # handler'.row
          /\ \A t \in Slots : tasks'[t].pc # "free" => tasks'[t].item.row # handler'.row
    BY <2>1, <2>2 DEF LoopOnce
  <2> QED
    BY <2>2, <2>3, <2>5, <2>6 DEF LoopOnce
<1>7. CASE RequeueLostWork
  <2>1. /\ queue' = rec.items /\ handler' = handler /\ tasks' = tasks /\ handler.pc = "idle"
        /\ \A s \in Slots : tasks[s].pc = "free"
    BY <1>0, <1>7, NothingAhead
       DEF RequeueLostWork, InThread, WorkInvariant, RecoveryAlone
  <2> QED
    BY <2>1 DEF LoopOnce, ScanOnce
<1>8. CASE Restart
  <2>1. queue' = <<>> /\ handler' = IdleHandler /\ \A s \in Slots : tasks'[s] = Free
    BY <1>8 DEF Restart
  <2>2. RowOnce(queue') /\ Entries(queue') = {}
    BY <2>1, EmptyOnce, EntriesOfEmpty
  <2> QED
    BY <2>1, <2>2, FewerItems DEF IdleHandler, Free
<1>9. CASE Claim \/ ClaimFails \/ ClaimUnseen \/ RecordDuplicateMember
  <2>1. queue' = queue /\ tasks' = tasks
    BY <1>9 DEF Claim, ClaimFails, ClaimUnseen, Refuse, RecordDuplicateMember
  <2>2. handler'.pc = "idle" \/ (handler.pc # "idle" /\ handler'.row = handler.row)
    <3>1. CASE Claim
      BY <1>0, <3>1 DEF Claim
    <3>2. CASE ClaimFails \/ ClaimUnseen \/ RecordDuplicateMember
      <4>1. handler' = IdleHandler
        BY <3>2 DEF ClaimFails, ClaimUnseen, Refuse, RecordDuplicateMember
      <4> QED
        BY <4>1 DEF IdleHandler
    <3> QED
      BY <1>9, <3>1, <3>2
  <2> QED
    BY <1>2, <2>1, <2>2
<1>10. CASE CronTick \/ StatusUnavailable \/ Ticks \/ (RecoveryStep /\ ~RequeueLostWork)
  <2>1. queue' = queue /\ tasks' = tasks /\ handler' = handler
    BY <1>10, RecoveryFrame DEF CronTick, StatusUnavailable, Ticks, memory
  <2> QED
    BY <1>2, <2>1
<1>11. ASSUME NEW s \in Slots, TaskStarts(s) \/ TaskEnds(s)
       PROVE  LoopOnce'
  <2>1. queue' = queue /\ handler' = handler
    BY <1>11
       DEF TaskStarts, TaskEnds, RunRaises, DropMissing, SkipIfUnitAlreadyDispatched,
           SkipIfLegacyDispatched, MarkSkipped, NoDispatchedSibling, CallHermes,
           HermesAnswers, HermesFails, RecordRaises
  <2>2. CASE NoDispatchedSibling(s) \/ CallHermes(s)
    <3>1. /\ tasks[s].pc # "free" /\ tasks'[s].item = tasks[s].item
          /\ \A t \in Slots \ {s} : tasks'[t] = tasks[t]
      BY <1>0, <2>2 DEF NoDispatchedSibling, CallHermes, Starting
    <3> QED
      BY <1>2, <2>1, <3>1
  <2>3. CASE ~(NoDispatchedSibling(s) \/ CallHermes(s))
    <3>1. RunEnds(s)
      BY <1>11, <2>3
         DEF TaskStarts, TaskEnds, RunRaises, DropMissing, SkipIfUnitAlreadyDispatched,
             SkipIfLegacyDispatched, MarkSkipped, HermesAnswers, HermesFails, RecordRaises,
             Answered
    <3>2. \A t \in Slots : tasks'[t] = tasks[t] \/ tasks'[t] = Free
      BY <1>0, <3>1 DEF RunEnds
    <3> QED
      BY <1>2, <2>1, <3>2
  <2> QED
    BY <2>2, <2>3
<1>12. ASSUME NEW e \in Events, PersistFails(e) \/ PersistUnseen(e)
       PROVE  FALSE
  BY <1>12 DEF PersistFails, PersistUnseen, Orderly
<1> QED
  BY <1>3, <1>4, <1>5, <1>6, <1>7, <1>8, <1>9, <1>10, <1>11, <1>12, ClockTicks
     DEF Next, HandlerStep, CronStep

-----------------------------------------------------------------------------
(* A row that was sent while its item waits was sent with a sibling *)

\* A run that ends takes the item of its row with it
LEMMA ItemGone ==
  ASSUME Orderly, Inductive, WorkInvariant, LoopOnce, ScanOnce,
         NEW s \in Slots, tasks[s].pc # "free", RunEnds(s),
         queue' = queue, rec' = rec,
         NEW item \in HeldItems'
  PROVE  item.row # tasks[s].item.row
<1>1. tasks \in [Slots -> Task \cup {Free}] /\ rec.pc = "idle"
  BY DEF Inductive, TypeOK, WorkInvariant, RecoveryAlone
<1>2. tasks'[s] = Free /\ \A t \in Slots \ {s} : tasks'[t] = tasks[t]
  BY <1>1 DEF RunEnds
<1>3. CASE item \in Entries(queue')
  BY <1>3 DEF LoopOnce
<1>4. CASE item \in Entries(rec'.items)
  BY <1>1, <1>4, EntriesOfEmpty DEF ScanOnce
<1>5. ASSUME NEW t \in Slots, tasks'[t].pc # "free", item = tasks'[t].item
      PROVE  item.row # tasks[s].item.row
  BY <1>2, <1>5 DEF LoopOnce, Free
<1> QED
  BY <1>3, <1>4, <1>5, HeldEntries

LEMMA EndedRuns ==
  ASSUME NEW s \in Slots, Skips(s) \/ TaskEnds(s)
  PROVE  tasks[s].pc # "free" /\ RunEnds(s) /\ queue' = queue /\ rec' = rec
  BY DEF Skips, TaskEnds, SkipIfUnitAlreadyDispatched, SkipIfLegacyDispatched, MarkSkipped,
         Starting, HermesAnswers, HermesFails, RecordRaises, Answered

\* A sibling, once sent, stays one
LEMMA SiblingStays ==
  ASSUME Inductive, [Next]_vars, NEW r \in RowIds, rows[r].key # NoKey,
         DispatchedSibling(rows[r].key, r)
  PROVE  DispatchedSibling(rows[r].key, r)' /\ rows'[r].key = rows[r].key
<1>1. PICK q \in RowIds \ {r} : rows[q].key = rows[r].key /\ rows[q].sent
  BY DEF DispatchedSibling
<1>2. /\ q \in RowIds' /\ rows'[q].key = rows[q].key /\ rows'[q].sent
      /\ rows'[r].key = rows[r].key
  BY <1>1, TablesStep, KeptByTables
<1> QED
  BY <1>1, <1>2 DEF DispatchedSibling

\* A dispatch that stamps a member stamps the row of the call
LEMMA SettledTogether ==
  ASSUME Inductive, WorkInvariant, [Next]_vars, NEW s \in Slots, NEW r \in RowIds,
         TaskEnds(s), tasks[s].item.key # NoKey, ~rows[r].sent, rows'[r].sent
  PROVE  LET x == tasks[s].item.row
         IN  /\ x \in RowIds /\ rows[x].key = tasks[s].item.key
             /\ rows'[x].sent
<1> DEFINE x == tasks[s].item.row
<1>1. rows \in Seq(Row) /\ rows[r] \in Row
  BY RowIdsAreIndices DEF Inductive, TypeOK
<1>2. tasks[s].pc = "calling" /\ tasks[s].row = x /\ x \in tasks[s].members
  BY DEF TaskEnds, HermesAnswers, HermesFails, RecordRaises, Answered, WorkInvariant, RunsOK
<1>3. x \in RowIds /\ rows[x].key = tasks[s].item.key /\ rows[x] \in Row
  BY <1>1, <1>2, HeldByTask, RowIdsAreIndices
<1>4. CASE HermesAnswers(s)
  <2>1. PICK ok \in BOOLEAN : rows' = DispatchedRows(tasks[s].members, tasks[s].row, ok)
    BY <1>4 DEF HermesAnswers, Commits
  <2>2. ok
    <3>1. ASSUME ~ok
          PROVE  rows'[r].sent = rows[r].sent
      BY <1>1, <2>1, <3>1 DEF DispatchedRows, RecordedRow, Row
    <3> QED
      BY <3>1
  <2> QED
    BY <1>1, <1>2, <1>3, <2>1, <2>2, DispatchedTable
<1>5. CASE HermesFails(s)
  <2>1. PICK ok \in BOOLEAN : rows' = IfCommitted(ok,
           FailedRows(ResolveGroupEvents(tasks[s].item.key, tasks[s].row)), rows)
    BY <1>5 DEF HermesFails, Commits
  <2> QED
    BY <1>1, <2>1, FailedTable DEF IfCommitted
<1>6. CASE RecordRaises(s)
  <2> DEFINE failed == ResolveGroupEvents(tasks[s].item.key, tasks[s].row)
  <2>1. PICK ok \in BOOLEAN : rows' = StampedAsFailed(tasks[s].members, failed, ok)
    BY <1>6 DEF RecordRaises
  <2> HIDE DEF failed
  <2>2. \A q \in RowIds : rows[q] \in Row =>
           rows'[q].sent = (rows[q].sent \/ (ok /\ q \in tasks[s].members))
    BY <2>1 DEF StampedAsFailed, Row
  <2> QED
    BY <1>1, <1>2, <1>3, <2>2
<1> QED
  BY <1>3, <1>4, <1>5, <1>6 DEF TaskEnds

LEMMA SentHasSiblingStep ==
  ASSUME Orderly, Inductive, WorkInvariant, LoopOnce, ScanOnce, SentHasSibling, [Next]_vars
  PROVE  SentHasSibling'
<1> SUFFICES ASSUME NEW item \in HeldItems', rows'[item.row].sent
             PROVE  DispatchedSibling(rows[item.row].key, item.row)'
  BY DEF SentHasSibling
<1>0. rows \in Seq(Row) /\ NoKey \notin Keys /\ rec.snap \in Seq(Row)
  BY ConstantsAssumption DEF Inductive, TypeOK, Recovery
<1>1. ASSUME item \in HeldItems
      PROVE  DispatchedSibling(rows[item.row].key, item.row)'
  <2> DEFINE r == item.row
  <2>1. r \in RowIds
    BY <1>1 DEF WorkInvariant, ItemsStored
  <2>2. CASE rows[r].sent
    <3>1. DispatchedSibling(rows[r].key, r) /\ rows[r].key # NoKey
      BY <1>1, <2>2 DEF SentHasSibling, DispatchedSibling
    <3> QED
      BY <2>1, <3>1, SiblingStays
  <2>3. CASE ~rows[r].sent
    <3>1. ASSUME NEW s \in Slots, Skips(s) \/ TaskEnds(s), r = tasks[s].item.row
          PROVE  FALSE
      BY <3>1, EndedRuns, ItemGone
    <3>2. ASSUME NEW s \in Slots, Settles(s, r)
          PROVE  DispatchedSibling(rows[r].key, r)'
      <4>1. TaskEnds(s) /\ tasks[s].item.key # NoKey /\ rows[r].key = tasks[s].item.key
        BY <3>1, <3>2 DEF Settles
      <4> DEFINE x == tasks[s].item.row
      <4>2. x \in RowIds /\ rows[x].key = rows[r].key /\ rows'[x].sent
        BY <2>1, <2>3, <4>1, SettledTogether
      <4>3. x # r
        BY <3>1, <4>1
      <4>4. x \in RowIds' /\ rows'[x].key = rows[r].key /\ rows'[r].key = rows[r].key
        BY <2>1, <4>1, <4>2, TablesStep, KeptByTables
      <4> QED
        BY <4>1, <4>2, <4>3, <4>4 DEF DispatchedSibling
    <3>3. CASE MarkAlreadyDispatched /\ r = rec.at
      <4>1. Unit \in Keys /\ Unit = rows[r].key /\ DispatchedSibling(Unit, r)
        BY <3>3, ScannedRow DEF MarkAlreadyDispatched, AtRow, InThread, Unit
      <4> QED
        BY <1>0, <2>1, <4>1, SiblingStays
    <3>4. CASE MarkMember /\ r = rec.at
      <4>1. Unit \in Key /\ \E ok \in Commits :
               rows' = IfCommitted(ok, MarkedDuplicate(r, Unit, FALSE), rows)
        BY <3>4, ScannedRow DEF MarkMember, AtRow, InThread, Key
      <4> QED
        BY <1>0, <2>1, <2>3, <4>1, MarkMoves
    <3> QED
      BY <2>1, <2>3, <3>1, <3>2, <3>3, <3>4, RowMoves
  <2> QED
    BY <2>2, <2>3
<1>2. CASE Submit /\ item = SubmittedItem
  <2>1. item.row = handler.row /\ rows' = rows /\ handler.pc # "idle"
    BY <1>2 DEF Submit, SubmittedItem, database
  <2> QED
    BY <2>1 DEF WorkInvariant, HandlingOK, Undecided
<1>3. CASE RecoverKeyless /\ item = RecoveredItem(NoKey)
  <2>1. /\ item.row = rec.at /\ rows' = rows /\ ~ThisRow.sent /\ rec.pc = "row"
        /\ rec.at \in RowIds
    BY <1>3, ScannedRow DEF RecoverKeyless, RecoveredItem, database, AtRow, InThread
  <2>2. rec.snap[rec.at].sent = rows[rec.at].sent
    BY <1>0, <2>1, RowIdsAreIndices DEF WorkInvariant, ScanningOK, Scanning
  <2> QED
    BY <2>1, <2>2 DEF ThisRow
<1>4. CASE RecoverOwner /\ item = RecoveredItem(Unit)
  <2>1. item.row = rec.at /\ rows' = rows /\ rec.pc = "owner"
    BY <1>4 DEF RecoverOwner, RecoveredItem, database, InThread
  <2> QED
    BY <2>1 DEF WorkInvariant, ScanningOK, Scanning
<1> QED
  BY <1>1, <1>2, <1>3, <1>4, ItemMoves

-----------------------------------------------------------------------------
(* Nothing comes between the two queries of the guard and the call *)

LEMMA CheckedIsAlone ==
  ASSUME Orderly, Inductive, WorkInvariant, CheckedOK, [Next]_vars,
         NEW s \in Slots, tasks[s].pc = "checked"
  PROVE  TaskStarts(s) \/ Restart \/ Ticks
<1>1. /\ rec.pc = "idle" /\ handler.pc = "idle" /\ ~LoopTurns /\ ~LoopFree
      /\ \A t \in Slots \ {s} : tasks[t].pc # "checked"
  BY DEF WorkInvariant, RecoveryAlone, HandlingOK, LoopTurns, LoopFree, CheckedOK
<1>2. ASSUME NEW e \in Events, Persist(e) \/ PersistFails(e) \/ PersistUnseen(e)
      PROVE  FALSE
  BY <1>1, <1>2 DEF Persist, PersistFails, PersistUnseen, Receive
<1>3. ~HandlerStep
  BY <1>1
     DEF HandlerStep, Claim, ClaimFails, ClaimUnseen, Refuse, RecordDuplicateMember, Submit
<1>4. ~CronStep
  BY <1>1 DEF CronStep, CronTick, StatusUnavailable, Defer, DeferRaises, RunSpaceEvent
<1>5. ASSUME NEW t \in Slots, TaskStarts(t) \/ TaskEnds(t)
      PROVE  t = s /\ TaskStarts(s)
  BY <1>1, <1>5
     DEF TaskStarts, TaskEnds, RunRaises, DropMissing, SkipIfUnitAlreadyDispatched,
         NoDispatchedSibling, SkipIfLegacyDispatched, CallHermes, HermesAnswers,
         HermesFails, RecordRaises, Answered, Starting
<1>6. ~RecoveryStep
  BY <1>1, RecoveryMoves
<1> QED
  BY <1>2, <1>3, <1>4, <1>5, <1>6, ClockTicks DEF Next

LEMMA CheckedOKStep ==
  ASSUME Orderly, Inductive, WorkInvariant, CheckedOK, [Next]_vars
  PROVE  CheckedOK'
<1> SUFFICES ASSUME NEW s \in Slots, tasks'[s].pc = "checked"
             PROVE  /\ \A t \in Slots \ {s} : tasks'[t].pc # "checked"
                    /\ ~DispatchedSibling(GuardKey(tasks[s].item, tasks[s].row), tasks[s].row)'
  BY DEF CheckedOK
<1>0. tasks \in [Slots -> Task \cup {Free}]
  BY DEF Inductive, TypeOK
<1>1. CASE tasks[s].pc = "checked"
  <2>1. CASE Ticks
    BY <1>1, <2>1 DEF Ticks, memory, CheckedOK, DispatchedSibling, GuardKey, RowIds
  <2>2. ~Restart
    BY DEF Restart, Free
  <2>3. ~TaskStarts(s)
    <3>1. ASSUME RunEnds(s)
          PROVE  FALSE
      BY <1>0, <3>1 DEF RunEnds, Free
    <3>2. ~CallHermes(s)
      BY <1>0 DEF CallHermes
    <3>3. ~NoDispatchedSibling(s)
      BY <1>1 DEF NoDispatchedSibling, Starting
    <3> QED
      BY <3>1, <3>2, <3>3
         DEF TaskStarts, RunRaises, DropMissing, SkipIfUnitAlreadyDispatched,
             SkipIfLegacyDispatched, MarkSkipped
  <2> QED
    BY <1>1, <2>1, <2>2, <2>3, CheckedIsAlone
<1>2. CASE tasks[s].pc # "checked"
  <2>1. NoDispatchedSibling(s)
    <3>1. tasks'[s] # tasks[s] /\ tasks'[s] # Free
      BY <1>2 DEF Free
    <3>2. tasks'[s] # [pc |-> "ready", item |-> Head(queue), row |-> NoRow, members |-> {}]
      OBVIOUS
    <3>3. tasks'[s] # [pc |-> "calling", item |-> tasks[s].item, row |-> tasks[s].row,
                       members |-> ResolveGroupEvents(tasks[s].item.key, tasks[s].row)]
      OBVIOUS
    <3> QED
      BY <3>1, <3>2, <3>3, TaskMoves
  <2> DEFINE r == LoadSpaceEvent(tasks[s].item)
  <2>2. /\ LoopTurns /\ rows' = rows
        /\ ~DispatchedSibling(GuardKey(tasks[s].item, r), r)
        /\ tasks' = [tasks EXCEPT ![s] =
              [pc |-> "checked", item |-> tasks[s].item, row |-> r, members |-> {}]]
    BY <2>1 DEF NoDispatchedSibling, Starting, database
  <2> HIDE DEF r
  <2>3. /\ tasks'[s].item = tasks[s].item /\ tasks'[s].row = r
        /\ \A t \in Slots \ {s} : tasks'[t] = tasks[t]
    BY <1>0, <2>2
  <2>4. \A t \in Slots \ {s} : tasks'[t].pc # "checked"
    BY <2>2, <2>3 DEF LoopTurns
  <2> QED
    BY <2>2, <2>3, <2>4 DEF DispatchedSibling, GuardKey, RowIds
<1> QED
  BY <1>1, <1>2

LEMMA CallInit == Init => CallInvariant
<1> SUFFICES ASSUME Init
             PROVE  CallInvariant
  OBVIOUS
<1>1. /\ queue = <<>> /\ handler.pc = "idle" /\ \A s \in Slots : tasks[s].pc = "free"
      /\ rec.pc = "scan" /\ rec.items = <<>>
  BY DEF Init, IdleHandler, Started, Free
<1>2. HeldItems = {}
  BY <1>1 DEF HeldItems
<1> QED
  BY <1>1, <1>2 DEF CallInvariant, OneItemPerRow, SentHasSibling, CheckedOK, Scanning

LEMMA CallStep ==
  ASSUME Orderly, Inductive, WorkInvariant, CallInvariant, [Next]_vars
  PROVE  CallInvariant'
<1>1. LoopOnce /\ ScanOnce /\ SentHasSibling /\ CheckedOK
  BY OneItemUnfolded DEF CallInvariant
<1>2. LoopOnce' /\ ScanOnce'
  BY <1>1, LoopOnceStep, ScanOnceStep
<1>3. SentHasSibling' /\ CheckedOK'
  BY <1>1, SentHasSiblingStep, CheckedOKStep
<1> QED
  BY <1>2, <1>3, OneItemUnfolded DEF CallInvariant

\* A row has one item at most, a row stamped while its item waits was stamped with a
\* sibling, and nothing comes between the two queries of the guard and the call
\* (unit_already_dispatched, run_space_event)
THEOREM CallInvariance ==
  ASSUME Orderly
  PROVE  Spec => []CallInvariant
<1>1. Inductive /\ WorkInvariant /\ CallInvariant /\ [Next]_vars => CallInvariant'
  BY CallStep
<1> QED
  BY <1>1, CallInit, WorkInvariance, InductiveInvariance, PTL DEF Spec

\* Past the backfill a row or an item without a key belongs to no unit, but for what the
\* hazards and the rows routed before the deployment leave (_backfill_legacy_keys)
THEOREM KeylessInvariance ==
  ASSUME Orderly
  PROVE  Spec => []KeylessOK
<1>1. Inductive /\ WorkInvariant /\ KeylessOK /\ [Next]_vars => KeylessOK'
  BY KeylessStep
<1> QED
  BY <1>1, KeylessInit, WorkInvariance, InductiveInvariance, PTL DEF Spec

\* Who calls
LEMMA CallMoves ==
  ASSUME Inductive, WorkInvariant, [Next]_vars, NEW k \in Keys
  PROVE  \/ calls'[k] = calls[k]
         \/ Restart /\ calls'[k] = 0
         \/ \E s \in Slots : /\ CallHermes(s) /\ KeyOf[rows[tasks[s].row].event] = k
                             /\ calls'[k] = calls[k] + 1
<1>1. ASSUME NEW s \in Slots, CallHermes(s)
      PROVE  calls'[k] = IF k = KeyOf[rows[tasks[s].row].event] THEN calls[k] + 1 ELSE calls[k]
  BY <1>1 DEF CallHermes
<1>2. CASE Restart
  BY <1>2 DEF Restart
<1>3. CASE \/ \E e \in Events : Persist(e) \/ PersistFails(e) \/ PersistUnseen(e)
           \/ HandlerStep \/ CronStep
           \/ \E s \in Slots : \/ RunRaises(s) \/ DropMissing(s) \/ Skips(s)
                               \/ NoDispatchedSibling(s) \/ TaskEnds(s)
  BY <1>3
     DEF Persist, PersistFails, PersistUnseen, HandlerStep, Claim, ClaimFails, ClaimUnseen, Refuse,
         RecordDuplicateMember, Submit, CronStep, CronTick, StatusUnavailable, Defer,
         DeferRaises, RunSpaceEvent, RunRaises, DropMissing, Skips,
         SkipIfUnitAlreadyDispatched, SkipIfLegacyDispatched, MarkSkipped,
         NoDispatchedSibling, TaskEnds, HermesAnswers, HermesFails, RecordRaises, history
<1>4. CASE RecoveryStep
  BY <1>4, RecoveryFrame DEF history
<1>5. CASE Ticks
  BY <1>5 DEF Ticks, history
<1> QED
  BY <1>1, <1>2, <1>3, <1>4, <1>5, ClockTicks DEF Next, TaskStarts, Skips

\* What the guard has seen when the call starts
LEMMA GuardHolds ==
  ASSUME Orderly, RoutedKeyless \subseteq MessageKeys \cup {NoKey},
         Inductive, WorkInvariant, CallInvariant, KeylessOK,
         NEW s \in Slots, CallHermes(s),
         NEW k \in Keys, KeyOf[rows[tasks[s].row].event] = k,
         NEW q \in RowIds, KeyOf[rows[q].event] = k, legacyRecent \/ rows[q].key # NoKey
  PROVE  ~rows[q].sent
<1> SUFFICES ASSUME rows[q].sent
             PROVE  FALSE
  OBVIOUS
<1> DEFINE r == tasks[s].row
<1>1. tasks[s].pc = "checked" /\ ~LegacyUnit(s) /\ k # NoKey
  BY ConstantsAssumption DEF CallHermes
<1>2. /\ r \in RowIds /\ GuardKey(tasks[s].item, r) = k /\ r = tasks[s].item.row
      /\ tasks[s].item \in HeldItems
  BY <1>1, CheckedRow, HeldByTask DEF WorkInvariant, RunsOK
<1>3. ~DispatchedSibling(k, r)
  BY <1>1, <1>2 DEF CallInvariant, CheckedOK
<1>4. \A p \in RowIds : rows[p].key # NoKey => rows[p].key = KeyOf[rows[p].event]
  BY DEF Inductive, RowsOK
<1>5. CASE q = r
  <2>1. DispatchedSibling(rows[r].key, r) /\ rows[r].key # NoKey
    BY <1>2, <1>5 DEF CallInvariant, SentHasSibling, DispatchedSibling
  <2> QED
    BY <1>2, <1>3, <1>4, <2>1
<1>6. CASE q # r /\ rows[q].key # NoKey
  BY <1>1, <1>3, <1>4, <1>6 DEF DispatchedSibling
<1>7. CASE q # r /\ rows[q].key = NoKey
  <2>1. k \in MessageKeys
    BY <1>1, <1>7 DEF KeylessOK
  <2> QED
    BY <1>1, <1>2, <1>7, <2>1 DEF LegacyUnit, LegacyDispatchedSibling
<1> QED
  BY <1>5, <1>6, <1>7

\* "Any later member - including a member re-queued by the restart recovery or by a
\* duplicate enqueue - is skipped": no call starts for a unit of which a member was
\* sent, however long ago; only a legacy member still without its key ceases to count
\* once it is past the lookback window (unit_already_dispatched, run_space_event)
THEOREM GuardKeepsItsPromise ==
  ASSUME Orderly, RoutedKeyless \subseteq MessageKeys \cup {NoKey}
  PROVE  Spec => NoCallAfterDispatch
<1> DEFINE Skipped ==
             \A k \in Keys : calls'[k] > calls[k] =>
                \A r \in RowIds : KeyOf[rows[r].event] = k /\ (legacyRecent \/ rows[r].key # NoKey)
                   => ~rows[r].sent
<1>1. Inductive /\ WorkInvariant /\ CallInvariant /\ KeylessOK /\ [Next]_vars => Skipped
  <2> SUFFICES ASSUME Inductive, WorkInvariant, CallInvariant, KeylessOK, [Next]_vars,
                      NEW k \in Keys, calls'[k] > calls[k],
                      NEW r \in RowIds, KeyOf[rows[r].event] = k,
                      legacyRecent \/ rows[r].key # NoKey
               PROVE  ~rows[r].sent
    OBVIOUS
  <2>1. calls[k] \in Nat
    BY DEF Inductive, TypeOK
  <2>2. PICK s \in Slots : CallHermes(s) /\ KeyOf[rows[tasks[s].row].event] = k
    BY <2>1, CallMoves
  <2> QED
    BY <2>2, GuardHolds
<1> HIDE DEF Skipped
<1>2. Inductive /\ WorkInvariant /\ CallInvariant /\ KeylessOK /\ [Next]_vars => [Skipped]_vars
  BY <1>1
<1>3. Spec => [][Skipped]_vars
  BY <1>2, InductiveInvariance, WorkInvariance, CallInvariance, KeylessInvariance, PTL DEF Spec
<1> QED
  BY <1>3 DEF Skipped, NoCallAfterDispatch

-----------------------------------------------------------------------------
(* Where Rails sends every event once, only the lead row of a unit has an item *)

SentOnce ==
    /\ MaxDeliveries <= 1
    /\ \A i, j \in DOMAIN LegacyRows : LegacyRows[i].event = LegacyRows[j].event => i = j

LEMMA DeliveriesMove ==
  ASSUME Inductive, [Next]_vars, NEW e \in Events
  PROVE  \/ delivered'[e] = delivered[e]
         \/ delivered'[e] = delivered[e] + 1
<1>1. delivered \in [Events -> Nat]
  BY DEF Inductive, TypeOK
<1>2. ASSUME NEW d \in Events, Persist(d) \/ PersistFails(d) \/ PersistUnseen(d)
      PROVE  delivered' = [delivered EXCEPT ![d] = @ + 1]
  BY <1>2 DEF Persist, PersistFails, PersistUnseen, Receive
<1>3. CASE \/ HandlerStep \/ CronStep \/ \E s \in Slots : TaskStarts(s) \/ TaskEnds(s)
           \/ Restart
  <2>1. delivered' = delivered
    BY <1>3
       DEF HandlerStep, Claim, ClaimFails, ClaimUnseen, Refuse, RecordDuplicateMember, Submit,
           CronStep, CronTick, StatusUnavailable, Defer, DeferRaises, RunSpaceEvent,
         TaskStarts, TaskEnds,
           RunRaises, DropMissing, SkipIfUnitAlreadyDispatched, SkipIfLegacyDispatched,
           MarkSkipped, NoDispatchedSibling, CallHermes, HermesAnswers, HermesFails,
           RecordRaises, Restart, world
  <2> QED
    BY <2>1
<1>4. CASE RecoveryStep
  BY <1>4, RecoveryFrame DEF world
<1>5. CASE Ticks
  BY <1>5 DEF Ticks
<1> QED
  BY <1>1, <1>2, <1>3, <1>4, <1>5, ClockTicks DEF Next

LEMMA LeadItemsStep ==
  ASSUME Orderly, SentOnce, Inductive, WorkInvariant, LeadItems, [Next]_vars
  PROVE  LeadItems'
<1>0. /\ rows \in Seq(Row) /\ delivered \in [Events -> Nat] /\ MaxDeliveries \in Nat
      /\ \A r \in RowIds : rows[r].event \in Events
      /\ \A r \in RowIds : r \in RowIds' /\ rows'[r].event = rows[r].event
  BY RowIdsAreIndices, TablesStep, KeptByTables, ConstantsAssumption
     DEF Inductive, TypeOK, Row
<1>1. ASSUME NEW r \in RowIds', r \notin RowIds
      PROVE  \E e \in Events : /\ r = Len(rows) + 1 /\ rows'[r].event = e
                               /\ delivered[e] = 0 /\ delivered'[e] = 1
  <2>1. PICK e \in Events : Persist(e) \/ PersistUnseen(e)
    BY <1>1, RowsGrow DEF RowIds
  <2>2. r = Len(rows) + 1 /\ rows'[r] = StoredRow(e)
    BY <1>1, <2>1, StoredWebhook
  <2>3. delivered[e] < MaxDeliveries /\ delivered' = [delivered EXCEPT ![e] = @ + 1]
    BY <2>1 DEF Persist, PersistUnseen, Receive
  <2>4. rows'[r].event = e
    BY <2>2, StoredFields
  <2>5. delivered[e] \in Nat /\ delivered[e] < MaxDeliveries /\ MaxDeliveries \in Nat
    BY <1>0, <2>3
  <2>6. MaxDeliveries <= 1
    BY DEF SentOnce
  <2>7. delivered[e] = 0
    BY <2>5, <2>6
  <2>8. delivered'[e] = delivered[e] + 1
    BY <1>0, <2>3
  <2>9. delivered'[e] = 1
    BY <2>7, <2>8
  <2> QED
    BY <2>2, <2>4, <2>7, <2>9
<1>2. ASSUME NEW q \in RowIds', NEW r \in RowIds', rows'[q].event = rows'[r].event
      PROVE  q = r
  <2>1. CASE q \in RowIds /\ r \in RowIds
    BY <1>0, <1>2, <2>1 DEF LeadItems
  <2>2. \A p \in RowIds : delivered[rows[p].event] # 0
    BY <1>0 DEF LeadItems
  <2> QED
    BY <1>0, <1>1, <1>2, <2>1, <2>2
<1>3. ASSUME NEW r \in RowIds'
      PROVE  delivered'[rows'[r].event] >= 1
  <2>1. CASE r \in RowIds
    <3>1. delivered[rows[r].event] >= 1 /\ delivered[rows[r].event] \in Nat
      BY <1>0, <2>1 DEF LeadItems
    <3>2. \/ delivered'[rows[r].event] = delivered[rows[r].event]
          \/ delivered'[rows[r].event] = delivered[rows[r].event] + 1
      BY <1>0, <2>1, DeliveriesMove
    <3> QED
      BY <1>0, <2>1, <3>1, <3>2
  <2> QED
    BY <1>1, <1>3, <2>1
<1>4. ASSUME NEW item \in HeldItems', item.key # NoKey
      PROVE  item.row = groups'[item.key].leadRow
  <2>1. CASE item \in HeldItems
    <3>1. item \in Item /\ ItemOK(item)
      <4>1. \A x \in Entries(queue) \cup Entries(rec.items) : x \in Item
        BY ElementOfSeq, LenProperties DEF Entries, Inductive, TypeOK, Recovery
      <4>2. \A x \in Entries(queue) \cup Entries(rec.items) : ItemOK(x)
        BY DEF Inductive, ItemsOK, Entries
      <4> QED
        BY <2>1, <4>1, <4>2, HeldEntries, HeldByTask DEF Inductive, ItemsOK
    <3>2. item.key \in Keys /\ groups[item.key].status # "absent"
      BY <1>4, <3>1 DEF Item, Key, ItemOK
    <3>3. item.row = groups[item.key].leadRow
      BY <1>4, <2>1 DEF LeadItems, LeadItem
    <3> QED
      BY <3>2, <3>3, LeadStays
  <2>2. CASE Submit /\ item = SubmittedItem
    <3>1. /\ handler.pc = "enqueue" /\ groups' = groups
          /\ item.row = handler.row /\ item.key = rows[handler.row].key
      BY <2>2 DEF Submit, SubmittedItem, database
    <3> QED
      BY <1>4, <3>1 DEF WorkInvariant, HandlingOK
  <2>3. CASE RecoverKeyless /\ item = RecoveredItem(NoKey)
    BY <1>4, <2>3 DEF RecoveredItem
  <2>4. CASE RecoverOwner /\ item = RecoveredItem(Unit)
    <3>1. /\ Owner.status # "absent" /\ rows[Owner.leadRow].event = SeenRow.event
          /\ groups' = groups /\ item.row = rec.at /\ item.key = Unit
      BY <2>4 DEF RecoverOwner, OwnsUnit, RecoveredItem, database
    <3>2. Unit \in Keys /\ rec.at \in RowIds
      BY <2>4, ScannedRow DEF RecoverOwner, InThread, AtRow
    <3>3. SeenRow.event = rows[rec.at].event
      BY <2>4, <3>2, ScannedRow, RowIdsAreIndices
         DEF RecoverOwner, InThread, SeenRow, Inductive, RecoveryOK
    <3>4. Owner.leadRow \in RowIds
      BY <3>1, <3>2 DEF WorkInvariant, LeadsOK, Owner
    <3>5. Owner.leadRow = rec.at
      BY <3>1, <3>2, <3>3, <3>4 DEF LeadItems
    <3> QED
      BY <3>1, <3>5 DEF Owner
  <2> QED
    BY <2>1, <2>2, <2>3, <2>4, ItemMoves
<1> QED
  BY <1>2, <1>3, <1>4 DEF LeadItems, LeadItem

LEMMA LeadItemsInit ==
  ASSUME SentOnce, Init
  PROVE  LeadItems
<1>1. LegacyRows \in Seq([event : Events, sent : BOOLEAN])
  BY ConstantsAssumption
<1>2. /\ DOMAIN LegacyRows = 1 .. Len(LegacyRows) /\ Len(LegacyRows) \in Nat
      /\ DOMAIN rows = DOMAIN LegacyRows
      /\ \A r \in RowIds : rows[r].event = LegacyRows[r].event
  BY <1>1, LenProperties DEF Init, LegacyRow, RowIds
<1>3. \A r \in RowIds : LegacyRows[r] \in [event : Events, sent : BOOLEAN]
  BY <1>1, <1>2, ElementOfSeq DEF RowIds
<1>4. \A r \in RowIds : rows[r].event \in Events
  BY <1>2, <1>3
<1>5. \A q, r \in RowIds : rows[q].event = rows[r].event => q = r
  BY <1>2 DEF SentOnce, RowIds
<1>6. ASSUME NEW r \in RowIds
      PROVE  delivered[rows[r].event] >= 1
  <2> DEFINE S == LegacyIdsOf(rows[r].event)
  <2>1. r \in S /\ S \subseteq 1 .. Len(LegacyRows)
    BY <1>2 DEF LegacyIdsOf, RowIds
  <2>2. IsFiniteSet(1 .. Len(LegacyRows))
    BY <1>2, FS_Interval
  <2>3. IsFiniteSet(S)
    BY <2>1, <2>2, FS_Subset
  <2>4. Cardinality(S) \in Nat /\ Cardinality(S) # 0
    BY <2>1, <2>3, FS_CardinalityType, FS_EmptySet
  <2>5. delivered[rows[r].event] = Cardinality(S)
    BY <1>4 DEF Init
  <2> QED
    BY <2>4, <2>5
<1>7. HeldItems = {}
  <2>1. /\ queue = <<>> /\ rec.items = <<>> /\ \A s \in Slots : tasks[s].pc = "free"
    BY DEF Init, Started, Free
  <2> QED
    BY <2>1 DEF HeldItems
<1> QED
  BY <1>5, <1>6, <1>7 DEF LeadItems

\* Where every event is delivered once, whatever is queued, started or recovered for a
\* unit is the item of its lead row (claim_dispatch_group, pending_dispatch_items)
THEOREM LeadItemsInvariance ==
  ASSUME Orderly, SentOnce
  PROVE  Spec => []LeadItems
<1>1. Inductive /\ WorkInvariant /\ LeadItems /\ [Next]_vars => LeadItems'
  BY LeadItemsStep
<1>2. Init => LeadItems
  BY LeadItemsInit
<1> QED
  BY <1>1, <1>2, WorkInvariance, InductiveInvariance, PTL DEF Spec

-----------------------------------------------------------------------------
(* Who called once, waits no more *)

LEMMA HandlerMoves ==
  ASSUME Orderly, Inductive, [Next]_vars, handler'.pc # "idle"
  PROVE  \/ handler.pc # "idle" /\ handler'.row = handler.row
         \/ \E e \in Events : Persist(e) /\ handler'.row = Len(rows) + 1
<1>0. handler \in [pc : {"idle", "claim", "conflict", "enqueue"}, row : Nat]
  BY DEF Inductive, TypeOK
<1>1. ASSUME NEW e \in Events, Persist(e)
      PROVE  handler'.row = Len(rows) + 1
  BY <1>1 DEF Persist
<1>2. ASSUME NEW e \in Events, PersistFails(e) \/ PersistUnseen(e)
      PROVE  FALSE
  BY <1>2 DEF PersistFails, PersistUnseen, Orderly
<1>3. CASE Claim
  <2>1. handler.pc # "idle" /\ (\/ handler' = [handler EXCEPT !.pc = "enqueue"]
                                \/ handler' = [handler EXCEPT !.pc = "conflict"])
    BY <1>3 DEF Claim
  <2> QED
    BY <1>0, <2>1
<1>4. CASE ClaimFails \/ ClaimUnseen \/ RecordDuplicateMember \/ Submit \/ Restart
  <2>1. handler' = IdleHandler
    BY <1>4 DEF ClaimFails, ClaimUnseen, Refuse, RecordDuplicateMember, Submit, Restart
  <2> QED
    BY <2>1 DEF IdleHandler
<1>5. CASE CronStep \/ (\E s \in Slots : TaskStarts(s) \/ TaskEnds(s)) \/ Ticks
  <2>1. handler' = handler
    BY <1>5
       DEF CronStep, CronTick, StatusUnavailable, Defer, DeferRaises, RunSpaceEvent, Ticks, memory,
           TaskStarts, TaskEnds, RunRaises, DropMissing, SkipIfUnitAlreadyDispatched,
           SkipIfLegacyDispatched, MarkSkipped, NoDispatchedSibling, CallHermes,
           HermesAnswers, HermesFails, RecordRaises
  <2> QED
    BY <2>1
<1>6. CASE RecoveryStep
  <2>1. handler' = handler
    BY <1>6, RecoveryFrame DEF RequeueLostWork
  <2> QED
    BY <2>1
<1> QED
  BY <1>1, <1>2, <1>3, <1>4, <1>5, <1>6, ClockTicks DEF Next, HandlerStep

\* A row waits because it waited, or because the recovery queued it
LEMMA WaitsMoves ==
  ASSUME Orderly, Inductive, WorkInvariant, [Next]_vars, NEW r \in RowIds, Waits(r)'
  PROVE  Waits(r) \/ RequeueLostWork
<1>0. /\ queue \in Seq(Item) /\ rows \in Seq(Row)
      /\ Waits(r) <=> \/ \E x \in Entries(queue) : x.row = r
                      \/ \E s \in Slots : tasks[s].pc \in {"ready", "checked"} /\ tasks[s].item.row = r
                      \/ handler.pc # "idle" /\ handler.row = r
  BY HeldInEntries DEF Inductive, TypeOK, Waits
<1>1. ASSUME NEW x \in Entries(queue'), x.row = r
      PROVE  Waits(r) \/ RequeueLostWork
  <2>1. CASE Submit /\ SubmittedItem \in Item /\ queue' = Append(queue, SubmittedItem)
    <3>1. Entries(queue') = Entries(queue) \cup {SubmittedItem}
      BY <1>0, <2>1, AppendedEntries
    <3>2. SubmittedItem.row = handler.row /\ handler.pc # "idle"
      BY <2>1 DEF Submit, SubmittedItem
    <3> QED
      BY <1>0, <1>1, <3>1, <3>2
  <2>2. CASE queue # <<>> /\ (queue' = Tail(queue) \/ queue' = Append(Tail(queue), Head(queue)))
    <3>1. Entries(queue') \subseteq Entries(queue)
      BY <1>0, <2>2, RotatedEntries, EntriesOfHeadTail
    <3> QED
      BY <1>0, <1>1, <3>1
  <2>3. CASE queue' = queue
    BY <1>0, <1>1, <2>3
  <2>4. queue' # <<>>
    BY <1>1, EntriesOfEmpty
  <2> QED
    BY <2>1, <2>2, <2>3, <2>4, QueueMoves
<1>2. ASSUME NEW s \in Slots, tasks'[s].pc \in {"ready", "checked"}, tasks'[s].item.row = r
      PROVE  Waits(r)
  <2>1. CASE tasks'[s] = tasks[s]
    BY <1>0, <1>2, <2>1
  <2>2. tasks'[s] # Free
    BY <1>2 DEF Free
  <2>3. CASE RunSpaceEvent(s) /\ queue # <<>> /\ tasks[s] = Free
             /\ tasks'[s] = [pc |-> "ready", item |-> Head(queue), row |-> NoRow, members |-> {}]
    <3>1. tasks'[s].item = Head(queue) /\ Head(queue) \in Entries(queue)
      BY <1>0, <2>3, EntriesOfHeadTail
    <3> QED
      BY <1>0, <1>2, <3>1
  <2>4. CASE NoDispatchedSibling(s)
             /\ tasks'[s] = [pc |-> "checked", item |-> tasks[s].item,
                             row |-> tasks[s].item.row, members |-> {}]
    <3>1. tasks[s].pc = "ready" /\ tasks'[s].item = tasks[s].item
      BY <2>4 DEF NoDispatchedSibling, Starting
    <3> QED
      BY <1>0, <1>2, <3>1
  <2>5. ASSUME tasks'[s] = [pc |-> "calling", item |-> tasks[s].item, row |-> tasks[s].row,
                            members |-> ResolveGroupEvents(tasks[s].item.key, tasks[s].row)]
        PROVE  FALSE
    BY <1>2, <2>5
  <2> QED
    BY <2>1, <2>2, <2>3, <2>4, <2>5, TaskMoves
<1>3. ASSUME handler'.pc # "idle", handler'.row = r
      PROVE  Waits(r)
  <2>1. Len(rows) + 1 \notin RowIds
    BY <1>0, RowIdsAreIndices
  <2> QED
    BY <1>0, <1>3, <2>1, HandlerMoves
<1> QED
  BY <1>1, <1>2, <1>3, HeldInEntries DEF Waits

\* The item of the call that starts is the keyed item of its unit
LEMMA CalledItem ==
  ASSUME LooseKeys = {NoKey}, Inductive, WorkInvariant, KeylessOK,
         NEW s \in Slots, CallHermes(s),
         NEW k \in Keys, KeyOf[rows[tasks[s].row].event] = k
  PROVE  /\ tasks[s].item.key = k /\ tasks[s].row = tasks[s].item.row
         /\ tasks[s].item \in HeldItems
<1>1. tasks[s].pc = "checked" /\ NoKey \notin Keys
  BY ConstantsAssumption DEF CallHermes
<1>2. tasks[s].row = tasks[s].item.row /\ tasks[s].item \in HeldItems
  BY <1>1, HeldByTask DEF WorkInvariant, RunsOK
<1>3. GuardKey(tasks[s].item, tasks[s].row) = k
  BY <1>1, CheckedRow
<1>4. tasks[s].item.key # NoKey
  BY <1>1, <1>2 DEF KeylessOK, Loose
<1> QED
  BY <1>2, <1>3, <1>4 DEF GuardKey

LEMMA CalledOnceStep ==
  ASSUME Orderly, LooseKeys = {NoKey}, Inductive, WorkInvariant, CallInvariant, KeylessOK,
         LeadItems, CalledOnce, [Next]_vars
  PROVE  CalledOnce'
<1> SUFFICES ASSUME NEW k \in Keys
             PROVE  /\ calls'[k] <= 1
                    /\ calls'[k] = 1 => groups'[k].status # "absent" /\ \A r : r = groups'[k].leadRow => ~Waits(r)'
  BY DEF CalledOnce, Waits
<1>0. /\ calls[k] \in Nat /\ calls[k] <= 1 /\ NoKey \notin Keys
      /\ tasks \in [Slots -> Task \cup {Free}]
  BY ConstantsAssumption DEF Inductive, TypeOK, CalledOnce
<1>1. CASE calls'[k] = calls[k]
  <2> SUFFICES ASSUME calls[k] = 1
               PROVE  groups'[k].status # "absent" /\ \A r : r = groups'[k].leadRow => ~Waits(r)'
    BY <1>0, <1>1
  <2>1. groups[k].status # "absent" /\ ~Waits(groups[k].leadRow)
    BY DEF CalledOnce
  <2>2. groups[k].leadRow \in RowIds
    BY <2>1 DEF WorkInvariant, LeadsOK
  <2>3. groups'[k].leadRow = groups[k].leadRow /\ groups'[k].status # "absent"
    BY <2>1, LeadStays
  <2>4. ~RequeueLostWork
    BY DEF RequeueLostWork, InThread, WorkInvariant, RecoveryAlone
  <2>5. \A r \in RowIds : r = groups[k].leadRow => ~Waits(r)'
    BY <2>1, <2>4, WaitsMoves
  <2> QED
    BY <2>2, <2>3, <2>5
<1>2. CASE Restart /\ calls'[k] = 0
  BY <1>2
<1>3. ASSUME NEW s \in Slots, CallHermes(s), KeyOf[rows[tasks[s].row].event] = k,
             calls'[k] = calls[k] + 1
      PROVE  /\ calls'[k] = 1
             /\ groups'[k].status # "absent" /\ \A r : r = groups'[k].leadRow => ~Waits(r)'
  <2> DEFINE r == tasks[s].item.row
  <2>1. /\ tasks[s].pc = "checked" /\ tasks[s].item.key = k /\ tasks[s].item \in HeldItems
        /\ groups' = groups /\ queue' = queue /\ handler' = handler
        /\ tasks'[s].pc = "calling"
        /\ \A t \in Slots \ {s} : tasks'[t] = tasks[t]
    BY <1>0, <1>3, CalledItem DEF CallHermes, database
  <2>2. groups[k].leadRow = r /\ groups[k].status # "absent"
    <3>1. groups[k].leadRow = r
      BY <1>0, <2>1 DEF LeadItems, LeadItem
    <3>2. groups[k].status # "absent"
      BY <1>0, <2>1, HeldByTask
    <3> QED
      BY <3>1, <3>2
  <2>3. Waits(r)
    BY <2>1 DEF Waits
  <2>4. calls[k] = 0
    BY <1>0, <2>2, <2>3 DEF CalledOnce
  <2>5. \A q : q = r => ~Waits(q)'
    <3>1. \A i \in DOMAIN queue' : queue'[i].row # r
      BY <2>1 DEF CallInvariant, OneItemPerRow
    <3>2. \A t \in Slots : tasks'[t].pc \in {"ready", "checked"} => tasks'[t].item.row # r
      BY <2>1 DEF CallInvariant, OneItemPerRow
    <3>3. handler'.pc = "idle"
      BY <2>1 DEF WorkInvariant, HandlingOK
    <3> HIDE DEF r
    <3> QED
      BY <3>1, <3>2, <3>3 DEF Waits
  <2> QED
    BY <1>3, <2>1, <2>2, <2>4, <2>5
<1> QED
  BY <1>0, <1>1, <1>2, <1>3, CallMoves

\* A unit that was called has no item waiting, so that no second call can start: neither in
\* the queue nor in a started run nor in the hand of a webhook (run_space_event)
THEOREM CalledUnitsWaitNoMore ==
  ASSUME Orderly, SentOnce, LooseKeys = {NoKey}
  PROVE  Spec => []CalledOnce
<1>1. Init => CalledOnce
  BY DEF Init, CalledOnce
<1>2. Inductive /\ WorkInvariant /\ CallInvariant /\ KeylessOK /\ LeadItems /\ CalledOnce
      /\ [Next]_vars => CalledOnce'
  BY CalledOnceStep
<1> QED
  BY <1>1, <1>2, InductiveInvariance, WorkInvariance, CallInvariance, KeylessInvariance,
     LeadItemsInvariance, PTL DEF Spec

\* "Exactly one Hermes call per key" (docs/space_event_dedupe.md): where every event is
\* delivered once, no process calls a unit a second time
THEOREM UnitsAreCalledOnce ==
  ASSUME Orderly, SentOnce, LooseKeys = {NoKey}
  PROVE  Spec => []OneCallPerUnit
<1>1. CalledOnce => OneCallPerUnit
  BY DEF CalledOnce, OneCallPerUnit
<1> QED
  BY <1>1, CalledUnitsWaitNoMore, PTL

-----------------------------------------------------------------------------
(* Inline, one run at a time *)

LEMMA InlineInit == Init => InlineOK
  BY DEF Init, InlineOK, Free

LEMMA InlineStep ==
  ASSUME Inductive, InlineOK, [Next]_vars
  PROVE  InlineOK'
<1> SUFFICES ASSUME ~FireAndForget, NEW s \in Slots, tasks'[s].pc # "free"
             PROVE  cron' = "busy" /\ \A t \in Slots \ {s} : tasks'[t].pc = "free"
  BY DEF InlineOK
<1>0. /\ tasks \in [Slots -> Task \cup {Free}]
      /\ \A u \in Slots : tasks[u].pc # "free" =>
            cron = "busy" /\ \A t \in Slots \ {u} : tasks[t].pc = "free"
  BY DEF Inductive, TypeOK, InlineOK
<1>1. CASE tasks' = tasks /\ cron' = cron
  BY <1>0, <1>1
<1>2. CASE tasks' = tasks /\ cron # "busy"
  BY <1>0, <1>2
<1>3. ASSUME NEW u \in Slots, RunSpaceEvent(u)
      PROVE  cron' = "busy" /\ \A t \in Slots \ {s} : tasks'[t].pc = "free"
  <2>1. /\ \A t \in Slots : tasks[t].pc = "free"
        /\ cron' = "busy" /\ \A t \in Slots \ {u} : tasks'[t] = tasks[t]
    BY <1>0, <1>3 DEF RunSpaceEvent
  <2> QED
    BY <2>1
<1>4. ASSUME NEW u \in Slots, TaskStarts(u) \/ TaskEnds(u)
      PROVE  cron' = "busy" /\ \A t \in Slots \ {s} : tasks'[t].pc = "free"
  <2>1. tasks[u].pc # "free" /\ \A t \in Slots \ {u} : tasks'[t] = tasks[t]
    BY <1>0, <1>4
       DEF TaskStarts, TaskEnds, RunRaises, DropMissing, SkipIfUnitAlreadyDispatched,
           SkipIfLegacyDispatched, MarkSkipped, NoDispatchedSibling, CallHermes, RunEnds,
           HermesAnswers, HermesFails, RecordRaises, Answered, Starting
  <2>2. s = u
    BY <1>0, <2>1
  <2>3. ~RunEnds(u)
    BY <1>0, <2>2 DEF RunEnds, Free
  <2>4. cron' = cron
    BY <1>4, <2>3
       DEF TaskStarts, TaskEnds, RunRaises, DropMissing, SkipIfUnitAlreadyDispatched,
           SkipIfLegacyDispatched, MarkSkipped, NoDispatchedSibling, CallHermes,
           HermesAnswers, HermesFails, RecordRaises, Answered
  <2> QED
    BY <1>0, <2>1, <2>2, <2>4
<1>5. CASE Restart
  BY <1>5 DEF Restart, Free
<1>6. CASE CronTick \/ StatusUnavailable \/ Defer \/ DeferRaises
  <2>1. tasks' = tasks /\ cron # "busy"
    BY <1>6 DEF CronTick, StatusUnavailable, Defer, DeferRaises
  <2> QED
    BY <1>2, <2>1
<1>7. CASE (\E e \in Events : Persist(e) \/ PersistFails(e) \/ PersistUnseen(e)) \/ HandlerStep
           \/ Ticks
  <2>1. tasks' = tasks /\ cron' = cron
    BY <1>7 DEF Persist, PersistFails, PersistUnseen, HandlerStep, Claim, ClaimFails,
                ClaimUnseen, Refuse, RecordDuplicateMember, Submit, Ticks, memory
  <2> QED
    BY <1>1, <2>1
<1>8. CASE RecoveryStep
  BY <1>1, <1>8, RecoveryFrame
<1> QED
  BY <1>3, <1>4, <1>5, <1>6, <1>7, <1>8, ClockTicks DEF Next, CronStep

\* With SPACE_EVENT_FIRE_AND_FORGET off the cron waits for the run it started, so no two
\* runs are under way together, with any number of slots and whatever else goes wrong
THEOREM InlineInvariance == Spec => []InlineOK
<1>1. Inductive /\ InlineOK /\ [Next]_vars => InlineOK'
  BY InlineStep
<1> QED
  BY <1>1, InlineInit, InductiveInvariance, PTL DEF Spec

-----------------------------------------------------------------------------
(* The bus implements RoutingUnit *)

\* At most one call of a unit is under way
OneInFlight ==
    \A s, t \in Slots :
        /\ tasks[s].pc = "calling" /\ tasks[t].pc = "calling"
        /\ tasks[s].item.key = tasks[t].item.key /\ tasks[s].item.key # NoKey
        => s = t

LEMMA OneCallInFlight ==
  ASSUME OneItemPerRow, InlineOK, Inductive, WorkInvariant, FireAndForget => LeadItems
  PROVE  /\ OneInFlight
         /\ \A s \in Slots : tasks[s].pc = "checked" /\ tasks[s].item.key # NoKey =>
               \A t \in Slots : tasks[t].pc = "calling" => tasks[t].item.key # tasks[s].item.key
<1>1. ASSUME NEW s \in Slots, NEW t \in Slots, tasks[s].pc # "free", tasks[t].pc # "free",
             tasks[s].item.key = tasks[t].item.key, tasks[s].item.key # NoKey
      PROVE  s = t
  <2>1. CASE FireAndForget
    <3>1. tasks[s].item \in HeldItems /\ tasks[t].item \in HeldItems
      BY <1>1, HeldByTask
    <3>2. tasks[s].item.row = tasks[t].item.row
      BY <1>1, <2>1, <3>1 DEF LeadItems, LeadItem
    <3> QED
      BY <1>1, <3>2 DEF OneItemPerRow
  <2>2. CASE ~FireAndForget
    BY <1>1, <2>2 DEF InlineOK
  <2> QED
    BY <2>1, <2>2
<1>2. OneInFlight
  BY <1>1 DEF OneInFlight
<1>3. ASSUME NEW s \in Slots, NEW t \in Slots, tasks[s].pc = "checked", tasks[s].item.key # NoKey,
             tasks[t].pc = "calling", tasks[t].item.key = tasks[s].item.key
      PROVE  FALSE
  BY <1>1, <1>3
<1> QED
  BY <1>2, <1>3

\* A call goes on until it ends or the process stops
LEMMA CallGoesOn ==
  ASSUME Orderly, Inductive, WorkInvariant, [Next]_vars, NEW t \in Slots
  PROVE  /\ tasks[t].pc = "calling" => tasks'[t] = tasks[t] \/ TaskEnds(t) \/ Restart
         /\ tasks'[t].pc = "calling" => tasks'[t] = tasks[t] \/ CallHermes(t)
<1>0. tasks \in [Slots -> Task \cup {Free}]
  BY DEF Inductive, TypeOK
<1>1. ASSUME tasks[t].pc = "calling", tasks'[t] # tasks[t]
      PROVE  TaskEnds(t) \/ Restart
  <2>1. ASSUME NEW s \in Slots, RunSpaceEvent(s)
        PROVE  FALSE
    BY <1>0, <1>1, <2>1 DEF RunSpaceEvent, Free
  <2>2. ASSUME NEW s \in Slots, TaskStarts(s)
        PROVE  FALSE
    <3>1. tasks[s].pc # "calling" /\ \A u \in Slots \ {s} : tasks'[u] = tasks[u]
      BY <1>0, <2>2
         DEF TaskStarts, RunRaises, DropMissing, SkipIfUnitAlreadyDispatched,
             SkipIfLegacyDispatched, MarkSkipped, NoDispatchedSibling, CallHermes, RunEnds,
             Starting
    <3> QED
      BY <1>1, <3>1
  <2>3. ASSUME NEW s \in Slots, TaskEnds(s), s # t
        PROVE  FALSE
    <3>1. RunEnds(s)
      BY <2>3 DEF TaskEnds, HermesAnswers, HermesFails, RecordRaises, Answered
    <3> QED
      BY <1>0, <1>1, <2>3, <3>1 DEF RunEnds
  <2>4. CASE (\E e \in Events : Persist(e) \/ PersistFails(e) \/ PersistUnseen(e)) \/ HandlerStep
             \/ CronTick \/ StatusUnavailable \/ Defer \/ DeferRaises \/ Ticks \/ RecoveryStep
    <3>1. tasks' = tasks
      BY <2>4, RecoveryFrame
         DEF Persist, PersistFails, PersistUnseen, HandlerStep, Claim, ClaimFails,
             ClaimUnseen, Refuse, RecordDuplicateMember, Submit, Ticks, memory, CronTick, StatusUnavailable, Defer,
             DeferRaises
    <3> QED
      BY <1>1, <3>1
  <2> QED
    BY <2>1, <2>2, <2>3, <2>4, ClockTicks DEF Next, CronStep
<1>2. ASSUME tasks'[t].pc = "calling", tasks'[t] # tasks[t]
      PROVE  CallHermes(t)
  <2>1. tasks'[t] # Free
    BY <1>2 DEF Free
  <2>2. tasks'[t] # [pc |-> "ready", item |-> Head(queue), row |-> NoRow, members |-> {}]
    BY <1>2
  <2>3. tasks'[t] # [pc |-> "checked", item |-> tasks[t].item, row |-> tasks[t].item.row,
                     members |-> {}]
    BY <1>2
  <2> QED
    BY <1>2, <2>1, <2>2, <2>3, TaskMoves
<1> QED
  BY <1>1, <1>2

\* Past the guard, a claimed unit is not yet dispatched
LEMMA NotYetDispatched ==
  ASSUME Inductive, WorkInvariant, CallInvariant, NEW s \in Slots, tasks[s].pc = "checked",
         tasks[s].item.key # NoKey
  PROVE  /\ tasks[s].item.key \in Keys
         /\ groups[tasks[s].item.key].status \in {"pending", "failed"}
<1> DEFINE k == tasks[s].item.key
           r == tasks[s].item.row
<1>1. /\ k \in Keys /\ r \in RowIds /\ rows[r].key = k /\ groups[k].status # "absent"
      /\ tasks[s].row = r /\ tasks[s].item \in HeldItems
  BY HeldByTask DEF WorkInvariant, RunsOK
<1>2. ~DispatchedSibling(k, r) /\ ~rows[r].sent
  BY <1>1 DEF CallInvariant, CheckedOK, SentHasSibling, GuardKey
<1>3. groups[k].status # "dispatched"
  BY <1>1, <1>2 DEF WorkInvariant, LeadsOK, DispatchedSibling
<1>4. groups[k].status \in {"absent", "pending", "dispatched", "failed"}
  BY <1>1 DEF Inductive, TypeOK, Group
<1> QED
  BY <1>1, <1>3, <1>4

\* What the end of a call leaves of its unit
LEMMA OutcomeOfCall ==
  ASSUME Inductive, WorkInvariant, [Next]_vars, NEW s \in Slots, TaskEnds(s)
  PROVE  /\ \A g \in Keys : g # tasks[s].item.key => groups'[g] = groups[g]
         /\ tasks[s].item.key # NoKey =>
               \/ groups'[tasks[s].item.key].status \in {"dispatched", "failed"}
               \/ /\ Hazards \cap {"read", "commit"} # {}
                  /\ groups'[tasks[s].item.key].status = groups[tasks[s].item.key].status
<1> DEFINE k == tasks[s].item.key
<1>0. groups \in [Keys -> Group] /\ NoKey \notin Keys
  BY ConstantsAssumption DEF Inductive, TypeOK
<1>1. tasks[s].pc = "calling"
  BY DEF TaskEnds, HermesAnswers, HermesFails, RecordRaises, Answered
<1>2. k # NoKey => k \in Keys /\ groups[k].status # "absent"
  BY <1>1, HeldByTask
<1>3. groups' = groups \/ (k \in Keys /\ (groups' = DispatchedGroup(k) \/ groups' = FailedGroup(k)))
  BY <1>2 DEF TaskEnds, HermesAnswers, HermesFails, RecordRaises, IfCommitted, IfClaimed
<1>4. ASSUME k # NoKey, Hazards \cap {"read", "commit"} = {}
      PROVE  groups' = DispatchedGroup(k) \/ groups' = FailedGroup(k)
  BY <1>2, <1>4
     DEF TaskEnds, HermesAnswers, HermesFails, RecordRaises, IfCommitted, IfClaimed, Commits
<1>5. ASSUME k \in Keys, groups' = DispatchedGroup(k)
      PROVE  /\ \A g \in Keys : g # k => groups'[g] = groups[g]
             /\ groups'[k].status = "dispatched"
  BY <1>0, <1>5 DEF DispatchedGroup, Group
<1>6. ASSUME k \in Keys, groups' = FailedGroup(k)
      PROVE  /\ \A g \in Keys : g # k => groups'[g] = groups[g]
             /\ groups'[k].status \in {"dispatched", "failed"}
  BY <1>0, <1>6 DEF FailedGroup, Group
<1> HIDE DEF k
<1>7. \A g \in Keys : g # k => groups'[g] = groups[g]
  BY <1>3, <1>5, <1>6
<1>8. ASSUME k # NoKey
      PROVE  \/ groups'[k].status \in {"dispatched", "failed"}
             \/ Hazards \cap {"read", "commit"} # {} /\ groups'[k].status = groups[k].status
  BY <1>2, <1>3, <1>4, <1>5, <1>6, <1>8
<1> QED
  BY <1>7, <1>8 DEF k

LEMMA StartIsPromised ==
  ASSUME Orderly, Inductive, WorkInvariant, CallInvariant, InlineOK, [Next]_vars,
         FireAndForget => LeadItems,
         NEW s \in Slots, CallHermes(s)
  PROVE  [Promise!UnitNext]_(Promise!unitVars)
<1> DEFINE k == tasks[s].item.key
<1>0. tasks \in [Slots -> Task \cup {Free}] /\ NoKey \notin Keys
  BY ConstantsAssumption DEF Inductive, TypeOK
<1>1. /\ tasks[s].pc = "checked" /\ groups' = groups
      /\ tasks'[s].pc = "calling" /\ tasks'[s].item = tasks[s].item
      /\ \A t \in Slots \ {s} : tasks'[t] = tasks[t]
  BY <1>0 DEF CallHermes, database
<1>2. UnitPhase' = UnitPhase
  BY <1>1 DEF UnitPhase
<1>3. UnitInflight' = [g \in Keys |-> g = k \/ UnitInflight[g]]
  <2>1. ASSUME NEW g \in Keys
        PROVE  (\E t \in Slots : tasks'[t].pc = "calling" /\ tasks'[t].item.key = g)
               <=> g = k \/ \E t \in Slots : tasks[t].pc = "calling" /\ tasks[t].item.key = g
    BY <1>1
  <2> QED
    BY <2>1 DEF UnitInflight
<1>4. CASE k = NoKey
  <2>1. UnitInflight' = UnitInflight
    BY <1>0, <1>3, <1>4 DEF UnitInflight
  <2> QED
    BY <1>2, <2>1 DEF Promise!unitVars
<1>5. CASE k # NoKey
  <2>1. k \in Keys /\ UnitPhase[k] \in {"pending", "failed"}
    BY <1>1, <1>5, NotYetDispatched DEF UnitPhase
  <2>2. ~UnitInflight[k]
    BY <1>1, <1>5, <2>1, OneCallInFlight DEF CallInvariant, UnitInflight
  <2>3. UnitInflight' = [UnitInflight EXCEPT ![k] = TRUE]
    BY <1>3, <2>1 DEF UnitInflight
  <2>4. Promise!StartCall(k)
    BY <1>2, <2>1, <2>2, <2>3 DEF Promise!StartCall
  <2> QED
    BY <2>1, <2>4 DEF Promise!UnitNext
<1> QED
  BY <1>4, <1>5

LEMMA EndIsPromised ==
  ASSUME Orderly, Inductive, WorkInvariant, CallInvariant, InlineOK, [Next]_vars,
         FireAndForget => LeadItems /\ Hazards \cap {"read", "commit"} = {},
         NEW s \in Slots, TaskEnds(s)
  PROVE  [Promise!UnitNext]_(Promise!unitVars)
<1> DEFINE k == tasks[s].item.key
<1>0. tasks \in [Slots -> Task \cup {Free}] /\ NoKey \notin Keys
  BY ConstantsAssumption DEF Inductive, TypeOK
<1>1. /\ tasks[s].pc = "calling"
      /\ tasks'[s] = Free
      /\ \A t \in Slots \ {s} : tasks'[t] = tasks[t]
  BY <1>0 DEF TaskEnds, HermesAnswers, HermesFails, RecordRaises, Answered, RunEnds
<1>2. tasks'[s].pc # "calling"
  BY <1>1 DEF Free
<1>3. OneInFlight
  BY OneCallInFlight DEF CallInvariant
<1>4. \A g \in Keys : g # k => groups'[g] = groups[g]
  BY OutcomeOfCall
<1>5. UnitInflight' = [g \in Keys |-> g # k /\ UnitInflight[g]]
  <2>1. ASSUME NEW g \in Keys
        PROVE  (\E t \in Slots : tasks'[t].pc = "calling" /\ tasks'[t].item.key = g)
               <=> g # k /\ \E t \in Slots : tasks[t].pc = "calling" /\ tasks[t].item.key = g
    <3>1. CASE g = k
      BY <1>0, <1>1, <1>2, <1>3, <3>1 DEF OneInFlight
    <3>2. CASE g # k
      BY <1>1, <1>2, <3>2
    <3> QED
      BY <3>1, <3>2
  <2>2. ASSUME NEW g \in Keys
        PROVE  UnitInflight'[g] = (g # k /\ UnitInflight[g])
    BY <2>1 DEF UnitInflight
  <2>3. UnitInflight' = [g \in Keys |-> UnitInflight'[g]]
    BY DEF UnitInflight
  <2> HIDE DEF k
  <2> QED
    BY <2>2, <2>3, Zenon
<1>6. CASE k = NoKey
  <2>1. UnitInflight' = UnitInflight
    BY <1>0, <1>5, <1>6 DEF UnitInflight
  <2>2. UnitPhase' = UnitPhase
    BY <1>0, <1>4, <1>6 DEF UnitPhase
  <2> QED
    BY <2>1, <2>2 DEF Promise!unitVars
<1>7. CASE k # NoKey
  <2>1. k \in Keys /\ UnitInflight[k]
    BY <1>1, <1>7, HeldByTask DEF UnitInflight
  <2>2. UnitInflight' = [UnitInflight EXCEPT ![k] = FALSE]
    BY <1>5, <2>1 DEF UnitInflight
  <2>3. UnitPhase' = [UnitPhase EXCEPT ![k] = groups'[k].status]
    BY <1>4, <2>1 DEF UnitPhase
  <2>4. CASE groups'[k].status \in {"dispatched", "failed"}
    <3>1. Promise!EndCall(k, "dispatched") \/ Promise!EndCall(k, "failed")
      BY <2>1, <2>2, <2>3, <2>4 DEF Promise!EndCall
    <3> QED
      BY <2>1, <3>1 DEF Promise!UnitNext
  <2>5. CASE ~FireAndForget /\ groups'[k].status = groups[k].status
    <3>1. UnitPhase' = UnitPhase
      BY <2>1, <2>3, <2>5 DEF UnitPhase
    <3>2. \A t \in Slots : tasks'[t].pc # "calling"
      BY <1>1, <1>2, <2>5 DEF InlineOK
    <3>3. UnitInflight' = [g \in Keys |-> FALSE]
      BY <3>2 DEF UnitInflight
    <3>4. Promise!Abandon
      BY <3>1, <3>3 DEF Promise!Abandon
    <3> QED
      BY <3>4 DEF Promise!UnitNext
  <2> QED
    BY <1>7, <2>4, <2>5, OutcomeOfCall
<1> QED
  BY <1>6, <1>7

\* No call starts or ends: a claim, or nothing a unit notices
LEMMA RestIsPromised ==
  ASSUME Orderly, Inductive, WorkInvariant, [Next]_vars, ~Restart,
         \A s \in Slots : ~CallHermes(s) /\ ~TaskEnds(s)
  PROVE  [Promise!UnitNext]_(Promise!unitVars)
<1>1. UnitInflight' = UnitInflight
  <2>1. \A t \in Slots : tasks[t].pc = "calling" \/ tasks'[t].pc = "calling" => tasks'[t] = tasks[t]
    BY CallGoesOn
  <2>2. ASSUME NEW g \in Keys
        PROVE  (\E t \in Slots : tasks'[t].pc = "calling" /\ tasks'[t].item.key = g)
               <=> \E t \in Slots : tasks[t].pc = "calling" /\ tasks[t].item.key = g
    <3>1. ASSUME NEW t \in Slots
          PROVE  tasks'[t].pc = "calling" /\ tasks'[t].item.key = g
                 <=> tasks[t].pc = "calling" /\ tasks[t].item.key = g
      BY <2>1
    <3> QED
      BY <3>1
  <2> QED
    BY <2>2 DEF UnitInflight
<1>2. ASSUME NEW k \in Keys, NEW r, ClaimFree(k), groups' = Claimed(k, r)
      PROVE  Promise!ClaimUnit(k)
  <2>1. groups \in [Keys -> Group]
    BY DEF Inductive, TypeOK
  <2>2. UnitPhase' = [UnitPhase EXCEPT ![k] = "pending"]
    BY <1>2, <2>1 DEF UnitPhase, Claimed
  <2>3. UnitPhase[k] = "absent"
    BY <1>2 DEF UnitPhase, ClaimFree
  <2> QED
    BY <1>1, <2>2, <2>3 DEF Promise!ClaimUnit
<1>3. groups' = groups => UnitPhase' = UnitPhase
  BY DEF UnitPhase
<1>4. CASE Claim \/ ClaimUnseen
  <2>1. rows[handler.row].key \in Keys
    BY <1>4, HandledRow DEF Claim, ClaimUnseen
  <2>2. groups' = groups \/ Promise!ClaimUnit(rows[handler.row].key)
    BY <1>2, <1>4, <2>1 DEF Claim, ClaimUnseen
  <2> QED
    BY <1>1, <1>3, <2>1, <2>2 DEF Promise!UnitNext, Promise!unitVars
<1>5. CASE RecoveryClaims
  <2>1. Unit \in Keys
    BY <1>5, ScannedRow DEF RecoveryClaims, AtRow, InThread
  <2>2. groups' = groups \/ Promise!ClaimUnit(Unit)
    BY <1>2, <1>5, <2>1 DEF RecoveryClaims
  <2> QED
    BY <1>1, <1>3, <2>1, <2>2 DEF Promise!UnitNext, Promise!unitVars
<1>6. CASE ~Claim /\ ~ClaimUnseen /\ ~RecoveryClaims
  <2>1. ASSUME NEW k \in Keys
        PROVE  groups'[k] = groups[k]
    BY <1>6, GroupMoves, Zenon DEF TaskEnds
  <2> QED
    BY <1>1, <2>1 DEF Promise!unitVars, UnitPhase
<1> QED
  BY <1>4, <1>5, <1>6

\* RoutingUnit: a unit is claimed once, at most one call is under way for it, and none
\* starts once one was dispatched - inline whatever else goes wrong, detached where every
\* event is delivered once and what a call came to can be written down (UnitPromise)
THEOREM KeepsUnitPromise ==
  ASSUME Orderly,
         FireAndForget => SentOnce /\ Hazards \cap {"read", "commit"} = {}
  PROVE  Spec => UnitPromise
<1>1. Init => Promise!UnitInit
  BY DEF Init, Promise!UnitInit, UnitPhase, UnitInflight, Free
<1>2. Inductive /\ WorkInvariant /\ CallInvariant /\ InlineOK /\ (FireAndForget => LeadItems)
      /\ [Next]_vars => [Promise!UnitNext]_(Promise!unitVars)
  <2> SUFFICES ASSUME Inductive, WorkInvariant, CallInvariant, InlineOK,
                      FireAndForget => LeadItems, [Next]_vars
               PROVE  [Promise!UnitNext]_(Promise!unitVars)
    OBVIOUS
  <2>1. CASE Restart
    <3>1. UnitPhase' = UnitPhase /\ UnitInflight' = [k \in Keys |-> FALSE]
      BY <2>1 DEF Restart, database, UnitPhase, UnitInflight, Free
    <3> QED
      BY <3>1 DEF Promise!UnitNext, Promise!Abandon
  <2>2. CASE \E s \in Slots : CallHermes(s)
    BY <2>2, StartIsPromised
  <2>3. CASE \E s \in Slots : TaskEnds(s)
    BY <2>3, EndIsPromised
  <2> QED
    BY <2>1, <2>2, <2>3, RestIsPromised
<1>3. CASE FireAndForget
  BY <1>1, <1>2, <1>3, InductiveInvariance, WorkInvariance, CallInvariance, InlineInvariance,
     LeadItemsInvariance, PTL DEF Spec, UnitPromise, Promise!UnitSpec
<1>4. CASE ~FireAndForget
  BY <1>1, <1>2, <1>4, InductiveInvariance, WorkInvariance, CallInvariance, InlineInvariance,
     PTL DEF Spec, UnitPromise, Promise!UnitSpec
<1> QED
  BY <1>3, <1>4

=============================================================================
