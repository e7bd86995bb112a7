--------------------------- MODULE RecoveryProofs ---------------------------
(***************************************************************************)
(* Proofs of what the startup recovery promises: no claim is swallowed, no *)
(* stored event forgotten, and every pending claim can be recovered.       *)
(*                                                                         *)
(* The hypotheses say which hazards are absent; the violation runs show    *)
(* that the promises fail where these hazards are present.                 *)
(***************************************************************************)
EXTENDS BusInvariants, SpaceEventsProofs

-----------------------------------------------------------------------------
(* Sequences of items *)

LEMMA AppendedEntries ==
  ASSUME NEW S, NEW s \in Seq(S), NEW x \in S
  PROVE  Entries(Append(s, x)) = Entries(s) \cup {x}
<1>1. /\ DOMAIN Append(s, x) = 1 .. Len(s) + 1 /\ DOMAIN s = 1 .. Len(s) /\ Len(s) \in Nat
      /\ \A i \in 1 .. Len(s) : Append(s, x)[i] = s[i]
      /\ Append(s, x)[Len(s) + 1] = x
  BY AppendProperties, LenProperties
<1> DEFINE t == Append(s, x)
<1> HIDE DEF t
<1>2. Len(s) + 1 \in DOMAIN t /\ \A i \in DOMAIN s : i \in DOMAIN t /\ t[i] = s[i]
  BY <1>1 DEF t
<1>3. Entries(s) \cup {x} \subseteq Entries(t)
  BY <1>1, <1>2 DEF t, Entries
<1> QED
  BY <1>3, EntriesOfAppend DEF t

LEMMA HeadTailEntries ==
  ASSUME NEW S, NEW s \in Seq(S), s # <<>>
  PROVE  Entries(s) = {Head(s)} \cup Entries(Tail(s))
<1>1. /\ DOMAIN s = 1 .. Len(s) /\ Len(s) \in Nat /\ Len(s) >= 1
      /\ Head(s) = s[1]
      /\ Tail(s) \in Seq(S) /\ Len(Tail(s)) = Len(s) - 1
      /\ \A i \in 1 .. Len(Tail(s)) : Tail(s)[i] = s[i + 1]
  BY HeadTailProperties, LenProperties, EmptySeq
<1>2. DOMAIN Tail(s) = 1 .. Len(s) - 1
  BY <1>1, LenProperties
<1>3. \A i \in DOMAIN s : i = 1 \/ (i - 1 \in DOMAIN Tail(s) /\ s[i] = Tail(s)[i - 1])
  BY <1>1, <1>2
<1>4. Entries(s) \subseteq {Head(s)} \cup Entries(Tail(s))
  BY <1>1, <1>3 DEF Entries
<1> QED
  BY <1>4, EntriesOfHeadTail

LEMMA NothingAhead ==
  ASSUME NEW S, NEW s \in Seq(S)
  PROVE  <<>> \o s = s
  BY ConcatEmptySeq

-----------------------------------------------------------------------------
(* Who moves: the scan works alone, a webhook is handled alone *)

\* The clock
Ticks == UNCHANGED <<rows, groups, memory, delivered, crashes, history>>

LEMMA ClockTicks ==
  ASSUME \/ \E k \in Keys : CloseWindow(k)
         \/ LookbackElapses \/ UNCHANGED vars
  PROVE  Ticks
  BY DEF CloseWindow, LookbackElapses, vars, database, world, Ticks

LEMMA RecoveryMoves ==
  ASSUME Inductive, RecoveryStep
  PROVE  rec.pc # "idle"
  BY DEF RecoveryStep, ScanWindow, BackfillLegacyKeys, SkipRow, RecoverKeyless, SeekSibling,
         MarkAlreadyDispatched, SkipDuplicate, SeekOwner, NoOwner, RecoveryClaims,
         RecoveryLosesClaim, SkipDispatchedUnit, OwnedByAnother, MarkMember, RecoverOwner,
         ScanDone, ScanFails, RequeueLostWork, InThread, AtRow

\* While the recovery is not idle
LEMMA ScanIsAlone ==
  ASSUME Orderly, Inductive, RecoveryAlone, [Next]_vars, rec.pc # "idle"
  PROVE  RecoveryStep \/ Restart \/ Ticks
<1>1. /\ queue = <<>> /\ handler.pc = "idle" /\ cron = "idle"
      /\ \A s \in Slots : tasks[s].pc = "free"
  BY DEF RecoveryAlone
<1>2. "overlap" \notin Hazards /\ "persist" \notin Hazards
  BY DEF Orderly
<1>3. ASSUME NEW e \in Events, Persist(e) \/ PersistFails(e) \/ PersistUnseen(e)
      PROVE  FALSE
  BY <1>2, <1>3 DEF Persist, PersistFails, PersistUnseen, Receive
<1>4. CASE HandlerStep
  BY <1>1, <1>4
     DEF HandlerStep, Claim, ClaimFails, ClaimUnseen, Refuse, RecordDuplicateMember, Submit
<1>5. CASE CronStep
  BY <1>1, <1>5
     DEF CronStep, CronTick, StatusUnavailable, Defer, DeferRaises, RunSpaceEvent
<1>6. ASSUME NEW s \in Slots, TaskStarts(s) \/ TaskEnds(s)
      PROVE  FALSE
  BY <1>1, <1>6
     DEF TaskStarts, TaskEnds, RunRaises, DropMissing, SkipIfUnitAlreadyDispatched,
         NoDispatchedSibling, SkipIfLegacyDispatched, CallHermes, HermesAnswers,
         HermesFails, RecordRaises, Answered, Starting
<1> QED
  BY <1>3, <1>4, <1>5, <1>6, ClockTicks DEF Next

\* While a webhook is handled
LEMMA HandlerIsAlone ==
  ASSUME Orderly, Inductive, RecoveryAlone, HandlingOK, [Next]_vars, handler.pc # "idle"
  PROVE  HandlerStep \/ Restart \/ Ticks
<1>1. rec.pc = "idle" /\ ~LoopTurns /\ ~LoopFree
  BY DEF RecoveryAlone, LoopTurns, LoopFree
<1>2. \A s \in Slots : tasks[s].pc # "checked"
  BY DEF HandlingOK
<1>3. ASSUME NEW e \in Events, Persist(e) \/ PersistFails(e) \/ PersistUnseen(e)
      PROVE  FALSE
  BY <1>1, <1>3 DEF Persist, PersistFails, PersistUnseen, Receive
<1>5. CASE CronStep
  BY <1>1, <1>5
     DEF CronStep, CronTick, StatusUnavailable, Defer, DeferRaises, RunSpaceEvent
<1>6. ASSUME NEW s \in Slots, TaskStarts(s) \/ TaskEnds(s)
      PROVE  FALSE
  BY <1>1, <1>2, <1>6
     DEF TaskStarts, TaskEnds, RunRaises, DropMissing, SkipIfUnitAlreadyDispatched,
         NoDispatchedSibling, SkipIfLegacyDispatched, CallHermes, HermesAnswers,
         HermesFails, RecordRaises, Answered, Starting
<1>7. ~RecoveryStep
  BY <1>1, RecoveryMoves
<1> QED
  BY <1>3, <1>5, <1>6, <1>7, ClockTicks DEF Next

\* The recovery starts with the process and ends once
LEMMA RecoveryRests ==
  ASSUME Orderly, Inductive, RecoveryAlone, [Next]_vars, rec.pc = "idle"
  PROVE  Restart \/ rec' = rec
<1>1. ~RecoveryStep
  BY RecoveryMoves
<1>2. CASE HandlerStep \/ CronStep \/ \E s \in Slots : TaskStarts(s) \/ TaskEnds(s)
  BY <1>2
     DEF HandlerStep, Claim, ClaimFails, ClaimUnseen, Refuse, RecordDuplicateMember, Submit,
         CronStep, CronTick, StatusUnavailable, Defer, DeferRaises, RunSpaceEvent,
         TaskStarts, TaskEnds,
         RunRaises, DropMissing, SkipIfUnitAlreadyDispatched, MarkSkipped,
         NoDispatchedSibling, SkipIfLegacyDispatched, CallHermes, HermesAnswers,
         HermesFails, RecordRaises
<1>3. CASE \E e \in Events : Persist(e) \/ PersistFails(e) \/ PersistUnseen(e)
  BY <1>3 DEF Persist, PersistFails, PersistUnseen
<1>4. CASE Ticks
  BY <1>4 DEF Ticks, memory
<1> QED
  BY <1>1, <1>2, <1>3, <1>4, ClockTicks DEF Next

LEMMA AloneStep ==
  ASSUME Orderly, Inductive, RecoveryAlone, [Next]_vars
  PROVE  RecoveryAlone'
<1>1. CASE rec'.pc = "idle"
  BY <1>1 DEF RecoveryAlone
<1>2. CASE Restart
  BY <1>2 DEF Restart, RecoveryAlone, IdleHandler, Free
<1>3. CASE rec.pc = "idle"
  BY <1>1, <1>2, <1>3, RecoveryRests
<1>4. CASE rec.pc # "idle" /\ Ticks
  BY <1>4 DEF Ticks, memory, history, RecoveryAlone
<1>5. CASE rec.pc # "idle" /\ RecoveryStep
  <2>1. CASE RequeueLostWork
    <3>1. rec'.pc = "idle"
      BY <2>1 DEF RequeueLostWork, Started
    <3> QED
      BY <1>1, <3>1
  <2>2. CASE ~RequeueLostWork
    BY <1>5, <2>2, RecoveryFrame DEF RecoveryAlone, history
  <2> QED
    BY <2>1, <2>2
<1> QED
  BY <1>2, <1>3, <1>4, <1>5, ScanIsAlone

-----------------------------------------------------------------------------
(* What a step does to a claim and to a row that is stored *)

LEMMA GroupMoves ==
  ASSUME Inductive, [Next]_vars, NEW k \in Keys
  PROVE  \/ groups'[k] = groups[k]
         \/ /\ Claim \/ ClaimUnseen
            /\ k = rows[handler.row].key /\ ClaimFree(k)
            /\ groups'[k] = [status |-> "pending", leadRow |-> handler.row]
         \/ /\ RecoveryClaims
            /\ k = Unit /\ ClaimFree(k)
            /\ groups'[k] = [status |-> "pending", leadRow |-> rec.at]
         \/ \E s \in Slots :
               /\ HermesAnswers(s)
               /\ tasks[s].item.key = k
               /\ rows' = DispatchedRows(tasks[s].members, tasks[s].row, TRUE)
               /\ groups[k].status # "absent"
               /\ groups'[k] = [groups[k] EXCEPT !.status = "dispatched"]
         \/ \E s \in Slots :
               /\ HermesFails(s) \/ RecordRaises(s)
               /\ tasks[s].item.key = k
               /\ groups[k].status \notin {"absent", "dispatched"}
               /\ groups'[k] = [groups[k] EXCEPT !.status = "failed"]
<1>1. groups \in [Keys -> Group]
  BY DEF Inductive, TypeOK
<1>2. CASE Claim \/ ClaimUnseen
  <2>1. rows[handler.row].key \in Keys
    BY <1>2, HandledRow DEF Claim, ClaimUnseen
  <2> QED
    BY <1>1, <1>2, <2>1 DEF Claim, ClaimUnseen, Claimed
<1>3. CASE RecoveryClaims
  <2>1. Unit \in Keys
    BY <1>3, ScannedRow DEF RecoveryClaims, AtRow, InThread
  <2> QED
    BY <1>1, <1>3, <2>1 DEF RecoveryClaims, Claimed
<1>4. ASSUME NEW s \in Slots, HermesAnswers(s), groups'[k] # groups[k]
      PROVE  /\ tasks[s].item.key = k
             /\ rows' = DispatchedRows(tasks[s].members, tasks[s].row, TRUE)
             /\ groups[k].status # "absent"
             /\ groups'[k] = [groups[k] EXCEPT !.status = "dispatched"]
  <2> DEFINE u == tasks[s].item.key
  <2>1. PICK ok \in BOOLEAN :
          /\ rows' = DispatchedRows(tasks[s].members, tasks[s].row, ok)
          /\ groups' = IfCommitted(ok, IfClaimed(u, DispatchedGroup(u)), groups)
    BY <1>4 DEF HermesAnswers, Commits
  <2>2. ok /\ groups' = DispatchedGroup(u) /\ groups[u].status # "absent"
    BY <1>4, <2>1 DEF IfCommitted, IfClaimed
  <2>3. u = k
    BY <1>1, <1>4, <2>2 DEF DispatchedGroup
  <2> QED
    BY <1>1, <2>1, <2>2, <2>3 DEF DispatchedGroup
<1>5. ASSUME NEW s \in Slots, HermesFails(s) \/ RecordRaises(s), groups'[k] # groups[k]
      PROVE  /\ tasks[s].item.key = k
             /\ groups[k].status \notin {"absent", "dispatched"}
             /\ groups'[k] = [groups[k] EXCEPT !.status = "failed"]
  <2> DEFINE u == tasks[s].item.key
  <2>1. PICK ok \in BOOLEAN : groups' = IfCommitted(ok, IfClaimed(u, FailedGroup(u)), groups)
    BY <1>5 DEF HermesFails, RecordRaises, Commits
  <2>2. ok /\ groups' = FailedGroup(u) /\ groups[u].status # "absent"
    BY <1>5, <2>1 DEF IfCommitted, IfClaimed
  <2>3. u = k /\ groups[k].status # "dispatched"
    BY <1>1, <1>5, <2>2 DEF FailedGroup
  <2> QED
    BY <1>1, <2>2, <2>3 DEF FailedGroup
<1>6. CASE \/ \E e \in Events : Persist(e) \/ PersistFails(e) \/ PersistUnseen(e)
           \/ ClaimFails \/ RecordDuplicateMember \/ Submit \/ CronStep
           \/ \E s \in Slots : TaskStarts(s)
           \/ \E u \in Keys : CloseWindow(u)
           \/ LookbackElapses \/ Restart \/ UNCHANGED vars
  <2>1. groups' = groups
    BY <1>6
       DEF Persist, PersistFails, PersistUnseen, ClaimFails, Refuse, RecordDuplicateMember, Submit,
           CronStep, CronTick, StatusUnavailable, Defer, DeferRaises, RunSpaceEvent,
           TaskStarts, RunRaises, DropMissing, SkipIfUnitAlreadyDispatched,
           SkipIfLegacyDispatched, MarkSkipped, NoDispatchedSibling, CallHermes,
           CloseWindow, LookbackElapses, Restart, vars, database
  <2> QED
    BY <2>1
<1>7. CASE RecoveryStep /\ ~RecoveryClaims
  BY <1>7, RecoveryFrame
<1> QED
  BY <1>2, <1>3, <1>4, <1>5, <1>6, <1>7 DEF Next, HandlerStep, TaskEnds

\* A claim keeps its lead row
LEMMA LeadStays ==
  ASSUME Inductive, [Next]_vars, NEW k \in Keys, groups[k].status # "absent"
  PROVE  groups'[k].leadRow = groups[k].leadRow /\ groups'[k].status # "absent"
<1>1. groups[k] \in Group
  BY DEF Inductive, TypeOK
<1> QED
  BY <1>1, GroupMoves DEF ClaimFree, Group

\* An outcome is written to the members of the unit, with the outcome of the unit
Settles(s, r) ==
    /\ TaskEnds(s)
    /\ IF tasks[s].item.key = NoKey
       THEN r = tasks[s].item.row
       ELSE /\ rows[r].key = tasks[s].item.key
            /\ groups'[tasks[s].item.key].status \in {"dispatched", "failed"}

Skips(s) == SkipIfUnitAlreadyDispatched(s) \/ SkipIfLegacyDispatched(s)

\* The started item has a row and, if it has a key, a claimed unit
LEMMA HeldByTask ==
  ASSUME Inductive, WorkInvariant, NEW s \in Slots, tasks[s].pc # "free"
  PROVE  LET item == tasks[s].item
         IN  /\ item \in Item /\ item \in HeldItems
             /\ item.row \in RowIds
             /\ item.key # NoKey =>
                   /\ item.key \in Keys
                   /\ rows[item.row].key = item.key
                   /\ groups[item.key].status # "absent"
             /\ LoadSpaceEvent(item) = item.row
<1>1. tasks[s] \in Task /\ rows \in Seq(Row)
  BY DEF Inductive, TypeOK, Free
<1>2. tasks[s].item \in HeldItems
  BY DEF HeldItems
<1>3. tasks[s].item.row \in RowIds
  BY <1>2 DEF WorkInvariant, ItemsStored
<1>4. ItemOK(tasks[s].item)
  BY DEF Inductive, ItemsOK
<1> QED
  BY <1>1, <1>2, <1>3, <1>4, LoadedRow DEF Task, Item, Key, ItemOK

LEMMA SkippedRow ==
  ASSUME Inductive, WorkInvariant, NEW s \in Slots, Skips(s)
  PROVE  LET r == tasks[s].item.row
             k == GuardKey(tasks[s].item, r)
         IN  /\ tasks[s].pc # "free" /\ r \in RowIds
             /\ k \in Keys /\ k = KeyOf[rows[r].event]
             /\ DispatchedSibling(k, r) \/ LegacyDispatchedSibling(k, r)
             /\ MarkSkipped(s, r)
<1>1. tasks[s].pc \in {"ready", "checked"}
  BY DEF Skips, SkipIfUnitAlreadyDispatched, SkipIfLegacyDispatched, Starting
<1>2. CASE SkipIfUnitAlreadyDispatched(s)
  BY <1>1, <1>2, HeldByTask, StartedRow, ConstantsAssumption
     DEF SkipIfUnitAlreadyDispatched, DispatchedSibling, Key
<1>3. CASE SkipIfLegacyDispatched(s)
  <2>1. tasks[s].row = tasks[s].item.row
    BY <1>3 DEF WorkInvariant, RunsOK, SkipIfLegacyDispatched
  <2> QED
    BY <1>1, <1>3, <2>1, CheckedRow, HeldByTask, ConstantsAssumption
       DEF SkipIfLegacyDispatched, LegacyUnit, LegacyDispatchedSibling
<1> QED
  BY <1>2, <1>3 DEF Skips

\* A mark makes its row a duplicate and leaves the others alone
LEMMA MarkMoves ==
  ASSUME rows \in Seq(Row), NEW x \in RowIds, NEW k \in Key, NEW handled \in BOOLEAN,
         \E ok \in Commits : rows' = IfCommitted(ok, MarkedDuplicate(x, k, handled), rows)
  PROVE  /\ \A r \in RowIds : r # x => rows'[r] = rows[r]
         /\ \/ rows' = rows
            \/ /\ rows'[x].status = "duplicate"
               /\ rows'[x].sent = (rows[x].sent \/ handled)
               /\ rows'[x].key = IF rows[x].key = NoKey THEN k ELSE rows[x].key
         /\ ~handled => rows'[x].sent = rows[x].sent
         /\ "commit" \notin Hazards => rows'[x].status = "duplicate"
<1>1. x \in DOMAIN rows /\ rows[x] \in Row
  BY RowIdsAreIndices DEF RowIds
<1>2. rows' = rows \/ rows' = MarkedDuplicate(x, k, handled)
  BY DEF IfCommitted
<1>3. "commit" \notin Hazards => rows' = MarkedDuplicate(x, k, handled)
  BY DEF Commits, IfCommitted
<1>4. /\ MarkedRow(x, k, handled).status = "duplicate"
      /\ MarkedRow(x, k, handled).sent = (rows[x].sent \/ handled)
      /\ MarkedRow(x, k, handled).key = IF rows[x].key = NoKey THEN k ELSE rows[x].key
  BY <1>1 DEF MarkedRow, Row
<1>6. ~handled => MarkedRow(x, k, handled).sent = rows[x].sent
  BY <1>1 DEF MarkedRow, Row
<1>5. /\ MarkedDuplicate(x, k, handled)[x] = MarkedRow(x, k, handled)
      /\ \A r \in RowIds : r # x => MarkedDuplicate(x, k, handled)[r] = rows[r]
  BY <1>1 DEF MarkedDuplicate, RowIds
<1> QED
  BY <1>2, <1>3, <1>4, <1>5, <1>6

\* Who decides a row, and that nobody makes it undecided again
LEMMA RowMoves ==
  ASSUME Orderly, Inductive, WorkInvariant, [Next]_vars, NEW r \in RowIds
  PROVE  /\ rows'[r].status = "none" /\ ~rows'[r].sent => Undecided(r)
         /\ \/ rows'[r].status = rows[r].status /\ rows'[r].sent = rows[r].sent
            \/ RecordDuplicateMember /\ r = handler.row /\ rows'[r].sent = rows[r].sent
            \/ \E s \in Slots : Skips(s) /\ r = tasks[s].item.row
            \/ \E s \in Slots : Settles(s, r)
            \/ (MarkAlreadyDispatched \/ MarkMember) /\ r = rec.at
<1>1. rows \in Seq(Row) /\ rows[r] \in Row /\ groups \in [Keys -> Group]
  BY RowIdsAreIndices DEF Inductive, TypeOK
<1>2. CASE RecordDuplicateMember
  <2>1. handler.row \in RowIds /\ rows[handler.row].key \in Key
    BY <1>2, HandledRow DEF RecordDuplicateMember, Row
  <2>2. \E ok \in Commits :
           rows' = IfCommitted(ok,
                      MarkedDuplicate(handler.row, rows[handler.row].key, FALSE), rows)
    BY <1>2 DEF RecordDuplicateMember
  <2> QED
    BY <1>1, <1>2, <2>1, <2>2, MarkMoves DEF Undecided
<1>3. ASSUME NEW s \in Slots, Skips(s)
      PROVE  r = tasks[s].item.row \/ rows'[r] = rows[r]
  <2> DEFINE x == tasks[s].item.row
  <2>1. x \in RowIds /\ GuardKey(tasks[s].item, x) \in Key /\ MarkSkipped(s, x)
    BY <1>3, SkippedRow DEF Key
  <2> QED
    BY <1>1, <2>1, MarkMoves DEF MarkSkipped
<1>4. ASSUME NEW s \in Slots, Skips(s)
      PROVE  rows'[r].status = "none" /\ ~rows'[r].sent => Undecided(r)
  <2> DEFINE x == tasks[s].item.row
  <2>1. x \in RowIds /\ GuardKey(tasks[s].item, x) \in Key /\ MarkSkipped(s, x)
    BY <1>4, SkippedRow DEF Key
  <2> QED
    BY <1>1, <2>1, MarkMoves DEF MarkSkipped, Undecided
<1>5. CASE MarkAlreadyDispatched \/ MarkMember
  <2>1. rec.at \in RowIds /\ Unit \in Keys
    BY <1>5, ScannedRow DEF MarkAlreadyDispatched, MarkMember, AtRow, InThread
  <2>2. PICK handled \in BOOLEAN : \E ok \in Commits :
           rows' = IfCommitted(ok, MarkedDuplicate(rec.at, Unit, handled), rows)
    BY <1>5 DEF MarkAlreadyDispatched, MarkMember, Unit
  <2> QED
    BY <1>1, <1>5, <2>1, <2>2, MarkMoves DEF Undecided, Key
<1>6. CASE RecoveryLosesClaim
  BY <1>6 DEF RecoveryLosesClaim, InThread, WorkInvariant, ScanningOK, Scanning
<1>7. CASE BackfillLegacyKeys
  <2>1. \A q \in RowIds : Backfilled(rec.lo, rec.top)[q].status = rows[q].status
                          /\ Backfilled(rec.lo, rec.top)[q].sent = rows[q].sent
    BY <1>1, RowIdsAreIndices DEF Backfilled, Row
  <2> QED
    BY <1>7, <2>1 DEF BackfillLegacyKeys, IfCommitted, Undecided
<1>8. ASSUME NEW e \in Events, Persist(e) \/ PersistFails(e) \/ PersistUnseen(e)
      PROVE  rows'[r] = rows[r]
  BY <1>8, StoredWebhook DEF PersistFails, database
<1>9. ASSUME NEW s \in Slots, TaskEnds(s)
      PROVE  /\ rows'[r].status = "none" /\ ~rows'[r].sent => Undecided(r)
             /\ \/ rows'[r].status = rows[r].status /\ rows'[r].sent = rows[r].sent
                \/ Settles(s, r)
  <2> DEFINE k == tasks[s].item.key
             failed == ResolveGroupEvents(k, tasks[s].row)
  <2>0. tasks[s].pc = "calling" /\ tasks[s].row = tasks[s].item.row
    BY <1>9 DEF TaskEnds, HermesAnswers, HermesFails, RecordRaises, Answered, WorkInvariant,
                RunsOK
  <2>1. /\ tasks[s].item.row \in RowIds
        /\ k # NoKey => /\ k \in Keys /\ rows[tasks[s].item.row].key = k
                        /\ groups[k].status # "absent"
    BY <2>0, HeldByTask
  <2>2. IF k = NoKey THEN tasks[s].members = {tasks[s].row}
                     ELSE \A q \in tasks[s].members : rows[q].key = k
    BY <2>0 DEF WorkInvariant, RunsOK
  <2>3. IF k = NoKey THEN failed = {tasks[s].row}
                     ELSE \A q \in failed : rows[q].key = k
    BY <2>0, <2>1 DEF ResolveGroupEvents
  <2>4. k # NoKey => /\ IfClaimed(k, DispatchedGroup(k))[k].status = "dispatched"
                     /\ IfClaimed(k, FailedGroup(k))[k].status \in {"dispatched", "failed"}
    BY <1>1, <2>1 DEF IfClaimed, DispatchedGroup, FailedGroup, Group
  <2>5. CASE HermesAnswers(s)
    <3>1. PICK ok \in BOOLEAN :
            /\ rows' = DispatchedRows(tasks[s].members, tasks[s].row, ok)
            /\ groups' = IfCommitted(ok, IfClaimed(k, DispatchedGroup(k)), groups)
      BY <2>5 DEF HermesAnswers, Commits
    <3>2. rows'[r] = IF r \in tasks[s].members THEN RecordedRow(r, tasks[s].row, ok)
                                               ELSE rows[r]
      BY <3>1 DEF DispatchedRows
    <3>3. /\ ok => RecordedRow(r, tasks[s].row, ok).sent
          /\ ~ok => /\ RecordedRow(r, tasks[s].row, ok).sent = rows[r].sent
                    /\ RecordedRow(r, tasks[s].row, ok).status = rows[r].status
      BY <1>1 DEF RecordedRow, Row
    <3>4. CASE r \in tasks[s].members /\ ok
      BY <1>9, <2>0, <2>2, <2>4, <3>1, <3>2, <3>3, <3>4 DEF Settles, IfCommitted
    <3>5. CASE ~(r \in tasks[s].members /\ ok)
      BY <3>2, <3>3, <3>5 DEF Undecided
    <3> QED
      BY <3>4, <3>5
  <2>6. CASE HermesFails(s)
    <3>1. PICK ok \in BOOLEAN :
            /\ rows' = IfCommitted(ok, FailedRows(failed), rows)
            /\ groups' = IfCommitted(ok, IfClaimed(k, FailedGroup(k)), groups)
      BY <2>6 DEF HermesFails, Commits
    <3>2. CASE ok /\ r \in failed
      <4>1. rows'[r].status = "error"
        BY <1>1, <3>1, <3>2 DEF FailedRows, IfCommitted, Row
      <4> QED
        BY <1>9, <2>0, <2>3, <2>4, <3>1, <3>2, <4>1 DEF Settles, IfCommitted
    <3>3. CASE ~(ok /\ r \in failed)
      <4>1. rows'[r] = rows[r]
        BY <3>1, <3>3 DEF FailedRows, IfCommitted
      <4> QED
        BY <4>1 DEF Undecided
    <3> QED
      BY <3>2, <3>3
  <2>7. CASE RecordRaises(s)
    <3>1. k # NoKey
      BY <2>7 DEF RecordRaises
    <3>2. PICK ok \in BOOLEAN :
            /\ rows' = StampedAsFailed(tasks[s].members, failed, ok)
            /\ groups' = IfCommitted(ok, IfClaimed(k, FailedGroup(k)), groups)
      BY <2>7 DEF RecordRaises
    <3>3. /\ rows'[r].sent = (rows[r].sent \/ (ok /\ r \in tasks[s].members))
          /\ rows'[r].status = IF ok /\ r \in tasks[s].members \cup failed
                               THEN "error" ELSE rows[r].status
      BY <1>1, <3>2 DEF StampedAsFailed, Row
    <3>4. CASE ok /\ r \in tasks[s].members \cup failed
      BY <1>9, <2>0, <2>2, <2>3, <2>4, <3>1, <3>2, <3>3, <3>4 DEF Settles, IfCommitted
    <3>5. CASE ~(ok /\ r \in tasks[s].members \cup failed)
      <4>1. ~(ok /\ r \in tasks[s].members) /\ rows'[r].status = rows[r].status
        BY <3>3, <3>5
      <4>2. rows'[r].sent = rows[r].sent
        BY <1>1, <3>2, <4>1 DEF StampedAsFailed, Row
      <4> QED
        BY <4>1, <4>2 DEF Undecided
    <3> QED
      BY <3>4, <3>5
  <2> QED
    BY <1>9, <2>5, <2>6, <2>7 DEF TaskEnds
<1>10. CASE \/ Claim \/ ClaimFails \/ ClaimUnseen \/ Submit \/ CronStep
            \/ \E s \in Slots : \/ RunRaises(s) \/ DropMissing(s)
                                \/ NoDispatchedSibling(s) \/ CallHermes(s)
            \/ Restart
  <2>1. rows' = rows
    BY <1>10
       DEF Claim, ClaimFails, ClaimUnseen, Refuse, Submit, CronStep, CronTick,
           StatusUnavailable, Defer, DeferRaises, RunSpaceEvent, RunRaises, DropMissing, NoDispatchedSibling,
           CallHermes, Restart, database
  <2> QED
    BY <2>1 DEF Undecided
<1>11. CASE Ticks
  BY <1>11 DEF Ticks, Undecided
<1>12. CASE RecoveryStep /\ rows' = rows
  BY <1>12 DEF Undecided
<1>13. CASE RecoveryStep
  BY <1>5, <1>6, <1>7, <1>12, <1>13, RecoveryFrame
<1>14. CASE \E s \in Slots : Skips(s)
  BY <1>3, <1>4, <1>14
<1>15. CASE \E s \in Slots : TaskEnds(s)
  BY <1>9, <1>15
<1>16. CASE \E e \in Events : Persist(e) \/ PersistFails(e) \/ PersistUnseen(e)
  BY <1>8, <1>16 DEF Undecided
<1> QED
  BY <1>2, <1>10, <1>11, <1>13, <1>14, <1>15, <1>16, ClockTicks
     DEF Next, HandlerStep, TaskStarts, Skips

-----------------------------------------------------------------------------
(* Where the items come from *)

SubmittedItem ==
    [event |-> rows[handler.row].event, key |-> rows[handler.row].key, row |-> handler.row]

RecoveredItem(k) == [event |-> rows[rec.at].event, key |-> k, row |-> rec.at]

LEMMA HeldEntries ==
  /\ HeldItems = Entries(queue) \cup Entries(rec.items) \cup
                 {tasks[s].item : s \in {t \in Slots : tasks[t].pc # "free"}}
  /\ HeldItems' = Entries(queue') \cup Entries(rec'.items) \cup
                  {tasks'[s].item : s \in {t \in Slots : tasks'[t].pc # "free"}}
  BY DEF HeldItems, Entries

LEMMA QueueMoves ==
  ASSUME Orderly, Inductive, WorkInvariant, [Next]_vars
  PROVE  \/ queue' = queue
         \/ Submit /\ SubmittedItem \in Item /\ queue' = Append(queue, SubmittedItem)
         \/ Defer /\ queue # <<>> /\ queue' = Append(Tail(queue), Head(queue))
         \/ /\ DeferRaises \/ \E s \in Slots : RunSpaceEvent(s)
            /\ queue # <<>> /\ queue' = Tail(queue)
         \/ RequeueLostWork /\ queue = <<>> /\ queue' = rec.items
         \/ Restart /\ queue' = <<>>
<1>1. queue \in Seq(Item) /\ rec.items \in Seq(Item) /\ rows \in Seq(Row)
  BY DEF Inductive, TypeOK, Recovery
<1>2. ASSUME NEW e \in Events, Persist(e) \/ PersistFails(e) \/ PersistUnseen(e)
      PROVE  queue' = queue
  BY <1>2 DEF Persist, PersistFails, PersistUnseen, Orderly
<1>3. CASE Submit
  <2>1. SubmittedItem \in Item
    BY <1>1, <1>3, HandledRow, StoredItem DEF Submit, SubmittedItem
  <2> QED
    BY <1>3, <2>1 DEF Submit, SubmittedItem
<1>4. CASE Defer \/ DeferRaises \/ \E s \in Slots : RunSpaceEvent(s)
  BY <1>4 DEF Inductive, CronOK, Defer, DeferRaises, RunSpaceEvent
<1>5. CASE RequeueLostWork
  <2>1. queue = <<>>
    BY <1>5 DEF RequeueLostWork, InThread, WorkInvariant, RecoveryAlone
  <2> QED
    BY <1>1, <1>5, <2>1, NothingAhead DEF RequeueLostWork
<1>6. CASE RecoveryStep /\ ~RequeueLostWork
  BY <1>6, RecoveryFrame
<1>7. CASE \/ Claim \/ ClaimFails \/ ClaimUnseen \/ RecordDuplicateMember
           \/ CronTick \/ StatusUnavailable
           \/ \E s \in Slots : TaskStarts(s) \/ TaskEnds(s)
  BY <1>7
     DEF Claim, ClaimFails, ClaimUnseen, Refuse, RecordDuplicateMember, CronTick, StatusUnavailable,
         TaskStarts, TaskEnds, RunRaises, DropMissing, SkipIfUnitAlreadyDispatched,
         MarkSkipped, NoDispatchedSibling, SkipIfLegacyDispatched, CallHermes,
         HermesAnswers, HermesFails, RecordRaises
<1>8. CASE Ticks
  BY <1>8 DEF Ticks, memory
<1>9. CASE Restart
  BY <1>9 DEF Restart
<1> QED
  BY <1>2, <1>3, <1>4, <1>5, <1>6, <1>7, <1>8, <1>9, ClockTicks
     DEF Next, HandlerStep, CronStep

\* A run keeps its item and moves on, or ends; a new one takes the head of the queue
LEMMA TaskMoves ==
  ASSUME Orderly, Inductive, WorkInvariant, [Next]_vars, NEW s \in Slots
  PROVE  \/ tasks'[s] = tasks[s]
         \/ tasks'[s] = Free
         \/ /\ RunSpaceEvent(s) /\ queue # <<>>
            /\ tasks[s] = Free
            /\ tasks'[s] = [pc |-> "ready", item |-> Head(queue), row |-> NoRow, members |-> {}]
         \/ /\ NoDispatchedSibling(s)
            /\ tasks[s].item.row \in RowIds
            /\ tasks'[s] = [pc |-> "checked", item |-> tasks[s].item,
                            row |-> tasks[s].item.row, members |-> {}]
         \/ /\ CallHermes(s)
            /\ tasks[s].row = tasks[s].item.row
            /\ tasks'[s] = [pc |-> "calling", item |-> tasks[s].item, row |-> tasks[s].row,
                            members |-> ResolveGroupEvents(tasks[s].item.key, tasks[s].row)]
<1>1. tasks \in [Slots -> Task \cup {Free}]
  BY DEF Inductive, TypeOK
<1>2. ASSUME NEW t \in Slots, RunSpaceEvent(t), t # s
      PROVE  tasks'[s] = tasks[s]
  BY <1>1, <1>2 DEF RunSpaceEvent
<1>3. CASE RunSpaceEvent(s)
  BY <1>1, <1>3 DEF RunSpaceEvent, Inductive, CronOK
<1>4. ASSUME NEW t \in Slots, NoDispatchedSibling(t) \/ CallHermes(t), t # s
      PROVE  tasks'[s] = tasks[s]
  BY <1>1, <1>4 DEF NoDispatchedSibling, CallHermes
<1>5. CASE NoDispatchedSibling(s)
  <2>1. tasks[s].pc # "free"
    BY <1>5 DEF NoDispatchedSibling, Starting
  <2> QED
    BY <1>1, <1>5, <2>1, HeldByTask DEF NoDispatchedSibling
<1>6. CASE CallHermes(s)
  <2>1. tasks[s].row = tasks[s].item.row
    BY <1>6 DEF CallHermes, WorkInvariant, RunsOK
  <2> QED
    BY <1>1, <1>6, <2>1 DEF CallHermes
<1> QED
  BY <1>2, <1>3, <1>4, <1>5, <1>6, TasksFrame

LEMMA RotatedEntries ==
  ASSUME NEW S, NEW s \in Seq(S), s # <<>>
  PROVE  Entries(Append(Tail(s), Head(s))) = Entries(s)
<1> DEFINE t == Tail(s)
           x == Head(s)
<1>1. t \in Seq(S) /\ x \in S
  BY HeadTailProperties
<1> HIDE DEF t, x
<1>2. Entries(Append(t, x)) = Entries(t) \cup {x}
  BY <1>1, AppendedEntries
<1> QED
  BY <1>2, HeadTailEntries DEF t, x

LEMMA ItemMoves ==
  ASSUME Orderly, Inductive, WorkInvariant, [Next]_vars, NEW item \in HeldItems'
  PROVE  \/ item \in HeldItems
         \/ Submit /\ item = SubmittedItem
         \/ RecoverKeyless /\ item = RecoveredItem(NoKey)
         \/ RecoverOwner /\ item = RecoveredItem(Unit)
<1>1. queue \in Seq(Item) /\ rec \in Recovery /\ rec.items \in Seq(Item) /\ rows \in Seq(Row)
  BY DEF Inductive, TypeOK, Recovery
<1>2. CASE item \in Entries(queue')
  <2>1. queue # <<>> => /\ Entries(Tail(queue)) \subseteq Entries(queue)
                        /\ Entries(Append(Tail(queue), Head(queue))) = Entries(queue)
    BY <1>1, EntriesOfHeadTail, RotatedEntries
  <2>2. CASE Submit /\ SubmittedItem \in Item /\ queue' = Append(queue, SubmittedItem)
    BY <1>1, <1>2, <2>2, AppendedEntries, HeldEntries
  <2> QED
    BY <1>2, <2>1, <2>2, QueueMoves, HeldEntries, EntriesOfEmpty
<1>3. ASSUME NEW s \in Slots, tasks'[s].pc # "free", item = tasks'[s].item
      PROVE  item \in HeldItems
  <2>1. CASE tasks'[s] = tasks[s]
    BY <1>3, <2>1, HeldEntries
  <2>2. CASE queue # <<>> /\ tasks'[s].item = Head(queue)
    BY <1>1, <1>3, <2>2, HeldEntries, EntriesOfHeadTail
  <2>3. CASE tasks[s].pc # "free" /\ tasks'[s].item = tasks[s].item
    BY <1>3, <2>3, HeldEntries
  <2>4. tasks'[s] # Free
    BY <1>3 DEF Free
  <2>5. CASE NoDispatchedSibling(s) \/ CallHermes(s)
    <3>1. tasks[s].pc # "free"
      BY <2>5 DEF NoDispatchedSibling, CallHermes, Starting
    <3>2. tasks \in [Slots -> Task \cup {Free}]
      BY DEF Inductive, TypeOK
    <3>3. tasks'[s].item = tasks[s].item
      BY <2>5, <3>2 DEF NoDispatchedSibling, CallHermes
    <3> QED
      BY <2>3, <3>1, <3>3
  <2>6. CASE tasks'[s] = [pc |-> "ready", item |-> Head(queue), row |-> NoRow, members |-> {}]
             /\ queue # <<>>
    BY <2>2, <2>6
  <2> QED
    BY <2>1, <2>4, <2>5, <2>6, TaskMoves
<1>4. CASE item \in Entries(rec'.items)
  <2>1. CASE RecoverKeyless
    <3>1. rec' = Recovered(NoKey) /\ rec.at \in RowIds /\ NoKey \in Key
      BY <2>1, ScannedRow DEF RecoverKeyless, Key
    <3>2. RecoveredItem(NoKey) \in Item /\ rec'.items = Append(rec.items, RecoveredItem(NoKey))
      BY <1>1, <3>1, RecoveredType DEF RecoveredItem
    <3> QED
      BY <1>1, <1>4, <2>1, <3>2, AppendedEntries, HeldEntries
  <2>2. CASE RecoverOwner
    <3>1. rec' = Recovered(Unit) /\ rec.at \in RowIds /\ Unit \in Key
      BY <2>2, ScannedRow DEF RecoverOwner, Key, AtRow, InThread
    <3>2. RecoveredItem(Unit) \in Item /\ rec'.items = Append(rec.items, RecoveredItem(Unit))
      BY <1>1, <3>1, RecoveredType DEF RecoveredItem
    <3> QED
      BY <1>1, <1>4, <2>2, <3>2, AppendedEntries, HeldEntries
  <2>3. CASE rec'.items = rec.items \/ rec'.items = <<>>
    BY <1>4, <2>3, EntriesOfEmpty, HeldEntries
  <2>4. CASE SeekSibling
    BY <2>3, <2>4, SoughtType DEF SeekSibling
  <2> QED
    BY <2>1, <2>2, <2>3, <2>4, ScanFrame, ScanMoves
       DEF ScanStarts, ScanReads, ScanAdvances, ScanCaches, ScanSeeks, ScanEnds
<1> QED
  BY <1>2, <1>3, <1>4, HeldEntries

-----------------------------------------------------------------------------
(* The invariant of the work, one conjunct at a time *)

LEMMA ItemsStoredStep ==
  ASSUME Orderly, Inductive, WorkInvariant, [Next]_vars
  PROVE  ItemsStored'
<1> SUFFICES ASSUME NEW item \in HeldItems'
             PROVE  item.row \in RowIds'
  BY DEF ItemsStored
<1>1. RowIds \subseteq RowIds'
  BY TablesStep, KeptByTables
<1>2. CASE item \in HeldItems
  BY <1>1, <1>2 DEF WorkInvariant, ItemsStored
<1>3. CASE Submit /\ item = SubmittedItem
  BY <1>1, <1>3, HandledRow DEF Submit, SubmittedItem
<1>4. CASE RecoverKeyless /\ item = RecoveredItem(NoKey)
  BY <1>1, <1>4, ScannedRow DEF RecoverKeyless, RecoveredItem
<1>5. CASE RecoverOwner /\ item = RecoveredItem(Unit)
  BY <1>1, <1>5, ScannedRow DEF RecoverOwner, InThread, RecoveredItem
<1> QED
  BY <1>2, <1>3, <1>4, <1>5, ItemMoves

LEMMA LeadsStep ==
  ASSUME Orderly, Inductive, WorkInvariant, [Next]_vars
  PROVE  LeadsOK'
<1> SUFFICES ASSUME NEW k \in Keys, groups'[k].status # "absent"
             PROVE  /\ groups'[k].leadRow \in RowIds'
                    /\ rows'[groups'[k].leadRow].key = k
                    /\ groups'[k].status = "dispatched" => rows'[groups'[k].leadRow].sent
  BY DEF LeadsOK
<1>0. k # NoKey /\ groups[k] \in Group /\ rows \in Seq(Row)
  BY ConstantsAssumption DEF Inductive, TypeOK
<1>1. /\ RowIds \subseteq RowIds'
      /\ \A r \in RowIds : /\ rows[r].key # NoKey => rows'[r].key = rows[r].key
                           /\ rows[r].sent => rows'[r].sent
  BY TablesStep, KeptByTables
<1>2. groups[k].status # "absent" =>
        /\ groups[k].leadRow \in RowIds
        /\ rows[groups[k].leadRow].key = k
        /\ groups[k].status = "dispatched" => rows[groups[k].leadRow].sent
  BY DEF WorkInvariant, LeadsOK
<1>3. CASE groups'[k] = groups[k]
  BY <1>0, <1>1, <1>2, <1>3
<1>4. CASE /\ Claim \/ ClaimUnseen
           /\ k = rows[handler.row].key
           /\ groups'[k] = [status |-> "pending", leadRow |-> handler.row]
  BY <1>0, <1>1, <1>4, HandledRow DEF Claim, ClaimUnseen
<1>5. CASE /\ RecoveryClaims /\ k = Unit
           /\ groups'[k] = [status |-> "pending", leadRow |-> rec.at]
  BY <1>0, <1>1, <1>5, ScannedRow DEF RecoveryClaims, InThread, AtRow
<1>6. ASSUME NEW s \in Slots, HermesAnswers(s), tasks[s].item.key = k,
             rows' = DispatchedRows(tasks[s].members, tasks[s].row, TRUE),
             groups[k].status # "absent",
             groups'[k] = [groups[k] EXCEPT !.status = "dispatched"]
      PROVE  /\ groups'[k].leadRow = groups[k].leadRow
             /\ rows'[groups[k].leadRow].sent
  <2> DEFINE lead == groups[k].leadRow
  <2>1. lead \in RowIds /\ lead \in tasks[s].members
    BY <1>0, <1>2, <1>6 DEF HermesAnswers, Answered, WorkInvariant, RunsOK
  <2>2. rows'[lead].sent
    BY <1>0, <1>6, <2>1, DispatchedTable
  <2> QED
    BY <1>0, <1>6, <2>2 DEF Group
<1>7. ASSUME groups[k].status \notin {"absent", "dispatched"},
             groups'[k] = [groups[k] EXCEPT !.status = "failed"]
      PROVE  groups'[k].leadRow = groups[k].leadRow /\ groups'[k].status = "failed"
  BY <1>0, <1>7 DEF Group
<1>8. CASE \E s \in Slots :
              /\ HermesAnswers(s)
              /\ tasks[s].item.key = k
              /\ rows' = DispatchedRows(tasks[s].members, tasks[s].row, TRUE)
              /\ groups[k].status # "absent"
              /\ groups'[k] = [groups[k] EXCEPT !.status = "dispatched"]
  BY <1>0, <1>1, <1>2, <1>6, <1>8
<1>9. CASE /\ groups[k].status \notin {"absent", "dispatched"}
           /\ groups'[k] = [groups[k] EXCEPT !.status = "failed"]
  BY <1>0, <1>1, <1>2, <1>7, <1>9
<1> QED
  BY <1>3, <1>4, <1>5, <1>8, <1>9, GroupMoves

LEMMA RunsStep ==
  ASSUME Orderly, Inductive, WorkInvariant, [Next]_vars
  PROVE  RunsOK'
<1> DEFINE Fits(task, table, claims) ==
             /\ task.pc \in {"checked", "calling"} => task.row = task.item.row
             /\ task.pc = "calling" =>
                   /\ task.row \in task.members
                   /\ IF task.item.key = NoKey
                      THEN task.members = {task.row}
                      ELSE /\ claims[task.item.key].leadRow \in task.members
                           /\ \A r \in task.members :
                                 r \in DOMAIN table /\ table[r].key = task.item.key
<1> SUFFICES ASSUME NEW s \in Slots
             PROVE  Fits(tasks'[s], rows', groups')
  BY DEF RunsOK, RowIds
<1>1. Fits(tasks[s], rows, groups)
  BY DEF WorkInvariant, RunsOK, RowIds
<1>2. /\ RowIds \subseteq RowIds'
      /\ \A r \in RowIds : rows[r].key # NoKey => rows'[r].key = rows[r].key
  BY TablesStep, KeptByTables
<1>3. CASE tasks'[s] = tasks[s]
  <2>1. tasks[s].pc = "calling" /\ tasks[s].item.key # NoKey =>
          groups'[tasks[s].item.key].leadRow = groups[tasks[s].item.key].leadRow
    BY HeldByTask, LeadStays
  <2> QED
    BY <1>1, <1>2, <1>3, <2>1 DEF RowIds
<1>4. CASE tasks'[s].pc \in {"free", "ready"}
  BY <1>4
<1>5. CASE tasks'[s] = [pc |-> "checked", item |-> tasks[s].item,
                        row |-> tasks[s].item.row, members |-> {}]
  BY <1>5
<1>6. CASE /\ CallHermes(s)
           /\ tasks[s].row = tasks[s].item.row
           /\ tasks'[s] = [pc |-> "calling", item |-> tasks[s].item, row |-> tasks[s].row,
                           members |-> ResolveGroupEvents(tasks[s].item.key, tasks[s].row)]
  <2> DEFINE k == tasks[s].item.key
             r == tasks[s].item.row
             members == ResolveGroupEvents(k, r)
  <2>1. rows' = rows /\ groups' = groups /\ tasks[s].pc # "free"
    BY <1>6 DEF CallHermes, database
  <2>2. r \in RowIds /\ (k # NoKey => k \in Keys /\ rows[r].key = k
                                      /\ groups[k].status # "absent")
    BY <2>1, HeldByTask
  <2>3. CASE k = NoKey
    <3>1. members = {r}
      BY <2>3 DEF ResolveGroupEvents
    <3> QED
      BY <1>6, <2>3, <3>1
  <2>4. CASE k # NoKey
    <3>1. members = {q \in RowIds : rows[q].key = k}
      BY <2>2, <2>4 DEF ResolveGroupEvents
    <3>2. groups[k].leadRow \in members
      BY <2>2, <2>4, <3>1 DEF WorkInvariant, LeadsOK
    <3> HIDE DEF members
    <3> QED
      BY <1>6, <2>1, <2>2, <2>4, <3>1, <3>2 DEF members, RowIds
  <2> QED
    BY <2>3, <2>4
<1>7. CASE tasks'[s] = Free
  BY <1>4, <1>7 DEF Free
<1>8. CASE tasks'[s] = [pc |-> "ready", item |-> Head(queue), row |-> NoRow, members |-> {}]
  BY <1>4, <1>8
<1> HIDE DEF Fits
<1> QED
  BY <1>3, <1>5, <1>6, <1>7, <1>8, TaskMoves

LEMMA HandlingStep ==
  ASSUME Orderly, Inductive, WorkInvariant, [Next]_vars
  PROVE  HandlingOK'
<1>0. rows \in Seq(Row) /\ groups \in [Keys -> Group]
      /\ handler \in [pc : {"idle", "claim", "conflict", "enqueue"}, row : Nat]
  BY DEF Inductive, TypeOK
<1>1. CASE handler'.pc = "idle"
  BY <1>1 DEF HandlingOK
<1>2. CASE handler.pc # "idle" /\ Ticks
  BY <1>2 DEF Ticks, memory, WorkInvariant, HandlingOK, Undecided
<1>3. CASE Restart \/ ClaimFails \/ ClaimUnseen \/ RecordDuplicateMember \/ Submit
  <2>1. handler' = IdleHandler
    BY <1>3 DEF Restart, ClaimFails, ClaimUnseen, Refuse, RecordDuplicateMember, Submit
  <2> QED
    BY <1>1, <2>1 DEF IdleHandler
<1>4. CASE Claim
  <2>1. handler.pc = "claim" /\ rows' = rows /\ tasks' = tasks
    BY <1>4 DEF Claim
  <2>2. /\ Undecided(handler.row)
        /\ \A s \in Slots : tasks[s].pc # "checked"
        /\ \A k \in Keys : groups[k].status # "absent" => groups[k].leadRow # handler.row
    BY <2>1 DEF WorkInvariant, HandlingOK
  <2>3. CASE ClaimFree(rows[handler.row].key)
    <3>1. /\ handler' = [handler EXCEPT !.pc = "enqueue"]
          /\ groups' = Claimed(rows[handler.row].key, handler.row)
      BY <1>4, <2>3 DEF Claim
    <3>2. handler'.pc = "enqueue" /\ handler'.row = handler.row
      BY <1>0, <3>1
    <3>3. rows[handler.row].key \in Keys
      BY <2>1, HandledRow
    <3>4. groups'[rows[handler.row].key].leadRow = handler.row
      BY <1>0, <3>1, <3>3 DEF Claimed
    <3> QED
      BY <2>1, <2>2, <3>2, <3>4 DEF HandlingOK, Undecided
  <2>4. CASE ~ClaimFree(rows[handler.row].key)
    <3>1. handler' = [handler EXCEPT !.pc = "conflict"] /\ groups' = groups
      BY <1>4, <2>4 DEF Claim
    <3>2. handler'.pc = "conflict" /\ handler'.row = handler.row
      BY <1>0, <3>1
    <3> QED
      BY <2>1, <2>2, <3>1, <3>2 DEF HandlingOK, Undecided
  <2> QED
    BY <2>3, <2>4
<1>5. ASSUME NEW e \in Events, Persist(e)
      PROVE  HandlingOK'
  <2> DEFINE new == Len(rows) + 1
  <2>1. /\ handler' = [pc |-> IF KeyOf[e] = NoKey THEN "enqueue" ELSE "claim", row |-> new]
        /\ groups' = groups /\ tasks' = tasks /\ LoopTurns
    BY <1>5 DEF Persist, Receive, LoopFree
  <2>2. rows'[new] = StoredRow(e)
    BY <1>5, StoredWebhook
  <2>3. rows'[new].status = "none" /\ ~rows'[new].sent /\ rows'[new].key = KeyOf[e]
    BY <2>2, StoredFields DEF StoredRow
  <2>4. \A k \in Keys : groups[k].status # "absent" => groups[k].leadRow # new
    BY <1>0, RowIdsAreIndices DEF WorkInvariant, LeadsOK
  <2>5. handler'.row = new /\ (handler'.pc = "enqueue" <=> KeyOf[e] = NoKey)
    BY <2>1
  <2> QED
    BY <2>1, <2>3, <2>4, <2>5 DEF HandlingOK, Undecided, LoopTurns
<1>6. CASE handler.pc = "idle"
  <2>1. CASE \E e \in Events : Persist(e)
    BY <1>5, <2>1
  <2>2. CASE handler' = handler
    BY <1>1, <1>6, <2>2
  <2>3. CASE HandlerStep
    BY <1>3, <1>4, <2>3 DEF HandlerStep
  <2>4. CASE \/ CronStep \/ \E s \in Slots : TaskStarts(s) \/ TaskEnds(s)
             \/ \E e \in Events : PersistFails(e) \/ PersistUnseen(e)
    BY <2>2, <2>4
       DEF CronStep, CronTick, StatusUnavailable, Defer, DeferRaises, RunSpaceEvent,
           TaskStarts, TaskEnds, RunRaises, DropMissing, SkipIfUnitAlreadyDispatched,
           SkipIfLegacyDispatched, MarkSkipped, NoDispatchedSibling, CallHermes,
           HermesAnswers, HermesFails, RecordRaises, PersistFails, PersistUnseen
  <2>5. CASE RecoveryStep
    BY <2>2, <2>5, RecoveryFrame
  <2>6. CASE Ticks
    BY <2>2, <2>6 DEF Ticks, memory
  <2> QED
    BY <1>3, <2>1, <2>3, <2>4, <2>5, <2>6, ClockTicks DEF Next
<1>7. CASE handler.pc # "idle"
  BY <1>2, <1>3, <1>4, <1>7, HandlerIsAlone DEF HandlerStep, WorkInvariant
<1> QED
  BY <1>6, <1>7

\* While the recovery is not idle no row is added, and it decides only the row it is at
LEMMA ScanKeeps ==
  ASSUME Orderly, Inductive, WorkInvariant, [Next]_vars, rec.pc # "idle"
  PROVE  /\ RowIds' = RowIds /\ Len(rows') = Len(rows)
         /\ \A r \in RowIds :
               \/ rows'[r].status = rows[r].status /\ rows'[r].sent = rows[r].sent
               \/ (MarkAlreadyDispatched \/ MarkMember) /\ r = rec.at
<1>1. /\ handler.pc = "idle" /\ \A s \in Slots : tasks[s].pc = "free"
  BY DEF WorkInvariant, RecoveryAlone
<1>2. ASSUME NEW e \in Events, Persist(e) \/ PersistUnseen(e)
      PROVE  FALSE
  BY <1>2 DEF Persist, PersistUnseen, Receive, Orderly
<1>3. RowIds' = RowIds
  BY <1>2, RowsGrow DEF RowIds
<1>4. rows \in Seq(Row) /\ rows' \in Seq(Row)
  BY TypeStep DEF Inductive, TypeOK
<1>5. Len(rows') = Len(rows)
  BY <1>3, <1>4, LenProperties DEF RowIds
<1>6. ~RecordDuplicateMember
  BY <1>1 DEF RecordDuplicateMember
<1>7. ASSUME NEW s \in Slots, Skips(s) \/ TaskEnds(s)
      PROVE  FALSE
  BY <1>1, <1>7 DEF Skips, SkipIfUnitAlreadyDispatched, SkipIfLegacyDispatched, Starting,
                    TaskEnds, HermesAnswers, HermesFails, RecordRaises, Answered
<1> QED
  BY <1>3, <1>5, <1>6, <1>7, RowMoves DEF Settles

LEMMA ScanningStep ==
  ASSUME Orderly, Inductive, WorkInvariant, [Next]_vars
  PROVE  ScanningOK'
<1> USE DEF InThread
<1>0. /\ rows \in Seq(Row) /\ rows' \in Seq(Row) /\ rec \in Recovery
      /\ rec.at \in Nat /\ rec.lo \in Nat /\ rec.top \in Nat
      /\ groups \in [Keys -> Group]
      /\ RowIds = 1 .. Len(rows) /\ Len(rows) \in Nat
      /\ \A r \in RowIds : rows'[r].event = rows[r].event
  BY TypeStep, RowIdsAreIndices, TablesStep, KeptByTables DEF Inductive, TypeOK, Recovery
<1>1. CASE ~Scanning'
  BY <1>1 DEF ScanningOK
<1>2. CASE rec'.pc \in {"scan", "publish", "idle"}
  BY <1>1, <1>2 DEF Scanning
<1>3. CASE Restart \/ ScanFails \/ RequeueLostWork
  <2>1. rec' = Started(rec.lo) \/ rec' = [Started(rec.lo) EXCEPT !.pc = "idle"]
    BY <1>3 DEF Restart, ScanFails, RequeueLostWork
  <2> QED
    BY <1>2, <2>1 DEF Started
<1>4. CASE rec.pc = "idle"
  BY <1>2, <1>3, <1>4, RecoveryRests DEF WorkInvariant
<1>5. CASE Ticks
  BY <1>5 DEF Ticks, memory, WorkInvariant, ScanningOK, Scanning, RowIds, Unit, SeenRow, Owner,
              DispatchedSibling
<1>6. CASE ScanDone
  BY <1>0, <1>2, <1>6 DEF ScanDone, Recovery
<1>7. CASE ScanWindow
  <2>1. PICK lo \in IF "age" \in Hazards THEN rec.lo .. Len(rows) ELSE {rec.lo} :
          rec' = [rec EXCEPT !.pc = "backfill", !.lo = lo, !.at = lo,
                             !.top = Len(rows), !.snap = rows]
    BY <1>7 DEF ScanWindow
  <2>2. lo \in Nat
    BY <1>0, <2>1
  <2>3. /\ rec'.pc = "backfill" /\ rec'.lo = lo /\ rec'.at = lo
        /\ rec'.top = Len(rows) /\ rec'.snap = rows /\ rows' = rows
    BY <1>0, <1>7, <2>1 DEF ScanWindow, database, Recovery
  <2> QED
    BY <1>0, <2>2, <2>3 DEF ScanningOK, Scanning
<1> SUFFICES ASSUME rec.pc # "idle", RecoveryStep, ~ScanWindow, ~ScanDone, ~ScanFails,
                    ~RequeueLostWork
             PROVE  ScanningOK'
  BY <1>3, <1>4, <1>5, <1>6, <1>7, ScanIsAlone DEF WorkInvariant
<1>8. /\ Scanning /\ rec.top = Len(rows) /\ rec.pc # "conflict"
      /\ IF rec.pc = "backfill" THEN rec.at = rec.lo ELSE rec.lo < rec.at
      /\ \A r \in RowIds : r >= rec.at =>
            rec.snap[r].status = rows[r].status /\ rec.snap[r].sent = rows[r].sent
  <2>1. Scanning
    BY DEF RecoveryStep, BackfillLegacyKeys, SkipRow, RecoverKeyless, SeekSibling,
           MarkAlreadyDispatched, SkipDuplicate, SeekOwner, NoOwner, RecoveryClaims,
           RecoveryLosesClaim, SkipDispatchedUnit, OwnedByAnother, MarkMember,
           RecoverOwner, AtRow, Scanning
  <2> QED
    BY <2>1 DEF WorkInvariant, ScanningOK
<1>9. /\ RowIds' = RowIds /\ Len(rows') = Len(rows)
      /\ \A r \in RowIds : r # rec.at =>
            rows'[r].status = rows[r].status /\ rows'[r].sent = rows[r].sent
  BY ScanKeeps
\* The scan goes on to the next row
<1>10. ASSUME rec'.pc = "row", rec'.at = rec.at + 1, rec'.lo = rec.lo,
              rec'.snap = rec.snap, rec'.top = rec.top
       PROVE  ScanningOK'
  BY <1>0, <1>8, <1>9, <1>10 DEF ScanningOK, Scanning
<1>11. CASE rec' = NextRow \/ \E fresh \in BOOLEAN : rec' = [NextRow EXCEPT !.fresh = fresh]
  BY <1>0, <1>10, <1>11, NextRowType
<1>12. CASE BackfillLegacyKeys
  BY <1>11, <1>12 DEF BackfillLegacyKeys
<1>13. CASE SkipRow \/ MarkAlreadyDispatched \/ SkipDuplicate \/ SkipDispatchedUnit \/ MarkMember
  BY <1>11, <1>13
     DEF SkipRow, MarkAlreadyDispatched, SkipDuplicate, SkipDispatchedUnit, MarkMember
<1>14. CASE RecoverKeyless \/ RecoverOwner
  <2>1. PICK k \in Key : rec' = Recovered(k)
    BY <1>14, ScannedRow DEF RecoverKeyless, RecoverOwner, AtRow, Key
  <2>2. rec.at \in RowIds
    BY <1>14, ScannedRow DEF RecoverKeyless, RecoverOwner, AtRow
  <2>3. rec'.lo = rec.lo
    BY <1>0, <2>1 DEF Recovered, NextRow, Recovery
  <2> QED
    BY <1>0, <1>10, <2>1, <2>2, <2>3, RecoveredType
\* The scan stays at its row
<1>15. ASSUME rows' = rows, rec'.at = rec.at, rec'.lo = rec.lo, rec'.top = rec.top,
              rec.pc # "backfill",
              rec'.pc \in {"sibling", "owner", "mark", "claim"},
              \A r \in RowIds : r >= rec.at =>
                 rec'.snap[r].status = rows[r].status /\ rec'.snap[r].sent = rows[r].sent,
              ~rows[rec.at].sent,
              rec'.pc \in {"owner", "mark", "claim"} =>
                 rows[rec.at].status = "none" /\ ~DispatchedSibling(Unit, rec.at)
                 /\ Unit' = Unit,
              rec'.pc = "claim" => groups'[Unit'].status = "absent",
              rec'.pc = "mark" => groups'[Unit'].status # "absent"
                                  /\ groups'[Unit'].leadRow # rec.at
       PROVE  ScanningOK'
  BY <1>0, <1>8, <1>15 DEF ScanningOK, Scanning, Owner, DispatchedSibling, RowIds
<1>16. CASE SeekSibling
  <2> DEFINE new == [rec EXCEPT !.pc = "sibling", !.snap = [@ EXCEPT ![rec.at] = ThisRow]]
  <2>1. AtRow /\ rec' = new /\ rows' = rows /\ ~ThisRow.sent
    BY <1>16 DEF SeekSibling, database
  <2>2. rec.at \in RowIds
    BY <2>1, ScannedRow
  <2>3. ThisRow.status = rows[rec.at].status /\ ThisRow.sent = rows[rec.at].sent
    BY <1>0, <1>8, <2>2 DEF ThisRow
  <2>4. new.lo = rec.lo
    BY <1>0 DEF Recovery
  <2>5. Len(rec.snap) = Len(rows)
    BY <1>8, <2>1 DEF Inductive, RecoveryOK, AtRow
  <2>6. /\ new.pc = "sibling" /\ new.at = rec.at /\ new.top = rec.top
        /\ new.snap[rec.at] = ThisRow
        /\ \A r \in 1 .. Len(rec.snap) : r # rec.at => new.snap[r] = rec.snap[r]
    BY <2>1, SoughtType
  <2> HIDE DEF new
  <2> QED
    BY <1>0, <1>8, <1>15, <2>1, <2>2, <2>3, <2>4, <2>5, <2>6 DEF AtRow
<1>17. /\ rec.pc \in {"sibling", "owner", "claim"} =>
             /\ rec.at \in RowIds /\ ~rows[rec.at].sent /\ SeenRow.status = rows[rec.at].status
             /\ SeenRow.event = rows[rec.at].event
             /\ Unit \in Keys
       /\ rec.pc \in {"owner", "claim"} =>
             rows[rec.at].status = "none" /\ ~DispatchedSibling(Unit, rec.at)
       /\ rec.pc = "claim" => Owner.status = "absent"
  <2>1. rec.pc \in {"sibling", "owner", "claim"} => rec.at \in RowIds /\ Unit \in Keys
    BY ScannedRow DEF AtRow
  <2>2. rec.pc \in {"sibling", "owner", "claim"} => SeenRow.event = rows[rec.at].event
    BY <1>0, <1>8, <2>1 DEF Inductive, RecoveryOK, SeenRow
  <2> QED
    BY <1>0, <1>8, <2>1, <2>2 DEF WorkInvariant, ScanningOK, SeenRow
<1>18. ASSUME NEW pc, rec' = [rec EXCEPT !.pc = pc]
       PROVE  /\ rec'.pc = pc /\ rec'.at = rec.at /\ rec'.lo = rec.lo /\ rec'.top = rec.top
              /\ rec'.snap = rec.snap /\ Unit' = Unit
  BY <1>0, <1>18 DEF Recovery, Unit, SeenRow
<1>19. CASE SeekOwner
  <2>1. rec' = [rec EXCEPT !.pc = "owner"] /\ rows' = rows /\ rec.pc = "sibling"
        /\ SeenRow.status = "none" /\ ~DispatchedSibling(Unit, rec.at)
    BY <1>19 DEF SeekOwner, database, Unit
  <2> QED
    BY <1>8, <1>15, <1>17, <1>18, <2>1
<1>20. CASE NoOwner
  <2>1. rec' = [rec EXCEPT !.pc = "claim"] /\ rows' = rows /\ rec.pc = "owner"
        /\ groups' = groups /\ groups[Unit].status = "absent"
    BY <1>20 DEF NoOwner, database, Owner
  <2> QED
    BY <1>8, <1>15, <1>17, <1>18, <2>1
<1>21. CASE OwnedByAnother
  <2>1. rec' = [rec EXCEPT !.pc = "mark"] /\ rows' = rows /\ rec.pc = "owner"
        /\ groups' = groups /\ groups[Unit].status # "absent"
        /\ rows[groups[Unit].leadRow].event # SeenRow.event
    BY <1>21 DEF OwnedByAnother, OwnsUnit, database, Owner
  <2> QED
    BY <1>8, <1>15, <1>17, <1>18, <2>1
<1>22. CASE RecoveryClaims
  <2>1. rec.pc = "claim" /\ ClaimFree(Unit)
    BY <1>17, <1>22 DEF RecoveryClaims, Owner, ClaimFree
  <2>2. rec' = [rec EXCEPT !.pc = "owner"] /\ rows' = rows
    BY <1>22, <2>1 DEF RecoveryClaims
  <2> QED
    BY <1>8, <1>15, <1>17, <1>18, <2>1, <2>2
<1>23. CASE RecoveryLosesClaim
  BY <1>8, <1>23 DEF RecoveryLosesClaim
<1> QED
  BY <1>12, <1>13, <1>14, <1>16, <1>19, <1>20, <1>21, <1>22, <1>23 DEF RecoveryStep

LEMMA WorkInit == Init => WorkInvariant
<1> SUFFICES ASSUME Init
             PROVE  WorkInvariant
  OBVIOUS
<1>1. /\ queue = <<>> /\ handler.pc = "idle" /\ cron = "idle"
      /\ \A s \in Slots : tasks[s].pc = "free"
      /\ \A k \in Keys : calls[k] = 0 /\ groups[k].status = "absent"
      /\ rec.pc = "scan" /\ rec.items = <<>>
  BY DEF Init, IdleHandler, Started, Free
<1>2. HeldItems = {}
  BY <1>1 DEF HeldItems
<1> QED
  BY <1>1, <1>2
     DEF WorkInvariant, RecoveryAlone, ItemsStored, LeadsOK, RunsOK, HandlingOK, ScanningOK,
         Scanning

LEMMA WorkStep ==
  ASSUME Orderly, Inductive, WorkInvariant, [Next]_vars
  PROVE  WorkInvariant'
<1>1. RecoveryAlone'
  BY AloneStep DEF WorkInvariant
<1> QED
  BY <1>1, ItemsStoredStep, LeadsStep, RunsStep, HandlingStep, ScanningStep DEF WorkInvariant

\* Where webhooks wait for the recovery and every row is stored, the recovery works
\* alone, the row of a webhook being handled is undecided, and what the session of
\* the scan has cached is not stale for the rows still to be decided
\* (_requeue_lost_work, pending_dispatch_items, space_events)
THEOREM WorkInvariance ==
  ASSUME Orderly
  PROVE  Spec => []WorkInvariant
<1>1. Init => WorkInvariant
  BY WorkInit
<1>2. Inductive /\ WorkInvariant /\ [Next]_vars => WorkInvariant'
  BY WorkStep
<1> QED
  BY <1>1, <1>2, InductiveInvariance, PTL DEF Spec

-----------------------------------------------------------------------------
(* How the scan goes on *)

LEMMA ScanGoesOn ==
  ASSUME Orderly, Inductive, WorkInvariant, [Next]_vars, Scanning', ~Ticks
  PROVE  \/ ScanWindow
         \/ /\ RecoveryStep /\ Scanning
            /\ rec'.pc # "backfill" /\ rec'.lo = rec.lo
            /\ rec'.fresh = rec.fresh \/ rec'.fresh = TRUE \/ BackfillLegacyKeys
            /\ rec'.snap = rec.snap \/ SeekSibling
            /\ \/ /\ rec'.at = rec.at + 1
                  /\ \/ BackfillLegacyKeys \/ SkipRow \/ SkipDuplicate
                     \/ MarkAlreadyDispatched \/ SkipDispatchedUnit \/ MarkMember
                     \/ RecoverKeyless \/ RecoverOwner
               \/ rec'.at = rec.at /\ rec'.items = rec.items
<1> USE DEF InThread
<1>1. rec \in Recovery /\ rows \in Seq(Row)
  BY DEF Inductive, TypeOK
<1>2. ASSUME Restart \/ ScanFails \/ RequeueLostWork
      PROVE  FALSE
  <2>1. rec' = Started(rec.lo) \/ rec' = [Started(rec.lo) EXCEPT !.pc = "idle"]
    BY <1>2 DEF Restart, ScanFails, RequeueLostWork
  <2> QED
    BY <2>1 DEF Started, Scanning
<1>3. CASE ScanDone
  BY <1>1, <1>3 DEF ScanDone, Recovery, Scanning
<1>4. rec.pc # "idle"
  BY <1>2, RecoveryRests DEF WorkInvariant, Scanning
<1> SUFFICES ASSUME RecoveryStep, ~ScanWindow, ~ScanDone, ~ScanFails, ~RequeueLostWork
             PROVE  /\ Scanning
                    /\ rec'.pc # "backfill" /\ rec'.lo = rec.lo
                    /\ rec'.fresh = rec.fresh \/ rec'.fresh = TRUE \/ BackfillLegacyKeys
                    /\ rec'.snap = rec.snap \/ SeekSibling
                    /\ \/ /\ rec'.at = rec.at + 1
                          /\ \/ BackfillLegacyKeys \/ SkipRow \/ SkipDuplicate
                             \/ MarkAlreadyDispatched \/ SkipDispatchedUnit \/ MarkMember
                             \/ RecoverKeyless \/ RecoverOwner
                       \/ rec'.at = rec.at /\ rec'.items = rec.items
  BY <1>2, <1>3, <1>4, ScanIsAlone DEF WorkInvariant
<1>5. Scanning
  BY DEF RecoveryStep, BackfillLegacyKeys, SkipRow, RecoverKeyless, SeekSibling,
         MarkAlreadyDispatched, SkipDuplicate, SeekOwner, NoOwner, RecoveryClaims,
         RecoveryLosesClaim, SkipDispatchedUnit, OwnedByAnother, MarkMember,
         RecoverOwner, AtRow, Scanning
<1>6. /\ NextRow.fresh = rec.fresh /\ NextRow.lo = rec.lo /\ NextRow.snap = rec.snap
      /\ NextRow.at = rec.at + 1 /\ NextRow.pc = "row"
  BY <1>1 DEF NextRow, Recovery
<1>7. \A fresh \in BOOLEAN :
         LET new == [NextRow EXCEPT !.fresh = fresh]
         IN  /\ new.fresh = fresh /\ new.lo = rec.lo /\ new.snap = rec.snap
             /\ new.at = rec.at + 1 /\ new.pc = "row"
  BY <1>1, <1>6 DEF NextRow, Recovery
<1>8. CASE BackfillLegacyKeys
  BY <1>5, <1>7, <1>8 DEF BackfillLegacyKeys
<1>9. CASE SkipRow \/ SkipDuplicate \/ SkipDispatchedUnit
  <2>1. rec' = NextRow
    BY <1>9 DEF SkipRow, SkipDuplicate, SkipDispatchedUnit
  <2> QED
    BY <1>5, <1>6, <1>9, <2>1
<1>10. CASE MarkAlreadyDispatched \/ MarkMember
  <2>1. rec' = [NextRow EXCEPT !.fresh = TRUE]
    BY <1>10 DEF MarkAlreadyDispatched, MarkMember
  <2> QED
    BY <1>5, <1>7, <1>10, <2>1
<1>11. CASE RecoverKeyless \/ RecoverOwner
  <2>1. PICK k : rec' = Recovered(k)
    BY <1>11 DEF RecoverKeyless, RecoverOwner
  <2>2. /\ rec'.fresh = rec.fresh /\ rec'.lo = rec.lo /\ rec'.snap = rec.snap
        /\ rec'.at = rec.at + 1 /\ rec'.pc = "row"
    BY <1>1, <1>6, <2>1 DEF Recovered, NextRow, Recovery
  <2> QED
    BY <1>5, <1>11, <2>2
<1>12. CASE SeekSibling
  <2> DEFINE snap == [rec.snap EXCEPT ![rec.at] = ThisRow]
  <2>1. rec' = [rec EXCEPT !.pc = "sibling", !.snap = snap]
    BY <1>12 DEF SeekSibling
  <2> HIDE DEF snap
  <2>2. /\ rec'.fresh = rec.fresh /\ rec'.lo = rec.lo /\ rec'.at = rec.at
        /\ rec'.items = rec.items /\ rec'.pc = "sibling"
    BY <1>1, <2>1 DEF Recovery
  <2> QED
    BY <1>5, <1>12, <2>2
<1>13. ASSUME NEW pc, rec' = [rec EXCEPT !.pc = pc]
       PROVE  /\ rec'.fresh = rec.fresh /\ rec'.lo = rec.lo /\ rec'.at = rec.at
              /\ rec'.snap = rec.snap /\ rec'.items = rec.items /\ rec'.pc = pc
  BY <1>1, <1>13 DEF Recovery
<1>14. CASE SeekOwner \/ NoOwner \/ OwnedByAnother \/ RecoveryClaims
  <2>1. PICK pc \in {"owner", "claim", "mark", "conflict"} : rec' = [rec EXCEPT !.pc = pc]
    BY <1>14 DEF SeekOwner, NoOwner, OwnedByAnother, RecoveryClaims
  <2> QED
    BY <1>5, <1>13, <2>1
<1>15. CASE RecoveryLosesClaim
  BY <1>5, <1>15 DEF RecoveryLosesClaim, WorkInvariant, ScanningOK
<1> QED
  BY <1>8, <1>9, <1>10, <1>11, <1>12, <1>14, <1>15 DEF RecoveryStep

-----------------------------------------------------------------------------
(* Keyless rows and items *)

LEMMA KeylessConstants ==
  /\ LooseKeys \subseteq RoutedKeyless
  /\ NoKey \in LooseKeys
  /\ "commit" \in Hazards => LooseKeys = {NoKey} \cup LegacyKeys
  BY DEF LooseKeys, RoutedKeyless

LEMMA KeylessInit == Init => KeylessOK
<1> SUFFICES ASSUME Init
             PROVE  KeylessOK
  OBVIOUS
<1>1. queue = <<>> /\ rec.pc = "scan" /\ rec.items = <<>> /\ \A s \in Slots : tasks[s].pc = "free"
  BY DEF Init, Started, Free
<1>2. HeldItems = {}
  BY <1>1 DEF HeldItems
<1>3. ASSUME NEW r \in RowIds
      PROVE  /\ KeyOf[rows[r].event] \in LegacyKeys
             /\ rows[r].sent => KeyOf[rows[r].event] \in SentLegacyKeys
  <2>1. r \in DOMAIN LegacyRows /\ rows[r] = LegacyRow(LegacyRows[r])
    BY DEF Init, RowIds
  <2>2. rows[r].event = LegacyRows[r].event /\ rows[r].sent = LegacyRows[r].sent
    BY <2>1 DEF LegacyRow
  <2> QED
    BY <2>1, <2>2 DEF LegacyKeys, SentLegacyKeys
<1> QED
  BY <1>1, <1>2, <1>3 DEF KeylessOK, RoutedKeyless, Scanning

\* A mark gives its row a key
LEMMA MarkedKey ==
  ASSUME rows \in Seq(Row), NEW x \in RowIds, NEW k \in Keys, NEW handled \in BOOLEAN,
         \E ok \in Commits : rows' = IfCommitted(ok, MarkedDuplicate(x, k, handled), rows),
         rows'[x].key = NoKey
  PROVE  rows' = rows
<1>1. k # NoKey /\ k \in Key
  BY ConstantsAssumption DEF Key
<1> QED
  BY <1>1, MarkMoves

\* Who stamps a keyless row
LEMMA KeylessRowStep ==
  ASSUME Orderly, Inductive, WorkInvariant, KeylessOK, [Next]_vars,
         NEW r \in RowIds', rows'[r].key = NoKey
  PROVE  /\ KeyOf[rows'[r].event] \in {NoKey} \cup LegacyKeys
         /\ rows'[r].sent => KeyOf[rows'[r].event] \in RoutedKeyless
<1>0. rows \in Seq(Row) /\ NoKey \notin Keys
  BY ConstantsAssumption DEF Inductive, TypeOK
<1>1. ASSUME NEW e \in Events, Persist(e) \/ PersistUnseen(e), r \notin RowIds
      PROVE  rows'[r].sent = FALSE /\ rows'[r].event = e /\ KeyOf[e] = NoKey
  <2>1. r = Len(rows) + 1 /\ rows'[r] = StoredRow(e)
    BY <1>1, StoredWebhook
  <2> QED
    BY <2>1, StoredFields
<1>2. CASE r \notin RowIds
  BY <1>1, <1>2, RowsGrow DEF RowIds
<1>3. ASSUME r \in RowIds
      PROVE  rows'[r].event = rows[r].event /\ rows[r].key = NoKey
  BY <1>3, TablesStep, KeptByTables
<1>4. ASSUME r \in RowIds, rows'[r].sent, ~rows[r].sent
      PROVE  KeyOf[rows[r].event] \in LooseKeys
  <2>1. CASE \E s \in Slots : Skips(s) /\ r = tasks[s].item.row
    <3>1. PICK s \in Slots : Skips(s) /\ r = tasks[s].item.row
      BY <2>1
    <3>2. GuardKey(tasks[s].item, r) \in Keys /\ MarkSkipped(s, r)
      BY <3>1, SkippedRow
    <3> QED
      BY <1>0, <1>4, <3>2, MarkedKey DEF MarkSkipped
  <2>2. CASE (MarkAlreadyDispatched \/ MarkMember) /\ r = rec.at
    <3>1. Unit \in Keys
      BY <2>2, ScannedRow DEF MarkAlreadyDispatched, MarkMember, AtRow, InThread
    <3>2. PICK handled \in BOOLEAN : \E ok \in Commits :
             rows' = IfCommitted(ok, MarkedDuplicate(r, Unit, handled), rows)
      BY <2>2 DEF MarkAlreadyDispatched, MarkMember, Unit
    <3> QED
      BY <1>0, <1>4, <3>1, <3>2, MarkedKey
  <2>3. CASE \E s \in Slots : Settles(s, r)
    <3>1. PICK s \in Slots : Settles(s, r)
      BY <2>3
    <3>2. tasks[s].pc # "free"
      BY <3>1 DEF Settles, TaskEnds, HermesAnswers, HermesFails, RecordRaises, Answered
    <3>3. tasks[s].item.key = NoKey /\ r = tasks[s].item.row
      BY <1>0, <1>3, <1>4, <3>1, <3>2, HeldByTask DEF Settles
    <3> QED
      BY <3>2, <3>3, HeldByTask DEF KeylessOK, Loose
  <2> QED
    BY <1>4, <2>1, <2>2, <2>3, RowMoves
<1>5. CASE r \in RowIds
  BY <1>3, <1>4, <1>5, KeylessConstants DEF KeylessOK
<1> QED
  BY <1>2, <1>5

LEMMA LooseStep ==
  ASSUME Orderly, Inductive, WorkInvariant, KeylessOK, [Next]_vars, NEW item \in HeldItems'
  PROVE  Loose(item)'
<1>1. \A r \in RowIds : rows'[r].event = rows[r].event
  BY TablesStep, KeptByTables
<1>2. CASE item \in HeldItems
  BY <1>1, <1>2 DEF KeylessOK, Loose, WorkInvariant, ItemsStored
<1>3. CASE Submit /\ item = SubmittedItem
  <2>1. /\ handler.row \in RowIds /\ item.key = rows[handler.row].key
        /\ item.row = handler.row
    BY <1>3, HandledRow DEF Submit, SubmittedItem
  <2>2. rows[handler.row].key = KeyOf[rows[handler.row].event]
    BY <1>3 DEF Submit, Inductive, HandlerOK
  <2> QED
    BY <1>1, <2>1, <2>2, KeylessConstants DEF Loose
<1>4. CASE RecoverKeyless /\ item = RecoveredItem(NoKey)
  <2>1. rec.pc = "row" /\ rec.at \in RowIds /\ ThisRow.key = NoKey
    BY <1>4, ScannedRow DEF RecoverKeyless, AtRow, InThread
  <2>2. rec.at > rec.lo
    <3>1. rec.lo < rec.at /\ rec.lo \in Nat /\ rec.at \in Nat
      BY <2>1 DEF WorkInvariant, ScanningOK, Scanning, Inductive, TypeOK, Recovery
    <3> QED
      BY <3>1
  <2>3. KeyOf[rows[rec.at].event] \in LooseKeys
    BY <2>1, <2>2 DEF KeylessOK, Scanning, ThisRow
  <2> QED
    BY <1>1, <1>4, <2>1, <2>3 DEF Loose, RecoveredItem
<1>5. CASE RecoverOwner /\ item = RecoveredItem(Unit)
  <2>1. Unit \in Keys /\ item.key = Unit
    BY <1>5, ScannedRow DEF RecoverOwner, AtRow, InThread, RecoveredItem
  <2> QED
    BY <2>1, ConstantsAssumption DEF Loose
<1> QED
  BY <1>2, <1>3, <1>4, <1>5, ItemMoves

\* What the scan has read of a keyless row
LEMMA KeylessScanStep ==
  ASSUME Orderly, Inductive, WorkInvariant, KeylessOK, [Next]_vars
  PROVE  /\ rec'.pc = "backfill" => rec'.snap = rows'
         /\ Scanning' /\ rec'.pc # "backfill" =>
               \A r \in RowIds' :
                  r > rec'.lo /\ (rows'[r].key = NoKey \/ (~rec'.fresh /\ rec'.snap[r].key = NoKey))
                     => KeyOf[rows'[r].event] \in LooseKeys
<1>0. /\ rec \in Recovery /\ rows \in Seq(Row) /\ rec.lo \in Nat
      /\ \A r \in RowIds : /\ rows'[r].event = rows[r].event
                           /\ rows'[r].key = NoKey => rows[r].key = NoKey
  BY TablesStep, KeptByTables DEF Inductive, TypeOK, Recovery
<1>1. CASE ~Scanning'
  BY <1>1 DEF Scanning
<1>2. CASE Ticks
  BY <1>2 DEF Ticks, memory, KeylessOK, Scanning, RowIds
<1>3. CASE ScanWindow
  <2>1. PICK lo : rec' = [rec EXCEPT !.pc = "backfill", !.lo = lo, !.at = lo,
                                     !.top = Len(rows), !.snap = rows]
    BY <1>3 DEF ScanWindow
  <2>2. rec'.pc = "backfill" /\ rec'.snap = rows /\ rows' = rows
    BY <1>0, <1>3, <2>1 DEF ScanWindow, database, Recovery
  <2> QED
    BY <2>2
<1> SUFFICES ASSUME Scanning', ~Ticks, ~ScanWindow, NEW r \in RowIds', r > rec'.lo,
                    rows'[r].key = NoKey \/ (~rec'.fresh /\ rec'.snap[r].key = NoKey)
             PROVE  KeyOf[rows'[r].event] \in LooseKeys
  BY <1>1, <1>2, <1>3, ScanGoesOn
<1>4. /\ Scanning /\ rec'.lo = rec.lo
      /\ rec'.fresh = rec.fresh \/ rec'.fresh = TRUE \/ BackfillLegacyKeys
      /\ rec'.snap = rec.snap \/ SeekSibling
  BY ScanGoesOn
<1>5. r \in RowIds
  BY <1>4, ScanKeeps DEF Scanning
<1>6. CASE rec.pc # "backfill"
  <2>1. ~BackfillLegacyKeys
    BY <1>6 DEF BackfillLegacyKeys, InThread
  <2>2. rec'.snap[r].key = NoKey => rec.snap[r].key = NoKey
    <3>1. CASE SeekSibling
      <4>1. /\ rec'.snap = [rec.snap EXCEPT ![rec.at] = ThisRow]
            /\ ThisRow.key # NoKey /\ AtRow
        BY <3>1, SoughtType DEF SeekSibling
      <4>2. /\ rec'.snap[rec.at] = ThisRow
            /\ \A q \in 1 .. Len(rec.snap) : q # rec.at => rec'.snap[q] = rec.snap[q]
        BY <4>1, SoughtType
      <4>3. r \in 1 .. Len(rec.snap)
        BY <1>0, <1>4, <1>5, RowIdsAreIndices DEF Inductive, RecoveryOK, Scanning, WorkInvariant, ScanningOK
      <4> QED
        BY <4>1, <4>2, <4>3
    <3> QED
      BY <1>4, <3>1
  <2>3. rows[r].key = NoKey \/ (~rec.fresh /\ rec.snap[r].key = NoKey)
    BY <1>0, <1>4, <1>5, <2>1, <2>2
  <2> QED
    BY <1>0, <1>4, <1>5, <1>6, <2>3 DEF KeylessOK
<1>7. CASE rec.pc = "backfill"
  <2>1. BackfillLegacyKeys /\ rec.snap = rows
    <3>1. RecoveryStep /\ rec'.pc # "backfill" /\ ~ScanFails
      <4>1. ~ScanFails
        BY DEF ScanFails, Started, Scanning
      <4> QED
        BY <4>1, ScanGoesOn
    <3> QED
      BY <1>7, <3>1
         DEF KeylessOK, RecoveryStep, ScanWindow, BackfillLegacyKeys, SkipRow, RecoverKeyless,
             SeekSibling, MarkAlreadyDispatched, SkipDuplicate, SeekOwner, NoOwner,
             RecoveryClaims, RecoveryLosesClaim, SkipDispatchedUnit, OwnedByAnother,
             MarkMember, RecoverOwner, ScanDone, ScanFails, RequeueLostWork, InThread, AtRow
  <2>2. ~SeekSibling
    BY <1>7 DEF SeekSibling, AtRow, InThread
  <2>3. rows[r].key = NoKey
    BY <1>0, <1>4, <1>5, <2>1, <2>2
  <2>4. CASE "commit" \in Hazards
    BY <1>0, <1>5, <2>3, <2>4, KeylessConstants DEF KeylessOK
  <2>5. CASE "commit" \notin Hazards
    <3> DEFINE changed == \E q \in rec.lo + 1 .. rec.top :
                             rec.snap[q].key = NoKey /\ KeyOf[rec.snap[q].event] # NoKey
    <3>1. r \in rec.lo + 1 .. rec.top
      BY <1>0, <1>4, <1>5, RowIdsAreIndices DEF WorkInvariant, ScanningOK
    <3>2. /\ rec' = [NextRow EXCEPT !.fresh = changed]
          /\ rows' = IfCommitted(changed, Backfilled(rec.lo, rec.top), rows)
      BY <2>1, <2>5 DEF BackfillLegacyKeys, Commits
    <3>3. CASE ~changed
      BY <1>0, <1>5, <2>1, <2>3, <3>1, <3>3, KeylessConstants
    <3>4. CASE changed
      <4>1. rec'.fresh
        BY <1>0, <3>2, <3>4, NextRowType DEF NextRow, Recovery
      <4>2. rows'[r] = [rows[r] EXCEPT !.key = KeyOf[rows[r].event]]
        BY <1>5, <2>3, <3>1, <3>2, <3>4 DEF Backfilled, IfCommitted
      <4>3. rows'[r].key = KeyOf[rows[r].event]
        BY <1>0, <1>5, <4>2, RowIdsAreIndices DEF Row
      <4> QED
        BY <1>0, <1>5, <4>1, <4>3, KeylessConstants
    <3> QED
      BY <3>3, <3>4
  <2> QED
    BY <2>4, <2>5
<1> QED
  BY <1>6, <1>7

LEMMA KeylessStep ==
  ASSUME Orderly, Inductive, WorkInvariant, KeylessOK, [Next]_vars
  PROVE  KeylessOK'
<1>1. \A r \in RowIds' : rows'[r].key = NoKey =>
         /\ KeyOf[rows'[r].event] \in {NoKey} \cup LegacyKeys
         /\ rows'[r].sent => KeyOf[rows'[r].event] \in RoutedKeyless
  BY KeylessRowStep
<1>2. \A item \in HeldItems' : Loose(item)'
  BY LooseStep
<1> QED
  BY <1>1, <1>2, KeylessScanStep DEF KeylessOK

-----------------------------------------------------------------------------
(* A pending claim can be recovered *)

LEMMA OutcomeStays ==
  ASSUME Inductive, [Next]_vars, NEW k \in Keys, groups[k].status \in {"dispatched", "failed"}
  PROVE  groups'[k].status \in {"dispatched", "failed"}
<1>1. groups[k] \in Group
  BY DEF Inductive, TypeOK
<1> QED
  BY <1>1, GroupMoves DEF ClaimFree, Group

\* A row of which the event has a key was not sent keyless
LEMMA NoSentKeyless ==
  ASSUME RoutedKeyless = {NoKey}, Inductive, KeylessOK, NEW k \in Keys
  PROVE  \A r : ~LegacyDispatchedSibling(k, r)
  BY ConstantsAssumption DEF KeylessOK, LegacyDispatchedSibling

\* What a run is told of the siblings of its row
LEMMA SkipsSettled ==
  ASSUME RoutedKeyless = {NoKey}, Inductive, WorkInvariant, KeylessOK, SentIsSettled,
         NEW s \in Slots, Skips(s)
  PROVE  LET k == KeyOf[rows[tasks[s].item.row].event]
         IN  k \in Keys /\ groups[k].status \in {"dispatched", "failed"}
<1> DEFINE k == KeyOf[rows[tasks[s].item.row].event]
<1>1. k \in Keys /\ DispatchedSibling(k, tasks[s].item.row)
  BY SkippedRow, NoSentKeyless
<1> QED
  BY <1>1, ConstantsAssumption DEF DispatchedSibling, SentIsSettled

\* An item without a key is an item of an event without a key
LEMMA KeylessItem ==
  ASSUME RoutedKeyless = {NoKey}, Inductive, WorkInvariant, KeylessOK,
         NEW s \in Slots, tasks[s].pc # "free", tasks[s].item.key = NoKey
  PROVE  KeyOf[rows[tasks[s].item.row].event] = NoKey
  BY HeldByTask, KeylessConstants DEF KeylessOK, Loose

LEMMA SettlesRuns ==
  ASSUME NEW s \in Slots, NEW r, Settles(s, r)
  PROVE  tasks[s].pc = "calling"
  BY DEF Settles, TaskEnds, HermesAnswers, HermesFails, RecordRaises, Answered

LEMMA SentIsSettledStep ==
  ASSUME Orderly, RoutedKeyless = {NoKey}, Inductive, WorkInvariant, KeylessOK, SentIsSettled,
         [Next]_vars
  PROVE  SentIsSettled'
<1> SUFFICES ASSUME NEW r \in RowIds', rows'[r].sent, rows'[r].key # NoKey
             PROVE  groups'[rows'[r].key].status \in {"dispatched", "failed"}
  BY DEF SentIsSettled
<1>0. rows \in Seq(Row) /\ NoKey \notin Keys
  BY ConstantsAssumption DEF Inductive, TypeOK
<1>1. ASSUME NEW e \in Events, Persist(e) \/ PersistUnseen(e), r \notin RowIds
      PROVE  FALSE
  <2>1. r = Len(rows) + 1 /\ rows'[r] = StoredRow(e)
    BY <1>1, StoredWebhook
  <2> QED
    BY <2>1, StoredFields
<1>2. r \in RowIds
  BY <1>1, RowsGrow DEF RowIds
<1>3. /\ rows'[r].event = rows[r].event /\ rows'[r].key = KeyOf[rows[r].event]
      /\ rows[r].key # NoKey => rows'[r].key = rows[r].key
      /\ rows'[r].key \in Keys
  <2>1. rows'[r] \in Row /\ rows'[r].event = rows[r].event
    BY <1>2, TypeStep, TablesStep, KeptByTables, RowIdsAreIndices DEF TypeOK, RowIds
  <2> QED
    BY <1>2, <2>1, RowsStep, TablesStep, KeptByTables DEF RowsOK, Row, Key
<1>4. CASE rows[r].sent
  BY <1>2, <1>3, <1>4, OutcomeStays DEF SentIsSettled, KeylessOK
<1>5. CASE ~rows[r].sent
  <2>1. ASSUME NEW s \in Slots, Skips(s), r = tasks[s].item.row
        PROVE  groups[rows'[r].key].status \in {"dispatched", "failed"}
    BY <1>3, <2>1, SkipsSettled
  <2>2. ASSUME NEW s \in Slots, Settles(s, r)
        PROVE  groups'[rows'[r].key].status \in {"dispatched", "failed"}
    <3>1. tasks[s].pc # "free"
      BY <2>2, SettlesRuns
    <3>2. tasks[s].item.key # NoKey
      BY <1>3, <2>2, <3>1, KeylessItem DEF Settles
    <3> QED
      BY <1>3, <2>2, <3>2 DEF Settles
  <2>3. CASE MarkAlreadyDispatched /\ r = rec.at
    <3>1. Unit \in Keys /\ Unit = rows[r].key /\ DispatchedSibling(Unit, r)
      BY <2>3, ScannedRow DEF MarkAlreadyDispatched, AtRow, InThread, Unit
    <3>2. groups[Unit].status \in {"dispatched", "failed"}
      BY <1>0, <3>1 DEF DispatchedSibling, SentIsSettled
    <3> QED
      BY <1>0, <1>3, <3>1, <3>2, OutcomeStays
  <2>4. CASE MarkMember /\ r = rec.at
    <3>1. Unit \in Key /\ \E ok \in Commits :
             rows' = IfCommitted(ok, MarkedDuplicate(r, Unit, FALSE), rows)
      BY <2>4, ScannedRow DEF MarkMember, AtRow, InThread, Key
    <3> QED
      BY <1>0, <1>2, <1>5, <3>1, MarkMoves
  <2> QED
    BY <1>2, <1>3, <1>5, <2>1, <2>2, <2>3, <2>4, RowMoves, OutcomeStays
<1> QED
  BY <1>4, <1>5

LEMMA PendingStep ==
  ASSUME Orderly, RoutedKeyless = {NoKey}, Inductive, WorkInvariant, KeylessOK, SentIsSettled,
         PendingRecoverable, [Next]_vars
  PROVE  PendingRecoverable'
<1> SUFFICES ASSUME NEW k \in Keys, groups'[k].status = "pending"
             PROVE  /\ rows'[groups'[k].leadRow].status = "none"
                    /\ ~rows'[groups'[k].leadRow].sent
  BY DEF PendingRecoverable
<1>0. rows \in Seq(Row) /\ k # NoKey /\ groups[k] \in Group
  BY ConstantsAssumption DEF Inductive, TypeOK
<1>1. CASE /\ Claim \/ ClaimUnseen
           /\ groups'[k] = [status |-> "pending", leadRow |-> handler.row]
  BY <1>1 DEF Claim, ClaimUnseen, WorkInvariant, HandlingOK, Undecided
<1>2. CASE /\ RecoveryClaims
           /\ groups'[k] = [status |-> "pending", leadRow |-> rec.at]
  BY <1>2 DEF RecoveryClaims, InThread, WorkInvariant, ScanningOK, Scanning
<1>3. ASSUME groups'[k] = groups[k]
      PROVE  /\ rows'[groups'[k].leadRow].status = "none"
             /\ ~rows'[groups'[k].leadRow].sent
  <2> DEFINE lead == groups[k].leadRow
  <2>1. /\ lead \in RowIds /\ rows[lead].key = k /\ KeyOf[rows[lead].event] = k
        /\ rows[lead].status = "none" /\ ~rows[lead].sent
    BY <1>0, <1>3 DEF PendingRecoverable, WorkInvariant, LeadsOK, Inductive, RowsOK
  <2>2. ~(RecordDuplicateMember /\ lead = handler.row)
    BY <1>3 DEF RecordDuplicateMember, WorkInvariant, HandlingOK
  <2>3. ASSUME NEW s \in Slots, Skips(s), lead = tasks[s].item.row
        PROVE  FALSE
    BY <1>3, <2>1, <2>3, SkipsSettled
  <2>4. ASSUME NEW s \in Slots, Settles(s, lead)
        PROVE  FALSE
    <3>1. tasks[s].pc # "free"
      BY <2>4, SettlesRuns
    <3>2. tasks[s].item.key # NoKey
      BY <1>0, <2>1, <2>4, <3>1, KeylessItem DEF Settles
    <3> QED
      BY <1>3, <2>1, <2>4, <3>2 DEF Settles
  <2>5. ~(MarkAlreadyDispatched /\ lead = rec.at)
    <3>1. ASSUME MarkAlreadyDispatched, lead = rec.at
          PROVE  Unit = k /\ DispatchedSibling(k, lead)
      BY <2>1, <3>1, ScannedRow DEF MarkAlreadyDispatched, AtRow, InThread, Unit
    <3> QED
      BY <1>0, <1>3, <3>1 DEF DispatchedSibling, SentIsSettled
  <2>6. ~(MarkMember /\ lead = rec.at)
    <3>1. ASSUME MarkMember, lead = rec.at
          PROVE  Unit = k /\ Owner.leadRow # rec.at
      BY <2>1, <3>1, ScannedRow
         DEF MarkMember, AtRow, InThread, WorkInvariant, ScanningOK, Scanning
    <3> QED
      BY <3>1 DEF Owner
  <2> QED
    BY <1>3, <2>1, <2>2, <2>3, <2>4, <2>5, <2>6, RowMoves
<1>4. CASE \/ groups'[k] = [groups[k] EXCEPT !.status = "dispatched"]
           \/ groups'[k] = [groups[k] EXCEPT !.status = "failed"]
  BY <1>0, <1>4 DEF Group
<1> QED
  BY <1>1, <1>2, <1>3, <1>4, GroupMoves

LEMMA PendingInit == Init => SentIsSettled /\ PendingRecoverable
<1> SUFFICES ASSUME Init
             PROVE  SentIsSettled /\ PendingRecoverable
  OBVIOUS
<1>1. \A r \in RowIds : rows[r].key = NoKey
  BY DEF Init, RowIds, LegacyRow
<1>2. \A k \in Keys : groups[k].status = "absent"
  BY DEF Init
<1> QED
  BY <1>1, <1>2 DEF SentIsSettled, PendingRecoverable

LEMMA PendingInvariance ==
  ASSUME Orderly, RoutedKeyless = {NoKey}
  PROVE  Spec => [](SentIsSettled /\ PendingRecoverable)
<1>1. Init => KeylessOK /\ SentIsSettled /\ PendingRecoverable
  BY KeylessInit, PendingInit
<1>2. Inductive /\ WorkInvariant /\ KeylessOK /\ SentIsSettled /\ PendingRecoverable
        /\ [Next]_vars
      => (KeylessOK /\ SentIsSettled /\ PendingRecoverable)'
  BY KeylessStep, SentIsSettledStep, PendingStep
<1> QED
  BY <1>1, <1>2, InductiveInvariance, WorkInvariance, PTL DEF Spec

\* A unit of which a member was sent has an outcome, whoever stamped the member: the
\* dispatch, a skipped run or the scan (record_group_dispatch, _mark_row_duplicate)
THEOREM SentUnitsAreSettled ==
  ASSUME Orderly, RoutedKeyless = {NoKey}
  PROVE  Spec => []SentIsSettled
<1> QED
  BY PendingInvariance, PTL

\* If the process stopped now, the next recovery would find the lead row of every
\* pending claim undecided, and would queue it: no step of a run, a webhook or the
\* scan decides the lead row of a claim without deciding the claim
\* (_mark_row_duplicate, record_group_dispatch, record_group_failure)
THEOREM PendingIsRecoverable ==
  ASSUME Orderly, RoutedKeyless = {NoKey}
  PROVE  Spec => []PendingRecoverable
<1> QED
  BY PendingInvariance, PTL

-----------------------------------------------------------------------------
(* Nothing is forgotten *)

\* Every commit succeeds; items may be dropped, claims fail, scans break off
CommitsHold == Hazards \cap {"overlap", "persist", "commit"} = {}

LEMMA CommitsHoldIsOrderly ==
  ASSUME CommitsHold
  PROVE  Orderly /\ "commit" \notin Hazards /\ Commits = {TRUE}
  BY DEF CommitsHold, Orderly, Commits

\* Nothing else goes wrong but that a webhook fails to claim
OnlyClaims == Hazards \subseteq {"claim"}

LEMMA OnlyClaimsIsOrderly ==
  ASSUME OnlyClaims
  PROVE  /\ Orderly /\ CommitsHold
         /\ "commit" \notin Hazards /\ "read" \notin Hazards
         /\ "scan" \notin Hazards /\ "age" \notin Hazards
         /\ Commits = {TRUE}
  BY DEF OnlyClaims, CommitsHold, Orderly, Commits

\* How the scan ends
LEMMA ScanLeaves ==
  ASSUME Inductive, RecoveryStep, ~Scanning'
  PROVE  ScanFails \/ RequeueLostWork \/ ScanDone
<1>1. rec \in Recovery
  BY DEF Inductive, TypeOK
<1>2. rec'.pc \notin {"backfill", "row", "sibling", "owner", "mark", "claim", "conflict"}
  BY DEF Scanning
<1>3. ASSUME NEW pc \in {"backfill", "owner", "mark", "claim", "conflict"},
             rec' = [rec EXCEPT !.pc = pc]
      PROVE  FALSE
  BY <1>1, <1>2, <1>3 DEF Recovery
<1>4. ASSUME rec' = NextRow \/ \E fresh \in BOOLEAN : rec' = [NextRow EXCEPT !.fresh = fresh]
      PROVE  FALSE
  BY <1>1, <1>2, <1>4, NextRowType
<1>5. ~(RecoverKeyless \/ RecoverOwner)
  <2>1. ASSUME NEW k, rec' = Recovered(k)
        PROVE  rec'.pc = "row"
    BY <1>1, <2>1 DEF Recovered, NextRow, Recovery
  <2> QED
    BY <1>2, <2>1 DEF RecoverKeyless, RecoverOwner
<1>6. ~(ScanWindow \/ SeekSibling)
  <2>1. ASSUME SeekSibling
        PROVE  rec'.pc = "sibling"
    BY <2>1, SoughtType DEF SeekSibling
  <2>2. ASSUME ScanWindow
        PROVE  rec'.pc = "backfill"
    BY <1>1, <2>2 DEF ScanWindow, Recovery
  <2> QED
    BY <1>2, <2>1, <2>2
<1>7. ~(SeekOwner \/ NoOwner \/ OwnedByAnother \/ RecoveryClaims)
  BY <1>3 DEF SeekOwner, NoOwner, OwnedByAnother, RecoveryClaims
<1>8. ~(\/ BackfillLegacyKeys \/ SkipRow \/ SkipDuplicate \/ MarkAlreadyDispatched
         \/ RecoveryLosesClaim \/ SkipDispatchedUnit \/ MarkMember)
  BY <1>4
     DEF BackfillLegacyKeys, SkipRow, SkipDuplicate, MarkAlreadyDispatched,
         RecoveryLosesClaim, SkipDispatchedUnit, MarkMember
<1> QED
  BY <1>5, <1>6, <1>7, <1>8 DEF RecoveryStep

LEMMA WindowStays ==
  ASSUME OnlyClaims, Inductive, WorkInvariant, [Next]_vars
  PROVE  rec'.lo = rec.lo
<1>1. rec \in Recovery
  BY DEF Inductive, TypeOK
<1>2. CASE Scanning' /\ ~Ticks /\ ~ScanWindow
  BY <1>2, ScanGoesOn, OnlyClaimsIsOrderly
<1>3. CASE ScanWindow
  <2>1. rec' = [rec EXCEPT !.pc = "backfill", !.lo = rec.lo, !.at = rec.lo,
                           !.top = Len(rows), !.snap = rows]
    BY <1>3, OnlyClaimsIsOrderly DEF ScanWindow
  <2> QED
    BY <1>1, <2>1 DEF Recovery
<1>4. CASE Restart \/ ScanFails \/ RequeueLostWork
  <2>1. rec' = Started(rec.lo) \/ rec' = [Started(rec.lo) EXCEPT !.pc = "idle"]
    BY <1>4 DEF Restart, ScanFails, RequeueLostWork
  <2> QED
    BY <2>1 DEF Started
<1>5. CASE ScanDone
  BY <1>1, <1>5 DEF ScanDone, Recovery
<1>6. CASE Ticks
  BY <1>6 DEF Ticks, memory
<1>7. CASE rec.pc = "idle"
  BY <1>4, <1>7, RecoveryRests, OnlyClaimsIsOrderly DEF WorkInvariant
<1> QED
  BY <1>2, <1>3, <1>4, <1>5, <1>6, <1>7, ScanIsAlone, ScanLeaves,
     OnlyClaimsIsOrderly
     DEF WorkInvariant

\* No row becomes undecided, except the one a webhook stores
LEMMA UndecidedBefore ==
  ASSUME Orderly, Inductive, WorkInvariant, [Next]_vars,
         NEW r \in RowIds', rows'[r].status = "none", ~rows'[r].sent
  PROVE  \/ r \in RowIds /\ Undecided(r)
         \/ \E e \in Events : Persist(e) /\ handler'.row = r /\ handler'.pc # "idle"
<1>1. CASE r \in RowIds
  BY <1>1, RowMoves
<1>2. ASSUME NEW e \in Events, Persist(e) \/ PersistUnseen(e), r \notin RowIds
      PROVE  Persist(e) /\ handler'.row = r /\ handler'.pc # "idle"
  <2>1. Persist(e)
    BY <1>2 DEF PersistUnseen, Orderly
  <2>2. r = Len(rows) + 1
    BY <1>2, StoredWebhook
  <2> QED
    BY <2>1, <2>2 DEF Persist
<1>3. CASE r \notin RowIds
  BY <1>2, <1>3, RowsGrow DEF RowIds
<1> QED
  BY <1>1, <1>3

\* The row the scan leaves behind is decided, or has an item
LEMMA LeftBehind ==
  ASSUME CommitsHold, Inductive, WorkInvariant, [Next]_vars, ScanMissesNothing,
         Scanning, rec'.at = rec.at + 1, NEW r, r = rec.at, r \in RowIds, rec.lo < r,
         rows'[rec.at].status = "none", ~rows'[rec.at].sent,
         \/ BackfillLegacyKeys \/ SkipRow \/ SkipDuplicate \/ MarkAlreadyDispatched
         \/ SkipDispatchedUnit \/ MarkMember \/ RecoverKeyless \/ RecoverOwner
  PROVE  Recovers(r)'
<1>0. /\ rows \in Seq(Row) /\ rec \in Recovery /\ rec.items \in Seq(Item)
      /\ rec.at \in Nat /\ rec.at >= 1
      /\ rec.snap[rec.at].status = rows[rec.at].status /\ rec.snap[rec.at].sent = rows[rec.at].sent
  <2>1. rows \in Seq(Row) /\ rec \in Recovery
    BY DEF Inductive, TypeOK
  <2>2. rec.items \in Seq(Item) /\ rec.at \in Nat
    BY <2>1 DEF Recovery
  <2>3. rec.at \in 1 .. Len(rows)
    BY <2>1, RowIdsAreIndices
  <2>4. rec.at >= 1
    BY <2>1, <2>2, <2>3, LenProperties
  <2> QED
    BY <2>1, <2>2, <2>4 DEF WorkInvariant, ScanningOK
<1>1. Undecided(rec.at)
  BY RowMoves, CommitsHoldIsOrderly
<1>2. CASE BackfillLegacyKeys
  BY <1>0, <1>2 DEF BackfillLegacyKeys, InThread, WorkInvariant, ScanningOK, ScanMissesNothing
<1>3. CASE SkipRow
  BY <1>0, <1>1, <1>3 DEF SkipRow, ThisRow, Undecided
<1>4. CASE SkipDuplicate
  BY <1>0, <1>1, <1>4 DEF SkipDuplicate, SeenRow, Undecided
<1>5. CASE MarkAlreadyDispatched \/ MarkMember
  <2>1. Unit \in Key
    BY <1>5, ScannedRow DEF MarkAlreadyDispatched, MarkMember, AtRow, InThread, Key
  <2>2. PICK handled \in BOOLEAN : \E ok \in Commits :
           rows' = IfCommitted(ok, MarkedDuplicate(rec.at, Unit, handled), rows)
    BY <1>5 DEF MarkAlreadyDispatched, MarkMember, Unit
  <2> QED
    BY <1>0, <2>1, <2>2, MarkMoves, CommitsHoldIsOrderly
<1>6. CASE SkipDispatchedUnit
  <2>1. /\ Unit \in Keys /\ groups[Unit].status = "dispatched"
        /\ ~rows[rec.at].sent /\ ~DispatchedSibling(Unit, rec.at)
    BY <1>6, ScannedRow
       DEF SkipDispatchedUnit, Owner, AtRow, InThread, WorkInvariant, ScanningOK, Scanning
  <2>2. groups[Unit].leadRow \in RowIds /\ rows[groups[Unit].leadRow].key = Unit
        /\ rows[groups[Unit].leadRow].sent
    BY <2>1 DEF WorkInvariant, LeadsOK
  <2> QED
    BY <2>1, <2>2, ConstantsAssumption DEF DispatchedSibling
<1>7. CASE RecoverKeyless \/ RecoverOwner
  <2>1. PICK k \in Key : rec' = Recovered(k)
    BY <1>7, ScannedRow DEF RecoverKeyless, RecoverOwner, AtRow, InThread, Key
  <2>2. RecoveredItem(k) \in Item /\ rec'.items = Append(rec.items, RecoveredItem(k))
    BY <1>0, <2>1, RecoveredType DEF RecoveredItem
  <2>3. RecoveredItem(k) \in Entries(rec'.items)
    BY <1>0, <2>2, AppendedEntries
  <2>4. PICK i \in DOMAIN rec'.items : rec'.items[i] = RecoveredItem(k)
    BY <2>3 DEF Entries
  <2> QED
    BY <2>4 DEF Recovers, RecoveredItem
<1> QED
  BY <1>2, <1>3, <1>4, <1>5, <1>6, <1>7

\* The items decided so far stay
LEMMA RecoveredStay ==
  ASSUME CommitsHold, Inductive, WorkInvariant, [Next]_vars, Scanning', ~ScanWindow, ~Ticks,
         NEW r, Recovers(r)
  PROVE  Recovers(r)'
<1>1. rec \in Recovery /\ rec.items \in Seq(Item) /\ rows \in Seq(Row)
  BY DEF Inductive, TypeOK, Recovery
<1>2. CASE rec'.items = rec.items
  BY <1>2 DEF Recovers
<1>3. CASE RecoverKeyless \/ RecoverOwner
  <2>1. PICK k \in Key : rec' = Recovered(k) /\ rec.at \in RowIds
    BY <1>3, ScannedRow DEF RecoverKeyless, RecoverOwner, AtRow, InThread, Key
  <2>2. RecoveredItem(k) \in Item /\ rec'.items = Append(rec.items, RecoveredItem(k))
    BY <1>1, <2>1, RecoveredType DEF RecoveredItem
  <2>3. Entries(rec.items) \subseteq Entries(rec'.items)
    BY <1>1, <2>2, AppendedEntries
  <2>4. PICK i \in DOMAIN rec.items : rec.items[i].row = r
    BY DEF Recovers
  <2>5. rec.items[i] \in Entries(rec'.items)
    BY <2>3, <2>4 DEF Entries
  <2> QED
    BY <2>4, <2>5 DEF Entries, Recovers
<1>4. CASE BackfillLegacyKeys
  <2>1. PICK fresh \in BOOLEAN : rec' = [NextRow EXCEPT !.fresh = fresh]
    BY <1>4 DEF BackfillLegacyKeys
  <2> QED
    BY <1>1, <1>2, <2>1, NextRowType
<1>5. CASE SkipRow \/ SkipDuplicate \/ MarkAlreadyDispatched \/ SkipDispatchedUnit \/ MarkMember
  <2>1. rec' = NextRow \/ rec' = [NextRow EXCEPT !.fresh = TRUE]
    BY <1>5 DEF SkipRow, SkipDuplicate, MarkAlreadyDispatched, SkipDispatchedUnit, MarkMember
  <2> QED
    BY <1>1, <1>2, <2>1, NextRowType
<1> QED
  BY <1>2, <1>3, <1>4, <1>5, ScanGoesOn, CommitsHoldIsOrderly

\* A scan starts at its cursor, moved on where old rows age out
LEMMA WindowTaken ==
  ASSUME ScanWindow, rec \in Recovery
  PROVE  rec'.pc = "backfill" /\ rec'.at = rec'.lo
<1>1. PICK lo : rec' = [rec EXCEPT !.pc = "backfill", !.lo = lo, !.at = lo,
                                   !.top = Len(rows), !.snap = rows]
  BY Zenon DEF ScanWindow
<1> QED
  BY <1>1 DEF Recovery

LEMMA ScanCovers ==
  ASSUME CommitsHold, Inductive, WorkInvariant, ScanMissesNothing, [Next]_vars
  PROVE  ScanMissesNothing'
<1> SUFFICES ASSUME NEW r \in RowIds', rows'[r].status = "none", ~rows'[r].sent, rec'.lo < r,
                    (Scanning' /\ r < rec'.at) \/ rec'.pc = "publish"
             PROVE  Recovers(r)'
  BY DEF Undecided, ScanMissesNothing
<1>0. /\ rows \in Seq(Row) /\ rec \in Recovery /\ Orderly
      /\ rec.at \in Nat /\ RowIds = 1 .. Len(rows) /\ Len(rows) \in Nat
  BY RowIdsAreIndices, CommitsHoldIsOrderly DEF Inductive, TypeOK, Recovery
<1>1. CASE Ticks
  BY <1>1 DEF Ticks, memory, ScanMissesNothing, Scanning, Undecided, Recovers, RowIds
<1>2. ASSUME Restart \/ ScanFails \/ RequeueLostWork
      PROVE  FALSE
  <2>1. rec' = Started(rec.lo) \/ rec' = [Started(rec.lo) EXCEPT !.pc = "idle"]
    BY <1>2 DEF Restart, ScanFails, RequeueLostWork
  <2> QED
    BY <2>1 DEF Started, Scanning
<1>3. CASE rec.pc = "idle"
  BY <1>0, <1>2, <1>3, RecoveryRests DEF WorkInvariant, Scanning
<1>4. CASE ScanWindow
  <2>1. rec'.at = rec'.lo /\ rec'.pc = "backfill"
    BY <1>0, <1>4, WindowTaken
  <2>2. r \in Nat
    BY <1>4, RowsGrow, <1>0 DEF ScanWindow, database, RowIds
  <2>3. rec'.lo \in Nat
    BY TypeStep DEF TypeOK, Inductive, Recovery
  <2> QED
    BY <2>1, <2>2, <2>3
<1> SUFFICES ASSUME ~Ticks, ~ScanWindow, rec.pc # "idle"
             PROVE  Recovers(r)'
  BY <1>1, <1>3, <1>4
<1>5. r \in RowIds /\ Undecided(r)
  BY <1>0, ScanKeeps, RowMoves
<1>8. rec.lo < r
  <2>1. CASE Scanning'
    BY <2>1, <1>0, ScanGoesOn
  <2>2. CASE ~Scanning'
    <3>1. ScanDone
      BY <1>0, <1>2, <2>2, ScanIsAlone, ScanLeaves DEF WorkInvariant
    <3> QED
      BY <3>1, <1>0 DEF ScanDone, Recovery
  <2> QED
    BY <2>1, <2>2
<1>6. CASE Scanning'
  <2>1. Scanning /\ (rec'.at = rec.at \/ rec'.at = rec.at + 1)
    BY <1>0, <1>6, ScanGoesOn
  <2>2. r < rec.at \/ r = rec.at
    BY <1>0, <1>5, <1>6, <2>1 DEF Scanning
  <2>3. CASE r < rec.at
    <3>1. Recovers(r)
      BY <1>5, <1>8, <2>1, <2>3 DEF ScanMissesNothing
    <3> QED
      BY <1>6, <3>1, RecoveredStay
  <2>4. CASE r = rec.at
    <3>1. rec'.at = rec.at + 1 /\ rec'.at # rec.at
      BY <1>0, <1>6, <2>1, <2>4 DEF Scanning
    <3>2. \/ BackfillLegacyKeys \/ SkipRow \/ SkipDuplicate \/ MarkAlreadyDispatched
          \/ SkipDispatchedUnit \/ MarkMember \/ RecoverKeyless \/ RecoverOwner
      BY <1>0, <1>6, <3>1, ScanGoesOn, Zenon
    <3> QED
      BY <1>5, <1>8, <2>1, <2>4, <3>1, <3>2, LeftBehind
  <2> QED
    BY <2>2, <2>3, <2>4
<1>7. CASE rec'.pc = "publish"
  <2>1. ~Scanning' /\ RecoveryStep
    BY <1>0, <1>2, <1>7, ScanIsAlone DEF Scanning, WorkInvariant
  <2>2. ScanDone
    BY <1>2, <2>1, ScanLeaves
  <2>3. rec.pc = "row" /\ rec.at > rec.top /\ rec' = [rec EXCEPT !.pc = "publish"]
    BY <2>2 DEF ScanDone, InThread
  <2>4. Recovers(r)
    BY <1>0, <1>5, <1>8, <2>3 DEF ScanMissesNothing, WorkInvariant, ScanningOK, Scanning
  <2>5. rec'.items = rec.items
    BY <1>0, <2>3 DEF Recovery
  <2> QED
    BY <2>4, <2>5 DEF Recovers
<1> QED
  BY <1>6, <1>7

\* What the loop holds
HeldByLoop(r) ==
    \/ \E i \in DOMAIN queue : queue[i].row = r
    \/ \E s \in Slots : tasks[s].pc # "free" /\ tasks[s].item.row = r
    \/ handler.pc # "idle" /\ handler.row = r

LEMMA HeldInEntries ==
  ASSUME NEW r
  PROVE  /\ (\E i \in DOMAIN queue : queue[i].row = r) <=> \E x \in Entries(queue) : x.row = r
         /\ (\E i \in DOMAIN queue' : queue'[i].row = r) <=> \E x \in Entries(queue') : x.row = r
  BY DEF Entries

\* A queued item stays in the queue until a run starts with it
LEMMA QueuedStays ==
  ASSUME OnlyClaims, Inductive, WorkInvariant, [Next]_vars, rec.pc = "idle", ~Restart,
         NEW item \in Entries(queue)
  PROVE  \/ item \in Entries(queue')
         \/ \E s \in Slots : tasks'[s].pc # "free" /\ tasks'[s].item = item
<1>0. queue \in Seq(Item) /\ Orderly /\ tasks \in [Slots -> Task \cup {Free}]
  BY OnlyClaimsIsOrderly DEF Inductive, TypeOK
<1>1. ~RequeueLostWork /\ ~DeferRaises
  BY OnlyClaimsIsOrderly DEF RequeueLostWork, InThread, DeferRaises
<1>2. CASE SubmittedItem \in Item /\ queue' = Append(queue, SubmittedItem)
  BY <1>0, <1>2, AppendedEntries
<1>3. CASE queue # <<>> /\ queue' = Append(Tail(queue), Head(queue))
  BY <1>0, <1>3, RotatedEntries
<1>4. ASSUME NEW s \in Slots, RunSpaceEvent(s), queue # <<>>
      PROVE  \/ item \in Entries(queue')
             \/ tasks'[s].pc # "free" /\ tasks'[s].item = item
  <2>1. queue' = Tail(queue) /\ tasks'[s] = [pc |-> "ready", item |-> Head(queue),
                                             row |-> NoRow, members |-> {}]
    BY <1>0, <1>4 DEF RunSpaceEvent
  <2>2. item = Head(queue) \/ item \in Entries(Tail(queue))
    BY <1>0, <1>4, HeadTailEntries
  <2> QED
    BY <2>1, <2>2
<1> QED
  BY <1>0, <1>1, <1>2, <1>3, <1>4, QueueMoves

\* The run that ends decides its row
LEMMA RunDecides ==
  ASSUME OnlyClaims, Inductive, WorkInvariant, [Next]_vars, ~Restart,
         NEW s \in Slots, tasks[s].pc # "free", tasks'[s] = Free,
         NEW r, r = tasks[s].item.row
  PROVE  r \in RowIds /\ ~(rows'[r].status = "none" /\ ~rows'[r].sent)
<1>0. /\ rows \in Seq(Row) /\ tasks \in [Slots -> Task \cup {Free}] /\ r \in RowIds
      /\ Commits = {TRUE} /\ "read" \notin Hazards /\ rows[r] \in Row
  BY HeldByTask, OnlyClaimsIsOrderly, RowIdsAreIndices DEF Inductive, TypeOK
<1>1. tasks'[s] # tasks[s]
  BY DEF Free
<1>2. CASE Skips(s)
  <2>1. GuardKey(tasks[s].item, r) \in Key /\ MarkSkipped(s, r)
    BY <1>2, SkippedRow DEF Key
  <2> QED
    BY <1>0, <2>1, MarkMoves, OnlyClaimsIsOrderly DEF MarkSkipped
<1>3. ASSUME TaskEnds(s)
      PROVE  /\ tasks[s].pc = "calling" /\ tasks[s].row = r
             /\ r \in tasks[s].members
             /\ r \in ResolveGroupEvents(tasks[s].item.key, tasks[s].row)
  <2>1. tasks[s].pc = "calling"
    BY <1>3 DEF TaskEnds, HermesAnswers, HermesFails, RecordRaises, Answered
  <2>2. tasks[s].row = r /\ r \in tasks[s].members
    BY <2>1 DEF WorkInvariant, RunsOK
  <2>3. tasks[s].item.key # NoKey => rows[r].key = tasks[s].item.key
    BY HeldByTask
  <2> QED
    BY <1>0, <2>1, <2>2, <2>3 DEF ResolveGroupEvents
<1>4. CASE HermesAnswers(s)
  <2>1. rows' = DispatchedRows(tasks[s].members, tasks[s].row, TRUE)
    BY <1>0, <1>4 DEF HermesAnswers
  <2> QED
    BY <1>0, <1>3, <1>4, <2>1, DispatchedTable DEF TaskEnds
<1>5. CASE HermesFails(s)
  <2>1. rows' = FailedRows(ResolveGroupEvents(tasks[s].item.key, tasks[s].row))
    BY <1>0, <1>5 DEF HermesFails, IfCommitted
  <2>2. rows'[r] = [rows[r] EXCEPT !.status = "error"]
    BY <1>0, <1>3, <1>5, <2>1 DEF FailedRows, TaskEnds
  <2> QED
    BY <1>0, <2>2 DEF Row
<1>6. ~RunRaises(s) /\ ~RecordRaises(s)
  BY <1>0 DEF RunRaises, RecordRaises
<1>7. ~DropMissing(s)
  BY <1>0, HeldByTask, RowIdsAreIndices DEF DropMissing, NoRow
<1>8. ASSUME NEW t \in Slots, TaskStarts(t) \/ TaskEnds(t)
      PROVE  t = s /\ ~NoDispatchedSibling(s) /\ ~CallHermes(s)
  <2>1. CASE t # s
    BY <1>0, <1>1, <1>8, <2>1
       DEF TaskStarts, TaskEnds, RunRaises, DropMissing, SkipIfUnitAlreadyDispatched,
           SkipIfLegacyDispatched, MarkSkipped, NoDispatchedSibling, CallHermes,
           HermesAnswers, HermesFails, RecordRaises, Answered, RunEnds
  <2>2. ~NoDispatchedSibling(s) /\ ~CallHermes(s)
    BY <1>0 DEF NoDispatchedSibling, CallHermes, Free
  <2> QED
    BY <2>1, <2>2
<1>9. \E t \in Slots : TaskStarts(t) \/ TaskEnds(t)
  <2>1. ASSUME \/ \E e \in Events : Persist(e) \/ PersistFails(e) \/ PersistUnseen(e)
               \/ HandlerStep \/ CronTick \/ StatusUnavailable \/ Defer \/ DeferRaises
        PROVE  tasks' = tasks
    BY <2>1
       DEF Persist, PersistFails, PersistUnseen, HandlerStep, Claim, ClaimFails,
           ClaimUnseen, Refuse, RecordDuplicateMember, Submit, CronTick, StatusUnavailable, Defer, DeferRaises
  <2>2. ASSUME NEW t \in Slots, RunSpaceEvent(t)
        PROVE  FALSE
    <3>1. tasks[t] = Free /\ tasks' = [tasks EXCEPT ![t] =
             [pc |-> "ready", item |-> Head(queue), row |-> NoRow, members |-> {}]]
      BY <2>2 DEF RunSpaceEvent
    <3>2. t # s
      BY <3>1 DEF Free
    <3> QED
      BY <1>0, <1>1, <3>1, <3>2
  <2>3. ASSUME Ticks
        PROVE  tasks' = tasks
    BY <2>3 DEF Ticks, memory
  <2> QED
    BY <1>1, <2>1, <2>2, <2>3, ClockTicks, RecoveryFrame DEF Next, CronStep
<1> QED
  BY <1>2, <1>4, <1>5, <1>6, <1>7, <1>8, <1>9 DEF TaskStarts, TaskEnds, Skips

\* A webhook is refused once and for all of a process life
LEMMA RefusedStays ==
  ASSUME Inductive, [Next]_vars, ~Restart
  PROVE  refused \subseteq refused'
<1>1. CASE HandlerStep
  BY <1>1
     DEF HandlerStep, Claim, ClaimFails, ClaimUnseen, Refuse, RecordDuplicateMember, Submit,
         history
<1>2. CASE \/ \E e \in Events : Persist(e) \/ PersistFails(e) \/ PersistUnseen(e)
           \/ CronStep
           \/ \E s \in Slots : TaskStarts(s) \/ TaskEnds(s)
  BY <1>2
     DEF Persist, PersistFails, PersistUnseen, CronStep, CronTick, StatusUnavailable, Defer,
         DeferRaises, RunSpaceEvent, TaskStarts, TaskEnds, RunRaises, DropMissing,
         SkipIfUnitAlreadyDispatched, MarkSkipped, NoDispatchedSibling,
         SkipIfLegacyDispatched, CallHermes, HermesAnswers, HermesFails, RecordRaises,
         history
<1>3. CASE RecoveryStep
  BY <1>3, RecoveryFrame DEF history
<1>4. CASE Ticks
  BY <1>4 DEF Ticks, history
<1> QED
  BY <1>1, <1>2, <1>3, <1>4, ClockTicks DEF Next

LEMMA LoopHolds ==
  ASSUME OnlyClaims, Inductive, WorkInvariant, NothingForgotten, [Next]_vars,
         rec.pc = "idle", rec'.pc = "idle",
         NEW r \in RowIds', rows'[r].status = "none", ~rows'[r].sent
  PROVE  r \in refused' \/ HeldByLoop(r)'
<1>0. /\ Orderly /\ queue \in Seq(Item) /\ tasks \in [Slots -> Task \cup {Free}]
      /\ handler \in [pc : {"idle", "claim", "conflict", "enqueue"}, row : Nat]
      /\ rows \in Seq(Row) /\ Commits = {TRUE}
  BY OnlyClaimsIsOrderly DEF Inductive, TypeOK
<1>1. ~Restart
  BY DEF Restart, Started
<1>2. CASE handler'.pc # "idle" /\ handler'.row = r
  BY <1>2 DEF HeldByLoop
<1> SUFFICES ASSUME r \in RowIds, Undecided(r), r \notin refused'
             PROVE  HeldByLoop(r)'
  BY <1>0, <1>2, UndecidedBefore
<1>3. r \notin refused
  BY <1>1, RefusedStays
<1>4. HeldByLoop(r)
  BY <1>3 DEF NothingForgotten, Tracked, HeldByLoop, Undecided
<1>5. CASE \E i \in DOMAIN queue : queue[i].row = r
  <2>1. PICK x \in Entries(queue) : x.row = r
    BY <1>5, HeldInEntries
  <2> QED
    BY <1>1, <2>1, QueuedStays, HeldInEntries DEF HeldByLoop
<1>6. ASSUME NEW s \in Slots, tasks[s].pc # "free", tasks[s].item.row = r
      PROVE  tasks'[s].pc # "free" /\ tasks'[s].item.row = r
  <2>1. tasks'[s] # Free
    BY <1>1, <1>6, RunDecides
  <2>2. CASE tasks'[s] = tasks[s]
    BY <1>6, <2>2
  <2>3. tasks[s] # Free
    BY <1>6 DEF Free
  <2>4. CASE tasks'[s] = [pc |-> "checked", item |-> tasks[s].item,
                          row |-> tasks[s].item.row, members |-> {}]
    BY <1>6, <2>4
  <2>5. CASE tasks'[s] = [pc |-> "calling", item |-> tasks[s].item, row |-> tasks[s].row,
                          members |-> ResolveGroupEvents(tasks[s].item.key, tasks[s].row)]
    BY <1>6, <2>5
  <2> QED
    BY <1>0, <2>1, <2>2, <2>3, <2>4, <2>5, TaskMoves
<1>7. CASE handler.pc # "idle" /\ handler.row = r
  <2>1. CASE handler' = handler
    BY <1>2, <1>7, <2>1
  <2>2. ~ClaimFails /\ ~ClaimUnseen
    BY <1>7 DEF ClaimFails, ClaimUnseen, Refuse
  <2>6. CASE Claim
    <3>1. handler'.pc # "idle" /\ handler'.row = handler.row
      BY <1>0, <2>6 DEF Claim
    <3> QED
      BY <1>2, <1>7, <3>1
  <2>3. ~RecordDuplicateMember
    <3>1. ASSUME RecordDuplicateMember
          PROVE  \E ok \in Commits :
             rows' = IfCommitted(ok, MarkedDuplicate(r, rows[r].key, FALSE), rows)
      BY <1>7, <3>1 DEF RecordDuplicateMember
    <3>2. rows[r].key \in Key
      BY <1>0, RowIdsAreIndices DEF Row
    <3> QED
      BY <1>0, <3>1, <3>2, MarkMoves, OnlyClaimsIsOrderly
  <2>4. CASE Submit
    <3>1. SubmittedItem \in Item /\ SubmittedItem.row = r
      BY <1>0, <1>7, <2>4, HandledRow, StoredItem DEF SubmittedItem
    <3>2. queue' = Append(queue, SubmittedItem)
      BY <2>4 DEF Submit, SubmittedItem
    <3>3. SubmittedItem \in Entries(queue')
      BY <1>0, <3>1, <3>2, AppendedEntries
    <3> QED
      BY <3>1, <3>3, HeldInEntries DEF HeldByLoop
  <2>5. CASE Ticks
    BY <2>1, <2>5 DEF Ticks, memory
  <2> QED
    BY <1>0, <1>1, <1>7, <2>2, <2>3, <2>4, <2>5, <2>6, HandlerIsAlone
       DEF HandlerStep, WorkInvariant
<1> QED
  BY <1>4, <1>5, <1>6, <1>7 DEF HeldByLoop

\* Every scan starts with the first row
FromTheStart == rec.lo = 0

LEMMA HeldStep ==
  ASSUME OnlyClaims, Inductive, WorkInvariant, ScanMissesNothing, FromTheStart,
         NothingForgotten, [Next]_vars
  PROVE  FromTheStart' /\ NothingForgotten'
<1>1. rec'.lo = 0
  BY WindowStays DEF FromTheStart
<1>2. ASSUME rec'.pc = "idle", NEW r \in RowIds', rows'[r].status = "none", ~rows'[r].sent
      PROVE  r \in refused' \/ Tracked(r)'
  <2>1. CASE rec.pc = "idle"
    BY <1>2, <2>1, LoopHolds DEF HeldByLoop, Tracked
  <2>2. CASE rec.pc # "idle"
    <3>0. rec \in Recovery /\ Orderly /\ ~ScanFails /\ rec.items \in Seq(Item)
      BY OnlyClaimsIsOrderly DEF Inductive, TypeOK, ScanFails, Recovery
    <3>1. ~Scanning' /\ RecoveryStep
      BY <1>2, <2>2, <3>0, ScanIsAlone
         DEF Scanning, Ticks, memory, Restart, Started, WorkInvariant
    <3>2. ~ScanDone
      BY <1>2, <3>0 DEF ScanDone, Recovery
    <3>3. RequeueLostWork /\ rec.pc = "publish"
      BY <3>0, <3>1, <3>2, ScanLeaves DEF RequeueLostWork, InThread
    <3>4. queue' = rec.items
      BY <2>2, <3>0, <3>3, NothingAhead DEF RequeueLostWork, WorkInvariant, RecoveryAlone
    <3>5. r \in RowIds /\ Undecided(r)
      BY <1>2, <2>2, <3>0, ScanKeeps, RowMoves DEF Undecided
    <3>6. rec.lo < r
      <4>1. rows \in Seq(Row)
        BY DEF Inductive, TypeOK
      <4>2. r \in 1 .. Len(rows) /\ Len(rows) \in Nat
        BY <3>5, <4>1, RowIdsAreIndices, LenProperties
      <4> QED
        BY <4>2 DEF FromTheStart
    <3>7. Recovers(r)
      BY <3>3, <3>5, <3>6 DEF ScanMissesNothing
    <3> QED
      BY <3>4, <3>7 DEF Recovers, Tracked
  <2> QED
    BY <2>1, <2>2
<1>3. ASSUME rec'.pc # "idle", NEW r
      PROVE  Tracked(r)'
  BY <1>3 DEF Tracked
<1>4. NothingForgotten'
  BY <1>2, <1>3 DEF NothingForgotten
<1> QED
  BY <1>1, <1>4 DEF FromTheStart

LEMMA HeldInit == Init => ScanMissesNothing /\ FromTheStart /\ NothingForgotten
  BY DEF Init, Started, ScanMissesNothing, FromTheStart, NothingForgotten, Tracked, Scanning

\* A scan that gets through hands over an item of every undecided row of its window,
\* whatever items were dropped, claims failed - before or after their commit - and scans
\* broke off before, in this process or an earlier one (pending_dispatch_items)
THEOREM NextStartHeals ==
  ASSUME CommitsHold
  PROVE  Spec => []ScanMissesNothing
<1>1. Inductive /\ WorkInvariant /\ ScanMissesNothing /\ [Next]_vars => ScanMissesNothing'
  BY ScanCovers
<1>2. Spec => []WorkInvariant
  BY WorkInvariance, CommitsHoldIsOrderly
<1> QED
  BY <1>1, <1>2, HeldInit, InductiveInvariance, PTL DEF Spec

\* No stored event falls between the claim, the queue, the run and the recovery: a row
\* without an outcome is held by the process, but for one whose webhook this process life
\* answered with an error, be it before or after its claim was committed; a restart takes
\* those up too (space_events, claim_dispatch_group, cron, pending_dispatch_items)
THEOREM NothingIsForgotten ==
  ASSUME Hazards \subseteq {"claim"}
  PROVE  Spec => []NothingForgotten
<1>1. OnlyClaims
  BY DEF OnlyClaims
<1>2. Inductive /\ WorkInvariant /\ ScanMissesNothing /\ FromTheStart /\ NothingForgotten /\ [Next]_vars
        => FromTheStart' /\ NothingForgotten'
  BY <1>1, HeldStep
<1>3. Spec => []WorkInvariant
  BY <1>1, WorkInvariance, OnlyClaimsIsOrderly
<1>4. Spec => []ScanMissesNothing
  BY <1>1, NextStartHeals, OnlyClaimsIsOrderly
<1> QED
  BY <1>2, <1>3, <1>4, HeldInit, InductiveInvariance, PTL DEF Spec

\* "A claimed group can never be swallowed by its own claim": where webhooks wait for the
\* recovery scan, the lead row of a pending claim has an item in the process, or the
\* process has told Rails, with an error after the commit of the claim, that it has not
\* (claim_dispatch_group, pending_dispatch_items)
THEOREM ClaimsAreNotSwallowed ==
  ASSUME Hazards \subseteq {"claim"}, RoutedKeyless = {NoKey}
  PROVE  Spec => []ClaimNotSwallowed
<1>1. OnlyClaims /\ Orderly /\ CommitsHold
  BY OnlyClaimsIsOrderly DEF OnlyClaims
<1>2. WorkInvariant /\ NothingForgotten /\ PendingRecoverable => ClaimNotSwallowed
  BY DEF WorkInvariant, LeadsOK, NothingForgotten, PendingRecoverable, ClaimNotSwallowed
<1>3. Spec => []WorkInvariant
  BY <1>1, WorkInvariance
<1>4. Spec => []PendingRecoverable
  BY <1>1, PendingIsRecoverable
<1> QED
  BY <1>2, <1>3, <1>4, NothingIsForgotten, PTL

=============================================================================
