------------------------- MODULE SpaceEventsProofs -------------------------
(***************************************************************************)
(* Proofs about SpaceEvents, for every value of its constants: any events, *)
(* keys and legacy rows, detached or inline dispatch, any of the hazards.  *)
(*                                                                         *)
(* Lemmas on the tables come first (what a transaction returns), then the  *)
(* inductive invariant, one step per action, then the theorems.            *)
(***************************************************************************)
EXTENDS SpaceEvents, SequenceTheorems, FiniteSetTheorems,
        WellFoundedInduction, TLAPS

-----------------------------------------------------------------------------
(* The tables *)

LEMMA RowIdsAreIndices ==
  ASSUME rows \in Seq(Row)
  PROVE  /\ Len(rows) \in Nat
         /\ RowIds = 1 .. Len(rows)
         /\ \A r \in RowIds : rows[r] \in Row
  BY LenProperties DEF RowIds

\* A table rewritten row by row is a table with the same ids
LEMMA RewrittenRows ==
  ASSUME rows \in Seq(Row), NEW f \in [RowIds -> Row]
  PROVE  f \in Seq(Row) /\ DOMAIN f = RowIds /\ Len(f) = Len(rows)
<1>1. RowIds = 1 .. Len(rows) /\ Len(rows) \in Nat
  BY RowIdsAreIndices
<1>2. f \in Seq(Row)
  BY <1>1, SeqDef
<1>3. DOMAIN f = 1 .. Len(f) /\ Len(f) \in Nat
  BY <1>2, LenProperties
<1> QED
  BY <1>1, <1>2, <1>3

LEMMA LoadedRow ==
  ASSUME rows \in Seq(Row), NEW item
  PROVE  /\ LoadSpaceEvent(item) \in RowIds \cup {NoRow}
         /\ item.row \in RowIds => LoadSpaceEvent(item) = item.row
<1>1. RowIds \subseteq Nat
  BY RowIdsAreIndices
<1> DEFINE S == RowsOfEvent(item.event)
           R == {ss \in Nat \X Nat : ss[1] < ss[2]}
<1>2. CASE S # {}
  <2>1. S \subseteq Nat /\ S \subseteq RowIds
    BY <1>1 DEF RowsOfEvent
  <2>2. IsWellFoundedOn(R, Nat)
    BY NatLessThanWellFounded DEF OpToRel
  <2>3. PICK q \in S : \A p \in S : <<p, q>> \notin R
    <3> HIDE DEF S, R
    <3> QED
      BY <1>2, <2>1, <2>2, WFMin
  <2>4. \A p \in S : q <= p
    <3> SUFFICES ASSUME NEW p \in S PROVE q <= p
      OBVIOUS
    <3>1. p \in Nat /\ q \in Nat
      BY <2>1
    <3>2. ~(p < q)
      BY <2>3, <3>1
    <3> QED
      BY <3>1, <3>2
  <2>5. (CHOOSE m \in S : \A p \in S : m <= p) \in S
    BY <2>4
  <2> QED
    BY <1>2, <2>1, <2>5 DEF LoadSpaceEvent
<1>3. CASE S = {}
  BY <1>3 DEF LoadSpaceEvent
<1> QED
  BY <1>2, <1>3

-----------------------------------------------------------------------------
(* What no transaction undoes: rows are never deleted, a row keeps its     *)
(* event and its key, and once sent or carried it stays so.                *)

RowExtends(new, old) ==
    /\ new.event = old.event
    /\ new.early = old.early
    /\ old.key # NoKey => new.key = old.key
    /\ new.key \in {old.key, KeyOf[old.event]}
    /\ old.sent => new.sent
    /\ old.carried => new.carried

Extends(new, old) ==
    /\ new \in Seq(Row)
    /\ Len(new) >= Len(old)
    /\ \A r \in DOMAIN old : RowExtends(new[r], old[r])

LEMMA ExtendsItself ==
  ASSUME rows \in Seq(Row)
  PROVE  Extends(rows, rows)
<1>1. \A r \in RowIds : RowExtends(rows[r], rows[r])
  BY DEF RowExtends
<1> QED
  BY <1>1, RowIdsAreIndices DEF Extends, RowIds

\* A table rewritten row by row, each row extended
LEMMA RowwiseExtends ==
  ASSUME rows \in Seq(Row), NEW f \in [RowIds -> Row],
         \A r \in RowIds : RowExtends(f[r], rows[r])
  PROVE  Extends(f, rows) /\ DOMAIN f = RowIds /\ Len(f) = Len(rows)
<1>1. f \in Seq(Row) /\ DOMAIN f = RowIds /\ Len(f) = Len(rows)
  BY RewrittenRows
<1> QED
  BY <1>1, RowIdsAreIndices DEF Extends, RowIds

\* One row marked as duplicate
LEMMA MarkedRows ==
  ASSUME rows \in Seq(Row), NEW r \in RowIds, NEW k \in Key, NEW handled \in BOOLEAN,
         rows[r].key = NoKey => k \in {NoKey, KeyOf[rows[r].event]}
  PROVE  LET new == MarkedDuplicate(r, k, handled)
         IN  /\ Extends(new, rows)
             /\ DOMAIN new = RowIds
             /\ \A q \in RowIds \ {r} : new[q] = rows[q]
             /\ new[r].sent => rows[r].sent \/ handled
<1> DEFINE new == MarkedDuplicate(r, k, handled)
           row == MarkedRow(r, k, handled)
<1>1. rows[r] \in Row /\ r \in 1 .. Len(rows)
  BY RowIdsAreIndices
<1>2. row \in Row
  BY <1>1 DEF Row, Key, MarkedRow
<1>3. new = [rows EXCEPT ![r] = row]
  BY DEF MarkedDuplicate
<1>4. new \in [RowIds -> Row]
  BY <1>2, <1>3, RowIdsAreIndices
<1>5. /\ row.event = rows[r].event /\ row.early = rows[r].early
      /\ row.carried = rows[r].carried
      /\ row.sent = (rows[r].sent \/ handled)
      /\ row.key = IF rows[r].key = NoKey THEN k ELSE rows[r].key
  BY <1>1 DEF Row, MarkedRow
<1>6. RowExtends(row, rows[r])
  BY <1>5 DEF RowExtends
<1>7. \A q \in RowIds : new[q] = IF q = r THEN row ELSE rows[q]
  BY <1>3 DEF RowIds
<1> HIDE DEF new, row
<1>8. \A q \in RowIds : RowExtends(new[q], rows[q])
  <2> SUFFICES ASSUME NEW q \in RowIds PROVE RowExtends(new[q], rows[q])
    OBVIOUS
  <2>1. CASE q = r
    BY <1>6, <1>7, <2>1
  <2>2. CASE q # r
    BY <1>7, <2>2 DEF RowExtends
  <2> QED
    BY <2>1, <2>2
<1>9. Extends(new, rows) /\ DOMAIN new = RowIds
  BY <1>4, <1>8, RowwiseExtends
<1> QED
  BY <1>5, <1>7, <1>9 DEF new

LEMMA DispatchedTable ==
  ASSUME rows \in Seq(Row), NEW members, NEW lead, NEW ok \in BOOLEAN
  PROVE  LET new == DispatchedRows(members, lead, ok)
         IN  /\ Extends(new, rows)
             /\ DOMAIN new = RowIds
             /\ \A r \in RowIds \cap members : new[r].carried /\ (ok => new[r].sent)
             /\ \A r \in RowIds : new[r].key = rows[r].key
             /\ \A r \in RowIds : new[r].sent => rows[r].sent \/ new[r].carried
<1> DEFINE new == DispatchedRows(members, lead, ok)
<1>1. \A r \in RowIds : rows[r] \in Row
  BY RowIdsAreIndices
<1>2. \A r \in RowIds : new[r] = IF r \in members THEN RecordedRow(r, lead, ok) ELSE rows[r]
  BY DEF DispatchedRows
<1>3. \A r \in RowIds :
         /\ RecordedRow(r, lead, ok) \in Row
         /\ RecordedRow(r, lead, ok).carried = TRUE
         /\ RecordedRow(r, lead, ok).sent = (ok \/ rows[r].sent)
         /\ RecordedRow(r, lead, ok).event = rows[r].event
         /\ RecordedRow(r, lead, ok).early = rows[r].early
         /\ RecordedRow(r, lead, ok).key = rows[r].key
  BY <1>1 DEF RecordedRow, Row
<1>4. new \in [RowIds -> Row]
  BY <1>1, <1>3 DEF DispatchedRows
<1>5. \A r \in RowIds : RowExtends(new[r], rows[r])
  BY <1>2, <1>3 DEF RowExtends
<1> HIDE DEF new
<1>6. Extends(new, rows) /\ DOMAIN new = RowIds
  BY <1>4, <1>5, RowwiseExtends
<1> QED
  BY <1>2, <1>3, <1>6 DEF new

LEMMA FailedTable ==
  ASSUME rows \in Seq(Row), NEW members
  PROVE  LET new == FailedRows(members)
         IN  /\ Extends(new, rows)
             /\ DOMAIN new = RowIds
             /\ \A r \in RowIds : /\ new[r].key = rows[r].key
                                  /\ new[r].sent = rows[r].sent
<1> DEFINE new == FailedRows(members)
           row(r) == [rows[r] EXCEPT !.status = "error"]
<1>1. \A r \in RowIds : rows[r] \in Row
  BY RowIdsAreIndices
<1>2. \A r \in RowIds : new[r] = IF r \in members THEN row(r) ELSE rows[r]
  BY DEF FailedRows
<1>3. \A r \in RowIds :
         /\ row(r) \in Row
         /\ row(r).carried = rows[r].carried
         /\ row(r).sent = rows[r].sent
         /\ row(r).event = rows[r].event
         /\ row(r).early = rows[r].early
         /\ row(r).key = rows[r].key
  BY <1>1 DEF Row
<1>4. new \in [RowIds -> Row]
  BY <1>1, <1>3 DEF FailedRows
<1>5. \A r \in RowIds : RowExtends(new[r], rows[r])
  BY <1>2, <1>3 DEF RowExtends
<1> HIDE DEF new
<1>6. Extends(new, rows) /\ DOMAIN new = RowIds
  BY <1>4, <1>5, RowwiseExtends
<1> QED
  BY <1>2, <1>3, <1>6 DEF new

LEMMA StampedTable ==
  ASSUME rows \in Seq(Row), NEW members, NEW failed, NEW ok \in BOOLEAN
  PROVE  LET new == StampedAsFailed(members, failed, ok)
         IN  /\ Extends(new, rows)
             /\ DOMAIN new = RowIds
             /\ \A r \in RowIds : new[r].sent => rows[r].sent \/ new[r].carried
<1> DEFINE new == StampedAsFailed(members, failed, ok)
<1>1. \A r \in RowIds : rows[r] \in Row
  BY RowIdsAreIndices
<1>2. \A r \in RowIds :
         /\ new[r] \in Row
         /\ new[r].carried = (rows[r].carried \/ r \in members)
         /\ new[r].sent = (rows[r].sent \/ (ok /\ r \in members))
         /\ new[r].event = rows[r].event
         /\ new[r].early = rows[r].early
         /\ new[r].key = rows[r].key
  BY <1>1 DEF StampedAsFailed, Row
<1>3. new \in [RowIds -> Row]
  BY <1>2 DEF StampedAsFailed
<1>4. \A r \in RowIds : RowExtends(new[r], rows[r])
  BY <1>2 DEF RowExtends
<1> HIDE DEF new
<1>5. Extends(new, rows) /\ DOMAIN new = RowIds
  BY <1>3, <1>4, RowwiseExtends
<1> QED
  BY <1>2, <1>5 DEF new

LEMMA BackfilledTable ==
  ASSUME rows \in Seq(Row), NEW lo, NEW top
  PROVE  LET new == Backfilled(lo, top)
         IN  /\ Extends(new, rows)
             /\ DOMAIN new = RowIds
             /\ \A r \in RowIds : new[r].sent = rows[r].sent
<1> DEFINE new == Backfilled(lo, top)
           row(r) == [rows[r] EXCEPT !.key = KeyOf[rows[r].event]]
<1>1. \A r \in RowIds : rows[r] \in Row
  BY RowIdsAreIndices
<1>2. \A r \in RowIds : new[r] = rows[r] \/ (rows[r].key = NoKey /\ new[r] = row(r))
  BY DEF Backfilled
<1>3. \A r \in RowIds :
         /\ row(r) \in Row
         /\ row(r).carried = rows[r].carried
         /\ row(r).sent = rows[r].sent
         /\ row(r).event = rows[r].event
         /\ row(r).early = rows[r].early
         /\ row(r).key = KeyOf[rows[r].event]
  BY <1>1, ConstantsAssumption DEF Row, Key
<1>4. new \in [RowIds -> Row]
  BY <1>1, <1>3 DEF Backfilled
<1>5. \A r \in RowIds : RowExtends(new[r], rows[r])
  BY <1>2, <1>3 DEF RowExtends
<1> HIDE DEF new
<1>6. Extends(new, rows) /\ DOMAIN new = RowIds
  BY <1>4, <1>5, RowwiseExtends
<1> QED
  BY <1>2, <1>3, <1>6 DEF new

LEMMA AppendedTable ==
  ASSUME rows \in Seq(Row), groups \in [Keys -> Group], open \subseteq Keys,
         NEW e \in Events
  PROVE  LET new == Append(rows, StoredRow(e))
         IN  /\ Extends(new, rows)
             /\ Len(new) = Len(rows) + 1
             /\ DOMAIN new = RowIds \cup {Len(rows) + 1}
             /\ \A r \in RowIds : new[r] = rows[r]
             /\ new[Len(rows) + 1] = StoredRow(e)
<1> DEFINE new == Append(rows, StoredRow(e))
<1>1. StoredRow(e) \in Row
  BY ConstantsAssumption DEF StoredRow, StillMerges, Row, Key
<1>2. /\ new \in Seq(Row) /\ Len(new) = Len(rows) + 1
      /\ \A r \in 1 .. Len(rows) : new[r] = rows[r]
      /\ new[Len(rows) + 1] = StoredRow(e)
  BY <1>1, AppendProperties
<1>3. DOMAIN new = 1 .. Len(rows) + 1
  BY <1>2, LenProperties
<1> HIDE DEF new
<1>4. \A r \in RowIds : RowExtends(new[r], rows[r])
  BY <1>2, RowIdsAreIndices DEF RowExtends
<1>5. Extends(new, rows)
  BY <1>2, <1>4, RowIdsAreIndices DEF Extends, RowIds
<1> QED
  BY <1>2, <1>3, <1>5, RowIdsAreIndices DEF new

-----------------------------------------------------------------------------
(* The same for the claims: a claim is never deleted, a dispatch never     *)
(* taken back.                                                             *)

GroupExtends(new, old) ==
    /\ old.status # "absent" => new.status # "absent"
    /\ old.status = "dispatched" => new.status = "dispatched"

ClaimsExtend(new) ==
    /\ new \in [Keys -> Group]
    /\ \A k \in Keys : GroupExtends(new[k], groups[k])

LEMMA ClaimedTable ==
  ASSUME groups \in [Keys -> Group], NEW k \in Keys, NEW r \in Nat, ClaimFree(k)
  PROVE  ClaimsExtend(Claimed(k, r))
<1>1. [status |-> "pending", leadRow |-> r] \in Group
  BY DEF Group
<1> QED
  BY <1>1 DEF Claimed, ClaimFree, ClaimsExtend, GroupExtends

LEMMA DispatchedClaims ==
  ASSUME groups \in [Keys -> Group], NEW k
  PROVE  ClaimsExtend(IfClaimed(k, DispatchedGroup(k)))
<1>1. \A g \in Keys : /\ [groups[g] EXCEPT !.status = "dispatched"] \in Group
                      /\ [groups[g] EXCEPT !.status = "dispatched"].status = "dispatched"
  BY DEF Group
<1>2. ClaimsExtend(DispatchedGroup(k))
  BY <1>1 DEF DispatchedGroup, ClaimsExtend, GroupExtends
<1> QED
  BY <1>2 DEF IfClaimed, ClaimsExtend, GroupExtends

LEMMA FailedClaims ==
  ASSUME groups \in [Keys -> Group], NEW k
  PROVE  ClaimsExtend(IfClaimed(k, FailedGroup(k)))
<1>1. \A g \in Keys : /\ [groups[g] EXCEPT !.status = "failed"] \in Group
                      /\ [groups[g] EXCEPT !.status = "failed"].status = "failed"
  BY DEF Group
<1>2. ClaimsExtend(FailedGroup(k))
  BY <1>1 DEF FailedGroup, ClaimsExtend, GroupExtends
<1> QED
  BY <1>2 DEF IfClaimed, ClaimsExtend, GroupExtends

-----------------------------------------------------------------------------
(* Every step extends the tables.  What a step adds to them is said by the *)
(* disjunct of Next it is, so the invariants below reason about a step as  *)
(* "the tables grew" wherever that is enough.                              *)

\* The row under the scan, as the session sees it, is the stored row; once its
\* sibling is sought it has a key
LEMMA ScannedRow ==
  ASSUME Inductive,
         AtRow \/ rec.pc \in {"sibling", "owner", "mark", "claim", "conflict"}
  PROVE  /\ rec.at \in RowIds /\ rec.at \in 1 .. Len(rec.snap)
         /\ ThisRow \in Row
         /\ ThisRow.event = rows[rec.at].event
         /\ ThisRow.key # NoKey => ThisRow.key = rows[rec.at].key
         /\ ~AtRow => Unit \in Keys /\ Unit = rows[rec.at].key
<1>1. /\ rec \in Recovery /\ rows \in Seq(Row)
      /\ rec.snap \in Seq(Row)
  BY DEF Inductive, TypeOK, Recovery
<1>2. /\ Len(rec.snap) = rec.top /\ rec.top <= Len(rows)
      /\ rec.at >= 1 /\ rec.at <= rec.top
      /\ rec.snap[rec.at].event = rows[rec.at].event
      /\ rec.snap[rec.at].key # NoKey => rows[rec.at].key = rec.snap[rec.at].key
  BY <1>1 DEF Inductive, RecoveryOK, AtRow, InThread, Recovery
<1>3. rec.at \in 1 .. Len(rows) /\ rec.at \in 1 .. Len(rec.snap)
  BY <1>1, <1>2, RowIdsAreIndices DEF Recovery
<1>4. rec.at \in RowIds /\ rows[rec.at] \in Row /\ rec.snap[rec.at] \in Row
  BY <1>1, <1>3, RowIdsAreIndices, ElementOfSeq
<1>5. ~AtRow => rec.snap[rec.at].key \in Keys
  BY <1>4 DEF Inductive, RecoveryOK, SeenRow, Row, Key
<1> QED
  BY <1>2, <1>3, <1>4, <1>5, ConstantsAssumption DEF ThisRow, Unit, SeenRow

LEMMA HandledRow ==
  ASSUME Inductive, handler.pc # "idle"
  PROVE  /\ handler.row \in RowIds
         /\ rows[handler.row] \in Row
         /\ handler.pc # "enqueue" => rows[handler.row].key \in Keys
  BY RowIdsAreIndices DEF Inductive, HandlerOK, TypeOK, Row, Key

\* The item of a run that has not called yet
LEMMA StartedItem ==
  ASSUME Inductive, NEW s \in Slots, tasks[s].pc \in {"ready", "checked"}
  PROVE  tasks[s] \in Task /\ tasks[s].item \in Item /\ ItemOK(tasks[s].item)
<1>1. tasks[s] \in Task /\ tasks[s].pc # "free"
  BY DEF Inductive, TypeOK, Free
<1> QED
  BY <1>1 DEF Inductive, Task, ItemsOK

\* It resolves to a stored row, which has the key of the guard
LEMMA StartedRow ==
  ASSUME Inductive, NEW s \in Slots, Starting(s),
         LoadSpaceEvent(tasks[s].item) # NoRow
  PROVE  LET r == LoadSpaceEvent(tasks[s].item)
             k == GuardKey(tasks[s].item, r)
         IN  /\ r \in RowIds
             /\ k \in Key
             /\ k = KeyOf[rows[r].event]
<1> DEFINE r == LoadSpaceEvent(tasks[s].item)
           item == tasks[s].item
<1>1. item \in Item /\ ItemOK(item) /\ rows \in Seq(Row)
  BY StartedItem DEF Starting, Inductive, TypeOK
<1>2. r \in RowIds /\ rows[r] \in Row
  BY <1>1, LoadedRow, RowIdsAreIndices
<1>3. CASE item.key # NoKey
  <2>1. r = item.row /\ rows[r].key = item.key
    BY <1>1, <1>3, LoadedRow DEF ItemOK
  <2>2. item.key = KeyOf[rows[r].event]
    BY <1>2, <1>3, <2>1 DEF Inductive, RowsOK
  <2> QED
    BY <1>1, <1>2, <1>3, <2>2 DEF GuardKey, Item
<1>4. CASE item.key = NoKey
  BY <1>2, <1>4, ConstantsAssumption DEF GuardKey, Row, Key
<1> QED
  BY <1>3, <1>4

\* and still has it between the two queries of the guard
LEMMA CheckedRow ==
  ASSUME Inductive, NEW s \in Slots, tasks[s].pc = "checked"
  PROVE  LET r == tasks[s].row
             k == GuardKey(tasks[s].item, r)
         IN  /\ r \in RowIds
             /\ k \in Key
             /\ k = KeyOf[rows[r].event]
<1>1. tasks[s].row \in RowIds /\ rows[tasks[s].row] \in Row
  BY RowIdsAreIndices DEF Inductive, StartedOK, TypeOK
<1> QED
  BY <1>1, ConstantsAssumption DEF Inductive, StartedOK, Row, Key

TablesExtend ==
    /\ Extends(rows', rows)
    /\ ClaimsExtend(groups')
    /\ open' \subseteq Keys

LEMMA DatabaseUntouched ==
  ASSUME Inductive, UNCHANGED <<rows, groups, open>>
  PROVE  TablesExtend
<1>1. Extends(rows, rows)
  BY ExtendsItself DEF Inductive, TypeOK
<1> QED
  BY <1>1 DEF Inductive, TypeOK, TablesExtend, ClaimsExtend, GroupExtends

LEMMA RowsOnly ==
  ASSUME Inductive, UNCHANGED <<groups, open>>, Extends(rows', rows)
  PROVE  TablesExtend
  BY DEF Inductive, TypeOK, TablesExtend, ClaimsExtend, GroupExtends

\* A mark that may fail to commit
LEMMA MarkExtends ==
  ASSUME Inductive, NEW r \in RowIds, NEW k \in Key, NEW handled \in BOOLEAN,
         rows[r].key = NoKey => k \in {NoKey, KeyOf[rows[r].event]},
         \E ok \in Commits : rows' = IfCommitted(ok, MarkedDuplicate(r, k, handled), rows)
  PROVE  Extends(rows', rows)
<1>1. rows \in Seq(Row)
  BY DEF Inductive, TypeOK
<1>2. Extends(MarkedDuplicate(r, k, handled), rows)
  BY <1>1, MarkedRows
<1> QED
  BY <1>1, <1>2, ExtendsItself DEF IfCommitted

\* The recovery thread touches nothing of the loop, except to queue its items,
\* and few of its steps write
LEMMA RecoveryFrame ==
  ASSUME RecoveryStep
  PROVE  /\ UNCHANGED <<legacyRecent, handler, cron, tasks, world, history>>
         /\ RequeueLostWork \/ queue' = queue
         /\ \/ BackfillLegacyKeys \/ MarkAlreadyDispatched \/ RecoveryLosesClaim \/ MarkMember
            \/ rows' = rows
         /\ RecoveryClaims \/ UNCHANGED <<groups, open>>
<1> USE DEF ThreadOnly, database
<1>1. CASE \/ ScanWindow \/ SkipRow \/ RecoverKeyless \/ SeekSibling \/ SkipDuplicate
           \/ SeekOwner \/ NoOwner \/ SkipDispatchedUnit \/ OwnedByAnother \/ RecoverOwner
           \/ ScanDone \/ ScanFails \/ RequeueLostWork
  BY <1>1
     DEF ScanWindow, SkipRow, RecoverKeyless, SeekSibling, SkipDuplicate, SeekOwner,
         NoOwner, SkipDispatchedUnit, OwnedByAnother, RecoverOwner, ScanDone, ScanFails,
         RequeueLostWork
<1>2. CASE \/ BackfillLegacyKeys \/ MarkAlreadyDispatched \/ RecoveryLosesClaim \/ MarkMember
           \/ RecoveryClaims
  BY <1>2
     DEF BackfillLegacyKeys, MarkAlreadyDispatched, RecoveryLosesClaim, MarkMember,
         RecoveryClaims
<1> QED
  BY <1>1, <1>2 DEF RecoveryStep

LEMMA TablesStep ==
  ASSUME Inductive, [Next]_vars
  PROVE  TablesExtend
<1> USE DEF InThread
<1>0. /\ rows \in Seq(Row) /\ groups \in [Keys -> Group] /\ open \subseteq Keys
      /\ MessageKeys \subseteq Keys
  BY ConstantsAssumption DEF Inductive, TypeOK
<1>1. ASSUME NEW e \in Events, Persist(e) \/ PersistUnseen(e)
      PROVE  TablesExtend
  BY <1>0, <1>1, AppendedTable, RowsOnly DEF Persist, PersistUnseen
<1>2. ASSUME NEW e \in Events, PersistFails(e)
      PROVE  TablesExtend
  BY <1>2, DatabaseUntouched DEF PersistFails, database
<1>3. CASE Claim
  <2> DEFINE k == rows[handler.row].key
  <2>1. k \in Keys /\ handler.row \in Nat
    BY <1>0, <1>3, HandledRow, RowIdsAreIndices DEF Claim
  <2>2. CASE ClaimFree(k)
    <3>1. groups' = Claimed(k, handler.row) /\ open' = OpenedBy(k) /\ rows' = rows
      BY <1>3, <2>2 DEF Claim
    <3>2. ClaimsExtend(groups')
      BY <1>0, <2>1, <2>2, <3>1, ClaimedTable
    <3> QED
      BY <1>0, <3>1, <3>2, ExtendsItself DEF TablesExtend, OpenedBy
  <2>3. CASE ~ClaimFree(k)
    BY <1>3, <2>3, DatabaseUntouched DEF Claim
  <2> QED
    BY <2>2, <2>3
<1>4. CASE ClaimFails
  BY <1>4, DatabaseUntouched DEF ClaimFails, database
<1>20. CASE ClaimUnseen
  <2> DEFINE k == rows[handler.row].key
  <2>1. k \in Keys /\ handler.row \in Nat
    BY <1>0, <1>20, HandledRow, RowIdsAreIndices DEF ClaimUnseen
  <2>2. ClaimFree(k) /\ groups' = Claimed(k, handler.row) /\ open' = OpenedBy(k) /\ rows' = rows
    BY <1>20 DEF ClaimUnseen
  <2>3. ClaimsExtend(groups')
    BY <1>0, <2>1, <2>2, ClaimedTable
  <2> QED
    BY <1>0, <2>2, <2>3, ExtendsItself DEF TablesExtend, OpenedBy
<1>5. CASE RecordDuplicateMember
  <2>1. Extends(rows', rows)
    BY <1>5, HandledRow, MarkExtends DEF RecordDuplicateMember, Key
  <2> QED
    BY <1>5, <2>1, RowsOnly DEF RecordDuplicateMember
<1>6. CASE Submit
  BY <1>6, DatabaseUntouched DEF Submit, database
<1>7. CASE CronStep
  BY <1>7, DatabaseUntouched
     DEF CronStep, CronTick, StatusUnavailable, Defer, DeferRaises, RunSpaceEvent, database
<1>8. ASSUME NEW s \in Slots, DropMissing(s) \/ RunRaises(s)
      PROVE  TablesExtend
  BY <1>8, DatabaseUntouched DEF DropMissing, RunRaises, database
<1>9. ASSUME NEW s \in Slots, SkipIfUnitAlreadyDispatched(s) \/ SkipIfLegacyDispatched(s)
      PROVE  TablesExtend
  <2>1. PICK r \in RowIds : /\ GuardKey(tasks[s].item, r) \in Key
                            /\ GuardKey(tasks[s].item, r) = KeyOf[rows[r].event]
                            /\ MarkSkipped(s, r)
    BY <1>9, StartedRow, CheckedRow DEF SkipIfUnitAlreadyDispatched, SkipIfLegacyDispatched
  <2>2. Extends(rows', rows)
    BY <2>1, MarkExtends DEF MarkSkipped
  <2> QED
    BY <2>1, <2>2, RowsOnly DEF MarkSkipped
<1>10. ASSUME NEW s \in Slots, NoDispatchedSibling(s) \/ CallHermes(s)
       PROVE  TablesExtend
  BY <1>10, DatabaseUntouched DEF NoDispatchedSibling, CallHermes, database
<1>11. ASSUME NEW s \in Slots, HermesAnswers(s)
       PROVE  TablesExtend
  <2> DEFINE k == tasks[s].item.key
  <2>1. PICK ok \in BOOLEAN :
          /\ rows' = DispatchedRows(tasks[s].members, tasks[s].row, ok)
          /\ groups' = IfCommitted(ok, IfClaimed(k, DispatchedGroup(k)), groups)
    BY <1>11 DEF HermesAnswers, Commits
  <2>2. Extends(rows', rows)
    BY <1>0, <2>1, DispatchedTable
  <2>3. ClaimsExtend(groups')
    BY <1>0, <2>1, DispatchedClaims DEF IfCommitted, ClaimsExtend, GroupExtends
  <2> QED
    BY <1>0, <1>11, <2>2, <2>3 DEF HermesAnswers, TablesExtend
<1>12. ASSUME NEW s \in Slots, HermesFails(s)
       PROVE  TablesExtend
  <2> DEFINE k == tasks[s].item.key
  <2>1. PICK ok \in BOOLEAN :
          /\ rows' = IfCommitted(ok, FailedRows(ResolveGroupEvents(k, tasks[s].row)), rows)
          /\ groups' = IfCommitted(ok, IfClaimed(k, FailedGroup(k)), groups)
    BY <1>12 DEF HermesFails, Commits
  <2>2. Extends(rows', rows)
    BY <1>0, <2>1, FailedTable, ExtendsItself DEF IfCommitted
  <2>3. ClaimsExtend(groups')
    BY <1>0, <2>1, FailedClaims DEF IfCommitted, ClaimsExtend, GroupExtends
  <2> QED
    BY <1>0, <1>12, <2>2, <2>3 DEF HermesFails, TablesExtend
<1>17. ASSUME NEW s \in Slots, RecordRaises(s)
       PROVE  TablesExtend
  <2> DEFINE k == tasks[s].item.key
             failed == ResolveGroupEvents(k, tasks[s].row)
  <2>1. PICK ok \in BOOLEAN :
          /\ rows' = StampedAsFailed(tasks[s].members, failed, ok)
          /\ groups' = IfCommitted(ok, IfClaimed(k, FailedGroup(k)), groups)
    BY <1>17 DEF RecordRaises
  <2>2. Extends(rows', rows)
    BY <1>0, <2>1, StampedTable
  <2>3. ClaimsExtend(groups')
    BY <1>0, <2>1, FailedClaims DEF IfCommitted, ClaimsExtend, GroupExtends
  <2> QED
    BY <1>0, <1>17, <2>2, <2>3 DEF RecordRaises, TablesExtend
<1>13. CASE BackfillLegacyKeys
  <2>1. Extends(rows', rows)
    BY <1>0, <1>13, BackfilledTable, ExtendsItself DEF BackfillLegacyKeys, IfCommitted
  <2> QED
    BY <1>13, <2>1, RowsOnly DEF BackfillLegacyKeys
<1>14. CASE MarkAlreadyDispatched \/ RecoveryLosesClaim \/ MarkMember
  <2>1. rec.at \in RowIds /\ Unit \in Keys /\ Unit = rows[rec.at].key
    BY <1>14, ScannedRow DEF MarkAlreadyDispatched, RecoveryLosesClaim, MarkMember, AtRow
  <2>2. \E handled \in BOOLEAN : \E ok \in Commits :
          rows' = IfCommitted(ok, MarkedDuplicate(rec.at, Unit, handled), rows)
    BY <1>14 DEF MarkAlreadyDispatched, RecoveryLosesClaim, MarkMember, Unit
  <2>3. Extends(rows', rows)
    BY <2>1, <2>2, MarkExtends, ConstantsAssumption DEF Key
  <2> QED
    BY <1>14, <2>3, RowsOnly DEF MarkAlreadyDispatched, RecoveryLosesClaim, MarkMember
<1>15. CASE RecoveryClaims
  <2>1. Unit \in Keys /\ rec.at \in Nat
    BY <1>0, <1>15, ScannedRow, RowIdsAreIndices DEF RecoveryClaims, AtRow
  <2>2. CASE ClaimFree(Unit)
    <3>1. groups' = Claimed(Unit, rec.at) /\ open' = OpenedBy(Unit) /\ rows' = rows
      BY <1>15, <2>2 DEF RecoveryClaims
    <3>2. ClaimsExtend(groups')
      BY <1>0, <2>1, <2>2, <3>1, ClaimedTable
    <3> QED
      BY <1>0, <3>1, <3>2, ExtendsItself DEF TablesExtend, OpenedBy
  <2>3. CASE ~ClaimFree(Unit)
    BY <1>15, <2>3, DatabaseUntouched DEF RecoveryClaims
  <2> QED
    BY <2>2, <2>3
<1>16. CASE RecoveryStep /\ UNCHANGED <<rows, groups, open>>
  BY <1>16, DatabaseUntouched
<1>18. ASSUME NEW k \in Keys, CloseWindow(k)
       PROVE  TablesExtend
  BY <1>0, <1>18, ExtendsItself
     DEF CloseWindow, TablesExtend, ClaimsExtend, GroupExtends
<1>19. CASE LookbackElapses \/ Restart \/ UNCHANGED vars
  BY <1>19, DatabaseUntouched DEF LookbackElapses, Restart, vars, database
<1> QED
  BY <1>1, <1>2, <1>3, <1>4, <1>5, <1>6, <1>7, <1>8, <1>9, <1>10, <1>11, <1>12, <1>13,
     <1>14, <1>15, <1>16, <1>17, <1>18, <1>19, <1>20, RecoveryFrame
     DEF Next, HandlerStep, TaskStarts, TaskEnds

-----------------------------------------------------------------------------
(* Type correctness of everything that is not a table *)

ProcessTypes ==
    /\ legacyRecent \in BOOLEAN
    /\ queue \in Seq(Item)
    /\ handler \in [pc : {"idle", "claim", "conflict", "enqueue"}, row : Nat]
    /\ cron \in {"idle", "status", "busy"}
    /\ tasks \in [Slots -> Task \cup {Free}]
    /\ rec \in Recovery
    /\ delivered \in [Events -> Nat]
    /\ crashes \in Nat
    /\ calls \in [Keys -> Nat]
    /\ lost \subseteq Events
    /\ refused \subseteq Nat

LEMMA StoredItem ==
  ASSUME rows \in Seq(Row), NEW r \in RowIds
  PROVE  [event |-> rows[r].event, key |-> rows[r].key, row |-> r] \in Item
  BY RowIdsAreIndices DEF Row, Item

\* The scan moves on to the next row
LEMMA NextRowType ==
  ASSUME rec \in Recovery
  PROVE  /\ NextRow \in Recovery
         /\ NextRow.items = rec.items /\ NextRow.pc = "row"
         /\ NextRow.snap = rec.snap /\ NextRow.top = rec.top
         /\ NextRow.at = rec.at + 1 /\ NextRow.lo = rec.lo
         /\ \A fresh \in BOOLEAN :
              LET new == [NextRow EXCEPT !.fresh = fresh]
              IN  /\ new \in Recovery
                  /\ new.items = rec.items /\ new.pc = "row"
                  /\ new.snap = rec.snap /\ new.top = rec.top
                  /\ new.at = rec.at + 1 /\ new.lo = rec.lo
<1> DEFINE at == rec.at + 1
<1>1. at \in Nat
  BY DEF Recovery
<1>2. NextRow = [rec EXCEPT !.pc = "row", !.at = at]
  BY DEF NextRow
<1> HIDE DEF at
<1>3. /\ NextRow \in Recovery
      /\ NextRow.items = rec.items /\ NextRow.pc = "row"
      /\ NextRow.snap = rec.snap /\ NextRow.top = rec.top
      /\ NextRow.at = at /\ NextRow.lo = rec.lo
  BY <1>1, <1>2 DEF Recovery
<1>4. \A fresh \in BOOLEAN :
              LET new == [NextRow EXCEPT !.fresh = fresh]
              IN  /\ new \in Recovery
                  /\ new.items = rec.items /\ new.pc = "row"
                  /\ new.snap = rec.snap /\ new.top = rec.top
                  /\ new.at = at /\ new.lo = rec.lo
  BY <1>3 DEF Recovery
<1> QED
  BY <1>3, <1>4 DEF at

\* An item of the scan, appended to what it already found
LEMMA RecoveredType ==
  ASSUME rec \in Recovery, rows \in Seq(Row), rec.at \in RowIds, NEW k \in Key
  PROVE  LET item == [event |-> rows[rec.at].event, key |-> k, row |-> rec.at]
         IN  /\ item \in Item
             /\ Recovered(k) \in Recovery
             /\ Recovered(k).items = Append(rec.items, item)
             /\ Recovered(k).pc = "row" /\ Recovered(k).at = rec.at + 1
             /\ Recovered(k).snap = rec.snap /\ Recovered(k).top = rec.top
<1> DEFINE item == [event |-> rows[rec.at].event, key |-> k, row |-> rec.at]
           items == Append(rec.items, item)
<1>1. rows[rec.at] \in Row /\ rec.at \in Nat
  BY RowIdsAreIndices
<1>2. item \in Item
  BY <1>1 DEF Item, Row
<1>3. rec.items \in Seq(Item)
  BY DEF Recovery
<1>4. items \in Seq(Item)
  BY <1>2, <1>3, AppendProperties
<1>5. NextRow \in Recovery /\ NextRow.items = rec.items
  BY NextRowType
<1>6. Recovered(k) = [NextRow EXCEPT !.items = items]
  BY <1>5 DEF Recovered
<1> HIDE DEF items
<1> DEFINE new == [NextRow EXCEPT !.items = items]
<1>7. /\ new \in Recovery /\ new.items = items /\ new.pc = "row"
      /\ new.at = NextRow.at /\ new.snap = NextRow.snap /\ new.top = NextRow.top
  BY <1>4, <1>5, NextRowType DEF Recovery
<1> HIDE DEF new
<1> QED
  BY <1>2, <1>6, <1>7, NextRowType DEF items, new

\* The session caches the row whose sibling it seeks
LEMMA SoughtType ==
  ASSUME Inductive, AtRow
  PROVE  LET snap == [rec.snap EXCEPT ![rec.at] = ThisRow]
             new == [rec EXCEPT !.pc = "sibling", !.snap = [@ EXCEPT ![rec.at] = ThisRow]]
         IN  /\ new \in Recovery
             /\ new.pc = "sibling" /\ new.at = rec.at /\ new.top = rec.top
             /\ new.items = rec.items
             /\ new.snap = snap /\ snap \in Seq(Row) /\ Len(snap) = Len(rec.snap)
             /\ snap[rec.at] = ThisRow
             /\ \A r \in 1 .. Len(rec.snap) : r # rec.at => snap[r] = rec.snap[r]
<1> DEFINE snap == [rec.snap EXCEPT ![rec.at] = ThisRow]
           new == [rec EXCEPT !.pc = "sibling", !.snap = snap]
<1>1. rec \in Recovery /\ rec.snap \in Seq(Row)
  BY DEF Inductive, TypeOK, Recovery
<1>2. ThisRow \in Row /\ rec.at \in 1 .. Len(rec.snap)
  BY ScannedRow
<1>3. /\ snap \in Seq(Row) /\ Len(snap) = Len(rec.snap) /\ snap[rec.at] = ThisRow
      /\ \A r \in 1 .. Len(rec.snap) : r # rec.at => snap[r] = rec.snap[r]
  BY <1>1, <1>2, ExceptSeq
<1>4. [rec EXCEPT !.pc = "sibling", !.snap = [@ EXCEPT ![rec.at] = ThisRow]] = new
  OBVIOUS
<1> HIDE DEF snap
<1>5. /\ new \in Recovery
      /\ new.pc = "sibling" /\ new.at = rec.at /\ new.top = rec.top
      /\ new.items = rec.items /\ new.snap = snap
  BY <1>1, <1>3 DEF Recovery
<1> QED
  BY <1>3, <1>4, <1>5 DEF snap

LEMMA StartedType == \A lo \in Nat :
    /\ Started(lo) \in Recovery
    /\ [Started(lo) EXCEPT !.pc = "idle"] \in Recovery
  BY EmptySeq DEF Started, Recovery

LEMMA ProcessStep ==
  ASSUME Inductive, [Next]_vars
  PROVE  ProcessTypes'
<1> USE DEF database, memory, world, history
<1>0. /\ ProcessTypes /\ rows \in Seq(Row)
  BY DEF Inductive, TypeOK, ProcessTypes
<1>1. ASSUME NEW e \in Events, Persist(e)
      PROVE  ProcessTypes'
  BY <1>0, <1>1, RowIdsAreIndices DEF Persist, Receive, ProcessTypes
<1>2. ASSUME NEW e \in Events, PersistFails(e) \/ PersistUnseen(e)
      PROVE  ProcessTypes'
  <2>1. [event |-> e, key |-> NoKey, row |-> NoRow] \in Item
    BY DEF Item, Key, NoRow
  <2>2. Append(queue, [event |-> e, key |-> NoKey, row |-> NoRow]) \in Seq(Item)
    BY <1>0, <2>1, AppendProperties DEF ProcessTypes
  <2>3. CASE PersistFails(e)
    BY <1>0, <2>2, <2>3 DEF PersistFails, Receive, ProcessTypes
  <2>4. CASE PersistUnseen(e)
    BY <1>0, <2>2, <2>4 DEF PersistUnseen, Receive, ProcessTypes
  <2> QED
    BY <1>2, <2>3, <2>4
<1>3. CASE Claim \/ ClaimFails \/ ClaimUnseen \/ RecordDuplicateMember
  <2>1. CASE Claim
    BY <1>0, <2>1 DEF Claim, ProcessTypes
  <2>2. CASE ClaimFails \/ ClaimUnseen
    <3>1. handler.row \in Nat /\ refused' = refused \cup {handler.row}
      BY <1>0, <2>2 DEF ClaimFails, ClaimUnseen, Refuse, ProcessTypes
    <3>2. refused' \subseteq Nat
      BY <1>0, <3>1 DEF ProcessTypes
    <3>3. handler' \in [pc : {"idle", "claim", "conflict", "enqueue"}, row : Nat]
      BY <2>2 DEF ClaimFails, ClaimUnseen, Refuse, IdleHandler, NoRow
    <3> QED
      BY <1>0, <2>2, <3>2, <3>3 DEF ClaimFails, ClaimUnseen, Refuse, ProcessTypes
  <2>3. CASE RecordDuplicateMember
    BY <1>0, <2>3 DEF RecordDuplicateMember, IdleHandler, NoRow, ProcessTypes
  <2> QED
    BY <1>3, <2>1, <2>2, <2>3
<1>4. CASE Submit
  BY <1>0, <1>4, HandledRow, StoredItem, AppendProperties
     DEF Submit, IdleHandler, NoRow, ProcessTypes
<1>5. CASE CronTick \/ StatusUnavailable
  BY <1>0, <1>5 DEF CronTick, StatusUnavailable, ProcessTypes
<1>6. CASE Defer
  <2>1. queue # <<>> /\ queue \in Seq(Item)
    BY <1>0, <1>6 DEF Inductive, CronOK, Defer, ProcessTypes
  <2>2. Append(Tail(queue), Head(queue)) \in Seq(Item)
    BY <2>1, HeadTailProperties, AppendProperties
  <2> QED
    BY <1>0, <1>6, <2>2 DEF Defer, ProcessTypes
<1>25. CASE DeferRaises
  <2>1. Tail(queue) \in Seq(Item)
    BY <1>0, <1>25, HeadTailProperties DEF Inductive, CronOK, DeferRaises, ProcessTypes
  <2> QED
    BY <1>0, <1>25, <2>1 DEF DeferRaises, ProcessTypes
<1>7. ASSUME NEW s \in Slots, RunSpaceEvent(s)
      PROVE  ProcessTypes'
  <2> DEFINE task == [ pc |-> "ready", item |-> Head(queue), row |-> NoRow, members |-> {} ]
  <2>1. queue # <<>> /\ queue \in Seq(Item)
    BY <1>0, <1>7 DEF Inductive, CronOK, RunSpaceEvent, ProcessTypes
  <2>2. Head(queue) \in Item /\ Tail(queue) \in Seq(Item)
    BY <2>1, HeadTailProperties
  <2>3. task \in Task
    BY <2>2 DEF Task, NoRow
  <2>4. tasks' = [tasks EXCEPT ![s] = task] /\ queue' = Tail(queue)
        /\ cron' \in {"idle", "busy"}
    BY <1>7 DEF RunSpaceEvent
  <2> HIDE DEF task
  <2> QED
    BY <1>0, <1>7, <2>2, <2>3, <2>4 DEF RunSpaceEvent, ProcessTypes
<1>8. ASSUME NEW s \in Slots, DropMissing(s)
      PROVE  ProcessTypes'
  <2>1. tasks[s].item.event \in Events
    BY <1>0, <1>8 DEF DropMissing, Starting, ProcessTypes, Task, Free, Item
  <2> QED
    BY <1>0, <1>8, <2>1 DEF DropMissing, RunEnds, ProcessTypes
<1>26. ASSUME NEW s \in Slots, RunRaises(s)
       PROVE  ProcessTypes'
  BY <1>0, <1>26 DEF RunRaises, RunEnds, ProcessTypes
<1>9. ASSUME NEW s \in Slots, SkipIfUnitAlreadyDispatched(s) \/ SkipIfLegacyDispatched(s)
      PROVE  ProcessTypes'
  <2>1. \E r : MarkSkipped(s, r)
    BY <1>9 DEF SkipIfUnitAlreadyDispatched, SkipIfLegacyDispatched
  <2> QED
    BY <1>0, <2>1 DEF MarkSkipped, RunEnds, ProcessTypes
<1>10. ASSUME NEW s \in Slots, CallHermes(s)
       PROVE  ProcessTypes'
  <2> DEFINE r == tasks[s].row
             task == [ pc |-> "calling", item |-> tasks[s].item, row |-> r,
                       members |-> ResolveGroupEvents(tasks[s].item.key, r) ]
  <2>1. tasks[s] \in Task /\ r \in RowIds
    BY <1>10, StartedItem, CheckedRow DEF CallHermes
  <2>2. ResolveGroupEvents(tasks[s].item.key, r) \subseteq Nat /\ r \in Nat
    BY <1>0, <2>1, RowIdsAreIndices DEF ResolveGroupEvents
  <2>3. task \in Task
    BY <2>1, <2>2 DEF Task
  <2>4. tasks' = [tasks EXCEPT ![s] = task]
    BY <1>10 DEF CallHermes
  <2>5. calls' \in [Keys -> Nat]
    BY <1>0, <1>10 DEF CallHermes, ProcessTypes
  <2> HIDE DEF task
  <2> QED
    BY <1>0, <1>10, <2>3, <2>4, <2>5 DEF CallHermes, ProcessTypes
<1>23. ASSUME NEW s \in Slots, NoDispatchedSibling(s)
       PROVE  ProcessTypes'
  <2> DEFINE r == LoadSpaceEvent(tasks[s].item)
             task == [ pc |-> "checked", item |-> tasks[s].item, row |-> r, members |-> {} ]
  <2>1. tasks[s] \in Task /\ r \in Nat
    BY <1>0, <1>23, StartedItem, StartedRow, RowIdsAreIndices DEF NoDispatchedSibling, Starting
  <2>2. task \in Task
    BY <2>1 DEF Task
  <2>3. tasks' = [tasks EXCEPT ![s] = task]
    BY <1>23 DEF NoDispatchedSibling
  <2> HIDE DEF task
  <2> QED
    BY <1>0, <1>23, <2>2, <2>3 DEF NoDispatchedSibling, ProcessTypes
<1>11. ASSUME NEW s \in Slots, HermesAnswers(s) \/ HermesFails(s) \/ RecordRaises(s)
       PROVE  ProcessTypes'
  BY <1>0, <1>11
     DEF HermesAnswers, HermesFails, RecordRaises, Answered, RunEnds, ProcessTypes
<1>12. CASE ScanWindow
  <2>1. Len(rows) \in Nat /\ rec.lo \in Nat
    BY <1>0, RowIdsAreIndices DEF ProcessTypes, Recovery
  <2>2. PICK lo \in Nat :
          rec' = [rec EXCEPT !.pc = "backfill", !.lo = lo, !.at = lo,
                             !.top = Len(rows), !.snap = rows]
    <3>1. (IF "age" \in Hazards THEN rec.lo .. Len(rows) ELSE {rec.lo}) \subseteq Nat
      BY <2>1
    <3> QED
      BY <1>12, <3>1 DEF ScanWindow
  <2>3. rec' \in Recovery
    BY <1>0, <2>1, <2>2 DEF ProcessTypes, Recovery
  <2> QED
    BY <1>0, <1>12, <2>3 DEF ScanWindow, ThreadOnly, ProcessTypes
<1>13. CASE BackfillLegacyKeys
  <2>1. rec' \in Recovery
    BY <1>0, <1>13, NextRowType DEF BackfillLegacyKeys, ProcessTypes
  <2> QED
    BY <1>0, <1>13, <2>1 DEF BackfillLegacyKeys, ThreadOnly, ProcessTypes
<1>14. CASE \/ SkipRow \/ SkipDuplicate \/ MarkAlreadyDispatched \/ RecoveryLosesClaim
            \/ SkipDispatchedUnit \/ MarkMember
  <2>1. rec' \in Recovery
    BY <1>0, <1>14, NextRowType
       DEF SkipRow, SkipDuplicate, MarkAlreadyDispatched, RecoveryLosesClaim,
           SkipDispatchedUnit, MarkMember, ProcessTypes
  <2> QED
    BY <1>0, <1>14, <2>1
       DEF SkipRow, SkipDuplicate, MarkAlreadyDispatched, RecoveryLosesClaim,
           SkipDispatchedUnit, MarkMember, ThreadOnly, ProcessTypes
<1>15. CASE SeekOwner \/ NoOwner \/ OwnedByAnother \/ RecoveryClaims \/ ScanDone
  BY <1>0, <1>15
     DEF SeekOwner, NoOwner, OwnedByAnother, RecoveryClaims, ScanDone, ThreadOnly,
         ProcessTypes, Recovery
<1>24. CASE SeekSibling
  <2>1. rec' \in Recovery
    BY <1>0, <1>24, SoughtType DEF SeekSibling, ProcessTypes
  <2> QED
    BY <1>0, <1>24, <2>1 DEF SeekSibling, ThreadOnly, ProcessTypes
<1>16. CASE RecoverKeyless
  <2>1. Recovered(NoKey) \in Recovery
    BY <1>0, <1>16, ScannedRow, RecoveredType DEF RecoverKeyless, Key, ProcessTypes
  <2> QED
    BY <1>0, <1>16, <2>1 DEF RecoverKeyless, ThreadOnly, ProcessTypes
<1>17. CASE RecoverOwner
  <2>1. rec.at \in RowIds /\ Unit \in Key
    BY <1>17, ScannedRow DEF RecoverOwner, InThread, AtRow, Key
  <2>2. Recovered(Unit) \in Recovery
    BY <1>0, <2>1, RecoveredType DEF ProcessTypes
  <2> QED
    BY <1>0, <1>17, <2>2 DEF RecoverOwner, ThreadOnly, ProcessTypes
<1>18. CASE ScanFails
  BY <1>0, <1>18, StartedType DEF ScanFails, ThreadOnly, ProcessTypes, Recovery
<1>19. CASE RequeueLostWork
  <2>1. queue \o rec.items \in Seq(Item) /\ rec.lo \in Nat
    BY <1>0, ConcatProperties DEF ProcessTypes, Recovery
  <2> QED
    BY <1>0, <1>19, <2>1, StartedType DEF RequeueLostWork, ProcessTypes
<1>20. ASSUME NEW k \in Keys, CloseWindow(k)
       PROVE  ProcessTypes'
  BY <1>0, <1>20 DEF CloseWindow, ProcessTypes
<1>21. CASE LookbackElapses \/ UNCHANGED vars
  BY <1>0, <1>21 DEF LookbackElapses, vars, ProcessTypes
<1>22. CASE Restart
  <2>1. rec.lo \in Nat
    BY <1>0 DEF ProcessTypes, Recovery
  <2>2. queue' \in Seq(Item)
    BY <1>22, EmptySeq DEF Restart
  <2>3. tasks' \in [Slots -> Task \cup {Free}] /\ calls' \in [Keys -> Nat]
    BY <1>22 DEF Restart
  <2>4. rec' \in Recovery
    BY <1>22, <2>1, StartedType DEF Restart
  <2>5. handler' \in [pc : {"idle", "claim", "conflict", "enqueue"}, row : Nat]
    BY <1>22 DEF Restart, IdleHandler, NoRow
  <2>6. crashes' \in Nat /\ cron' = "idle"
    BY <1>0, <1>22 DEF Restart, ProcessTypes
  <2> QED
    BY <1>0, <1>22, <2>2, <2>3, <2>4, <2>5, <2>6 DEF Restart, ProcessTypes
<1> QED
  BY <1>1, <1>2, <1>3, <1>4, <1>5, <1>6, <1>7, <1>8, <1>9, <1>10, <1>11, <1>12, <1>13,
     <1>14, <1>15, <1>16, <1>17, <1>18, <1>19, <1>20, <1>21, <1>22, <1>23,
     <1>24, <1>25, <1>26
     DEF Next, HandlerStep, CronStep, TaskStarts, TaskEnds, RecoveryStep

LEMMA TypeStep ==
  ASSUME Inductive, [Next]_vars
  PROVE  TypeOK'
<1>1. TablesExtend /\ ProcessTypes'
  BY TablesStep, ProcessStep
<1> QED
  BY <1>1 DEF TypeOK, ProcessTypes, TablesExtend, Extends, ClaimsExtend

-----------------------------------------------------------------------------
(* The rows and what the process says of them *)

\* Only a webhook adds a row
LEMMA RowsGrow ==
  ASSUME Inductive, [Next]_vars
  PROVE  DOMAIN rows' = RowIds \/ \E e \in Events : Persist(e) \/ PersistUnseen(e)
<1> SUFFICES ASSUME ~ \E e \in Events : Persist(e) \/ PersistUnseen(e)
             PROVE  DOMAIN rows' = DOMAIN rows
  BY DEF RowIds
<1>1. \A members, lead, ok : DOMAIN DispatchedRows(members, lead, ok) = DOMAIN rows
  BY DEF DispatchedRows, RowIds
<1>2. \A members : DOMAIN FailedRows(members) = DOMAIN rows
  BY DEF FailedRows, RowIds
<1>10. \A members, failed, ok : DOMAIN StampedAsFailed(members, failed, ok) = DOMAIN rows
  BY DEF StampedAsFailed, RowIds
<1>3. \A lo, top : DOMAIN Backfilled(lo, top) = DOMAIN rows
  BY DEF Backfilled, RowIds
<1>4. \A r, k, handled : DOMAIN MarkedDuplicate(r, k, handled) = DOMAIN rows
  BY DEF MarkedDuplicate
<1>5. CASE HandlerStep \/ CronStep
  BY <1>4, <1>5
     DEF HandlerStep, Claim, ClaimFails, ClaimUnseen, Refuse, RecordDuplicateMember, Submit,
         CronStep, CronTick, StatusUnavailable, Defer, DeferRaises, RunSpaceEvent, IfCommitted,
         database
<1>6. ASSUME NEW s \in Slots, TaskStarts(s) \/ TaskEnds(s)
      PROVE  DOMAIN rows' = DOMAIN rows
  BY <1>1, <1>2, <1>4, <1>6, <1>10
     DEF TaskStarts, TaskEnds, RunRaises, DropMissing, SkipIfUnitAlreadyDispatched,
         MarkSkipped, NoDispatchedSibling, SkipIfLegacyDispatched, CallHermes,
         HermesAnswers, HermesFails, RecordRaises, IfCommitted, database
<1>7. CASE BackfillLegacyKeys \/ MarkAlreadyDispatched \/ RecoveryLosesClaim \/ MarkMember
  <2>1. CASE BackfillLegacyKeys
    BY <1>3, <2>1 DEF BackfillLegacyKeys, IfCommitted
  <2>2. \A r, k, handled, ok :
           DOMAIN IfCommitted(ok, MarkedDuplicate(r, k, handled), rows) = DOMAIN rows
    BY <1>4 DEF IfCommitted
  <2>3. CASE MarkAlreadyDispatched
    BY <2>2, <2>3 DEF MarkAlreadyDispatched
  <2>4. CASE RecoveryLosesClaim
    BY <2>2, <2>4 DEF RecoveryLosesClaim
  <2>5. CASE MarkMember
    BY <2>2, <2>5 DEF MarkMember
  <2> QED
    BY <1>7, <2>1, <2>3, <2>4, <2>5
<1>8. CASE RecoveryStep
  BY <1>7, <1>8, RecoveryFrame
<1>9. CASE \/ \E e \in Events : PersistFails(e)
           \/ \E k \in Keys : CloseWindow(k)
           \/ LookbackElapses \/ Restart \/ UNCHANGED vars
  BY <1>9 DEF PersistFails, CloseWindow, LookbackElapses, Restart, vars, database
<1> QED
  BY <1>5, <1>6, <1>8, <1>9 DEF Next

\* What a webhook adds
LEMMA StoredWebhook ==
  ASSUME Inductive, NEW e \in Events, Persist(e) \/ PersistUnseen(e)
  PROVE  /\ RowIds' = RowIds \cup {Len(rows) + 1}
         /\ \A r \in RowIds : rows'[r] = rows[r]
         /\ rows'[Len(rows) + 1] = StoredRow(e)
  BY AppendedTable DEF Persist, PersistUnseen, Inductive, TypeOK, RowIds

LEMMA StoredFields ==
  ASSUME NEW e \in Events
  PROVE  /\ StoredRow(e).event = e /\ StoredRow(e).key = KeyOf[e]
         /\ StoredRow(e).sent = FALSE /\ StoredRow(e).carried = FALSE
         /\ StoredRow(e).early => StillMerges(KeyOf[e])
<1>1. StoredRow(e).early = StillMerges(KeyOf[e])
  BY Zenon DEF StoredRow
<1> QED
  BY <1>1 DEF StoredRow

LEMMA RowsStep ==
  ASSUME Inductive, [Next]_vars
  PROVE  RowsOK'
<1> SUFFICES ASSUME NEW r \in RowIds'
             PROVE  /\ rows'[r].key # NoKey => rows'[r].key = KeyOf[rows'[r].event]
                    /\ rows'[r].early => rows'[r].key # NoKey
  BY DEF RowsOK
<1>1. CASE r \in RowIds
  <2>1. RowExtends(rows'[r], rows[r])
    BY <1>1, TablesStep DEF TablesExtend, Extends, RowIds
  <2> QED
    BY <1>1, <2>1 DEF Inductive, RowsOK, RowExtends
<1>2. CASE r \notin RowIds
  <2>1. PICK e \in Events : Persist(e) \/ PersistUnseen(e)
    BY <1>2, RowsGrow DEF RowIds
  <2>2. rows'[r] = StoredRow(e)
    BY <1>2, <2>1, StoredWebhook
  <2> QED
    <3>1. rows'[r].key = KeyOf[e] /\ rows'[r].event = e
      BY <2>2, StoredFields
    <3>2. rows'[r].early => StillMerges(KeyOf[e])
      BY <2>2, StoredFields
    <3>3. StillMerges(KeyOf[e]) => KeyOf[e] # NoKey
      BY ConstantsAssumption DEF StillMerges
    <3> QED
      BY <3>1, <3>2, <3>3
<1> QED
  BY <1>1, <1>2

LEMMA CronStepOK ==
  ASSUME Inductive, [Next]_vars
  PROVE  CronOK'
<1> SUFFICES ASSUME cron' = "status"
             PROVE  queue' # <<>>
  BY DEF CronOK
<1>1. queue \in Seq(Item) /\ rec.items \in Seq(Item) /\ (cron = "status" => queue # <<>>)
  BY DEF Inductive, TypeOK, Recovery, CronOK
<1>2. \A item : Append(queue, item) # <<>>
  BY <1>1
<1>3. queue # <<>> => queue \o rec.items # <<>>
  BY <1>1
<1>4. CASE RecoveryStep
  BY <1>1, <1>3, <1>4, RecoveryFrame DEF RequeueLostWork
<1>5. ASSUME NEW s \in Slots, TaskStarts(s) \/ TaskEnds(s)
      PROVE  queue' # <<>>
  BY <1>1, <1>5
     DEF TaskStarts, TaskEnds, RunRaises, DropMissing, SkipIfUnitAlreadyDispatched,
         MarkSkipped, NoDispatchedSibling, SkipIfLegacyDispatched, CallHermes,
         HermesAnswers, HermesFails, RecordRaises, Answered, RunEnds
<1>6. CASE HandlerStep \/ CronStep
  BY <1>1, <1>2, <1>6
     DEF HandlerStep, Claim, ClaimFails, ClaimUnseen, Refuse, RecordDuplicateMember, Submit,
         CronStep, CronTick, StatusUnavailable, Defer, DeferRaises, RunSpaceEvent
<1>7. CASE \/ \E e \in Events : Persist(e) \/ PersistFails(e) \/ PersistUnseen(e)
           \/ \E k \in Keys : CloseWindow(k)
           \/ LookbackElapses \/ Restart \/ UNCHANGED vars
  BY <1>1, <1>2, <1>7
     DEF Persist, PersistFails, PersistUnseen, CloseWindow, LookbackElapses, Restart, vars,
         memory
<1> QED
  BY <1>4, <1>5, <1>6, <1>7 DEF Next

\* A row that is stored keeps its key, and a unit that is claimed its claim
LEMMA KeptByTables ==
  ASSUME Inductive, TablesExtend
  PROVE  /\ RowIds \subseteq RowIds'
         /\ \A r \in RowIds : /\ rows'[r].event = rows[r].event
                              /\ rows'[r].early = rows[r].early
                              /\ rows[r].key # NoKey => rows'[r].key = rows[r].key
                              /\ rows[r].sent => rows'[r].sent
                              /\ rows[r].carried => rows'[r].carried
         /\ \A k \in Keys : groups[k].status # "absent" => groups'[k].status # "absent"
<1>1. rows' \in Seq(Row) /\ Len(rows') >= Len(rows) /\ rows \in Seq(Row)
  BY DEF Inductive, TypeOK, TablesExtend, Extends
<1>2. DOMAIN rows = 1 .. Len(rows) /\ DOMAIN rows' = 1 .. Len(rows')
      /\ Len(rows) \in Nat /\ Len(rows') \in Nat
  BY <1>1, LenProperties
<1>3. RowIds \subseteq RowIds'
  BY <1>1, <1>2 DEF RowIds
<1> QED
  BY <1>3 DEF TablesExtend, Extends, RowExtends, ClaimsExtend, GroupExtends, RowIds

LEMMA HandlerStepOK ==
  ASSUME Inductive, [Next]_vars
  PROVE  HandlerOK'
<1> DEFINE Fits(h, table, claims) ==
             h.pc # "idle" =>
                /\ h.row \in DOMAIN table
                /\ table[h.row].key = KeyOf[table[h.row].event]
                /\ h.pc # "enqueue" => table[h.row].key # NoKey
                /\ h.pc = "enqueue" /\ table[h.row].key # NoKey =>
                      claims[table[h.row].key].status # "absent"
<1>1. HandlerOK = Fits(handler, rows, groups) /\ HandlerOK' = Fits(handler', rows', groups')
  BY DEF HandlerOK, RowIds
<1>2. TablesExtend
  BY TablesStep
<1>3. rows \in Seq(Row) /\ groups \in [Keys -> Group]
      /\ handler \in [pc : {"idle", "claim", "conflict", "enqueue"}, row : Nat]
  BY DEF Inductive, TypeOK
<1>4. ASSUME NEW e \in Events, Persist(e)
      PROVE  HandlerOK'
  <2>1. /\ handler'.row = Len(rows) + 1
        /\ handler'.pc = IF KeyOf[e] = NoKey THEN "enqueue" ELSE "claim"
    BY <1>4 DEF Persist
  <2>2. /\ handler'.row \in DOMAIN rows'
        /\ rows'[handler'.row].key = KeyOf[e] /\ rows'[handler'.row].event = e
    <3>1. rows'[handler'.row] = StoredRow(e) /\ handler'.row \in RowIds'
      BY <1>4, <2>1, StoredWebhook
    <3> QED
      BY <3>1, StoredFields DEF RowIds
  <2> QED
    BY <1>1, <2>1, <2>2
<1>5. CASE Claim
  <2> DEFINE k == rows[handler.row].key
  <2>1. k \in Keys /\ handler.row \in RowIds
    BY <1>5, HandledRow DEF Claim
  <2>2. rows' = rows /\ handler'.row = handler.row
        /\ handler'.pc \in {"enqueue", "conflict"}
    BY <1>3, <1>5 DEF Claim
  <2>3. handler'.pc = "enqueue" => groups'[k].status = "pending"
    BY <1>3, <1>5, <2>1 DEF Claim, Claimed
  <2> QED
    <3>1. rows'[handler'.row].key = k /\ k # NoKey /\ handler'.row \in DOMAIN rows'
      BY <2>1, <2>2, ConstantsAssumption DEF RowIds
    <3>2. k = KeyOf[rows'[handler'.row].event]
      BY <1>5, <2>2 DEF Claim, Inductive, HandlerOK
    <3> QED
      BY <1>1, <2>2, <2>3, <3>1, <3>2
<1>6. CASE ClaimFails \/ ClaimUnseen \/ RecordDuplicateMember \/ Submit \/ Restart
  <2>1. handler' = IdleHandler
    BY <1>6 DEF ClaimFails, ClaimUnseen, Refuse, RecordDuplicateMember, Submit, Restart
  <2>2. handler'.pc = "idle"
    BY <2>1 DEF IdleHandler
  <2> QED
    BY <1>1, <2>2
<1>7. CASE handler' = handler
  <2>1. CASE handler.pc = "idle"
    BY <1>1, <1>7, <2>1
  <2>2. CASE handler.pc # "idle"
    <3>1. handler.row \in RowIds /\ rows[handler.row].key \in Key
      BY <2>2, HandledRow DEF Row
    <3>2. CASE rows[handler.row].key # NoKey
      <4>0. rows'[handler.row].event = rows[handler.row].event
        BY <1>2, <3>1, KeptByTables
      <4>1. rows[handler.row].key \in Keys
        BY <3>1, <3>2 DEF Key
      <4>2. /\ handler.row \in DOMAIN rows' /\ rows'[handler.row].key = rows[handler.row].key
            /\ groups[rows[handler.row].key].status # "absent" =>
                  groups'[rows[handler.row].key].status # "absent"
        BY <1>2, <3>1, <3>2, <4>1, KeptByTables DEF RowIds
      <4>3. Fits(handler, rows, groups)
        BY <1>1 DEF Inductive
      <4> QED
        BY <1>1, <1>7, <2>2, <3>2, <4>0, <4>2, <4>3
    <3>3. CASE rows[handler.row].key = NoKey
      <4>1. rows'[handler.row].event = rows[handler.row].event /\ handler.row \in RowIds'
            /\ rows'[handler.row].key \in {NoKey, KeyOf[rows[handler.row].event]}
        BY <1>2, <3>1, <3>3, KeptByTables DEF TablesExtend, Extends, RowExtends, RowIds
      <4>2. Fits(handler, rows, groups)
        BY <1>1 DEF Inductive
      <4> QED
        BY <1>1, <1>7, <2>2, <3>3, <4>1, <4>2 DEF RowIds
    <3> QED
      BY <3>2, <3>3
  <2> QED
    BY <2>1, <2>2
<1>8. CASE \/ \E e \in Events : PersistFails(e) \/ PersistUnseen(e)
           \/ CronStep
           \/ \E s \in Slots : TaskStarts(s) \/ TaskEnds(s)
           \/ \E k \in Keys : CloseWindow(k)
           \/ LookbackElapses \/ UNCHANGED vars
  <2>1. handler' = handler
    BY <1>8
       DEF PersistFails, PersistUnseen, CronStep, CronTick, StatusUnavailable, Defer,
           DeferRaises, RunSpaceEvent, TaskStarts, TaskEnds, RunRaises, DropMissing,
           SkipIfUnitAlreadyDispatched, MarkSkipped, NoDispatchedSibling,
           SkipIfLegacyDispatched, CallHermes, HermesAnswers, HermesFails, RecordRaises,
           CloseWindow, LookbackElapses, vars, memory
  <2> QED
    BY <1>7, <2>1
<1>9. CASE RecoveryStep
  <2>1. handler' = handler
    BY <1>9, RecoveryFrame
  <2> QED
    BY <1>7, <2>1
<1> QED
  BY <1>4, <1>5, <1>6, <1>8, <1>9 DEF Next, HandlerStep

-----------------------------------------------------------------------------
(* The items: what is queued stays good, and only good items are queued *)

Entries(s) == {s[i] : i \in DOMAIN s}

LEMMA EntriesOfEmpty == Entries(<<>>) = {}
  BY DEF Entries

LEMMA EntriesOfAppend ==
  ASSUME NEW S, NEW s \in Seq(S), NEW x \in S
  PROVE  Entries(Append(s, x)) \subseteq Entries(s) \cup {x}
<1>1. /\ DOMAIN Append(s, x) = 1 .. Len(s) + 1 /\ DOMAIN s = 1 .. Len(s) /\ Len(s) \in Nat
      /\ \A i \in 1 .. Len(s) : Append(s, x)[i] = s[i]
      /\ Append(s, x)[Len(s) + 1] = x
  BY AppendProperties, LenProperties
<1> DEFINE t == Append(s, x)
<1> HIDE DEF t
<1>2. \A i \in DOMAIN t : t[i] \in Entries(s) \cup {x}
  <2> SUFFICES ASSUME NEW i \in DOMAIN t PROVE t[i] \in Entries(s) \cup {x}
    OBVIOUS
  <2>1. CASE i \in 1 .. Len(s)
    BY <1>1, <2>1 DEF t, Entries
  <2>2. CASE i = Len(s) + 1
    BY <1>1, <2>2 DEF t
  <2> QED
    BY <1>1, <2>1, <2>2 DEF t
<1> QED
  BY <1>2 DEF t, Entries

LEMMA EntriesOfHeadTail ==
  ASSUME NEW S, NEW s \in Seq(S), s # <<>>
  PROVE  /\ Head(s) \in Entries(s)
         /\ Entries(Tail(s)) \subseteq Entries(s)
<1>1. /\ DOMAIN s = 1 .. Len(s) /\ Len(s) \in Nat /\ Len(s) >= 1
      /\ Head(s) = s[1]
      /\ Tail(s) \in Seq(S) /\ Len(Tail(s)) = Len(s) - 1
      /\ \A i \in 1 .. Len(Tail(s)) : Tail(s)[i] = s[i + 1]
  BY HeadTailProperties, LenProperties, EmptySeq
<1>2. DOMAIN Tail(s) = 1 .. Len(s) - 1
  BY <1>1, LenProperties
<1>3. \A i \in 1 .. Len(s) - 1 : Tail(s)[i] = s[i + 1] /\ i + 1 \in DOMAIN s
  BY <1>1
<1> QED
  BY <1>1, <1>2, <1>3 DEF Entries

LEMMA EntriesOfConcat ==
  ASSUME NEW S, NEW s \in Seq(S), NEW t \in Seq(S)
  PROVE  Entries(s \o t) \subseteq Entries(s) \cup Entries(t)
<1>1. /\ DOMAIN s = 1 .. Len(s) /\ Len(s) \in Nat
      /\ DOMAIN t = 1 .. Len(t) /\ Len(t) \in Nat
      /\ DOMAIN (s \o t) = 1 .. Len(s) + Len(t)
      /\ \A i \in 1 .. Len(s) + Len(t) :
            (s \o t)[i] = IF i <= Len(s) THEN s[i] ELSE t[i - Len(s)]
  BY ConcatProperties, LenProperties
<1>2. \A i \in 1 .. Len(s) + Len(t) :
         i \in DOMAIN s \/ (~(i <= Len(s)) /\ i - Len(s) \in DOMAIN t)
  BY <1>1
<1>3. \A i \in 1 .. Len(s) : i <= Len(s)
  BY <1>1
<1>4. \A i \in DOMAIN (s \o t) : (s \o t)[i] \in Entries(s) \cup Entries(t)
  BY <1>1, <1>2, <1>3 DEF Entries
<1> QED
  BY <1>4 DEF Entries

\* ItemOK, for tables and claims given as values
ItemFits(item, table, claims) ==
    item.key # NoKey =>
        /\ item.row \in DOMAIN table
        /\ table[item.row].key = item.key
        /\ claims[item.key].status # "absent"

LEMMA ItemsUnfolded ==
  /\ ItemsOK <=>
        /\ \A item \in Entries(queue) : ItemFits(item, rows, groups)
        /\ \A item \in Entries(rec.items) : ItemFits(item, rows, groups)
        /\ \A s \in Slots : tasks[s].pc # "free" => ItemFits(tasks[s].item, rows, groups)
  /\ ItemsOK' <=>
        /\ \A item \in Entries(queue') : ItemFits(item, rows', groups')
        /\ \A item \in Entries(rec'.items) : ItemFits(item, rows', groups')
        /\ \A s \in Slots : tasks'[s].pc # "free" => ItemFits(tasks'[s].item, rows', groups')
  BY DEF ItemsOK, ItemOK, ItemFits, RowIds, Entries

LEMMA ItemStays ==
  ASSUME Inductive, TablesExtend, NEW item \in Item, ItemFits(item, rows, groups)
  PROVE  ItemFits(item, rows', groups')
<1>1. item.key \in Key
  BY DEF Item
<1> QED
  BY <1>1, KeptByTables DEF ItemFits, RowIds, Key

LEMMA QueueStep ==
  ASSUME Inductive, [Next]_vars
  PROVE  \A item \in Entries(queue') : ItemFits(item, rows', groups')
<1>1. /\ queue \in Seq(Item) /\ rec.items \in Seq(Item) /\ rows \in Seq(Row)
  BY DEF Inductive, TypeOK, Recovery
<1>2. \A item \in Entries(queue) \cup Entries(rec.items) :
         item \in Item /\ ItemFits(item, rows', groups')
  <2>1. \A item \in Entries(queue) \cup Entries(rec.items) : item \in Item
    BY <1>1, ElementOfSeq, LenProperties DEF Entries
  <2>2. \A item \in Entries(queue) \cup Entries(rec.items) : ItemFits(item, rows, groups)
    BY ItemsUnfolded DEF Inductive
  <2> QED
    BY <2>1, <2>2, TablesStep, ItemStays
<1>3. ASSUME Entries(queue') \subseteq Entries(queue) \cup Entries(rec.items)
      PROVE  \A item \in Entries(queue') : ItemFits(item, rows', groups')
  BY <1>2, <1>3
<1>4. ASSUME NEW e \in Events, PersistFails(e) \/ PersistUnseen(e)
      PROVE  \A item \in Entries(queue') : ItemFits(item, rows', groups')
  <2> DEFINE item == [event |-> e, key |-> NoKey, row |-> NoRow]
  <2>1. item \in Item /\ ItemFits(item, rows', groups')
    BY DEF Item, Key, NoRow, ItemFits
  <2>2. queue' = Append(queue, item)
    BY <1>4 DEF PersistFails, PersistUnseen
  <2> HIDE DEF item
  <2>3. Entries(queue') \subseteq Entries(queue) \cup {item}
    BY <1>1, <2>1, <2>2, EntriesOfAppend
  <2> QED
    BY <1>2, <2>1, <2>3
<1>5. CASE Submit
  <2> DEFINE row == rows[handler.row]
             item == [event |-> row.event, key |-> row.key, row |-> handler.row]
  <2>1. handler.pc = "enqueue" /\ queue' = Append(queue, item) /\ rows' = rows
        /\ groups' = groups
    BY <1>5 DEF Submit, database
  <2>2. item \in Item
    BY <1>1, <2>1, HandledRow, StoredItem
  <2>3. ItemFits(item, rows', groups')
    BY <2>1 DEF Inductive, HandlerOK, ItemFits, RowIds
  <2> HIDE DEF item
  <2>4. Entries(queue') \subseteq Entries(queue) \cup {item}
    BY <1>1, <2>1, <2>2, EntriesOfAppend
  <2> QED
    BY <1>2, <2>3, <2>4
<1>6. CASE Defer
  <2>1. queue # <<>> /\ queue' = Append(Tail(queue), Head(queue))
    BY <1>6 DEF Inductive, CronOK, Defer
  <2>2. /\ Head(queue) \in Entries(queue) /\ Entries(Tail(queue)) \subseteq Entries(queue)
        /\ Tail(queue) \in Seq(Item) /\ Head(queue) \in Item
    BY <1>1, <2>1, EntriesOfHeadTail, HeadTailProperties
  <2>3. Entries(queue') \subseteq Entries(Tail(queue)) \cup {Head(queue)}
    BY <2>1, <2>2, EntriesOfAppend
  <2> QED
    BY <1>3, <2>2, <2>3
<1>7. ASSUME DeferRaises \/ \E s \in Slots : RunSpaceEvent(s)
      PROVE  \A item \in Entries(queue') : ItemFits(item, rows', groups')
  <2>1. queue # <<>> /\ queue' = Tail(queue)
    BY <1>7 DEF Inductive, CronOK, DeferRaises, RunSpaceEvent
  <2> QED
    BY <1>1, <1>3, <2>1, EntriesOfHeadTail
<1>8. CASE RequeueLostWork
  BY <1>1, <1>3, <1>8, EntriesOfConcat DEF RequeueLostWork
<1>9. CASE Restart
  BY <1>3, <1>9, EntriesOfEmpty DEF Restart
<1>10. CASE queue' = queue
  BY <1>3, <1>10
<1>11. CASE \/ \E e \in Events : Persist(e)
            \/ Claim \/ ClaimFails \/ ClaimUnseen \/ RecordDuplicateMember
            \/ CronTick \/ StatusUnavailable
            \/ \E s \in Slots : TaskStarts(s) \/ TaskEnds(s)
            \/ \E k \in Keys : CloseWindow(k)
            \/ LookbackElapses \/ UNCHANGED vars
  <2>1. queue' = queue
    BY <1>11
       DEF Persist, Claim, ClaimFails, ClaimUnseen, Refuse, RecordDuplicateMember,
           CronTick, StatusUnavailable, TaskStarts, TaskEnds, RunRaises, DropMissing,
           SkipIfUnitAlreadyDispatched,
           MarkSkipped, NoDispatchedSibling, SkipIfLegacyDispatched, CallHermes,
           HermesAnswers, HermesFails, RecordRaises, CloseWindow, LookbackElapses, vars,
           memory
  <2> QED
    BY <1>10, <2>1
<1>12. CASE RecoveryStep /\ ~RequeueLostWork
  <2>1. queue' = queue
    BY <1>12, RecoveryFrame
  <2> QED
    BY <1>10, <2>1
<1> QED
  BY <1>4, <1>5, <1>6, <1>7, <1>8, <1>9, <1>11, <1>12 DEF Next, HandlerStep, CronStep

\* The ways the recovery moves: it starts anew or ends, reads the window, goes on
\* to the next row, caches a row, looks for the owner of its unit, or has seen all
ScanStarts == rec'.pc \in {"scan", "idle"} /\ rec'.items = <<>>

ScanReads ==
    /\ rec'.pc = "backfill" /\ rec'.snap = rows /\ rec'.top = Len(rows)
    /\ rows' = rows /\ rec'.items = rec.items

ScanAdvances ==
    /\ rec.pc \in {"backfill", "row", "sibling", "owner", "mark", "conflict"}
    /\ rec'.pc = "row" /\ rec'.at = rec.at + 1
    /\ rec'.snap = rec.snap /\ rec'.top = rec.top
    /\ rec'.items = rec.items \/ RecoverKeyless \/ RecoverOwner

ScanCaches == SeekSibling

ScanSeeks ==
    /\ rec.pc \in {"sibling", "owner", "claim"}
    /\ rec'.pc \in {"owner", "mark", "claim", "conflict"} /\ rec'.at = rec.at
    /\ rec'.snap = rec.snap /\ rec'.top = rec.top /\ rec'.items = rec.items
    /\ rec.at <= rec.top /\ SeenRow.key # NoKey

ScanEnds == rec'.pc = "publish" /\ rec'.items = rec.items

LEMMA ScanMoves ==
  ASSUME Inductive, RecoveryStep
  PROVE  ScanStarts \/ ScanReads \/ ScanAdvances \/ ScanCaches \/ ScanSeeks \/ ScanEnds
<1> USE DEF InThread
<1>1. rec \in Recovery /\ rows \in Seq(Row)
  BY DEF Inductive, TypeOK
<1>2. CASE ScanFails \/ RequeueLostWork
  <2>1. rec' = [Started(rec.lo) EXCEPT !.pc = "idle"]
    BY <1>2 DEF ScanFails, RequeueLostWork
  <2> QED
    BY <2>1 DEF Started, ScanStarts
<1>3. CASE ScanWindow
  <2>1. PICK lo :
          rec' = [rec EXCEPT !.pc = "backfill", !.lo = lo, !.at = lo,
                             !.top = Len(rows), !.snap = rows]
    BY <1>3 DEF ScanWindow
  <2> QED
    BY <1>1, <1>3, <2>1 DEF ScanWindow, ScanReads, Recovery, database
<1>4. CASE BackfillLegacyKeys
  <2>1. PICK fresh \in BOOLEAN : rec' = [NextRow EXCEPT !.fresh = fresh]
    BY <1>4 DEF BackfillLegacyKeys
  <2> QED
    BY <1>1, <1>4, <2>1, NextRowType DEF BackfillLegacyKeys, ScanAdvances
<1>5. CASE \/ SkipRow \/ SkipDuplicate \/ MarkAlreadyDispatched \/ RecoveryLosesClaim
           \/ SkipDispatchedUnit \/ MarkMember
  <2>1. rec' = NextRow \/ rec' = [NextRow EXCEPT !.fresh = TRUE]
    BY <1>5
       DEF SkipRow, SkipDuplicate, MarkAlreadyDispatched, RecoveryLosesClaim,
           SkipDispatchedUnit, MarkMember
  <2>2. rec.pc \in {"row", "sibling", "owner", "mark", "conflict"}
    BY <1>5
       DEF SkipRow, SkipDuplicate, MarkAlreadyDispatched, RecoveryLosesClaim,
           SkipDispatchedUnit, MarkMember, AtRow
  <2> QED
    BY <1>1, <2>1, <2>2, NextRowType DEF ScanAdvances
<1>6. CASE RecoverKeyless \/ RecoverOwner
  <2>1. PICK k \in Key : rec' = Recovered(k)
    BY <1>6, ScannedRow DEF RecoverKeyless, RecoverOwner, AtRow, Key
  <2>2. rec.pc \in {"row", "owner"} /\ rec.at \in RowIds
    BY <1>6, ScannedRow DEF RecoverKeyless, RecoverOwner, AtRow
  <2> QED
    BY <1>1, <1>6, <2>1, <2>2, RecoveredType DEF ScanAdvances
<1>7. CASE SeekSibling
  BY <1>7 DEF ScanCaches
<1>8. CASE SeekOwner \/ NoOwner \/ OwnedByAnother \/ RecoveryClaims
  <2>1. PICK pc \in {"owner", "mark", "claim", "conflict"} : rec' = [rec EXCEPT !.pc = pc]
    BY <1>8 DEF SeekOwner, NoOwner, OwnedByAnother, RecoveryClaims
  <2>2. rec.pc \in {"sibling", "owner", "claim"} /\ rec.at <= rec.top /\ SeenRow.key # NoKey
    BY <1>8 DEF SeekOwner, NoOwner, OwnedByAnother, RecoveryClaims, Inductive, RecoveryOK
  <2> QED
    BY <1>1, <2>1, <2>2 DEF ScanSeeks, Recovery
<1>9. CASE ScanDone
  BY <1>1, <1>9 DEF ScanDone, ScanEnds, Recovery
<1> QED
  BY <1>2, <1>3, <1>4, <1>5, <1>6, <1>7, <1>8, <1>9 DEF RecoveryStep

\* Outside the recovery's own steps only a restart touches it
LEMMA ScanFrame ==
  ASSUME Inductive, [Next]_vars
  PROVE  RecoveryStep \/ ScanStarts \/ rec' = rec
<1>1. CASE Restart
  BY <1>1 DEF Restart, Started, ScanStarts
<1>2. CASE HandlerStep \/ CronStep \/ \E s \in Slots : TaskStarts(s) \/ TaskEnds(s)
  BY <1>2
     DEF HandlerStep, Claim, ClaimFails, ClaimUnseen, Refuse, RecordDuplicateMember, Submit,
         CronStep, CronTick, StatusUnavailable, Defer, DeferRaises, RunSpaceEvent,
         TaskStarts, TaskEnds,
         RunRaises, DropMissing, SkipIfUnitAlreadyDispatched, MarkSkipped,
         NoDispatchedSibling, SkipIfLegacyDispatched, CallHermes, HermesAnswers,
         HermesFails, RecordRaises
<1>3. CASE \/ \E e \in Events : Persist(e) \/ PersistFails(e) \/ PersistUnseen(e)
           \/ \E k \in Keys : CloseWindow(k)
           \/ LookbackElapses \/ UNCHANGED vars
  BY <1>3
     DEF Persist, PersistFails, PersistUnseen, CloseWindow, LookbackElapses, vars, memory
<1> QED
  BY <1>1, <1>2, <1>3 DEF Next

LEMMA RecoveredStep ==
  ASSUME Inductive, [Next]_vars
  PROVE  \A item \in Entries(rec'.items) : ItemFits(item, rows', groups')
<1>1. rec \in Recovery /\ rec.items \in Seq(Item) /\ rows \in Seq(Row)
  BY DEF Inductive, TypeOK, Recovery
<1>2. \A item \in Entries(rec.items) : ItemFits(item, rows', groups')
  <2>1. \A item \in Entries(rec.items) : item \in Item
    BY <1>1, ElementOfSeq, LenProperties DEF Entries
  <2>2. \A item \in Entries(rec.items) : ItemFits(item, rows, groups)
    BY ItemsUnfolded DEF Inductive
  <2> QED
    BY <2>1, <2>2, TablesStep, ItemStays
<1>3. CASE RecoverKeyless \/ RecoverOwner
  <2>1. PICK k \in Key : /\ rec' = Recovered(k) /\ rec.at \in RowIds
                         /\ k # NoKey => k = Unit /\ RecoverOwner
    BY <1>3, ScannedRow DEF RecoverKeyless, RecoverOwner, AtRow, Key, InThread
  <2> DEFINE item == [event |-> rows[rec.at].event, key |-> k, row |-> rec.at]
  <2>2. item \in Item /\ rec'.items = Append(rec.items, item)
    BY <1>1, <2>1, RecoveredType
  <2>3. rows' = rows /\ groups' = groups
    BY <1>3 DEF RecoverKeyless, RecoverOwner, database
  <2>4. ItemFits(item, rows', groups')
    BY <2>1, <2>3, ScannedRow DEF ItemFits, RecoverOwner, Owner, InThread, AtRow, RowIds
  <2> HIDE DEF item
  <2>5. Entries(rec'.items) \subseteq Entries(rec.items) \cup {item}
    BY <1>1, <2>2, EntriesOfAppend
  <2> QED
    BY <1>2, <2>4, <2>5
<1>4. CASE rec'.items = rec.items \/ rec'.items = <<>>
  BY <1>2, <1>4, EntriesOfEmpty
<1>5. CASE SeekSibling
  BY <1>4, <1>5, SoughtType DEF SeekSibling
<1> QED
  BY <1>3, <1>4, <1>5, ScanFrame, ScanMoves
     DEF ScanStarts, ScanReads, ScanAdvances, ScanCaches, ScanSeeks, ScanEnds

\* A step starts a run, starts a call, or only ends runs
LEMMA TasksFrame ==
  ASSUME Inductive, [Next]_vars
  PROVE  \/ \E s \in Slots : RunSpaceEvent(s) \/ NoDispatchedSibling(s) \/ CallHermes(s)
         \/ \A s \in Slots : tasks'[s] = tasks[s] \/ tasks'[s] = Free
<1> DEFINE OnlyEnds == \A s \in Slots : tasks'[s] = tasks[s] \/ tasks'[s] = Free
<1>1. tasks \in [Slots -> Task \cup {Free}]
  BY DEF Inductive, TypeOK
<1>2. ASSUME NEW s \in Slots,
             \/ RunRaises(s) \/ DropMissing(s) \/ SkipIfUnitAlreadyDispatched(s)
             \/ SkipIfLegacyDispatched(s) \/ HermesAnswers(s) \/ HermesFails(s)
             \/ RecordRaises(s)
      PROVE  OnlyEnds
  BY <1>1, <1>2
     DEF RunRaises, DropMissing, SkipIfUnitAlreadyDispatched, SkipIfLegacyDispatched,
         MarkSkipped, HermesAnswers, HermesFails, RecordRaises, Answered, RunEnds
<1>3. CASE Restart
  BY <1>3 DEF Restart
<1>4. CASE \/ \E e \in Events : Persist(e) \/ PersistFails(e) \/ PersistUnseen(e)
           \/ HandlerStep \/ CronTick \/ StatusUnavailable \/ Defer \/ DeferRaises
           \/ \E k \in Keys : CloseWindow(k)
           \/ LookbackElapses \/ UNCHANGED vars
  BY <1>4
     DEF Persist, PersistFails, PersistUnseen, HandlerStep, Claim, ClaimFails,
         ClaimUnseen, Refuse, RecordDuplicateMember, Submit, CronTick, StatusUnavailable,
         Defer, DeferRaises,
         CloseWindow, LookbackElapses, vars, memory
<1>5. CASE RecoveryStep
  BY <1>5, RecoveryFrame
<1> QED
  BY <1>2, <1>3, <1>4, <1>5 DEF Next, CronStep, TaskStarts, TaskEnds

LEMMA StartedItemsStep ==
  ASSUME Inductive, [Next]_vars
  PROVE  \A s \in Slots : tasks'[s].pc # "free" => ItemFits(tasks'[s].item, rows', groups')
<1>1. /\ queue \in Seq(Item) /\ tasks \in [Slots -> Task \cup {Free}]
  BY DEF Inductive, TypeOK
<1>2. \A s \in Slots : tasks[s].pc # "free" => ItemFits(tasks[s].item, rows', groups')
  <2>1. \A s \in Slots : tasks[s].pc # "free" =>
           tasks[s].item \in Item /\ ItemFits(tasks[s].item, rows, groups)
    BY <1>1, ItemsUnfolded DEF Inductive, Task, Free
  <2> QED
    BY <2>1, TablesStep, ItemStays
<1>3. ASSUME NEW s \in Slots, RunSpaceEvent(s)
      PROVE  \A t \in Slots : tasks'[t].pc # "free" => ItemFits(tasks'[t].item, rows', groups')
  <2>1. queue # <<>> /\ rows' = rows /\ groups' = groups
    BY <1>3 DEF Inductive, CronOK, RunSpaceEvent, database
  <2>2. ItemFits(Head(queue), rows', groups')
    BY <1>1, <2>1, EntriesOfHeadTail, ItemsUnfolded DEF Inductive
  <2>3. \A t \in Slots : tasks'[t] = tasks[t] \/ tasks'[t].item = Head(queue)
    BY <1>1, <1>3 DEF RunSpaceEvent
  <2> QED
    BY <1>2, <2>2, <2>3
<1>4. ASSUME NEW s \in Slots, NoDispatchedSibling(s) \/ CallHermes(s)
      PROVE  \A t \in Slots : tasks'[t].pc # "free" => ItemFits(tasks'[t].item, rows', groups')
  <2>1. tasks[s].pc \in {"ready", "checked"}
    BY <1>4 DEF NoDispatchedSibling, CallHermes, Starting
  <2>2. \A t \in Slots : tasks'[t] = tasks[t] \/ (t = s /\ tasks'[t].item = tasks[t].item)
    BY <1>1, <1>4 DEF NoDispatchedSibling, CallHermes
  <2> QED
    BY <1>2, <2>1, <2>2
<1>5. ASSUME \A t \in Slots : tasks'[t] = tasks[t] \/ tasks'[t] = Free
      PROVE  \A t \in Slots : tasks'[t].pc # "free" => ItemFits(tasks'[t].item, rows', groups')
  BY <1>2, <1>5 DEF Free
<1> QED
  BY <1>3, <1>4, <1>5, TasksFrame

LEMMA ItemsStep ==
  ASSUME Inductive, [Next]_vars
  PROVE  ItemsOK'
  BY QueueStep, RecoveredStep, StartedItemsStep, ItemsUnfolded

\* A run between the two queries of its guard keeps its row
LEMMA CheckedStep ==
  ASSUME Inductive, [Next]_vars
  PROVE  StartedOK'
<1> DEFINE Checked(t, table) ==
             t.pc = "checked" =>
                /\ t.row \in DOMAIN table
                /\ (IF t.item.key # NoKey THEN t.item.key ELSE KeyOf[table[t.row].event]) =
                      KeyOf[table[t.row].event]
<1>1. StartedOK' <=> \A s \in Slots : Checked(tasks'[s], rows')
  BY DEF StartedOK, GuardKey, RowIds
<1>2. tasks \in [Slots -> Task \cup {Free}]
  BY DEF Inductive, TypeOK
<1>3. \A s \in Slots : Checked(tasks[s], rows')
  <2> SUFFICES ASSUME NEW s \in Slots, tasks[s].pc = "checked"
               PROVE  Checked(tasks[s], rows')
    OBVIOUS
  <2>1. /\ tasks[s].row \in RowIds
        /\ GuardKey(tasks[s].item, tasks[s].row) = KeyOf[rows[tasks[s].row].event]
    BY DEF Inductive, StartedOK
  <2>2. tasks[s].row \in RowIds' /\ rows'[tasks[s].row].event = rows[tasks[s].row].event
    BY <2>1, TablesStep, KeptByTables
  <2> QED
    BY <2>1, <2>2 DEF GuardKey, RowIds
<1>4. ASSUME NEW s \in Slots, NoDispatchedSibling(s)
      PROVE  \A t \in Slots : Checked(tasks'[t], rows')
  <2> DEFINE r == LoadSpaceEvent(tasks[s].item)
  <2>1. r \in RowIds /\ GuardKey(tasks[s].item, r) = KeyOf[rows[r].event]
    BY <1>4, StartedRow DEF NoDispatchedSibling
  <2>2. rows' = rows
    BY <1>4 DEF NoDispatchedSibling, database
  <2>3. \A t \in Slots :
          \/ tasks'[t] = tasks[t]
          \/ tasks'[t].item = tasks[s].item /\ tasks'[t].row = r
    BY <1>2, <1>4 DEF NoDispatchedSibling
  <2>4. \A t : t.item = tasks[s].item /\ t.row = r => Checked(t, rows')
    BY <2>1, <2>2 DEF GuardKey, RowIds
  <2> QED
    BY <1>3, <2>3, <2>4
<1>5. ASSUME NEW s \in Slots, RunSpaceEvent(s) \/ CallHermes(s)
      PROVE  \A t \in Slots : Checked(tasks'[t], rows')
  <2>1. \A t \in Slots : tasks'[t] = tasks[t] \/ tasks'[t].pc \in {"ready", "calling"}
    BY <1>2, <1>5 DEF RunSpaceEvent, CallHermes
  <2> QED
    BY <1>3, <2>1
<1>6. CASE \A t \in Slots : tasks'[t] = tasks[t] \/ tasks'[t] = Free
  <2>1. Free.pc = "free"
    BY DEF Free
  <2> QED
    BY <1>1, <1>3, <1>6, <2>1
<1> QED
  BY <1>1, <1>4, <1>5, <1>6, TasksFrame

LEMMA RecoveryStepOK ==
  ASSUME Inductive, [Next]_vars
  PROVE  RecoveryOK'
<1> DEFINE Scanning(pc) ==
             pc \in {"backfill", "row", "sibling", "owner", "mark", "claim", "conflict"}
           Cached(snap, top, table) ==
             /\ Len(snap) = top
             /\ top <= Len(table)
             /\ \A r \in 1 .. top :
                   /\ snap[r].event = table[r].event
                   /\ snap[r].key # NoKey => table[r].key = snap[r].key
<1>1. /\ rec \in Recovery /\ rows \in Seq(Row) /\ rows' \in Seq(Row)
      /\ Len(rows') >= Len(rows) /\ Len(rows) \in Nat /\ Len(rows') \in Nat
      /\ rec.at \in Nat /\ rec.top \in Nat
  BY TablesStep, LenProperties DEF Inductive, TypeOK, TablesExtend, Extends, Recovery
<1>2. ASSUME Scanning(rec.pc)
      PROVE  Cached(rec.snap, rec.top, rows')
  <2>1. Cached(rec.snap, rec.top, rows)
    BY <1>2 DEF Inductive, RecoveryOK
  <2>2. \A r \in 1 .. rec.top : r \in RowIds
    BY <1>1, <2>1, RowIdsAreIndices
  <2>3. rec.top <= Len(rows')
    BY <1>1, <2>1
  <2> QED
    BY <2>1, <2>2, <2>3, TablesStep, KeptByTables
<1>3. CASE ScanStarts \/ ScanEnds
  BY <1>3 DEF ScanStarts, ScanEnds, RecoveryOK
<1>4. CASE ScanReads
  BY <1>1, <1>4 DEF ScanReads, RecoveryOK
<1>5. CASE ScanAdvances
  <2>1. Cached(rec'.snap, rec'.top, rows')
    BY <1>2, <1>5 DEF ScanAdvances
  <2>2. rec'.pc = "row" /\ rec'.at >= 1
    BY <1>1, <1>5 DEF ScanAdvances
  <2> QED
    BY <2>1, <2>2 DEF RecoveryOK
<1>6. CASE ScanSeeks
  <2>1. Scanning(rec.pc) /\ rec.pc # "backfill"
    BY <1>6 DEF ScanSeeks
  <2>2. Cached(rec'.snap, rec'.top, rows')
    BY <1>2, <1>6, <2>1 DEF ScanSeeks
  <2>3. rec'.at >= 1 /\ rec'.at <= rec'.top /\ SeenRow'.key # NoKey
    BY <1>6, <2>1 DEF ScanSeeks, SeenRow, Inductive, RecoveryOK
  <2> QED
    BY <2>2, <2>3 DEF RecoveryOK
<1>8. CASE ScanCaches
  <2>1. rows' = rows /\ AtRow /\ ThisRow.key # NoKey
        /\ rec' = [rec EXCEPT !.pc = "sibling", !.snap = [@ EXCEPT ![rec.at] = ThisRow]]
    BY <1>8 DEF ScanCaches, SeekSibling, database
  <2>2. Scanning(rec.pc) /\ rec.at >= 1 /\ rec.at <= rec.top
    BY <2>1 DEF AtRow, InThread, Inductive, RecoveryOK
  <2>3. /\ rec'.pc = "sibling" /\ rec'.at = rec.at /\ rec'.top = rec.top
        /\ Len(rec'.snap) = Len(rec.snap) /\ rec'.snap[rec.at] = ThisRow
        /\ \A r \in 1 .. Len(rec.snap) : r # rec.at => rec'.snap[r] = rec.snap[r]
    BY <2>1, SoughtType
  <2>4. Cached(rec'.snap, rec'.top, rows')
    BY <1>2, <2>1, <2>2, <2>3, ScannedRow
  <2>5. SeenRow'.key # NoKey
    BY <2>1, <2>3 DEF SeenRow
  <2> QED
    BY <2>2, <2>3, <2>4, <2>5 DEF RecoveryOK
<1>7. CASE rec' = rec
  <2>1. CASE ~Scanning(rec.pc)
    BY <1>7, <2>1 DEF RecoveryOK
  <2>2. CASE Scanning(rec.pc)
    <3>1. Cached(rec'.snap, rec'.top, rows')
      BY <1>2, <1>7, <2>2
    <3>2. rec.pc # "backfill" => rec.at >= 1
      BY <2>2 DEF Inductive, RecoveryOK
    <3>3. rec.pc \in {"sibling", "owner", "mark", "claim", "conflict"} =>
             rec.at <= rec.top /\ SeenRow'.key # NoKey
      BY <1>7, <2>2 DEF Inductive, RecoveryOK, SeenRow
    <3> QED
      BY <1>7, <3>1, <3>2, <3>3 DEF RecoveryOK
  <2> QED
    BY <2>1, <2>2
<1> QED
  BY <1>3, <1>4, <1>5, <1>6, <1>7, <1>8, ScanFrame, ScanMoves

-----------------------------------------------------------------------------
(* The merge window *)

\* A unit stays as it is, or is claimed, or is at the end of a call of its own
ClaimedNow(k) ==
    ClaimFree(k) /\ groups'[k].status = "pending" /\ (k \in open' => k \in MessageKeys)

EndsCall(k, s) ==
    /\ tasks[s].pc = "calling" /\ tasks[s].item.key = k /\ open' = open
    /\ groups'[k].status = "dispatched" =>
          \/ groups[k].status = "dispatched"
          \/ rows' = DispatchedRows(tasks[s].members, tasks[s].row, TRUE)

LEMMA UnitMoves ==
  ASSUME Inductive, [Next]_vars, NEW k \in Keys
  PROVE  \/ groups'[k] = groups[k] /\ (k \in open' => k \in open)
         \/ ClaimedNow(k)
         \/ \E s \in Slots : EndsCall(k, s)
<1> DEFINE Stays == groups'[k] = groups[k] /\ (k \in open' => k \in open)
<1>1. groups \in [Keys -> Group] /\ open \subseteq Keys
  BY DEF Inductive, TypeOK
<1>2. ASSUME NEW u \in Keys, NEW r, ClaimFree(u), groups' = Claimed(u, r), open' = OpenedBy(u)
      PROVE  Stays \/ ClaimedNow(k)
  <2>1. CASE u = k
    <3>1. groups'[k].status = "pending"
      BY <1>1, <1>2, <2>1 DEF Claimed
    <3>2. k \in open => k \in MessageKeys
      BY DEF Inductive, WindowOK
    <3> QED
      BY <1>2, <2>1, <3>1, <3>2 DEF ClaimedNow, OpenedBy
  <2>2. CASE u # k
    BY <1>1, <1>2, <2>2 DEF Claimed, OpenedBy
  <2> QED
    BY <2>1, <2>2
<1>3. CASE Claim \/ ClaimUnseen
  <2>1. rows[handler.row].key \in Keys
    BY <1>3, HandledRow DEF Claim, ClaimUnseen
  <2> QED
    BY <1>2, <1>3, <2>1 DEF Claim, ClaimUnseen
<1>4. CASE RecoveryClaims
  <2>1. Unit \in Keys
    BY <1>4, ScannedRow DEF RecoveryClaims, AtRow, InThread
  <2> QED
    BY <1>2, <1>4, <2>1 DEF RecoveryClaims
<1>5. ASSUME NEW s \in Slots, HermesAnswers(s)
      PROVE  Stays \/ \E t \in Slots : EndsCall(k, t)
  <2> DEFINE u == tasks[s].item.key
  <2>1. PICK ok \in BOOLEAN :
          /\ rows' = DispatchedRows(tasks[s].members, tasks[s].row, ok)
          /\ groups' = IfCommitted(ok, IfClaimed(u, DispatchedGroup(u)), groups)
    BY <1>5 DEF HermesAnswers, Commits
  <2>2. open' = open /\ tasks[s].pc = "calling"
    BY <1>5 DEF HermesAnswers, Answered
  <2>3. CASE u = k /\ ok
    BY <2>1, <2>2, <2>3 DEF EndsCall
  <2>4. CASE u # k \/ ~ok
    BY <1>1, <2>1, <2>2, <2>4 DEF IfCommitted, IfClaimed, DispatchedGroup
  <2> QED
    BY <2>3, <2>4
<1>6. ASSUME NEW s \in Slots, HermesFails(s) \/ RecordRaises(s)
      PROVE  Stays \/ \E t \in Slots : EndsCall(k, t)
  <2> DEFINE u == tasks[s].item.key
  <2>1. PICK ok \in BOOLEAN :
          groups' = IfCommitted(ok, IfClaimed(u, FailedGroup(u)), groups)
    BY <1>6 DEF HermesFails, RecordRaises, Commits
  <2>2. open' = open /\ tasks[s].pc = "calling"
    BY <1>6 DEF HermesFails, RecordRaises, Answered
  <2>3. groups'[k] = groups[k] \/ (u = k /\ groups'[k].status = "failed")
    BY <1>1, <2>1 DEF IfCommitted, IfClaimed, FailedGroup, Group
  <2> QED
    BY <2>2, <2>3 DEF EndsCall
<1>7. CASE \/ \E e \in Events : Persist(e) \/ PersistFails(e) \/ PersistUnseen(e)
           \/ ClaimFails \/ RecordDuplicateMember \/ Submit \/ CronStep
           \/ \E s \in Slots : TaskStarts(s)
           \/ \E u \in Keys : CloseWindow(u)
           \/ LookbackElapses \/ Restart \/ UNCHANGED vars
  BY <1>7
     DEF Persist, PersistFails, PersistUnseen, ClaimFails, Refuse, RecordDuplicateMember, Submit,
         CronStep, CronTick, StatusUnavailable, Defer, DeferRaises, RunSpaceEvent,
         TaskStarts, RunRaises, DropMissing, SkipIfUnitAlreadyDispatched, SkipIfLegacyDispatched, MarkSkipped,
         NoDispatchedSibling, CallHermes, CloseWindow, LookbackElapses, Restart, vars,
         database
<1>8. CASE RecoveryStep /\ ~RecoveryClaims
  BY <1>8, RecoveryFrame
<1> QED
  BY <1>3, <1>4, <1>5, <1>6, <1>7, <1>8 DEF Next, HandlerStep, TaskEnds

\* No row stored from now on counts as early for a unit that is claimed and
\* whose window is closed
LEMMA NoLateEarlyRow ==
  ASSUME Inductive, [Next]_vars, NEW k \in Keys,
         groups[k].status # "absent", k \notin open,
         NEW r \in RowIds', rows'[r].key = k, rows'[r].early
  PROVE  r \in RowIds /\ rows[r].key = k /\ rows[r].early
<1>1. CASE r \in RowIds
  BY <1>1, TablesStep, KeptByTables, RowIdsAreIndices, ConstantsAssumption
     DEF Inductive, TypeOK, RowsOK
<1>2. CASE r \notin RowIds
  <2>1. PICK e \in Events : Persist(e) \/ PersistUnseen(e)
    BY <1>2, RowsGrow DEF RowIds
  <2>2. rows'[r] = StoredRow(e)
    BY <1>2, <2>1, StoredWebhook
  <2>3. KeyOf[e] = k /\ StillMerges(k)
    BY <2>2, StoredFields
  <2> QED
    BY <2>3 DEF StillMerges
<1> QED
  BY <1>1, <1>2

LEMMA CoversStep ==
  ASSUME Inductive, [Next]_vars
  PROVE  DispatchCoversWindow'
<1> SUFFICES ASSUME NEW k \in Keys, groups'[k].status = "dispatched",
                    NEW r \in RowIds', rows'[r].key = k, rows'[r].early
             PROVE  rows'[r].sent /\ rows'[r].carried
  BY DEF DispatchCoversWindow
<1>1. CASE groups[k].status = "dispatched"
  <2>1. k \notin open
    BY <1>1 DEF Inductive, WindowOK
  <2>2. r \in RowIds /\ rows[r].key = k /\ rows[r].early
    BY <1>1, <2>1, NoLateEarlyRow
  <2>3. rows[r].sent /\ rows[r].carried
    BY <1>1, <2>2 DEF Inductive, DispatchCoversWindow
  <2> QED
    BY <2>2, <2>3, TablesStep, KeptByTables
<1>2. CASE groups[k].status # "dispatched"
  <2>1. PICK s \in Slots : EndsCall(k, s)
    BY <1>2, UnitMoves DEF ClaimedNow
  <2>2. /\ tasks[s].pc = "calling" /\ tasks[s].item.key = k
        /\ rows' = DispatchedRows(tasks[s].members, tasks[s].row, TRUE)
    BY <1>2, <2>1 DEF EndsCall
  <2>3. k # NoKey /\ k \notin open /\ groups[k].status # "absent"
    BY <2>2, ConstantsAssumption DEF Inductive, WindowOK, ItemsOK, ItemOK
  <2>4. r \in RowIds /\ rows[r].key = k /\ rows[r].early
    BY <2>3, NoLateEarlyRow
  <2>5. r \in tasks[s].members
    BY <2>2, <2>3, <2>4 DEF Inductive, WindowOK
  <2> QED
    BY <2>2, <2>4, <2>5, DispatchedTable DEF Inductive, TypeOK
<1> QED
  BY <1>1, <1>2

LEMMA WindowStep ==
  ASSUME Inductive, [Next]_vars
  PROVE  WindowOK'
<1>1. /\ groups \in [Keys -> Group] /\ groups' \in [Keys -> Group] /\ open' \subseteq Keys
      /\ tasks \in [Slots -> Task \cup {Free}] /\ queue \in Seq(Item)
      /\ MessageKeys \subseteq Keys /\ NoKey \notin Keys
  BY TablesStep, ConstantsAssumption DEF Inductive, TypeOK, TablesExtend, ClaimsExtend
<1>2. /\ open \subseteq MessageKeys
      /\ \A k \in open : groups[k].status = "pending"
      /\ \A s \in Slots : tasks[s].pc # "free" => tasks[s].item.key \notin open
  BY DEF Inductive, WindowOK
<1>3. open' \subseteq MessageKeys /\ \A k \in open' : groups'[k].status = "pending"
  <2> SUFFICES ASSUME NEW k \in open'
               PROVE  k \in MessageKeys /\ groups'[k].status = "pending"
    OBVIOUS
  <2>1. k \in Keys
    BY <1>1
  <2>2. CASE groups'[k] = groups[k] /\ k \in open
    BY <1>2, <2>2
  <2>3. CASE ClaimedNow(k)
    BY <2>3 DEF ClaimedNow
  <2>4. ASSUME NEW s \in Slots, EndsCall(k, s)
        PROVE  FALSE
    BY <1>2, <2>4 DEF EndsCall
  <2> QED
    BY <2>1, <2>2, <2>3, <2>4, UnitMoves
\* A unit of which an item exists is claimed, so its window never opens again
<1>4. ASSUME NEW item \in Item, ItemFits(item, rows, groups), item.key \notin open
      PROVE  item.key \notin open'
  <2>1. CASE item.key = NoKey
    BY <1>1, <2>1
  <2>2. CASE item.key # NoKey
    <3>1. item.key \in Keys /\ groups[item.key].status # "absent"
      BY <1>4, <2>2 DEF Item, Key, ItemFits
    <3> QED
      BY <1>4, <3>1, UnitMoves DEF ClaimedNow, ClaimFree, EndsCall
  <2> QED
    BY <2>1, <2>2
<1>5. \A s \in Slots : tasks[s].pc # "free" =>
         /\ tasks[s].item \in Item /\ ItemFits(tasks[s].item, rows, groups)
         /\ tasks[s].item.key \notin open'
  BY <1>1, <1>2, <1>4, ItemsUnfolded DEF Inductive, Task, Free
\* A run starts only where the window is closed
<1>6. ASSUME NEW s \in Slots, RunSpaceEvent(s)
      PROVE  Head(queue).key \notin open'
  <2>1. queue # <<>> /\ open' = open
    BY <1>6 DEF Inductive, CronOK, RunSpaceEvent, database
  <2> QED
    BY <1>2, <1>6, <2>1 DEF RunSpaceEvent, GroupIsSettling
\* A call reads every member there is
<1>7. ASSUME NEW s \in Slots, CallHermes(s),
             NEW r \in RowIds', rows'[r].key = tasks[s].item.key,
             tasks[s].item.key # NoKey
      PROVE  r \in tasks'[s].members
  <2>1. rows' = rows /\ r \in RowIds
    BY <1>7 DEF CallHermes, database, RowIds
  <2>2. \A q : r \in ResolveGroupEvents(tasks[s].item.key, q)
    BY <1>7, <2>1 DEF ResolveGroupEvents
  <2> QED
    BY <1>1, <1>7, <2>2 DEF CallHermes
\* and no row stored during the call counts as early
<1>8. ASSUME NEW s \in Slots, tasks[s].pc = "calling", tasks[s].item.key # NoKey,
             NEW r \in RowIds', rows'[r].key = tasks[s].item.key, rows'[r].early
      PROVE  r \in tasks[s].members
  <2> DEFINE k == tasks[s].item.key
  <2>1. k \in Keys /\ groups[k].status # "absent" /\ k \notin open
    BY <1>2, <1>5, <1>8 DEF ItemFits, Item, Key
  <2>2. r \in RowIds /\ rows[r].key = k /\ rows[r].early
    BY <1>8, <2>1, NoLateEarlyRow
  <2> QED
    BY <1>8, <2>2 DEF Inductive, WindowOK
<1> DEFINE TaskOK(t) ==
             /\ t.pc # "free" => t.item.key \notin open'
             /\ t.pc = "calling" /\ t.item.key # NoKey =>
                  \A r \in RowIds' : rows'[r].key = t.item.key /\ rows'[r].early =>
                     r \in t.members
<1>9. \A s \in Slots : TaskOK(tasks[s])
  BY <1>5, <1>8
<1>10. TaskOK(Free)
  BY DEF Free
<1>11. \A s \in Slots : TaskOK(tasks'[s])
  <2>1. CASE \A s \in Slots : tasks'[s] = tasks[s] \/ tasks'[s] = Free
    BY <1>9, <1>10, <2>1
  <2>2. ASSUME NEW s \in Slots, RunSpaceEvent(s)
        PROVE  \A t \in Slots : TaskOK(tasks'[t])
    <3>1. \A t \in Slots : \/ tasks'[t] = tasks[t]
                           \/ tasks'[t].pc = "ready" /\ tasks'[t].item = Head(queue)
      BY <1>1, <2>2 DEF RunSpaceEvent
    <3> QED
      BY <1>6, <1>9, <2>2, <3>1
  <2>4. ASSUME NEW s \in Slots, NoDispatchedSibling(s)
        PROVE  \A t \in Slots : TaskOK(tasks'[t])
    <3>1. \A t \in Slots : \/ tasks'[t] = tasks[t]
                           \/ /\ t = s /\ tasks'[t].pc = "checked"
                              /\ tasks'[t].item = tasks[t].item
      BY <1>1, <2>4 DEF NoDispatchedSibling
    <3>2. tasks[s].pc # "free"
      BY <2>4 DEF NoDispatchedSibling, Starting
    <3> QED
      BY <1>5, <1>9, <3>1, <3>2
  <2>3. ASSUME NEW s \in Slots, CallHermes(s)
        PROVE  \A t \in Slots : TaskOK(tasks'[t])
    <3>1. \A t \in Slots : tasks'[t] = tasks[t] \/ (t = s /\ tasks'[t].item = tasks[t].item)
      BY <1>1, <2>3 DEF CallHermes
    <3>2. tasks[s].pc # "free"
      BY <2>3 DEF CallHermes
    <3> QED
      BY <1>5, <1>7, <1>9, <2>3, <3>1, <3>2
  <2> QED
    BY <2>1, <2>2, <2>3, <2>4, TasksFrame
<1> QED
  BY <1>3, <1>11 DEF WindowOK

-----------------------------------------------------------------------------
(* What is stamped as sent *)

SameUnit(q, r) ==
    KeyOf[rows[q].event] = KeyOf[rows[r].event] /\ KeyOf[rows[r].event] # NoKey

\* A row is stamped by the call that carried it, or on the word of a sibling
LEMMA WhoStamps ==
  ASSUME Inductive, [Next]_vars,
         NEW r \in RowIds, ~rows[r].sent, rows'[r].sent
  PROVE  rows'[r].carried \/ \E q \in RowIds : rows[q].sent /\ SameUnit(q, r)
<1>1. rows \in Seq(Row)
  BY DEF Inductive, TypeOK
\* A mark stamps its own row only, and only when it is told to
<1>2. ASSUME NEW x \in RowIds, NEW k \in Key, NEW handled \in BOOLEAN,
             rows[x].key = NoKey => k \in {NoKey, KeyOf[rows[x].event]},
             \E ok \in Commits : rows' = IfCommitted(ok, MarkedDuplicate(x, k, handled), rows)
      PROVE  r = x /\ handled
  <2>1. rows' = MarkedDuplicate(x, k, handled)
    BY <1>2 DEF IfCommitted
  <2> QED
    BY <1>1, <1>2, <2>1, MarkedRows
<1>3. CASE RecordDuplicateMember
  BY <1>2, <1>3, HandledRow DEF RecordDuplicateMember, Key
<1>4. CASE RecoveryLosesClaim \/ MarkMember
  <2>1. rec.at \in RowIds /\ Unit \in Keys /\ Unit = rows[rec.at].key
    BY <1>4, ScannedRow DEF RecoveryLosesClaim, MarkMember, AtRow, InThread
  <2> QED
    BY <1>2, <1>4, <2>1, ConstantsAssumption DEF RecoveryLosesClaim, MarkMember, Key
<1>5. ASSUME NEW s \in Slots, SkipIfUnitAlreadyDispatched(s) \/ SkipIfLegacyDispatched(s)
      PROVE  \E q \in RowIds : rows[q].sent /\ SameUnit(q, r)
  <2>1. PICK x \in RowIds :
          LET k == GuardKey(tasks[s].item, x)
          IN  /\ k \in Key /\ k = KeyOf[rows[x].event]
              /\ MarkSkipped(s, x)
              /\ DispatchedSibling(k, x) \/ LegacyDispatchedSibling(k, x)
    BY <1>5, StartedRow, CheckedRow
       DEF SkipIfUnitAlreadyDispatched, SkipIfLegacyDispatched, LegacyUnit
  <2> DEFINE k == GuardKey(tasks[s].item, x)
  <2>2. r = x
    BY <1>2, <2>1 DEF MarkSkipped
  <2>3. k # NoKey
    BY <2>1, ConstantsAssumption DEF DispatchedSibling, LegacyDispatchedSibling
  <2>4. PICK q \in RowIds : rows[q].sent /\ (rows[q].key = k \/ KeyOf[rows[q].event] = k)
    BY <2>1 DEF DispatchedSibling, LegacyDispatchedSibling
  <2>5. KeyOf[rows[q].event] = k
    BY <2>3, <2>4 DEF Inductive, RowsOK
  <2> QED
    BY <2>1, <2>2, <2>3, <2>4, <2>5 DEF SameUnit
<1>6. CASE MarkAlreadyDispatched
  <2>1. rec.at \in RowIds /\ Unit \in Keys /\ Unit = rows[rec.at].key
    BY <1>6, ScannedRow DEF MarkAlreadyDispatched, AtRow, InThread
  <2>2. r = rec.at
    BY <1>2, <1>6, <2>1, ConstantsAssumption DEF MarkAlreadyDispatched, Unit, Key
  <2>3. PICK q \in RowIds : rows[q].sent /\ rows[q].key = Unit
    BY <1>6 DEF MarkAlreadyDispatched, DispatchedSibling, Unit
  <2> QED
    BY <2>1, <2>2, <2>3, ConstantsAssumption DEF Inductive, RowsOK, SameUnit
<1>7. ASSUME NEW s \in Slots, HermesAnswers(s)
      PROVE  rows'[r].carried
  <2>1. PICK ok \in BOOLEAN : rows' = DispatchedRows(tasks[s].members, tasks[s].row, ok)
    BY <1>7 DEF HermesAnswers, Commits
  <2> QED
    BY <1>1, <2>1, DispatchedTable
<1>8. ASSUME NEW s \in Slots, HermesFails(s)
      PROVE  FALSE
  <2>1. PICK ok \in BOOLEAN :
          rows' = IfCommitted(ok, FailedRows(ResolveGroupEvents(tasks[s].item.key,
                                                                tasks[s].row)), rows)
    BY <1>8 DEF HermesFails, Commits
  <2> QED
    BY <1>1, <2>1, FailedTable DEF IfCommitted
<1>9. CASE BackfillLegacyKeys
  BY <1>1, <1>9, BackfilledTable DEF BackfillLegacyKeys, IfCommitted
<1>14. ASSUME NEW s \in Slots, RecordRaises(s)
       PROVE  rows'[r].carried
  <2>1. PICK ok \in BOOLEAN :
          rows' = StampedAsFailed(tasks[s].members,
                                  ResolveGroupEvents(tasks[s].item.key, tasks[s].row), ok)
    BY <1>14 DEF RecordRaises
  <2> QED
    BY <1>1, <2>1, StampedTable
<1>10. ASSUME NEW e \in Events, Persist(e) \/ PersistUnseen(e)
       PROVE  FALSE
  BY <1>10, StoredWebhook
<1>11. CASE rows' = rows
  BY <1>11
<1>12. CASE \/ \E e \in Events : PersistFails(e)
            \/ Claim \/ ClaimFails \/ ClaimUnseen \/ Submit \/ CronStep
            \/ \E s \in Slots : \/ RunRaises(s) \/ DropMissing(s)
                               \/ NoDispatchedSibling(s) \/ CallHermes(s)
            \/ \E k \in Keys : CloseWindow(k)
            \/ LookbackElapses \/ Restart \/ UNCHANGED vars
  <2>1. rows' = rows
    BY <1>12
       DEF PersistFails, Claim, ClaimFails, ClaimUnseen, Refuse, Submit, CronStep, CronTick,
           StatusUnavailable, Defer, DeferRaises, RunSpaceEvent, RunRaises, DropMissing,
           NoDispatchedSibling,
           CallHermes,
           CloseWindow, LookbackElapses, Restart, vars, database
  <2> QED
    BY <1>11, <2>1
<1>13. CASE RecoveryStep
  BY <1>4, <1>6, <1>9, <1>11, <1>13, RecoveryFrame
<1> QED
  BY <1>3, <1>5, <1>7, <1>8, <1>10, <1>12, <1>13, <1>14
     DEF Next, HandlerStep, TaskStarts, TaskEnds

LEMMA CarrierStep ==
  ASSUME Inductive, [Next]_vars
  PROVE  SentHasCarrier'
<1> SUFFICES ASSUME NEW r \in RowIds', rows'[r].sent
             PROVE  \/ rows'[r].carried
                    \/ \E q \in RowIds' :
                          /\ rows'[q].carried
                          /\ KeyOf[rows'[q].event] = KeyOf[rows'[r].event]
                          /\ KeyOf[rows'[r].event] # NoKey
  BY DEF SentHasCarrier
<1>1. r \in RowIds
  <2> SUFFICES ASSUME r \notin RowIds PROVE FALSE
    OBVIOUS
  <2>1. PICK e \in Events : Persist(e) \/ PersistUnseen(e)
    BY RowsGrow DEF RowIds
  <2>2. rows'[r] = StoredRow(e)
    BY <2>1, StoredWebhook
  <2> QED
    BY <2>2, StoredFields
\* The carrier of a stored row is still there
<1>2. ASSUME NEW q \in RowIds, rows[q].sent
      PROVE  \/ rows'[q].carried
             \/ \E p \in RowIds : rows'[p].carried /\ SameUnit(p, q)
  BY <1>2, TablesStep, KeptByTables DEF Inductive, SentHasCarrier, SameUnit
<1>3. \A q \in RowIds : q \in RowIds' /\ rows'[q].event = rows[q].event
  BY TablesStep, KeptByTables
<1>4. CASE rows[r].sent
  BY <1>1, <1>2, <1>3, <1>4 DEF SameUnit
<1>5. CASE ~rows[r].sent
  <2>1. CASE rows'[r].carried
    BY <2>1
  <2>2. CASE ~rows'[r].carried
    <3>1. PICK q \in RowIds : rows[q].sent /\ SameUnit(q, r)
      BY <1>1, <1>5, <2>2, WhoStamps
    <3>2. \E p \in RowIds : rows'[p].carried /\ SameUnit(p, r)
      BY <1>2, <3>1 DEF SameUnit
    <3> QED
      BY <1>1, <1>3, <3>2 DEF SameUnit
  <2> QED
    BY <2>1, <2>2
<1> QED
  BY <1>4, <1>5

-----------------------------------------------------------------------------
(* The theorems *)

LEMMA InitInductive == Init => Inductive
<1> SUFFICES ASSUME Init PROVE Inductive
  OBVIOUS
<1>1. /\ LegacyRows \in Seq([event : Events, sent : BOOLEAN])
      /\ Len(LegacyRows) \in Nat /\ DOMAIN LegacyRows = 1 .. Len(LegacyRows)
      /\ \A i \in DOMAIN LegacyRows : LegacyRows[i] \in [event : Events, sent : BOOLEAN]
  BY ConstantsAssumption, LenProperties, ElementOfSeq
<1>2. \A l \in [event : Events, sent : BOOLEAN] :
         /\ LegacyRow(l) \in Row
         /\ LegacyRow(l).key = NoKey /\ LegacyRow(l).early = FALSE
         /\ LegacyRow(l).sent = LegacyRow(l).carried
  BY DEF LegacyRow, Row, Key
<1>3. rows \in [1 .. Len(LegacyRows) -> Row]
  BY <1>1, <1>2 DEF Init
<1>4. rows \in Seq(Row) /\ RowIds = DOMAIN LegacyRows
  BY <1>1, <1>3, SeqDef DEF RowIds
<1>5. \A r \in RowIds : /\ rows[r].key = NoKey /\ rows[r].early = FALSE
                        /\ rows[r].sent = rows[r].carried
  BY <1>1, <1>2, <1>4 DEF Init
<1>6. \A e \in Events : Cardinality(LegacyIdsOf(e)) \in Nat
  <2> SUFFICES ASSUME NEW e \in Events PROVE Cardinality(LegacyIdsOf(e)) \in Nat
    OBVIOUS
  <2>1. IsFiniteSet(1 .. Len(LegacyRows))
    BY <1>1, FS_Interval
  <2>2. IsFiniteSet(LegacyIdsOf(e))
    BY <1>1, <2>1, FS_Subset DEF LegacyIdsOf
  <2> QED
    BY <2>2, FS_CardinalityType
<1>7. groups \in [Keys -> Group] /\ \A k \in Keys : groups[k].status = "absent"
  BY DEF Init, Group, NoRow
<1>8. rec \in Recovery /\ rec.pc = "scan" /\ rec.items = <<>>
  BY StartedType DEF Init, Started
<1>9. TypeOK
  BY <1>4, <1>6, <1>7, <1>8, EmptySeq DEF Init, TypeOK, IdleHandler, NoRow
<1>10. \A s \in Slots : tasks[s].pc = "free"
  BY DEF Init, Free
<1>11. RowsOK /\ SentHasCarrier
  BY <1>5 DEF RowsOK, SentHasCarrier
<1>12. ItemsOK
  BY <1>8, <1>10, EntriesOfEmpty, ItemsUnfolded DEF Init
<1>13. StartedOK /\ CronOK /\ HandlerOK /\ RecoveryOK
  BY <1>8, <1>10 DEF Init, StartedOK, CronOK, HandlerOK, IdleHandler, RecoveryOK
<1>14. WindowOK /\ DispatchCoversWindow
  BY <1>7, <1>10 DEF Init, WindowOK, DispatchCoversWindow
<1> QED
  BY <1>9, <1>11, <1>12, <1>13, <1>14 DEF Inductive

LEMMA StepInductive == Inductive /\ [Next]_vars => Inductive'
  BY TypeStep, RowsStep, ItemsStep, CheckedStep, CronStepOK, HandlerStepOK, RecoveryStepOK, WindowStep,
     CarrierStep, CoversStep
     DEF Inductive

\* Everything the bus keeps true at once, whatever fails and whoever interleaves
THEOREM InductiveInvariance == Spec => []Inductive
<1>1. Init => Inductive
  BY InitInductive
<1>2. Inductive /\ [Next]_vars => Inductive'
  BY StepInductive
<1> QED
  BY <1>1, <1>2, PTL DEF Spec

\* The tables, the queue, the tasks and the recovery hold what the code says
THEOREM TypeCorrectness == Spec => []TypeOK
<1>1. Inductive => TypeOK
  BY DEF Inductive
<1> QED
  BY <1>1, InductiveInvariance, PTL

\* A recorded dispatch carried every member stored before its window closed
\* (group_is_settling, resolve_group_events, record_group_dispatch)
THEOREM WindowIsCovered == Spec => []DispatchCoversWindow
<1>1. Inductive => DispatchCoversWindow
  BY DEF Inductive
<1> QED
  BY <1>1, InductiveInvariance, PTL

\* No row is stamped as sent unless Hermes answered a call with its unit
\* (_mark_row_duplicate, mark_already_dispatched, record_group_dispatch)
THEOREM SentIsCarried == Spec => []SentHasCarrier
<1>1. Inductive => SentHasCarrier
  BY DEF Inductive
<1> QED
  BY <1>1, InductiveInvariance, PTL

\* No late failure takes a dispatch back (record_group_failure)
THEOREM DispatchIsFinal == Spec => DispatchedIsFinal
<1>1. Inductive /\ [Next]_vars =>
        [\A k \in Keys :
            groups[k].status = "dispatched" => groups'[k].status = "dispatched"]_vars
  BY TablesStep DEF TablesExtend, ClaimsExtend, GroupExtends
<1> QED
  BY <1>1, InductiveInvariance, PTL DEF Spec, DispatchedIsFinal

=============================================================================
