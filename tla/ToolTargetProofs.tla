-------------------------- MODULE ToolTargetProofs --------------------------
(***************************************************************************)
(* Proofs about what the handlers of McpTools ask W-space for: that the    *)
(* second request of a call builds on the first, and that a record is      *)
(* found by its name whatever else W-space lists.                          *)
(***************************************************************************)
EXTENDS McpToolsProofs, FiniteSetTheorems, NaturalsInduction, WellFoundedInduction

-----------------------------------------------------------------------------
(* Two requests in one call: the second needs the answer to the first      *)

TargetFields == {"project", "room", "user", "file", "message"}

\* The inductive invariant: from the answer to its first request on, a call that
\* makes two knows the message it created
MessageKnown ==
    \A s \in Slots :
        /\ DOMAIN target[s] = TargetFields
        /\ sent[s] > 0 => sent[s] <= Len(Requests(s))
        /\ sent[s] = 2 \/ (sent[s] = 1 /\ wire[s] = "idle" /\ phase[s] = "working")
              => target[s].message = s

LEMMA ReplacedGiven ==
  ASSUME NEW args, NEW m, m # None, NEW wanted, "message_id" \in wanted
  PROVE  Given(Replaced(args, [message_id |-> m]), wanted)["message_id"] = m
<1> DEFINE changes == [message_id |-> m]
           f == Replaced(args, changes)
<1>1. DOMAIN changes = {"message_id"} /\ changes["message_id"] = m
  OBVIOUS
<1>2. "message_id" \in DOMAIN f /\ f["message_id"] = m
  BY <1>1 DEF Replaced
<1> HIDE DEF f
<1>3. Given(f, wanted)["message_id"] = m
  BY <1>2 DEF Given, Restrict
<1> QED
  BY <1>3 DEF f

\* The only plan of two requests is a message and the approval request about it
LEMMA PlanOfTwo ==
  ASSUME NEW tool, NEW args, NEW t, 2 <= Len(Plan(tool, args, t))
  PROVE  LET post == Plan(tool, args, t)[1]
             approval == Plan(tool, args, t)[2]
         IN /\ post.on = "messages" /\ approval.on = "approval_requests"
            /\ t.message # None => approval.fields["message_id"] = t.message
            /\ approval.room = post.room /\ approval.project = post.project
<1>1. Plan(tool, args, t) = ApprovalOfMessage(args, t)
  <2>1. CASE tool = "hello"
    <3>1. Len(Plan(tool, args, t)) = 0
      BY <2>1 DEF Plan
    <3> QED
      BY <3>1
  <2>2. CASE tool # "hello" /\ tool # "add_approve_request_with_message"
    <3>1. Len(Plan(tool, args, t)) = 1
      BY <2>2 DEF Plan
    <3> QED
      BY <3>1
  <2>3. CASE tool = "add_approve_request_with_message"
    BY <2>3 DEF Plan
  <2> QED
    BY <2>1, <2>2, <2>3
<1> DEFINE given == Replaced(args, [message_id |-> t.message])
<1>2. /\ ApprovalOfMessage(args, t)[1] = AddMessage(args, t)
      /\ ApprovalOfMessage(args, t)[2] = AddApproval(given, t)
  BY DEF ApprovalOfMessage
<1> HIDE DEF given
<1>3. /\ AddMessage(args, t).on = "messages"
      /\ AddMessage(args, t).room = t.room /\ AddMessage(args, t).project = t.project
  BY DEF AddMessage, CreateOf, Call, Request, Messages, Place
<1>4. /\ AddApproval(given, t).on = "approval_requests"
      /\ AddApproval(given, t).room = t.room /\ AddApproval(given, t).project = t.project
      /\ AddApproval(given, t).fields = Given(given, Approvals.creates)
  BY DEF AddApproval, CreateOf, Call, Request, Approvals, Collection, Place
<1>5. "message_id" \in Approvals.creates
  BY DEF Approvals, Collection
<1>6. t.message # None => Given(given, Approvals.creates)["message_id"] = t.message
  BY <1>5, ReplacedGiven DEF given
<1> QED
  BY <1>1, <1>2, <1>3, <1>4, <1>6

\* A step of the call keeps what it knows unless it sends a request or learns an answer
LEMMA KnowsAsBefore ==
  ASSUME Calls, MessageKnown, message' = message, sent' = sent,
         \A s \in Slots :
            /\ DOMAIN target'[s] = TargetFields
            /\ sent[s] > 0 => target'[s] = target[s]
            /\ phase'[s] = "working" /\ wire'[s] = "idle" /\ sent[s] > 0
                  => phase[s] = "working" /\ wire[s] = "idle"
  PROVE  MessageKnown'
<1> SUFFICES ASSUME NEW s \in Slots
             PROVE  /\ sent[s] > 0 => sent[s] <= Len(Requests(s)')
                    /\ sent[s] = 2 \/ (sent[s] = 1 /\ wire'[s] = "idle" /\ phase'[s] = "working")
                          => target'[s].message = s
  BY DEF MessageKnown
<1>1. sent[s] \in Nat
  BY DEF Calls, TypeOK
<1>2. Len(Requests(s)') = Len(Requests(s))
  BY PlanLength DEF Requests, Tool, Args
<1> QED
  BY <1>1, <1>2 DEF MessageKnown

LEMMA StepKeepsKnown ==
  ASSUME Calls, MessageKnown, NEW s \in Slots, Step(s)
  PROVE  MessageKnown'
<1> USE DEF Calls
<1>0. target = [r \in Slots |-> target[r]] /\ \A r \in Slots : DOMAIN target[r] = TargetFields
  BY DEF Domains, MessageKnown
<1>1. CASE AnswerMessage(s) \/ UnknownTool(s) \/ MissesParameter(s) \/ FindsNothing(s) \/ HasNoFile(s)
           \/ LookupFails(s) \/ RefusesCall(s) \/ NeedsNothing(s) \/ Refuse(s) \/ Lose(s)
           \/ LastReply(s) \/ ReplyUnreadable(s)
  <2>1. PICK result : Ends(s, result)
    BY <1>1 DEF AnswerMessage, UnknownTool, MissesParameter, FindsNothing, HasNoFile, LookupFails,
                RefusesCall, NeedsNothing, Refuse, Lose, LastReply, ReplyUnreadable, Raises, Succeeds
  <2>2. /\ message' = message /\ sent' = sent /\ target' = target
        /\ \A r \in Slots : phase'[r] = "working" => r # s
        /\ \A r \in Slots : r # s => phase'[r] = phase[r] /\ wire'[r] = wire[r]
    BY <2>1 DEF Ends, world, TypeOK
  <2> QED
    BY <1>0, <2>2, KnowsAsBefore
<1>2. CASE CallTool(s)
  <2>1. /\ message' = message /\ sent' = sent /\ target' = target /\ wire' = wire
        /\ sent[s] = 0
        /\ \A r \in Slots : r # s => phase'[r] = phase[r]
    BY <1>2 DEF CallTool, world, TypeOK, Progress
  <2> QED
    BY <1>0, <2>1, KnowsAsBefore
<1>3. CASE LookUp(s) \/ SearchFails(s)
  <2>1. sent[s] = 0
    BY <1>3, LookingUp DEF LookUp, SearchFails
  <2>2. PICK field, found : target' = [target EXCEPT ![s][field] = found]
    <3>1. CASE LookUp(s)
      BY <3>1 DEF LookUp
    <3>2. CASE SearchFails(s)
      BY <3>2 DEF SearchFails
    <3> QED
      BY <1>3, <3>1, <3>2
  <2>3. \A r \in Slots : DOMAIN target'[r] = TargetFields /\ (r # s => target'[r] = target[r])
    BY <1>0, <2>2
  <2>4. message' = message /\ sent' = sent /\ phase' = phase /\ wire' = wire
    BY <1>3 DEF LookUp, SearchFails, world
  <2> QED
    BY <2>1, <2>3, <2>4, KnowsAsBefore
<1>4. CASE Serve(s)
  <2>1. /\ message' = message /\ sent' = sent /\ phase' = phase /\ target' = target
        /\ \A r \in Slots : wire'[r] = "idle" => wire[r] = "idle"
    BY <1>4 DEF Serve, world, TypeOK
  <2> QED
    BY <1>0, <2>1, KnowsAsBefore
<1>5. CASE SendRequest(s)
  <2>1. /\ phase[s] = "working" /\ wire[s] = "idle" /\ sent[s] \in Nat /\ sent[s] < Len(Requests(s))
        /\ sent'[s] = sent[s] + 1 /\ wire'[s] = "sent"
        /\ message' = message /\ target' = target /\ phase' = phase
        /\ \A r \in Slots : r # s => sent'[r] = sent[r] /\ wire'[r] = wire[r]
    BY <1>5 DEF SendRequest, Ready, world, TypeOK
  <2>2. \A r \in Slots : Requests(r)' = Requests(r)
    BY <2>1 DEF Requests, Tool, Args
  <2>3. Len(Requests(s)) \in Nat
    BY PlanLength DEF Requests
  <2>4. sent'[s] > 0 => sent'[s] <= Len(Requests(s)')
    BY <2>1, <2>2, <2>3
  <2>5. sent'[s] = 2 => target'[s].message = s
    BY <2>1 DEF MessageKnown
  <2>6. ~(wire'[s] = "idle")
    BY <2>1
  <2> QED
    BY <1>0, <2>1, <2>2, <2>4, <2>5, <2>6 DEF MessageKnown
<1>6. CASE Reply(s)
  <2>1. /\ message' = message /\ sent' = sent /\ phase' = phase
        /\ target' = [target EXCEPT ![s].message = s]
        /\ \A r \in Slots : r # s => wire'[r] = wire[r]
    BY <1>6 DEF Reply, world, TypeOK
  <2>2. /\ target'[s].message = s
        /\ \A r \in Slots : DOMAIN target'[r] = TargetFields /\ (r # s => target'[r] = target[r])
    BY <1>0, <2>1 DEF TargetFields
  <2>3. \A r \in Slots : Len(Requests(r)') = Len(Requests(r))
    BY <2>1, PlanLength DEF Requests, Tool, Args
  <2> QED
    BY <2>1, <2>2, <2>3 DEF MessageKnown
<1> QED
  BY <1>1, <1>2, <1>3, <1>4, <1>5, <1>6 DEF Step

LEMMA KnownInvariant ==
  Spec => []MessageKnown
<1>1. Init => MessageKnown
  BY DEF Init, MessageKnown, Unknown, TargetFields
<1>2. Calls /\ MessageKnown /\ [Next]_vars => MessageKnown'
  <2> SUFFICES ASSUME Calls, MessageKnown, [Next]_vars PROVE MessageKnown'
    OBVIOUS
  <2>1. ASSUME NEW s \in Slots, Step(s) PROVE MessageKnown'
    BY <2>1, StepKeepsKnown
  <2>2. ASSUME NEW s \in Slots, ServeLate(s) PROVE MessageKnown'
    BY <2>2, KnowsAsBefore DEF ServeLate, MessageKnown
  <2>3. CASE Restart
    <3>1. message' = message /\ sent' = sent /\ target' = target
      BY <2>3 DEF Restart
    <3>2. \A s \in Slots : phase'[s] # "working"
      BY <2>3 DEF Restart
    <3> QED
      BY <3>1, <3>2, KnowsAsBefore DEF MessageKnown
  <2>4. CASE UNCHANGED vars
    BY <2>4, KnowsAsBefore DEF vars, MessageKnown
  <2> QED
    BY <2>1, <2>2, <2>3, <2>4 DEF Next
<1> QED
  BY <1>1, <1>2, CallsInvariant, PTL DEF Spec

\* The approval request of add_approve_request_with_message is made only once its
\* message is there, names it, and is in the message's room, for every message, every
\* argument and whatever is lost on the way (tools.py:2107, ApprovalFollowsMessage)
THEOREM ApprovalsFollowMessages ==
  Spec => []ApprovalFollowsMessage
<1>1. Calls /\ MessageKnown => ApprovalFollowsMessage
  <2> SUFFICES ASSUME Calls, MessageKnown, NEW s \in Slots, sent[s] = 2
               PROVE  LET post == Requests(s)[1]
                          approval == Requests(s)[2]
                      IN /\ served[s] >= 1
                         /\ post.on = "messages" /\ approval.on = "approval_requests"
                         /\ approval.fields["message_id"] = s
                         /\ approval.room = post.room /\ approval.project = post.project
    BY DEF ApprovalFollowsMessage
  <2>1. served[s] >= 1
    BY DEF Calls, TypeOK
  <2>2. 2 <= Len(Requests(s)) /\ target[s].message = s
    BY DEF MessageKnown
  <2>3. target[s].message # None
    BY <2>2, SlotAssumption
  <2> QED
    BY <2>1, <2>2, <2>3, PlanOfTwo DEF Requests
<1> QED
  BY <1>1, CallsInvariant, KnownInvariant, PTL

-----------------------------------------------------------------------------
(* Names: a score is highest for names of the same words                   *)

LEMMA ShareOfWhole ==
  ASSUME NEW part \in Nat, NEW whole \in Nat, whole > 0, part <= whole
  PROVE  /\ (1000 * part) \div whole \in 0 .. 1000
         /\ (1000 * part) \div whole = 1000 => part = whole
  OBVIOUS

LEMMA OverlapOfWords ==
  ASSUME NEW q \in Range(Normal) \ {Blank}, NEW c \in Range(Normal) \ {Blank}
  PROVE  Overlap(q, c) \in 0 .. 1000 /\ (Overlap(q, c) = 1000 => WordsOf[q] = WordsOf[c])
<1> DEFINE A == WordsOf[q]
           B == WordsOf[c]
<1>1. IsFiniteSet(A) /\ IsFiniteSet(B) /\ A # {} /\ B # {}
  BY WordsAssumption
<1> HIDE DEF A, B
<1>2. IsFiniteSet(A \cup B) /\ A \cap B \in SUBSET (A \cup B)
  BY <1>1, FS_Union
<1>3. /\ IsFiniteSet(A \cap B) /\ Cardinality(A \cap B) <= Cardinality(A \cup B)
      /\ Cardinality(A \cup B) = Cardinality(A \cap B) => A \cup B = A \cap B
  BY <1>2, FS_Subset
<1>4. Cardinality(A \cap B) \in Nat /\ Cardinality(A \cup B) \in Nat
  BY <1>2, <1>3, FS_CardinalityType
<1>5. Cardinality(A \cup B) # 0
  BY <1>1, <1>2, FS_EmptySet
<1>6. Overlap(q, c) = (1000 * Cardinality(A \cap B)) \div Cardinality(A \cup B)
  BY DEF Overlap, A, B
<1>7. Overlap(q, c) \in 0 .. 1000 /\ (Overlap(q, c) = 1000 => Cardinality(A \cap B) = Cardinality(A \cup B))
  <2> DEFINE part == Cardinality(A \cap B)
             whole == Cardinality(A \cup B)
  <2>1. part \in Nat /\ whole \in Nat /\ whole > 0 /\ part <= whole
    BY <1>3, <1>4, <1>5
  <2> HIDE DEF part, whole
  <2>2. /\ (1000 * part) \div whole \in 0 .. 1000
        /\ (1000 * part) \div whole = 1000 => part = whole
    BY <2>1, ShareOfWhole
  <2> QED
    BY <1>6, <2>2 DEF part, whole
<1>8. A \cup B = A \cap B => A = B
  OBVIOUS
<1> QED
  BY <1>3, <1>7, <1>8 DEF A, B

\* No score is above that of an equal name, and only names of the same words reach it
LEMMA ScoreOfNames ==
  ASSUME NEW query \in DOMAIN Normal, NEW candidate \in DOMAIN Normal
  PROVE  /\ Score(query, candidate) \in 0 .. 1000
         /\ Score(query, candidate) = 1000 => SameWords(query, candidate)
         /\ Normal[query] # Blank /\ query = candidate => Score(query, candidate) = 1000
<1> DEFINE q == Normal[query]
           c == Normal[candidate]
<1>0. q \in Range(Normal) /\ c \in Range(Normal)
  BY DEF Range
<1>1. CASE q = Blank \/ c = Blank
  BY <1>1 DEF Score
<1>2. CASE q # Blank /\ c # Blank /\ q = c
  BY <1>2 DEF Score, SameWords
<1>3. CASE q # Blank /\ c # Blank /\ q # c /\ (q \in Contains[c] \/ c \in Contains[q])
  BY <1>3 DEF Score
<1>4. CASE q # Blank /\ c # Blank /\ q # c /\ ~(q \in Contains[c] \/ c \in Contains[q])
  <2>1. Score(query, candidate) = Larger(Ratio[<<q, c>>], Overlap(q, c))
    BY <1>4 DEF Score
  <2>2. Ratio[<<q, c>>] \in 0 .. 999
    BY <1>0, <1>4, RatioAssumption
  <2>3. Overlap(q, c) \in 0 .. 1000 /\ (Overlap(q, c) = 1000 => WordsOf[q] = WordsOf[c])
    BY <1>0, <1>4, OverlapOfWords
  <2> QED
    BY <1>4, <2>1, <2>2, <2>3 DEF Larger, SameWords
<1> QED
  BY <1>1, <1>2, <1>3, <1>4

LEMMA MinOfPositions ==
  ASSUME NEW S, S \subseteq Nat, S # {}
  PROVE  Min(S) \in S
<1>1. PICK m \in S : \A k \in S : <<k, m>> \notin OpToRel(<, Nat)
  BY WFMin, NatLessThanWellFounded, Zenon
<1>2. \A k \in S : ~(k < m)
  BY <1>1, Zenon DEF OpToRel
<1>3. \A k \in S : m =< k
  BY <1>2
<1> QED
  BY <1>3 DEF Min

\* Among records one of which bears the name, the pick bears a name of the same words
LEMMA PickOfExactName ==
  ASSUME NEW R, NEW records, DOMAIN records \subseteq Nat, \A i \in DOMAIN records : records[i] \in R,
         NEW name, \A r \in R : name[r] \in DOMAIN Normal,
         NEW listed, NEW e \in Range(records), e \in listed, Normal[name[e]] # Blank
  PROVE  LET found == PickBestMatch(name[e], records, listed, name)
         IN found \in R /\ SameWords(name[e], name[found])
<1> DEFINE score == [i \in DOMAIN records |-> Score(name[e], name[records[i]])]
           among == {i \in DOMAIN records : records[i] \in listed}
           best == {i \in among : \A j \in among : score[j] <= score[i]}
<1>1. PICK x \in DOMAIN records : records[x] = e
  BY DEF Range
<1>2. \A i \in among : /\ score[i] = Score(name[e], name[records[i]])
                       /\ score[i] \in 0 .. 1000
                       /\ score[i] = 1000 => SameWords(name[e], name[records[i]])
  BY <1>1, ScoreOfNames
<1>3. x \in among /\ score[x] = 1000
  BY <1>1, ScoreOfNames
<1>4. among \subseteq DOMAIN records
  OBVIOUS
<1> HIDE DEF score
<1>5. best # {} /\ best \subseteq among /\ \A i \in best : score[i] = 1000
  <2>1. x \in best
    <3>1. ASSUME NEW j \in among PROVE score[j] <= score[x]
      <4>1. score[j] \in 0 .. 1000
        BY <1>2
      <4> QED
        BY <1>3, <4>1
    <3> QED
      BY <1>3, <3>1
  <2>2. ASSUME NEW i \in best PROVE i \in among /\ score[x] <= score[i]
    BY <1>3
  <2>3. ASSUME NEW i \in best PROVE score[i] = 1000
    <3>1. i \in among /\ 1000 <= score[i]
      BY <1>3, <2>2
    <3>2. score[i] \in 0 .. 1000
      BY <1>2, <3>1
    <3> QED
      BY <3>1, <3>2
  <2> QED
    BY <2>1, <2>2, <2>3
<1>6. ~\E i \in best : score[i] < Threshold
  BY <1>5 DEF Threshold
<1>7. PickBestMatch(name[e], records, listed, name) = records[Min(best)]
  <2> DEFINE highest == {i \in among : \A j \in among :
                            Score(name[e], name[records[j]]) <= Score(name[e], name[records[i]])}
  <2>1. highest = best
    BY <1>2
  <2>2. ~\E i \in highest : Score(name[e], name[records[i]]) < Threshold
    BY <1>2, <1>6, <2>1
  <2>3. PickBestMatch(name[e], records, listed, name) = records[Min(highest)]
    BY <1>5, <2>1, <2>2 DEF PickBestMatch
  <2> QED
    BY <2>1, <2>3
<1>8. Min(best) \in best
  BY <1>4, <1>5, MinOfPositions
<1> HIDE DEF best
<1> QED
  BY <1>2, <1>4, <1>5, <1>7, <1>8

-----------------------------------------------------------------------------
(* Lookups by name *)

\* What the records are called is fixed, and the fuzzy match can read it
NamesKnown == \A r \in Records : names[r] \in DOMAIN Normal

LEMMA ListedRecords ==
  ASSUME NEW project
  PROVE  /\ DOMAIN Projects \subseteq Nat /\ \A i \in DOMAIN Projects : Projects[i] \in Records
         /\ DOMAIN Rooms(project) \subseteq Nat
         /\ \A i \in DOMAIN Rooms(project) : Rooms(project)[i] \in Records
         /\ DOMAIN People(project) \subseteq Nat
         /\ \A i \in DOMAIN People(project) : People(project)[i] \in Records
<1>1. ASSUME NEW list \in Seq(Records)
      PROVE  DOMAIN list \subseteq Nat /\ \A i \in DOMAIN list : list[i] \in Records
  OBVIOUS
<1>2. Rooms(project) \in Seq(Records)
  BY ListAssumption DEF Rooms
<1>3. People(project) \in Seq(Records)
  <2>1. CASE project \in DOMAIN PeopleOf
    <3> DEFINE all == PeopleOf[project]
               end == Least(PageSize, Len(all))
    <3>1. all \in Seq(Records)
      BY <2>1, ListAssumption
    <3>2. end \in Int /\ \A i \in 1 .. end : all[i] \in Records
      <4>1. Len(all) \in Nat /\ PageSize \in Nat
        BY <3>1, PageAssumption
      <4>2. end \in Nat /\ end <= Len(all)
        BY <4>1 DEF Least
      <4>3. \A i \in 1 .. Len(all) : all[i] \in Records
        BY <3>1
      <4> QED
        BY <4>1, <4>2, <4>3
    <3> HIDE DEF all, end
    <3>3. SubSeq(all, 1, end) \in Seq(Records)
      BY <3>2, SubSeqProperties
    <3> QED
      BY <2>1, <3>3 DEF People, all, end
  <2>2. CASE project \notin DOMAIN PeopleOf
    BY <2>2 DEF People
  <2> QED
    BY <2>1, <2>2
<1> QED
  BY <1>1, <1>2, <1>3, ListAssumption

\* A lookup goes by the name given: whichever records W-space answers with, if one of
\* them bears it
LEMMA ByName ==
  ASSUME NamesKnown, NEW args, NEW id, NEW name, ~Has(args, id), Has(args, name),
         NEW records, DOMAIN records \subseteq Nat, \A i \in DOMAIN records : records[i] \in Records,
         NEW answers, NEW e \in Range(records), \A listed \in answers : e \in listed,
         names[e] = args[name], Normal[args[name]] # Blank,
         NEW found \in ById(args, id, name, records, answers)
  PROVE  found # None /\ SameWords(args[name], names[found])
<1>1. PICK listed \in answers : found = PickBestMatch(names[e], records, listed, names)
  BY DEF ById
<1>2. found \in Records /\ SameWords(names[e], names[found])
  BY <1>1, PickOfExactName DEF NamesKnown
<1> QED
  BY <1>2, RecordAssumption

LEMMA ExactNamesWin ==
  NamesKnown => ExactNameWins
<1> SUFFICES ASSUME NamesKnown, NEW s \in Slots,
                    Head(todo[s]) \in {"project", "room", "user", "sender"}, AsksFor(s),
                    Normal[NamedIn(s).text] # Blank,
                    NEW e \in NamedIn(s).of, names[e] = NamedIn(s).text,
                    NEW found \in Found(s)
             PROVE  found # None /\ SameWords(NamedIn(s).text, names[found])
  BY DEF ExactNameWins
<1> DEFINE args == Args(s)
           project == target[s].project
<1> HIDE DEF args
<1>1. CASE Head(todo[s]) = "project"
  <2>1. ~Has(args, "project_id") /\ Has(args, "project_name")
    BY <1>1 DEF AsksFor, args
  <2>2. NamedIn(s).text = args["project_name"] /\ NamedIn(s).of = Range(Projects)
    BY <1>1 DEF NamedIn, args
  <2>3. found \in ById(args, "project_id", "project_name", Projects, {Range(Projects)})
    BY <1>1 DEF Found, PickProject, args
  <2> QED
    BY <2>1, <2>2, <2>3, ListedRecords, ByName
<1>2. CASE Head(todo[s]) = "room"
  <2>1. ~Has(args, "room_id") /\ Has(args, "room_name")
    BY <1>2 DEF AsksFor, args
  <2>2. NamedIn(s).text = args["room_name"] /\ NamedIn(s).of = Range(Rooms(project))
    BY <1>2 DEF NamedIn, args
  <2>3. found \in ById(args, "room_id", "room_name", Rooms(project), RoomAnswers(project, args["room_name"]))
    BY <1>2 DEF Found, PickRoom, args
  <2>4. \A listed \in RoomAnswers(project, args["room_name"]) : e \in listed
    BY <2>2 DEF RoomAnswers
  <2> QED
    BY <2>1, <2>2, <2>3, <2>4, ListedRecords, ByName
<1>3. CASE Head(todo[s]) = "user" \/ (Head(todo[s]) = "sender" /\ Has(args, "user_name"))
  <2>1. ~Has(args, "user_id") /\ Has(args, "user_name")
    BY <1>3 DEF AsksFor, args
  <2>2. NamedIn(s).text = args["user_name"] /\ NamedIn(s).of = Range(People(project))
    BY <1>3, <2>1 DEF NamedIn, args
  <2>3. HasAny(args, {"user_id", "user_name"})
    BY <2>1 DEF HasAny, Has
  <2>4. found \in ById(args, "user_id", "user_name", People(project), {Range(People(project))})
    BY <1>3, <2>3 DEF Found, PickUser, PickSender, args
  <2> QED
    BY <2>1, <2>2, <2>4, ListedRecords, ByName
<1>4. CASE Head(todo[s]) = "sender" /\ ~Has(args, "user_name")
  <2>1. ~Has(args, "user_id") /\ ~Has(args, "bot_id") /\ Has(args, "bot_name")
    BY <1>4 DEF AsksFor, args
  <2>2. /\ NamedIn(s).text = args["bot_name"]
        /\ NamedIn(s).of = Range(People(project)) \cap Bots
    BY <1>4 DEF NamedIn, args
  <2>3. ~HasAny(args, {"user_id", "user_name"})
    BY <1>4, <2>1 DEF HasAny, Has
  <2>4. found \in ById(args, "bot_id", "bot_name", People(project), {Bots})
    BY <1>4, <2>3 DEF Found, PickBot, PickSender, args
  <2> QED
    <3>1. e \in Range(People(project)) /\ \A listed \in {Bots} : e \in listed
      BY <2>2
    <3>2. names[e] = args["bot_name"] /\ Normal[args["bot_name"]] # Blank
      BY <2>2
    <3> QED
      BY <2>1, <2>2, <2>4, <3>1, <3>2, ListedRecords, ByName
<1> QED
  BY <1>1, <1>2, <1>3, <1>4

\* When a record bears exactly the name given, the lookup finds one of the same words,
\* whatever else W-space lists, whatever the ratios of its names, and however its search
\* answers (mcp/helpers.py:56, ExactNameWins)
THEOREM ExactNamesAreFound ==
  Spec => []ExactNameWins
<1>1. Init => NamesKnown
  BY RecordAssumption DEF Init, NamesKnown
<1>2. NamesKnown /\ [Next]_vars => NamesKnown'
  <2>1. Next => names' = names
    <3> SUFFICES ASSUME Next PROVE names' = names
      OBVIOUS
    <3>1. CASE Restart
      BY <3>1 DEF Restart
    <3>2. ASSUME NEW s \in Slots, Step(s) \/ ServeLate(s) PROVE names' = names
      BY <3>2 DEF Step, ServeLate, AnswerMessage, UnknownTool, MissesParameter, CallTool, LookUp,
                  FindsNothing, HasNoFile, SearchFails, LookupFails, RefusesCall, NeedsNothing,
                  SendRequest, Serve, Refuse, Lose, Reply, LastReply, ReplyUnreadable, Succeeds,
                  Raises, Ends, world
    <3> QED
      BY <3>1, <3>2 DEF Next
  <2> QED
    BY <2>1 DEF NamesKnown, vars
<1> QED
  BY <1>1, <1>2, ExactNamesWin, PTL DEF Spec

=============================================================================
