---------------------------- MODULE ArrivalProofs ----------------------------
(***************************************************************************)
(* Proof that no handler drops an argument on the way from its schema to   *)
(* W-space: what was looked up is what was named, and every argument of    *)
(* every tool has its place in what the tool writes.                       *)
(***************************************************************************)
EXTENDS CatalogProofs

-----------------------------------------------------------------------------
(* The lookups *)

Kinds == {"project", "room", "user", "sender", "file"}

\* What a lookup of each kind leaves of the ids and files that were given
Resolved(args, t, kind) ==
    CASE kind = "project" -> Has(args, "project_id") => t.project = args["project_id"]
      [] kind = "room" -> Has(args, "room_id") => t.room = args["room_id"]
      [] kind = "user" -> Has(args, "user_id") => t.user = args["user_id"]
      [] kind = "sender" ->
             /\ Has(args, "user_id") => t.user = args["user_id"]
             /\ ~HasAny(args, {"user_id", "user_name"}) /\ Has(args, "bot_id") => t.user = args["bot_id"]
      [] kind = "file" -> HasAny(args, AttachmentProps) => t.file # None

\* A call about to write has every id it was given, and a file only if its tool takes one
WellFound(tool, args, t) ==
    /\ \A kind \in Kinds : LooksUp(tool, args, kind) => Resolved(args, t, kind)
    /\ t.file # None => Attaches(tool)

\* The inductive invariant: a lookup is still to be made, or has left what it must
SlotLookedUp(s) ==
    /\ target[s].file # None => Attaches(Tool(s))
    /\ phase[s] = "working" =>
          /\ todo[s] \in Seq(Kinds)
          /\ \A i \in DOMAIN todo[s] : LooksUp(Tool(s), Args(s), todo[s][i])
          /\ \A kind \in Kinds :
                LooksUp(Tool(s), Args(s), kind) =>
                   (\E i \in DOMAIN todo[s] : todo[s][i] = kind) \/ Resolved(Args(s), target[s], kind)
    /\ answer[s] = "ok" =>
          \A kind \in Kinds : LooksUp(Tool(s), Args(s), kind) => Resolved(Args(s), target[s], kind)

LookedUp == \A s \in Slots : SlotLookedUp(s)

LEMMA StepsOfCall ==
  ASSUME NEW tool, NEW args
  PROVE  /\ LookupSteps(tool, args) \in Seq(Kinds)
         /\ \A k \in Kinds : (\E i \in DOMAIN LookupSteps(tool, args) : LookupSteps(tool, args)[i] = k)
               <=> LooksUp(tool, args, k)
<1> DEFINE wants(kind) == LooksUp(tool, args, kind)
           step(kind) == IF wants(kind) THEN <<kind>> ELSE <<>>
           s1 == step("project")
           s2 == s1 \o step("room")
           s3 == s2 \o step("user")
           s4 == s3 \o step("sender")
           s5 == s4 \o step("file")
           In(s, k) == \E i \in DOMAIN s : s[i] = k
<1>0. ASSUME NEW a \in Seq(Kinds), NEW kind \in Kinds
      PROVE  /\ a \o step(kind) \in Seq(Kinds)
             /\ \A k \in Kinds : In(a \o step(kind), k) <=> In(a, k) \/ (wants(kind) /\ k = kind)
  <2> DEFINE b == step(kind)
             P == wants(kind)
  <2>1. b \in Seq(Kinds) /\ DOMAIN b = IF P THEN {1} ELSE {}
    OBVIOUS
  <2>2. P => b[1] = kind
    OBVIOUS
  <2>3. /\ a \o b \in Seq(Kinds) /\ Len(a \o b) = Len(a) + Len(b)
        /\ \A i \in 1 .. Len(a) + Len(b) : (a \o b)[i] = IF i <= Len(a) THEN a[i] ELSE b[i - Len(a)]
    BY <2>1, ConcatProperties
  <2>4. Len(a) \in Nat /\ DOMAIN a = 1 .. Len(a) /\ DOMAIN (a \o b) = 1 .. Len(a) + Len(b)
    BY <2>3
  <2>5. Len(b) = IF P THEN 1 ELSE 0
    OBVIOUS
  <2> HIDE DEF P, b
  <2> SUFFICES ASSUME NEW k \in Kinds
               PROVE  (\E i \in DOMAIN (a \o b) : (a \o b)[i] = k)
                         <=> (\E i \in DOMAIN a : a[i] = k) \/ (P /\ k = kind)
    BY <2>3 DEF b, P
  <2>6. ASSUME NEW i \in DOMAIN (a \o b), (a \o b)[i] = k
        PROVE  (\E j \in DOMAIN a : a[j] = k) \/ (P /\ k = kind)
    BY <2>2, <2>3, <2>4, <2>5, <2>6
  <2>7. ASSUME NEW i \in DOMAIN a, a[i] = k PROVE \E j \in DOMAIN (a \o b) : (a \o b)[j] = k
    BY <2>3, <2>4, <2>5, <2>7
  <2>8. ASSUME P, k = kind PROVE \E j \in DOMAIN (a \o b) : (a \o b)[j] = k
    <3>1. Len(a) + 1 \in DOMAIN (a \o b) /\ (a \o b)[Len(a) + 1] = b[1]
      BY <2>3, <2>4, <2>5, <2>8
    <3> QED
      BY <2>2, <2>8, <3>1
  <2> QED
    BY <2>6, <2>7, <2>8
<1>1. s1 \in Seq(Kinds) /\ \A k \in Kinds : In(s1, k) <=> wants("project") /\ k = "project"
  <2>1. CASE wants("project")
    <3>1. s1 = <<"project">>
      BY <2>1
    <3> QED
      BY <2>1, <3>1 DEF Kinds
  <2>2. CASE ~wants("project")
    <3>1. s1 = <<>>
      BY <2>2
    <3> QED
      BY <2>2, <3>1
  <2> QED
    BY <2>1, <2>2
<1>2. /\ "project" \in Kinds /\ "room" \in Kinds /\ "user" \in Kinds /\ "sender" \in Kinds
      /\ "file" \in Kinds
  BY DEF Kinds
<1>3. LookupSteps(tool, args) = s5
  BY DEF LookupSteps
<1> HIDE DEF s1, In, step, wants
<1>4. s2 \in Seq(Kinds) /\ \A k \in Kinds : In(s2, k) <=> In(s1, k) \/ (wants("room") /\ k = "room")
  BY <1>0, <1>1, <1>2
<1> HIDE DEF s2
<1>5. s3 \in Seq(Kinds) /\ \A k \in Kinds : In(s3, k) <=> In(s2, k) \/ (wants("user") /\ k = "user")
  BY <1>0, <1>2, <1>4
<1> HIDE DEF s3
<1>6. s4 \in Seq(Kinds) /\ \A k \in Kinds : In(s4, k) <=> In(s3, k) \/ (wants("sender") /\ k = "sender")
  BY <1>0, <1>2, <1>5
<1> HIDE DEF s4
<1>7. s5 \in Seq(Kinds) /\ \A k \in Kinds : In(s5, k) <=> In(s4, k) \/ (wants("file") /\ k = "file")
  BY <1>0, <1>2, <1>6
<1> HIDE DEF s5
<1>8. \A k \in Kinds : In(s5, k) <=> wants(k)
  BY <1>1, <1>4, <1>5, <1>6, <1>7 DEF Kinds
<1> QED
  BY <1>3, <1>7, <1>8 DEF In, wants

\* What is found for a kind is what the arguments of that kind say
LEMMA FoundIsNamed ==
  ASSUME NEW s \in Slots, NEW kind \in Kinds, Head(todo[s]) = kind, NEW found \in Found(s),
         NEW t, t[FieldOf(kind)] = found
  PROVE  Resolved(Args(s), t, kind)
<1> DEFINE args == Args(s)
           project == target[s].project
<1>1. CASE kind = "project"
  <2>1. Found(s) = PickProject(args)
    BY <1>1 DEF Found
  <2>2. Has(args, "project_id") => found = args["project_id"]
    BY <2>1 DEF PickProject, ById
  <2> QED
    BY <1>1, <2>2 DEF Resolved, FieldOf
<1>2. CASE kind = "room"
  <2>1. Found(s) = PickRoom(args, project)
    BY <1>2 DEF Found
  <2>2. Has(args, "room_id") => found = args["room_id"]
    BY <2>1 DEF PickRoom, ById
  <2> QED
    BY <1>2, <2>2 DEF Resolved, FieldOf
<1>3. CASE kind = "user"
  <2>1. Found(s) = PickUser(args, project)
    BY <1>3 DEF Found
  <2>2. Has(args, "user_id") => found = args["user_id"]
    BY <2>1 DEF PickUser, ById
  <2> QED
    BY <1>3, <2>2 DEF Resolved, FieldOf
<1>4. CASE kind = "sender"
  <2>1. Found(s) = PickSender(args, project)
    BY <1>4 DEF Found
  <2>2. Has(args, "user_id") => found = args["user_id"]
    BY <2>1 DEF PickSender, PickUser, ById, HasAny, Has
  <2>3. ~HasAny(args, {"user_id", "user_name"}) /\ Has(args, "bot_id") => found = args["bot_id"]
    BY <2>1 DEF PickSender, PickBot, ById
  <2> QED
    BY <1>4, <2>2, <2>3 DEF Resolved, FieldOf
<1>5. CASE kind = "file"
  <2>1. Found(s) = PickFile(args)
    BY <1>5 DEF Found
  <2>2. HasAny(args, AttachmentProps) => found # None
    BY <2>1, GivenAssumption DEF PickFile, AttachmentProps
  <2> QED
    BY <1>5, <2>2 DEF Resolved, FieldOf
<1> QED
  BY <1>1, <1>2, <1>3, <1>4, <1>5 DEF Kinds

\* No tool looks up both a user and a sender, the only kinds that share a field
LEMMA OthersStay ==
  ASSUME NEW tool, NEW args, NEW kind \in Kinds, NEW other \in Kinds, other # kind,
         LooksUp(tool, args, kind), LooksUp(tool, args, other),
         NEW t, NEW u, \A f \in TargetFields \ {FieldOf(kind)} : u[f] = t[f],
         Resolved(args, t, other)
  PROVE  Resolved(args, u, other)
<1>1. ~(LooksUp(tool, args, "user") /\ LooksUp(tool, args, "sender"))
  BY SendingNames DEF LooksUp, AttentionTools
<1>2. FieldOf(other) # FieldOf(kind) /\ FieldOf(other) \in TargetFields
  BY <1>1 DEF FieldOf, Kinds, TargetFields
<1>3. u[FieldOf(other)] = t[FieldOf(other)]
  BY <1>2
<1> QED
  BY <1>3 DEF Resolved, Kinds, FieldOf

\* Whatever the search of a lookup answers, what its kind was given is found
LEMMA LookupFinds ==
  ASSUME NEW s \in Slots, NEW kind \in Kinds, Head(todo[s]) = kind, MessageKnown,
         target = [r \in Slots |-> target[r]], LookUp(s) \/ SearchFails(s)
  PROVE  /\ Resolved(Args(s), target'[s], kind)
         /\ \A f \in TargetFields \ {FieldOf(kind)} : target'[s][f] = target[s][f]
         /\ \A r \in Slots \ {s} : target'[r] = target[r]
<1>1. DOMAIN target[s] = TargetFields /\ FieldOf(kind) \in TargetFields
  BY DEF MessageKnown, FieldOf, Kinds, TargetFields
<1>2. CASE LookUp(s)
  <2>1. PICK found \in Found(s) : target' = [target EXCEPT ![s][FieldOf(kind)] = found]
    BY <1>2 DEF LookUp
  <2>2. target'[s] = [target[s] EXCEPT ![FieldOf(kind)] = found]
    BY <2>1
  <2>3. target'[s][FieldOf(kind)] = found
    BY <1>1, <2>2
  <2>4. Resolved(Args(s), target'[s], kind)
    BY <2>3, FoundIsNamed
  <2> QED
    BY <1>1, <2>1, <2>2, <2>4
<1>3. CASE SearchFails(s)
  <2>1. kind = "room" /\ ~Has(Args(s), "room_id")
    BY <1>3 DEF SearchFails, AsksFor
  <2>2. PICK found : target' = [target EXCEPT ![s].room = found]
    BY <1>3 DEF SearchFails
  <2> QED
    BY <1>1, <2>1, <2>2 DEF Resolved, FieldOf
<1> QED
  BY <1>2, <1>3

LEMMA LookupKeepsLookedUp ==
  ASSUME Calls, MessageKnown, LookedUp, NEW s \in Slots, LookUp(s) \/ SearchFails(s)
  PROVE  LookedUp'
<1> DEFINE args == Args(s)
           tool == Tool(s)
           kind == Head(todo[s])
<1>1. /\ phase[s] = "working" /\ todo[s] # <<>> /\ answer[s] # "ok"
      /\ todo' = [todo EXCEPT ![s] = Tail(@)]
      /\ UNCHANGED <<message, phase, answer>>
  BY DEF LookUp, SearchFails, world, Calls, TypeOK
<1>2. /\ todo = [r \in Slots |-> todo[r]] /\ target = [r \in Slots |-> target[r]]
      /\ todo[s] \in Seq(Kinds)
  BY <1>1 DEF Calls, Domains, LookedUp, SlotLookedUp
<1>3. /\ kind = todo[s][1] /\ 1 \in DOMAIN todo[s] /\ kind \in Kinds
      /\ todo'[s] \in Seq(Kinds)
      /\ \A i \in DOMAIN todo'[s] : i + 1 \in DOMAIN todo[s] /\ todo'[s][i] = todo[s][i + 1]
      /\ \A i \in DOMAIN todo[s] : i # 1 => i - 1 \in DOMAIN todo'[s] /\ todo'[s][i - 1] = todo[s][i]
  <2> DEFINE steps == todo[s]
  <2>1. todo'[s] = Tail(steps) /\ steps \in Seq(Kinds) /\ steps # <<>>
    BY <1>1, <1>2
  <2> HIDE DEF steps, Kinds
  <2>2. /\ Head(steps) = steps[1] /\ 1 \in DOMAIN steps /\ Head(steps) \in Kinds
        /\ Tail(steps) \in Seq(Kinds)
        /\ \A i \in DOMAIN Tail(steps) : i + 1 \in DOMAIN steps /\ Tail(steps)[i] = steps[i + 1]
        /\ \A i \in DOMAIN steps : i # 1 => i - 1 \in DOMAIN Tail(steps) /\ Tail(steps)[i - 1] = steps[i]
    BY <2>1
  <2> QED
    BY <2>1, <2>2 DEF steps
<1>4. LooksUp(tool, args, kind) /\ (target[s].file # None => Attaches(tool))
  BY <1>1, <1>3 DEF LookedUp, SlotLookedUp
<1> HIDE DEF kind
<1>5. /\ Resolved(args, target'[s], kind)
      /\ \A f \in TargetFields \ {FieldOf(kind)} : target'[s][f] = target[s][f]
      /\ \A r \in Slots \ {s} : target'[r] = target[r]
  BY <1>2, <1>3, LookupFinds DEF kind
<1>6. target'[s].file # None => Attaches(tool)
  <2>1. CASE kind = "file"
    BY <1>4, <2>1 DEF LooksUp
  <2>2. CASE kind # "file"
    BY <1>4, <1>5, <2>2 DEF FieldOf, TargetFields
  <2> QED
    BY <2>1, <2>2
<1>7. \A i \in DOMAIN todo'[s] : LooksUp(tool, args, todo'[s][i])
  BY <1>1, <1>3 DEF LookedUp, SlotLookedUp
<1>8. ASSUME NEW other \in Kinds, LooksUp(tool, args, other)
      PROVE  (\E i \in DOMAIN todo'[s] : todo'[s][i] = other) \/ Resolved(args, target'[s], other)
  <2>1. CASE other = kind
    BY <1>5, <2>1
  <2>2. CASE other # kind
    <3>1. CASE Resolved(args, target[s], other)
      BY <1>3, <1>4, <1>5, <1>8, <2>2, <3>1, OthersStay
    <3>2. CASE \E i \in DOMAIN todo[s] : todo[s][i] = other
      BY <1>3, <2>2, <3>2
    <3> QED
      BY <1>1, <1>8, <3>1, <3>2 DEF LookedUp, SlotLookedUp
  <2> QED
    BY <2>1, <2>2
<1>9. SlotLookedUp(s)'
  BY <1>1, <1>3, <1>6, <1>7, <1>8 DEF SlotLookedUp, Tool, Args
<1>10. ASSUME NEW r \in Slots \ {s} PROVE SlotLookedUp(r)'
  <2>1. todo'[r] = todo[r] /\ target'[r] = target[r]
    BY <1>1, <1>2, <1>5
  <2> QED
    BY <1>1, <2>1 DEF LookedUp, SlotLookedUp, Tool, Args
<1> QED
  BY <1>9, <1>10 DEF LookedUp

\* A step that looks nothing up keeps what was, unless it answers a call of which
\* something is still to be looked up
LEMMA LooksAsBefore ==
  ASSUME LookedUp, message' = message,
         \A r \in Slots :
            /\ \A f \in TargetFields \ {"message"} : target'[r][f] = target[r][f]
            /\ phase'[r] = "working" => phase[r] = "working" /\ todo'[r] = todo[r]
            /\ answer'[r] = "ok" => answer[r] = "ok" \/ (phase[r] = "working" /\ todo[r] = <<>>)
  PROVE  LookedUp'
<1> SUFFICES ASSUME NEW r \in Slots PROVE SlotLookedUp(r)'
  BY DEF LookedUp
<1>1. Tool(r)' = Tool(r) /\ Args(r)' = Args(r)
  BY DEF Tool, Args
<1>2. ASSUME NEW kind \in Kinds
      PROVE  Resolved(Args(r), target[r], kind) => Resolved(Args(r), target'[r], kind)
  <2>1. target'[r][FieldOf(kind)] = target[r][FieldOf(kind)]
    BY DEF FieldOf, Kinds, TargetFields
  <2> QED
    BY <2>1 DEF Resolved, Kinds, FieldOf
<1>3. target'[r].file # None => Attaches(Tool(r))
  BY DEF LookedUp, SlotLookedUp, TargetFields
<1>4. ASSUME phase'[r] = "working"
      PROVE  /\ todo'[r] \in Seq(Kinds)
             /\ \A i \in DOMAIN todo'[r] : LooksUp(Tool(r), Args(r), todo'[r][i])
             /\ \A kind \in Kinds :
                   LooksUp(Tool(r), Args(r), kind) =>
                      (\E i \in DOMAIN todo'[r] : todo'[r][i] = kind)
                        \/ Resolved(Args(r), target'[r], kind)
  BY <1>2, <1>4 DEF LookedUp, SlotLookedUp
<1>5. ASSUME answer'[r] = "ok", NEW kind \in Kinds, LooksUp(Tool(r), Args(r), kind)
      PROVE  Resolved(Args(r), target'[r], kind)
  <2>1. Resolved(Args(r), target[r], kind)
    <3>1. CASE answer[r] = "ok"
      BY <1>5, <3>1 DEF LookedUp, SlotLookedUp
    <3>2. CASE phase[r] = "working" /\ todo[r] = <<>>
      <4>1. ~\E i \in DOMAIN todo[r] : todo[r][i] = kind
        BY <3>2
      <4> QED
        BY <1>5, <3>2, <4>1 DEF LookedUp, SlotLookedUp
    <3> QED
      BY <1>5, <3>1, <3>2
  <2> QED
    BY <1>2, <2>1
<1> QED
  BY <1>1, <1>3, <1>4, <1>5 DEF SlotLookedUp

LEMMA StepKeepsLookedUp ==
  ASSUME Calls, MessageKnown, LookedUp, NEW s \in Slots, Step(s)
  PROVE  LookedUp'
<1>0. /\ target = [r \in Slots |-> target[r]] /\ todo = [r \in Slots |-> todo[r]]
      /\ answer = [r \in Slots |-> answer[r]] /\ phase = [r \in Slots |-> phase[r]]
  BY DEF Calls, TypeOK, Domains
<1>1. CASE AnswerMessage(s) \/ UnknownTool(s) \/ MissesParameter(s) \/ FindsNothing(s) \/ HasNoFile(s)
           \/ LookupFails(s) \/ RefusesCall(s) \/ Refuse(s) \/ Lose(s) \/ ReplyUnreadable(s)
  <2>1. PICK result : Ends(s, result) /\ result # "ok"
    <3>1. RpcAnswer(message[s]) # "ok"
      BY DEF RpcAnswer
    <3>2. CASE AnswerMessage(s)
      BY <3>1, <3>2 DEF AnswerMessage
    <3>3. CASE ~AnswerMessage(s)
      <4>1. Ends(s, "error")
        BY <1>1, <3>3 DEF UnknownTool, MissesParameter, FindsNothing, HasNoFile, LookupFails, RefusesCall,
                          Refuse, Lose, ReplyUnreadable, Raises
      <4> QED
        BY <4>1
    <3> QED
      BY <3>2, <3>3
  <2>2. /\ message' = message /\ target' = target
        /\ \A r \in Slots : phase'[r] = "working" => phase[r] = "working" /\ todo'[r] = todo[r]
        /\ \A r \in Slots : answer'[r] = "ok" => answer[r] = "ok"
    BY <1>0, <2>1 DEF Ends, world
  <2> QED
    BY <2>2, LooksAsBefore
<1>2. CASE NeedsNothing(s) \/ LastReply(s)
  <2>1. phase[s] = "working" /\ todo[s] = <<>>
    <3>1. CASE NeedsNothing(s)
      BY <3>1 DEF NeedsNothing, Ready
    <3>2. CASE LastReply(s)
      BY <3>2 DEF LastReply, Calls, TypeOK, Progress
    <3> QED
      BY <1>2, <3>1, <3>2
  <2>2. /\ message' = message /\ target' = target
        /\ \A r \in Slots : phase'[r] = "working" => phase[r] = "working" /\ todo'[r] = todo[r]
        /\ \A r \in Slots \ {s} : answer'[r] = answer[r]
    BY <1>0, <1>2 DEF NeedsNothing, LastReply, Succeeds, Ends, world
  <2> QED
    BY <2>1, <2>2, LooksAsBefore
<1>3. CASE CallTool(s)
  <2>1. /\ message' = message /\ target' = target /\ answer' = answer /\ answer[s] # "ok"
        /\ todo'[s] = LookupSteps(Tool(s), Args(s))
        /\ \A r \in Slots \ {s} : phase'[r] = phase[r] /\ todo'[r] = todo[r]
    BY <1>0, <1>3 DEF CallTool, world, Calls, TypeOK
  <2>2. SlotLookedUp(s)'
    BY <2>1, StepsOfCall DEF LookedUp, SlotLookedUp, Tool, Args
  <2>3. ASSUME NEW r \in Slots \ {s} PROVE SlotLookedUp(r)'
    BY <2>1 DEF LookedUp, SlotLookedUp, Tool, Args
  <2> QED
    BY <2>2, <2>3 DEF LookedUp
<1>4. CASE LookUp(s) \/ SearchFails(s)
  BY <1>4, LookupKeepsLookedUp
<1>5. CASE SendRequest(s) \/ Serve(s)
  BY <1>5, LooksAsBefore DEF SendRequest, Serve, world
<1>6. CASE Reply(s)
  <2>1. /\ message' = message /\ phase' = phase /\ todo' = todo /\ answer' = answer
        /\ target' = [target EXCEPT ![s].message = s]
    BY <1>6 DEF Reply, world
  <2>2. \A r \in Slots : \A f \in TargetFields \ {"message"} : target'[r][f] = target[r][f]
    BY <1>0, <2>1 DEF MessageKnown
  <2> QED
    BY <2>1, <2>2, LooksAsBefore
<1> QED
  BY <1>1, <1>2, <1>3, <1>4, <1>5, <1>6 DEF Step

\* Whatever a call was given by id is what it works on, at the latest when it writes
LEMMA LookedUpInvariant ==
  Spec => []LookedUp
<1>1. Init => LookedUp
  BY DEF Init, LookedUp, SlotLookedUp, Unknown
<1>2. Calls /\ MessageKnown /\ LookedUp /\ [Next]_vars => LookedUp'
  <2> SUFFICES ASSUME Calls, MessageKnown, LookedUp, [Next]_vars PROVE LookedUp'
    OBVIOUS
  <2>1. ASSUME NEW s \in Slots, Step(s) PROVE LookedUp'
    BY <2>1, StepKeepsLookedUp
  <2>2. ASSUME NEW s \in Slots, ServeLate(s) PROVE LookedUp'
    BY <2>2, LooksAsBefore DEF ServeLate
  <2>3. CASE Restart
    <3>1. /\ message' = message /\ target' = target
          /\ \A r \in Slots : phase'[r] # "working" /\ (answer'[r] = "ok" => answer[r] = "ok")
      BY <2>3 DEF Restart
    <3> QED
      BY <3>1, LooksAsBefore
  <2>4. CASE UNCHANGED vars
    BY <2>4, LooksAsBefore DEF vars
  <2> QED
    BY <2>1, <2>2, <2>3, <2>4 DEF Next
<1> QED
  BY <1>1, <1>2, CallsInvariant, KnownInvariant, PTL DEF Spec

-----------------------------------------------------------------------------
(* Arguments on their way into a request *)

\* Every argument of a call has its place in the request r
Arrives(r, tool, args) ==
    \A name \in DOMAIN args \ Consumed(tool, args) : Arrived(args, name, r)

NoNulls(args) == \A name \in DOMAIN args : args[name] # None

LEMMA CoercedArgs ==
  ASSUME NEW args
  PROVE  /\ DOMAIN Coerced(args) = DOMAIN args
         /\ \A name \in DOMAIN args :
               /\ name \notin Flags => Coerced(args)[name] = args[name]
               /\ NoNulls(args) => Coerced(args)[name] # None
  BY GivenAssumption DEF Coerced, CoerceBool, NoNulls

LEMMA PlainNames ==
  /\ ItemIds \cap Flags = {}
  /\ {"project_id", "room_id", "user_id", "bot_id", "body"} \cap Flags = {}
  BY ItemIdNames DEF Flags

LEMMA ReplacedArgs ==
  ASSUME NEW args, NEW changes, NEW name
  PROVE  /\ name \in DOMAIN changes /\ changes[name] # None =>
               name \in DOMAIN Replaced(args, changes) /\ Replaced(args, changes)[name] = changes[name]
         /\ name \in DOMAIN args \ DOMAIN changes /\ args[name] # None =>
               name \in DOMAIN Replaced(args, changes) /\ Replaced(args, changes)[name] = args[name]
  BY DEF Replaced

\* A name that is passed on arrives under itself
LEMMA FieldArrives ==
  ASSUME NEW r, NEW args, NEW given, NEW passed, r.fields = Given(given, passed),
         NEW name, name \in passed, name \in DOMAIN given, given[name] = Coerced(args)[name]
  PROVE  Arrived(args, name, r)
<1>1. name \in DOMAIN r.fields /\ r.fields[name] = given[name]
  BY DEF Given, Restrict
<1> QED
  BY <1>1 DEF Arrived

\* What is looked up by an id arrives as the id
LEMMA PlaceArrives ==
  ASSUME NEW r, NEW args, NEW t
  PROVE  /\ Has(args, "project_id") /\ r.project = t.project /\ Resolved(args, t, "project")
               => Arrived(args, "project_id", r)
         /\ Has(args, "room_id") /\ r.room = t.room /\ Resolved(args, t, "room")
               => Arrived(args, "room_id", r)
         /\ \A name \in AttachmentProps :
               Has(args, name) /\ r.file = t.file /\ Resolved(args, t, "file") => Arrived(args, name, r)
         /\ \A id \in ItemIds : Has(args, id) /\ r.id = args[id] => Arrived(args, id, r)
<1>1. \A name \in DOMAIN args \ Flags : Coerced(args)[name] = args[name]
  BY CoercedArgs
<1>2. \A name \in AttachmentProps : Has(args, name) => HasAny(args, AttachmentProps)
  BY DEF Has, HasAny
<1> QED
  BY <1>1, <1>2, PlainNames DEF Arrived, Resolved, Has

LEMMA CreateShape ==
  ASSUME NEW c, NEW place, NEW passed, NEW args, NEW file
  PROVE  LET r == CreateOf(c, place, passed, args, file)
         IN /\ r.fields = Given(args, passed) /\ r.file = file
            /\ r.project = place.project /\ r.room = place.room
  BY DEF CreateOf, Call, Request

LEMMA UpdateShape ==
  ASSUME NEW c, NEW place, NEW id, NEW passed, NEW args, NEW file
  PROVE  LET r == UpdateOf(c, place, id, passed, args, file)
         IN /\ r.fields = Given(args, passed) /\ r.file = file /\ r.id = id
            /\ r.project = place.project /\ r.room = place.room
  BY DEF UpdateOf, Call, Request

-----------------------------------------------------------------------------
(* The families *)

FilesOf(attaches) == IF attaches THEN AttachmentProps ELSE {}

\* The tools of a family pass on all that their schemas advertise
Complete(f) ==
    /\ FamilySchemas[f.hub].add.props \subseteq ProjectIdProps \cup f.fields \cup FilesOf(f.attaches)
    /\ FamilySchemas[f.hub].edit.props
          \subseteq {f.id} \cup ProjectIdProps \cup f.fields \cup f.changes \cup FilesOf(f.attaches)
    /\ f.hubAttaches =>
          FamilySchemas[f.hub].hub.props
             \subseteq {f.id, "delete"} \cup ProjectIdProps \cup f.filters \cup PaginationProps \cup AttachmentProps

LEMMA MilestoneComplete == Complete(MilestoneTools)
  BY DEF Complete, FilesOf, MilestoneTools, Family, FamilySchemas, MilestoneSchemas,
         CrudSchemas, Schemas, Schema

LEMMA BottleneckComplete == Complete(BottleneckTools)
  BY DEF Complete, FilesOf, BottleneckTools, Family, FamilySchemas, BottleneckSchemas,
         CrudSchemas, Schemas, Schema

LEMMA TodoComplete == Complete(TodoTools)
  BY DEF Complete, FilesOf, TodoTools, Family, FamilySchemas, TodoSchemas, CrudSchemas,
         Schemas, Schema

LEMMA KnowledgeComplete == Complete(KnowledgeTools)
  BY DEF Complete, FilesOf, KnowledgeTools, Family, FamilySchemas, KnowledgeSchemas,
         CrudSchemas, Schemas, Schema

LEMMA AdrComplete == Complete(AdrTools)
  BY DEF Complete, FilesOf, AdrTools, Family, FamilySchemas, AdrSchemas, CrudSchemas, Schemas,
         Schema

LEMMA TakeawayComplete == Complete(TakeawayTools)
  BY DEF Complete, FilesOf, TakeawayTools, Family, FamilySchemas, TakeawaySchemas, CrudSchemas,
         Schemas, Schema

LEMMA ActionItemComplete == Complete(ActionItemTools)
  BY DEF Complete, FilesOf, ActionItemTools, Family, FamilySchemas, ActionItemSchemas,
         CrudSchemas, Schemas, Schema

LEMMA DecisionComplete == Complete(DecisionTools)
  BY DEF Complete, FilesOf, DecisionTools, Family, FamilySchemas, DecisionSchemas, CrudSchemas,
         Schemas, Schema

LEMMA AssetComplete == Complete(AssetTools)
  BY DEF Complete, FilesOf, AssetTools, Family, FamilySchemas, AssetSchemas, CrudSchemas,
         Schemas, Schema

LEMMA ActivityComplete == Complete(ActivityTools)
  BY DEF Complete, FilesOf, ActivityTools, Family, FamilySchemas, ActivitySchemas, CrudSchemas,
         Schemas, Schema

LEMMA DirectoryComplete == Complete(DirectoryTools)
  BY DEF Complete, FilesOf, DirectoryTools, Family, FamilySchemas, DirectorySchemas,
         CrudSchemas, Schemas, Schema

LEMMA SummaryComplete == Complete(SummaryTools)
  BY DEF Complete, FilesOf, SummaryTools, Family, FamilySchemas, SummarySchemas, CrudSchemas,
         Schemas, Schema

LEMMA NoteComplete == Complete(NoteTools)
  BY DEF Complete, FilesOf, NoteTools, Family, FamilySchemas, NoteSchemas, CrudSchemas,
         Schemas, Schema

LEMMA FamiliesComplete ==
  \A f \in Families : Complete(f)
  BY MilestoneComplete, BottleneckComplete, TodoComplete, KnowledgeComplete, AdrComplete,
     TakeawayComplete, ActionItemComplete, DecisionComplete, AssetComplete, ActivityComplete,
     DirectoryComplete, SummaryComplete, NoteComplete
  DEF Families

LEMMA FamilyArrives ==
  ASSUME NEW tool \in FamilyTools, NEW args, NoNulls(args), NEW t, WellFound(tool, args, t),
         Told(tool, args),
         FamilyRequest(FamilyOf[tool], tool, args, t).verb \in {"POST", "PATCH"}
  PROVE  Arrives(FamilyRequest(FamilyOf[tool], tool, args, t), tool, args)
<1> DEFINE f == FamilyOf[tool]
           r == FamilyRequest(f, tool, args, t)
           all == FamilySchemas[f.hub]
<1> SUFFICES Arrives(r, tool, args)
  OBVIOUS
<1>1. f \in Families /\ tool \in {f.hub, f.add, f.edit, f.delete}
  BY FamilyOfTool DEF ToolsOf
<1>2. Consistent(f) /\ Complete(f) /\ f.id \in ItemIds
  BY <1>1, FamiliesConsistent, FamiliesComplete DEF ItemIds
<1>3. InputSchema(tool) = FamilySchema(tool)
  BY FamilyOfTool DEF InputSchema, Others, AttentionTools
<1>4. FamilySchema(tool) = CASE tool = f.hub -> all.hub  []  tool = f.add -> all.add
                             [] tool = f.edit -> all.edit  []  tool = f.delete -> all.delete
  BY DEF FamilySchema
<1>5. Resolved(args, t, "project")
  BY DEF WellFound, Kinds, LooksUp
<1>6. tool \in {f.add, f.edit} /\ f.attaches => Resolved(args, t, "file")
  BY DEF WellFound, Kinds, LooksUp, Attaches
<1>7. r.verb \in {"POST", "PATCH"} /\ tool \notin {"add_message", "add_approve_request_with_message"}
  BY FamilyOfTool DEF Others, SendingTools
<1>8. IsHub(tool) <=> tool = f.hub
  BY DEF IsHub
<1>9. t.file # None => Attaches(tool)
  BY DEF WellFound
<1>10. Attaches(tool) => tool \in {f.add, f.edit} \/ (f.hubAttaches /\ tool = f.hub)
  BY <1>7 DEF Attaches
<1>11. Attaches(tool) => Resolved(args, t, "file")
  BY DEF WellFound, Kinds, LooksUp
<1> DEFINE plain == {"project_name", "delete"} \cup PaginationProps
<1>12. plain \subseteq Consumed(tool, args) /\ (IsHub(tool) => f.filters \subseteq Consumed(tool, args))
  BY DEF Consumed
<1> HIDE DEF f, all, r, plain
<1> SUFFICES ASSUME NEW name \in DOMAIN args, name \notin Consumed(tool, args)
             PROVE  Arrived(args, name, r)
  BY DEF Arrives
<1>13. name \in ProjectIdProps /\ r.project = t.project => Arrived(args, name, r)
  BY <1>5, <1>12, PlaceArrives DEF ProjectIdProps, plain, Has
<1>14. name \in InputSchema(tool).props
  BY DEF Told
<1>15. name \in DOMAIN Coerced(args)
  BY CoercedArgs
<1>16. CASE tool = f.add
  <2>1. r = AddRequest(f, args, t)
    BY <1>2, <1>16 DEF r, FamilyRequest, Consistent
  <2>2. r.fields = Given(Coerced(args), f.fields) /\ r.file = t.file /\ r.project = t.project
    BY <2>1, CreateShape DEF AddRequest, Place
  <2>3. name \in ProjectIdProps \cup f.fields \cup FilesOf(f.attaches)
    BY <1>2, <1>3, <1>4, <1>14, <1>16 DEF Consistent, Complete, all
  <2>4. CASE name \in f.fields
    BY <1>15, <2>2, <2>4, FieldArrives
  <2>5. CASE name \in FilesOf(f.attaches)
    BY <1>6, <1>16, <2>2, <2>5, PlaceArrives DEF FilesOf, Has
  <2> QED
    BY <1>13, <2>2, <2>3, <2>4, <2>5
<1>17. CASE tool = f.edit
  <2>1. r = EditRequest(f, args, t)
    BY <1>2, <1>17 DEF r, FamilyRequest, Consistent
  <2>2. /\ r.fields = Given(Coerced(args), f.fields \cup f.changes) /\ r.file = t.file
        /\ r.project = t.project /\ r.id = args[f.id]
    BY <2>1, UpdateShape DEF EditRequest, Place
  <2>3. name \in {f.id} \cup ProjectIdProps \cup f.fields \cup f.changes \cup FilesOf(f.attaches)
    BY <1>2, <1>3, <1>4, <1>14, <1>17 DEF Consistent, Complete, all
  <2>4. CASE name \in f.fields \cup f.changes
    BY <1>15, <2>2, <2>4, FieldArrives
  <2>5. CASE name \in FilesOf(f.attaches)
    BY <1>6, <1>17, <2>2, <2>5, PlaceArrives DEF FilesOf, Has
  <2>6. CASE name = f.id
    BY <1>2, <2>2, <2>6, PlaceArrives DEF Has
  <2> QED
    BY <1>13, <2>2, <2>3, <2>4, <2>5, <2>6
<1>18. CASE tool = f.hub
  <2>1. r = HubRequest(f, args, t)
    BY <1>2, <1>18 DEF r, FamilyRequest, Consistent
  <2>2. ~(Truthy(args, "delete") /\ Has(args, f.id))
    BY <1>7, <2>1, DeleteVerb DEF HubRequest
  <2>3. Has(args, f.id) /\ t.file # None
    <3>1. f.filters \cup Paging \subseteq f.collection.filters
      BY <1>2 DEF Consistent
    <3> QED
      BY <1>7, <2>1, <2>2, <3>1, ListVerb, GetVerb DEF HubRequest
  <2>4. r = UpdateOf(f.collection, Place(t.project, None), args[f.id], {}, NoFields, t.file)
    BY <2>1, <2>2, <2>3 DEF HubRequest
  <2>5. r.file = t.file /\ r.project = t.project /\ r.id = args[f.id]
    BY <2>4, UpdateShape DEF Place
  <2>6. f.hubAttaches /\ Resolved(args, t, "file")
    BY <1>2, <1>9, <1>10, <1>11, <1>18, <2>3 DEF Consistent
  <2>7. name \in {f.id, "delete"} \cup ProjectIdProps \cup f.filters \cup PaginationProps \cup AttachmentProps
    BY <1>2, <1>3, <1>4, <1>14, <1>18, <2>6 DEF Consistent, Complete, all
  <2>8. CASE name \in AttachmentProps
    BY <2>5, <2>6, <2>8, PlaceArrives DEF Has
  <2>9. CASE name = f.id
    BY <1>2, <2>5, <2>9, PlaceArrives DEF Has
  <2> QED
    BY <1>8, <1>12, <1>13, <1>18, <2>5, <2>7, <2>8, <2>9 DEF plain
<1>19. CASE tool = f.delete
  <2>1. r.verb = "DELETE"
    BY <1>2, <1>19, DeleteVerb DEF r, FamilyRequest, DeleteRequest, Consistent
  <2> QED
    BY <1>7, <2>1
<1> QED
  BY <1>1, <1>16, <1>17, <1>18, <1>19

-----------------------------------------------------------------------------
(* The other tools, group by group *)

\* The room and the user of an attention item are known by their project
LEMMA AttendedArgs ==
  ASSUME NEW tool \in AttentionTools, NEW args, NoNulls(args), NEW t, WellFound(tool, args, t),
         NEW category, NEW name \in DOMAIN args, name \notin Consumed(tool, args), name # "category"
  PROVE  LET given == Attended(category, args, t)
         IN name \in DOMAIN given /\ given[name] = Coerced(args)[name]
<1> DEFINE changes == [ category |-> category, project_id |-> t.project,
                        room_id |-> t.room, user_id |-> t.user ]
           coerced == Coerced(args)
<1>1. /\ DOMAIN coerced = DOMAIN args /\ coerced[name] # None
      /\ name \in {"project_id", "room_id", "user_id"} => coerced[name] = args[name]
  BY CoercedArgs, PlainNames
<1>2. DOMAIN changes = {"category", "project_id", "room_id", "user_id"}
  OBVIOUS
<1>3. Attended(category, args, t) = Replaced(coerced, changes)
  BY DEF Attended
<1> SUFFICES /\ name \in DOMAIN Replaced(coerced, changes)
             /\ Replaced(coerced, changes)[name] = coerced[name]
  BY <1>3
<1>4. CASE name \notin {"project_id", "room_id", "user_id"}
  <2> HIDE DEF coerced, changes
  <2> QED
    BY <1>1, <1>2, <1>4, ReplacedArgs
<1>5. CASE name \in {"project_id", "room_id", "user_id"}
  <2>1. ProjectNamed(args)
    BY <1>5 DEF Consumed, ProjectNamed, HasAny
  <2>2. changes[name] = args[name]
    <3>1. CASE name = "project_id"
      BY <2>1, <3>1 DEF WellFound, Kinds, LooksUp, Resolved, Has
    <3>2. CASE name = "room_id"
      BY <2>1, <3>2 DEF WellFound, Kinds, LooksUp, Resolved, Has, HasAny
    <3>3. CASE name = "user_id"
      BY <2>1, <3>3 DEF WellFound, Kinds, LooksUp, Resolved, Has, HasAny
    <3> QED
      BY <1>5, <3>1, <3>2, <3>3
  <2> HIDE DEF coerced, changes
  <2> QED
    BY <1>1, <1>2, <1>5, <2>2, ReplacedArgs
<1> QED
  BY <1>4, <1>5

LEMMA AttentionArrives ==
  ASSUME NEW tool \in AttentionTools, NEW args, NoNulls(args), NEW t, WellFound(tool, args, t),
         Told(tool, args), ToolRequest(tool, args, t).verb \in {"POST", "PATCH"}
  PROVE  Arrives(ToolRequest(tool, args, t), tool, args)
<1> DEFINE r == ToolRequest(tool, args, t)
<1>1. tool \notin FamilyTools
  BY FamilyOfTool DEF Others
<1>2. tool \in AttentionCategories \cup DOMAIN AttentionAdds \cup DOMAIN AttentionEdits
  BY DEF AttentionTools
<1>3. /\ tool \notin PeriodTools \cup StatusCategories \cup SendingTools \cup LoadingEdits
                       \cup ApprovalTools \cup {"hello"}
      /\ tool \in AttentionCategories => tool \notin DOMAIN AttentionAdds \cup DOMAIN AttentionEdits
      /\ tool \in DOMAIN AttentionAdds => tool \notin DOMAIN AttentionEdits
  BY <1>2, AttentionNames
  DEF AttentionCategories, PeriodTools, StatusCategories, SendingTools, LoadingEdits, ApprovalTools
<1> SUFFICES ASSUME NEW name \in DOMAIN args, name \notin Consumed(tool, args)
             PROVE  Arrived(args, name, r)
  BY DEF Arrives
<1>4. name \in InputSchema(tool).props
  BY DEF Told
<1>5. name \notin ProjectIdProps \ {"project_id"} /\ name \notin RoomIdProps \ {"room_id"} /\ name # "user_name"
  BY DEF Consumed, ProjectIdProps, RoomIdProps
<1>6. AttentionItems.creates = AttentionItems.updates
      /\ AttentionItemCommonProps \cup {"title"}
            \subseteq AttentionItems.updates \cup ProjectIdProps \cup RoomIdProps \cup {"user_name"}
      /\ {"project_id", "room_id"} \subseteq AttentionItems.updates
      /\ "category" \notin AttentionItemCommonProps
  BY DEF AttentionItems, Collection, AttentionItemCommonProps, ProjectIdProps, RoomIdProps
<1>7. CASE tool \in AttentionCategories
  <2>1. r = ListAttention(tool, args, t)
    BY <1>1, <1>3, <1>7 DEF ToolRequest, PeriodTools, SendingTools, LoadingEdits
  <2>2. {"category", "project_id", "room_id", "user_id", "status", "overdue", "ai_confirm"} \cup Paging
           \subseteq AttentionItems.filters
    BY DEF AttentionItems, Collection, Paging
  <2> QED
    BY <2>1, <2>2, ListVerb DEF ListAttention
<1>8. CASE tool \in DOMAIN AttentionAdds
  <2>1. r = AddAttention(AttentionAdds[tool], args, t)
    BY <1>1, <1>3, <1>8 DEF ToolRequest, PeriodTools, SendingTools, LoadingEdits
  <2>2. InputSchema(tool) = AttentionAddSchema
    BY <1>1, <1>3, <1>8 DEF InputSchema
  <2> DEFINE given == Attended(AttentionAdds[tool], args, t)
  <2>3. r.fields = Given(given, AttentionItems.creates)
    BY <2>1, CreateShape DEF AddAttention
  <2>4. name \in AttentionItems.creates /\ name # "category"
    BY <1>4, <1>5, <1>6, <2>2 DEF AttentionAddSchema, Schema, ProjectIdProps, RoomIdProps
  <2>5. name \in DOMAIN given /\ given[name] = Coerced(args)[name]
    BY <2>4, AttendedArgs
  <2> HIDE DEF given, r
  <2> QED
    BY <2>3, <2>4, <2>5, FieldArrives
<1>9. CASE tool \in DOMAIN AttentionEdits
  <2>1. r = EditAttention(AttentionEdits[tool], args, t)
    BY <1>1, <1>3, <1>9 DEF ToolRequest, PeriodTools, SendingTools, LoadingEdits
  <2>2. InputSchema(tool) = AttentionEditSchema
    BY <1>1, <1>3, <1>9 DEF InputSchema
  <2> DEFINE given == Attended(AttentionEdits[tool], args, t)
  <2>3. r.fields = Given(given, AttentionItems.updates) /\ r.id = args["attention_item_id"]
    BY <2>1, UpdateShape DEF EditAttention
  <2> HIDE DEF given, r
  <2>4. CASE name = "attention_item_id"
    BY <2>3, <2>4, PlaceArrives, ItemIdNames DEF Has
  <2>5. CASE name # "attention_item_id"
    <3>1. name \in AttentionItems.updates /\ name # "category"
      BY <1>4, <1>5, <1>6, <2>2, <2>5 DEF AttentionEditSchema, Schema, ProjectIdProps, RoomIdProps
    <3>2. name \in DOMAIN given /\ given[name] = Coerced(args)[name]
      BY <3>1, AttendedArgs DEF given
    <3> QED
      BY <2>3, <3>1, <3>2, FieldArrives
  <2> QED
    BY <2>4, <2>5
<1> QED
  BY <1>2, <1>7, <1>8, <1>9

LEMMA PeriodArrives ==
  ASSUME NEW tool \in PeriodTools, NEW args, NEW t, Told(tool, args),
         ToolRequest(tool, args, t).verb \in {"POST", "PATCH"}
  PROVE  Arrives(ToolRequest(tool, args, t), tool, args)
<1> DEFINE r == ToolRequest(tool, args, t)
<1>1. tool \notin FamilyTools
  BY FamilyOfTool DEF Others
<1>2. tool \notin AttentionCategories \cup DOMAIN AttentionAdds \cup DOMAIN AttentionEdits
                    \cup StatusCategories \cup SendingTools \cup LoadingEdits \cup ApprovalTools
  BY AttentionNames
  DEF PeriodTools, AttentionCategories, StatusCategories, SendingTools, LoadingEdits, ApprovalTools
<1>3. InputSchema(tool) = PeriodSchema(tool)
  BY <1>1, <1>2 DEF InputSchema, PeriodTools
<1>4. r = CASE tool = "company_status_period" -> PeriodRequest(args)
            [] tool = "add_company_status_period" -> AddPeriod(args)
            [] tool = "edit_company_status_period" -> EditPeriod(args)
  BY <1>1, <1>2 DEF ToolRequest, PeriodTools, SendingTools, LoadingEdits
<1> SUFFICES ASSUME NEW name \in DOMAIN args, name \notin Consumed(tool, args), r.verb \in {"POST", "PATCH"}
             PROVE  Arrived(args, name, r)
  BY DEF Arrives
<1> HIDE DEF r
<1>5. r = EditPeriod(args) \/ (r = AddPeriod(args) /\ name # "period_id")
  <2>1. CASE tool = "company_status_period"
    <3>1. {"name"} \subseteq PeriodsByName.filters
      BY DEF PeriodsByName
    <3> QED
      BY <1>4, <2>1, <3>1, DeleteVerb, GetVerb, ListVerb DEF PeriodRequest, HasAny, Has
  <2>2. CASE tool = "add_company_status_period"
    BY <1>3, <1>4, <2>2 DEF Told, PeriodSchema, Schema
  <2>3. CASE tool = "edit_company_status_period"
    BY <1>4, <2>3
  <2> QED
    BY <2>1, <2>2, <2>3 DEF PeriodTools
<1>6. name \in PeriodFields \cup {"period_id"}
  <2>1. name \in PeriodSchema(tool).props /\ name # "delete"
    BY <1>3 DEF Told, Consumed
  <2> QED
    BY <2>1 DEF PeriodTools, PeriodSchema, Schema, PeriodFields
<1>7. r.fields = Given(Coerced(args), PeriodFields)
  BY <1>5, CreateShape, UpdateShape DEF EditPeriod, AddPeriod
<1>8. CASE name = "period_id"
  <2>1. r.id = args["period_id"]
    BY <1>5, <1>8, UpdateShape DEF EditPeriod
  <2> QED
    BY <1>8, <2>1, PlaceArrives, ItemIdNames DEF Has
<1>9. CASE name \in PeriodFields
  BY <1>7, <1>9, FieldArrives, CoercedArgs
<1> QED
  BY <1>6, <1>8, <1>9

LEMMA StatusArrives ==
  ASSUME NEW tool \in StatusCategories, NEW args, NoNulls(args), NEW t, WellFound(tool, args, t),
         Told(tool, args), ToolRequest(tool, args, t).verb \in {"POST", "PATCH"}
  PROVE  Arrives(ToolRequest(tool, args, t), tool, args)
<1> DEFINE r == ToolRequest(tool, args, t)
           changes == [category |-> tool, project_id |-> t.project]
           filed == Replaced(args, changes)
<1>1. tool \notin FamilyTools
  BY FamilyOfTool DEF Others
<1>2. tool \notin AttentionCategories \cup DOMAIN AttentionAdds \cup DOMAIN AttentionEdits
                    \cup PeriodTools \cup SendingTools \cup LoadingEdits \cup ApprovalTools
  BY AttentionNames
  DEF AttentionCategories, StatusCategories, PeriodTools, SendingTools, LoadingEdits, ApprovalTools
<1>3. InputSchema(tool) = StatusSchema
  BY <1>1, <1>2 DEF InputSchema, StatusCategories
<1>4. r = StatusRequest(tool, args, t)
  BY <1>1, <1>2 DEF ToolRequest, PeriodTools, SendingTools, LoadingEdits
<1> SUFFICES ASSUME NEW name \in DOMAIN args, name \notin Consumed(tool, args), r.verb \in {"POST", "PATCH"}
             PROVE  Arrived(args, name, r)
  BY DEF Arrives
<1> HIDE DEF r
<1>5. /\ StatusItems.creates = StatusItems.updates
      /\ StatusSchema.props \subseteq StatusItems.updates \cup {"project_name", "item_id", "delete"}
                                        \cup PaginationProps
      /\ { "company_status_period_id", "project_id", "category", "status", "health", "badge",
           "owner_name" } \cup Paging \subseteq StatusItems.filters
      /\ "category" \notin StatusSchema.props
  BY DEF StatusItems, Collection, StatusSchema, Schema, ProjectIdProps, PaginationProps
<1>6. /\ r.fields = Given(filed, StatusItems.updates)
      /\ name = "item_id" => r.id = args["item_id"]
  <2>1. \/ r = UpdateOf(StatusItems, Nowhere, args["item_id"], StatusItems.updates, filed, None)
        \/ ~Has(args, "item_id") /\ r = CreateOf(StatusItems, Nowhere, StatusItems.creates, filed, None)
    BY <1>4, <1>5, DeleteVerb, GetVerb, ListVerb DEF StatusRequest
  <2> HIDE DEF filed
  <2> QED
    BY <1>5, <2>1, CreateShape, UpdateShape DEF Has
<1>7. name \in StatusItems.updates \cup {"item_id"} /\ name # "category"
  BY <1>3, <1>5 DEF Told, Consumed
<1>8. CASE name = "item_id"
  BY <1>6, <1>8, PlaceArrives, ItemIdNames DEF Has
<1>9. CASE name # "item_id"
  <2>1. name \notin Flags /\ args[name] # None
    BY <1>3 DEF Told, StatusSchema, Schema, ProjectIdProps, PaginationProps, Flags, Consumed, NoNulls
  <2>2. DOMAIN changes = {"category", "project_id"}
    OBVIOUS
  <2>3. name = "project_id" => changes[name] = args[name]
    BY DEF WellFound, Kinds, LooksUp, Resolved, Has, ProjectNamed, HasAny
  <2> HIDE DEF changes
  <2>4. name \in DOMAIN filed /\ filed[name] = args[name]
    BY <1>7, <2>1, <2>2, <2>3, ReplacedArgs
  <2>5. Coerced(args)[name] = args[name]
    BY <2>1, CoercedArgs
  <2> HIDE DEF filed
  <2> QED
    BY <1>6, <1>7, <1>9, <2>4, <2>5, FieldArrives
<1> QED
  BY <1>8, <1>9

\* Who sends a message is the user that was given, or else the bot
LEMMA SenderArrives ==
  ASSUME NEW tool \in SendingTools, NEW args, NoNulls(args), NEW t, WellFound(tool, args, t),
         NEW name \in DOMAIN args, name \notin Consumed(tool, args), name \in {"user_id", "bot_id"},
         NEW r, NEW given, NEW passed, r.fields = Given(given, passed), "user_id" \in passed,
         t.user # None => "user_id" \in DOMAIN given /\ given["user_id"] = t.user
  PROVE  Arrived(args, name, r)
<1>1. Resolved(args, t, "sender")
  BY DEF WellFound, Kinds, LooksUp
<1>2. name = "bot_id" => ~HasAny(args, {"user_id", "user_name"})
  BY DEF Consumed
<1>3. t.user = args[name] /\ t.user # None
  BY <1>1, <1>2 DEF Resolved, Has, NoNulls
<1>4. "user_id" \in DOMAIN r.fields /\ r.fields["user_id"] = t.user
  BY <1>3 DEF Given, Restrict
<1>5. Coerced(args)[name] = args[name]
  BY CoercedArgs, PlainNames
<1> QED
  BY <1>3, <1>4, <1>5 DEF Arrived

\* Where a tool of a room works is the project and the room that were given
LEMMA RoomArrives ==
  ASSUME NEW tool \in SendingTools \cup ApprovalTools, NEW args, NEW t, WellFound(tool, args, t),
         NEW name \in DOMAIN args, name \in {"project_id", "room_id"},
         NEW r, r.project = t.project, r.room = t.room
  PROVE  Arrived(args, name, r)
<1>1. Resolved(args, t, "project") /\ Resolved(args, t, "room")
  BY DEF WellFound, Kinds, LooksUp
<1> QED
  BY <1>1, PlaceArrives DEF Has

LEMMA MessageArrives ==
  ASSUME NEW tool \in {"add_message", "add_approve_request_with_message"},
         NEW args, NoNulls(args), NEW t, WellFound(tool, args, t),
         NEW name \in DOMAIN args, name \notin Consumed(tool, args),
         name \in {"project_id", "room_id", "user_id", "bot_id", "body"} \cup AttachmentProps
  PROVE  Arrived(args, name, AddMessage(args, t))
<1> DEFINE changes == [user_id |-> t.user]
           given == Replaced(args, changes)
           r == AddMessage(args, t)
<1>1. tool \in SendingTools
  BY DEF SendingTools
<1>2. /\ r.fields = Given(given, {"user_id", "body"}) /\ r.file = t.file
      /\ r.project = t.project /\ r.room = t.room
  BY CreateShape DEF AddMessage, Place
<1>3. DOMAIN changes = {"user_id"} /\ changes["user_id"] = t.user
  OBVIOUS
<1> HIDE DEF changes, r
<1>4. t.user # None => "user_id" \in DOMAIN given /\ given["user_id"] = t.user
  BY <1>3, ReplacedArgs
<1>5. name = "body" => name \in DOMAIN given /\ given[name] = Coerced(args)[name]
  BY <1>3, ReplacedArgs, CoercedArgs, PlainNames DEF NoNulls
<1>6. Resolved(args, t, "file")
  BY <1>1 DEF WellFound, Kinds, LooksUp, Attaches
<1> HIDE DEF given
<1>7. CASE name \in {"project_id", "room_id"}
  BY <1>1, <1>2, <1>7, RoomArrives DEF r
<1>8. CASE name \in {"user_id", "bot_id"}
  <2>1. Arrived(args, name, r)
    BY <1>1, <1>2, <1>4, <1>8, SenderArrives
  <2> QED
    BY <2>1 DEF r
<1>9. CASE name = "body"
  <2>1. Arrived(args, name, r)
    BY <1>2, <1>5, <1>9, FieldArrives
  <2> QED
    BY <2>1 DEF r
<1>10. CASE name \in AttachmentProps
  BY <1>2, <1>6, <1>10, PlaceArrives DEF Has, r
<1> QED
  BY <1>7, <1>8, <1>9, <1>10

\* The arguments of a tool that sends: where, who, and what is its own
LEMMA SendingArgs ==
  ASSUME NEW tool \in SendingTools, NEW args, Told(tool, args),
         NEW name \in DOMAIN args, name \notin Consumed(tool, args)
  PROVE  name \in {"project_id", "room_id", "user_id", "bot_id"} \cup
            ( CASE tool = "add_message" -> {"body"} \cup AttachmentProps
                [] tool = "add_loading_message" -> {"body"}
                [] tool = "add_action_message" -> {"action_type"}
                [] tool = "add_decision_message" -> {"approval_request_id", "decision", "note"}
                [] tool = "add_approve_request_with_message" ->
                       {"body"} \cup AttachmentProps
                         \cup { "request_type", "status", "agent_id", "requested_at", "resolved_at",
                                "resolved_by_id", "payload" } )
<1>1. name \in SendingSchema(tool).props /\ name \notin {"project_name", "room_name", "user_name", "bot_name"}
  BY SendingNames DEF Told, Consumed
<1> QED
  BY <1>1 DEF SendingTools, SendingSchema, Schema, InRoom, ProjectIdProps, RoomIdProps, SenderProps

LEMMA LoadingArrives ==
  ASSUME NEW args, NoNulls(args), NEW t, WellFound("add_loading_message", args, t),
         Told("add_loading_message", args)
  PROVE  Arrives(AddLoading(args, t), "add_loading_message", args)
<1> DEFINE tool == "add_loading_message"
           given == [user_id |-> t.user, body |-> LoadingBody(args)]
           r == AddLoading(args, t)
<1> SUFFICES ASSUME NEW name \in DOMAIN args, name \notin Consumed(tool, args)
             PROVE  Arrived(args, name, r)
  BY DEF Arrives
<1>1. tool \in SendingTools
  BY DEF SendingTools
<1>2. r.fields = Given(given, {"user_id", "body"}) /\ r.project = t.project /\ r.room = t.room
  BY CreateShape DEF AddLoading, Place
<1>3. DOMAIN given = {"user_id", "body"} /\ given["user_id"] = t.user /\ given["body"] = LoadingBody(args)
  OBVIOUS
<1> HIDE DEF given, r
<1>4. name \in {"project_id", "room_id", "user_id", "bot_id", "body"}
  BY <1>1, SendingArgs
<1>5. CASE name \in {"project_id", "room_id"}
  BY <1>1, <1>2, <1>5, RoomArrives
<1>6. CASE name \in {"user_id", "bot_id"}
  BY <1>1, <1>2, <1>3, <1>6, SenderArrives
<1>7. CASE name = "body"
  <2>1. "body" \in DOMAIN r.fields /\ r.fields["body"] = LoadingBody(args)
    BY <1>2, <1>3 DEF Given, Restrict
  <2> QED
    BY <1>7, <2>1 DEF Arrived
<1> QED
  BY <1>4, <1>5, <1>6, <1>7

\* An action or a decision: a default that an argument of that name overrides
LEMMA DefaultArrives ==
  ASSUME NEW tool \in SendingTools, NEW args, NoNulls(args), NEW t, WellFound(tool, args, t),
         NEW standard, NEW passed, "user_id" \in passed, "user_id" \notin DOMAIN standard,
         NEW r, r.project = t.project, r.room = t.room,
         r.fields = Given(Replaced(standard, Replaced(args, [user_id |-> t.user])), passed),
         NEW name \in DOMAIN args, name \notin Consumed(tool, args),
         name \in {"project_id", "room_id", "user_id", "bot_id"} \cup (passed \ Flags)
  PROVE  Arrived(args, name, r)
<1> DEFINE changes == [user_id |-> t.user]
           mine == Replaced(args, changes)
           given == Replaced(standard, mine)
<1>1. DOMAIN changes = {"user_id"} /\ changes["user_id"] = t.user
  OBVIOUS
<1>2. r.fields = Given(given, passed)
  OBVIOUS
<1> HIDE DEF changes
<1>3. t.user # None => "user_id" \in DOMAIN mine /\ mine["user_id"] = t.user
  BY <1>1, ReplacedArgs
<1>4. name # "user_id" => name \in DOMAIN mine /\ mine[name] = args[name] /\ args[name] # None
  BY <1>1, ReplacedArgs DEF NoNulls
<1> HIDE DEF mine
<1>5. t.user # None => "user_id" \in DOMAIN given /\ given["user_id"] = t.user
  BY <1>3, ReplacedArgs
<1>6. name # "user_id" => name \in DOMAIN given /\ given[name] = args[name]
  BY <1>4, ReplacedArgs
<1> HIDE DEF given
<1>7. CASE name \in {"project_id", "room_id"}
  BY <1>7, RoomArrives
<1>8. CASE name \in {"user_id", "bot_id"}
  BY <1>2, <1>5, <1>8, SenderArrives
<1>9. CASE name \in passed \ Flags /\ name # "user_id"
  <2>1. Coerced(args)[name] = args[name]
    BY <1>9, CoercedArgs
  <2> QED
    BY <1>2, <1>6, <1>9, <2>1, FieldArrives
<1> QED
  BY <1>7, <1>8, <1>9

LEMMA SendingArrives ==
  ASSUME NEW tool \in SendingTools \ {"add_approve_request_with_message"},
         NEW args, NoNulls(args), NEW t, WellFound(tool, args, t), Told(tool, args)
  PROVE  Arrives(ToolRequest(tool, args, t), tool, args)
<1> DEFINE r == ToolRequest(tool, args, t)
<1>1. CASE tool = "add_message"
  <2>1. r = AddMessage(args, t)
    BY <1>1, SendingNames DEF ToolRequest, SendingTools, PeriodTools, LoadingEdits
  <2> QED
    BY <1>1, <2>1, SendingArgs, MessageArrives DEF Arrives
<1>2. CASE tool = "add_loading_message"
  <2>1. r = AddLoading(args, t)
    BY <1>2, SendingNames DEF ToolRequest, SendingTools, PeriodTools, LoadingEdits
  <2> QED
    BY <1>2, <2>1, LoadingArrives
<1>3. CASE tool = "add_action_message"
  <2>1. r = AddAction(args, t)
    BY <1>3, SendingNames DEF ToolRequest, SendingTools, PeriodTools, LoadingEdits
  <2> DEFINE standard == [action_type |-> "typing_start"]
             passed == Actions.creates
  <2>2. /\ r.fields = Given(Replaced(standard, Replaced(args, [user_id |-> t.user])), passed)
        /\ r.project = t.project /\ r.room = t.room
    BY <2>1, CreateShape DEF AddAction, Place
  <2>3. "user_id" \in passed /\ {"action_type"} \subseteq passed \ Flags /\ "user_id" \notin DOMAIN standard
    BY DEF Actions, Collection, Flags
  <2> HIDE DEF standard, passed, r
  <2> SUFFICES ASSUME NEW name \in DOMAIN args, name \notin Consumed(tool, args)
               PROVE  Arrived(args, name, r)
    BY DEF Arrives, r
  <2>4. name \in {"project_id", "room_id", "user_id", "bot_id"} \cup (passed \ Flags)
    BY <1>3, <2>3, SendingArgs
  <2> QED
    BY <2>2, <2>3, <2>4, DefaultArrives
<1>4. CASE tool = "add_decision_message"
  <2>1. r = AddDecision(args, t)
    BY <1>4, SendingNames DEF ToolRequest, SendingTools, PeriodTools, LoadingEdits
  <2> DEFINE standard == [decision |-> "approve"]
             passed == RoomDecisions.creates
  <2>2. /\ r.fields = Given(Replaced(standard, Replaced(args, [user_id |-> t.user])), passed)
        /\ r.project = t.project /\ r.room = t.room
    BY <2>1, CreateShape DEF AddDecision, Place
  <2>3. /\ "user_id" \in passed /\ {"approval_request_id", "decision", "note"} \subseteq passed \ Flags
        /\ "user_id" \notin DOMAIN standard
    BY DEF RoomDecisions, Collection, Flags
  <2> HIDE DEF standard, passed, r
  <2> SUFFICES ASSUME NEW name \in DOMAIN args, name \notin Consumed(tool, args)
               PROVE  Arrived(args, name, r)
    BY DEF Arrives, r
  <2>4. name \in {"project_id", "room_id", "user_id", "bot_id"} \cup (passed \ Flags)
    BY <1>4, <2>3, SendingArgs
  <2> QED
    BY <2>2, <2>3, <2>4, DefaultArrives
<1> QED
  BY <1>1, <1>2, <1>3, <1>4 DEF SendingTools

LEMMA LoadingEditArrives ==
  ASSUME NEW tool \in LoadingEdits, NEW args, NEW t, Told(tool, args),
         ToolRequest(tool, args, t).verb \in {"POST", "PATCH"}
  PROVE  Arrives(ToolRequest(tool, args, t), tool, args)
<1> DEFINE r == ToolRequest(tool, args, t)
<1>1. tool \notin FamilyTools
  BY FamilyOfTool DEF Others
<1>2. tool \notin AttentionCategories \cup DOMAIN AttentionAdds \cup DOMAIN AttentionEdits
                    \cup StatusCategories \cup PeriodTools \cup SendingTools \cup ApprovalTools
                    \cup {"hello"}
  BY AttentionNames
  DEF AttentionCategories, StatusCategories, PeriodTools, SendingTools, LoadingEdits, ApprovalTools
<1>3. InputSchema(tool) = LoadingEditSchema(tool)
  BY <1>1, <1>2 DEF InputSchema
<1>4. CASE tool = "edit_loading_message"
  <2>1. r = EditLoading(args)
    BY <1>1, <1>2, <1>4 DEF ToolRequest, SendingTools, PeriodTools
  <2> DEFINE given == [body |-> LoadingBody(args)]
  <2>2. r.fields = Given(given, {"body"}) /\ r.id = args["message_id"]
    BY <2>1, UpdateShape DEF EditLoading
  <2>3. DOMAIN given = {"body"} /\ given["body"] = LoadingBody(args)
    OBVIOUS
  <2> HIDE DEF given, r
  <2> SUFFICES ASSUME NEW name \in DOMAIN args PROVE Arrived(args, name, r)
    BY DEF Arrives, r
  <2>4. name \in {"message_id", "body"}
    BY <1>3, <1>4 DEF Told, LoadingEditSchema, Schema
  <2>5. CASE name = "message_id"
    BY <2>2, <2>5, PlaceArrives, ItemIdNames DEF Has
  <2>6. CASE name = "body"
    <3>1. "body" \in DOMAIN r.fields /\ r.fields["body"] = LoadingBody(args)
      BY <2>2, <2>3 DEF Given, Restrict
    <3> QED
      BY <2>6, <3>1 DEF Arrived
  <2> QED
    BY <2>4, <2>5, <2>6
<1>5. CASE tool = "delete_loading_message"
  <2>1. r = DeleteOf(Messages, Nowhere, args["message_id"])
    BY <1>1, <1>2, <1>5 DEF ToolRequest, DeleteLoading, SendingTools, PeriodTools
  <2> QED
    BY <2>1, DeleteVerb
<1> QED
  BY <1>4, <1>5 DEF LoadingEdits

LEMMA ApprovalArrives ==
  ASSUME NEW tool \in ApprovalTools, NEW args, NEW t, WellFound(tool, args, t), Told(tool, args),
         ToolRequest(tool, args, t).verb \in {"POST", "PATCH"}
  PROVE  Arrives(ToolRequest(tool, args, t), tool, args)
<1> DEFINE r == ToolRequest(tool, args, t)
<1>1. tool \notin FamilyTools
  BY FamilyOfTool DEF Others
<1>2. tool \notin AttentionCategories \cup DOMAIN AttentionAdds \cup DOMAIN AttentionEdits
                    \cup StatusCategories \cup PeriodTools \cup SendingTools \cup LoadingEdits
                    \cup {"hello"}
  BY AttentionNames
  DEF AttentionCategories, StatusCategories, PeriodTools, SendingTools, LoadingEdits, ApprovalTools
<1>3. InputSchema(tool) = ApprovalSchema(tool)
  BY <1>1, <1>2 DEF InputSchema
<1>4. r = ApprovalRequest(tool, args, t)
  BY <1>1, <1>2 DEF ToolRequest, SendingTools, PeriodTools, LoadingEdits
<1> SUFFICES ASSUME NEW name \in DOMAIN args, name \notin Consumed(tool, args), r.verb \in {"POST", "PATCH"}
             PROVE  Arrived(args, name, r)
  BY DEF Arrives
<1> HIDE DEF r
<1>5. /\ tool \in {"add_approval_request", "edit_approval_request"}
      /\ r.fields = Given(args, Approvals.creates) /\ r.project = t.project /\ r.room = t.room
      /\ tool = "edit_approval_request" => r.id = args["approval_request_id"]
  <2>1. Paging \subseteq Approvals.filters /\ Approvals.updates = Approvals.creates
    BY DEF Approvals, Collection
  <2>2. CASE tool = "approval_requests"
    BY <1>4, <2>1, <2>2, ListVerb DEF ApprovalRequest, ListApprovals
  <2>3. CASE tool = "get_approval_request"
    BY <1>4, <2>3, GetVerb DEF ApprovalRequest, GetApproval
  <2>4. CASE tool = "delete_approval_request"
    BY <1>4, <2>4, DeleteVerb DEF ApprovalRequest, DeleteApproval
  <2>5. CASE tool = "add_approval_request"
    BY <1>4, <2>1, <2>5, CreateShape DEF ApprovalRequest, AddApproval, Place
  <2>6. CASE tool = "edit_approval_request"
    BY <1>4, <2>1, <2>6, UpdateShape DEF ApprovalRequest, EditApproval, Place
  <2> QED
    BY <2>2, <2>3, <2>4, <2>5, <2>6 DEF ApprovalTools
<1>6. name \in ApprovalSchema(tool).props /\ name \notin {"project_name", "room_name"}
  BY <1>3 DEF Told, Consumed
<1>7. \/ name \in {"project_id", "room_id"}
      \/ name \in Approvals.creates \ Flags
      \/ name = "approval_request_id" /\ tool = "edit_approval_request"
  BY <1>5, <1>6 DEF ApprovalSchema, Schema, InRoom, ProjectIdProps, RoomIdProps, Approvals, Collection, Flags
<1>8. CASE name \in {"project_id", "room_id"}
  BY <1>5, <1>8, RoomArrives
<1>9. CASE name \in Approvals.creates \ Flags
  BY <1>5, <1>9, FieldArrives, CoercedArgs
<1>10. CASE name = "approval_request_id" /\ tool = "edit_approval_request"
  BY <1>5, <1>10, PlaceArrives, ItemIdNames DEF Has
<1> QED
  BY <1>7, <1>8, <1>9, <1>10

-----------------------------------------------------------------------------
(* Every plan that writes *)

LEMMA ToolArrives ==
  ASSUME NEW tool \in TOOL_HANDLERS \ {"hello", "add_approve_request_with_message"},
         NEW args, NoNulls(args), NEW t, WellFound(tool, args, t), Told(tool, args),
         ToolRequest(tool, args, t).verb \in {"POST", "PATCH"}
  PROVE  Arrives(ToolRequest(tool, args, t), tool, args)
<1>1. CASE tool \in FamilyTools
  <2>1. ToolRequest(tool, args, t) = FamilyRequest(FamilyOf[tool], tool, args, t)
    BY <1>1, FamilyOfTool
    DEF ToolRequest, Others, AttentionTools, PeriodTools, SendingTools, LoadingEdits
  <2> QED
    BY <1>1, <2>1, FamilyArrives
<1> QED
  BY <1>1, AttentionArrives, PeriodArrives, StatusArrives, SendingArrives, LoadingEditArrives, ApprovalArrives
  DEF TOOL_HANDLERS

LEMMA PlanArrives ==
  ASSUME NEW tool \in TOOL_HANDLERS, NEW args, NoNulls(args), NEW t, WellFound(tool, args, t),
         Told(tool, args),
         NEW some \in 1 .. Len(Plan(tool, args, t)), Plan(tool, args, t)[some].verb \in {"POST", "PATCH"},
         NEW name \in DOMAIN args, name \notin Consumed(tool, args)
  PROVE  \E n \in 1 .. Len(Plan(tool, args, t)) : Arrived(args, name, Plan(tool, args, t)[n])
<1>1. CASE tool = "hello"
  BY <1>1 DEF Plan
<1>2. CASE tool = "add_approve_request_with_message"
  <2> DEFINE changes == [message_id |-> t.message]
             given == Replaced(args, changes)
             first == AddMessage(args, t)
             second == AddApproval(given, t)
             own == { "request_type", "status", "agent_id", "requested_at", "resolved_at",
                      "resolved_by_id", "payload" }
  <2>1. Plan(tool, args, t) = <<first, second>>
    BY <1>2 DEF Plan, ApprovalOfMessage
  <2>2. second.fields = Given(given, Approvals.creates)
    BY CreateShape DEF AddApproval
  <2>3. own \subseteq Approvals.creates \ Flags /\ "message_id" \notin own
    BY DEF Approvals, Collection, Flags
  <2>4. name \in {"project_id", "room_id", "user_id", "bot_id", "body"} \cup AttachmentProps \/ name \in own
    BY <1>2, SendingArgs DEF SendingTools
  <2>5. DOMAIN changes = {"message_id"}
    OBVIOUS
  <2> HIDE DEF changes, first, second, own
  <2>6. CASE name \in {"project_id", "room_id", "user_id", "bot_id", "body"} \cup AttachmentProps
    <3>1. Arrived(args, name, first)
      BY <1>2, <2>6, MessageArrives DEF first
    <3> QED
      BY <2>1, <3>1
  <2>7. CASE name \in own
    <3>1. name \in DOMAIN given /\ given[name] = args[name]
      BY <2>3, <2>5, <2>7, ReplacedArgs DEF NoNulls
    <3>2. Coerced(args)[name] = args[name]
      BY <2>3, <2>7, CoercedArgs
    <3> HIDE DEF given
    <3>3. Arrived(args, name, second)
      BY <2>2, <2>3, <2>7, <3>1, <3>2, FieldArrives
    <3> QED
      BY <2>1, <3>3
  <2> QED
    BY <2>4, <2>6, <2>7
<1>3. CASE tool \notin {"hello", "add_approve_request_with_message"}
  <2> DEFINE r == ToolRequest(tool, args, t)
  <2>1. Plan(tool, args, t) = <<r>>
    BY <1>3 DEF Plan
  <2>2. r.verb \in {"POST", "PATCH"} => Arrives(r, tool, args)
    BY <1>3, ToolArrives
  <2> HIDE DEF r
  <2>3. r.verb \in {"POST", "PATCH"}
    BY <2>1
  <2> QED
    BY <2>1, <2>2, <2>3 DEF Arrives
<1> QED
  BY <1>1, <1>2, <1>3

-----------------------------------------------------------------------------
(* The calls *)

NullsLeftOut == \A s \in Slots : NoNulls(Args(s))

LEMMA NullsInvariant ==
  Spec => []NullsLeftOut
<1>1. Init => NullsLeftOut
  BY GivenAssumption DEF Init, NullsLeftOut, NoNulls, Args
<1>2. NullsLeftOut /\ [Next]_vars => NullsLeftOut'
  <2> SUFFICES ASSUME NullsLeftOut, [Next]_vars PROVE message' = message
    BY DEF NullsLeftOut, NoNulls, Args
  <2>1. ASSUME NEW s \in Slots, Step(s) PROVE message' = message
    BY <2>1
    DEF Step, AnswerMessage, UnknownTool, MissesParameter, CallTool, LookUp, FindsNothing, HasNoFile,
        SearchFails, LookupFails, RefusesCall, NeedsNothing, SendRequest, Serve, Refuse, Lose, Reply,
        LastReply, ReplyUnreadable, Succeeds, Raises, Ends, world
  <2>2. ASSUME NEW s \in Slots, ServeLate(s) PROVE message' = message
    BY <2>2 DEF ServeLate
  <2> QED
    BY <2>1, <2>2 DEF Next, Restart, vars
<1> QED
  BY <1>1, <1>2, PTL DEF Spec

\* A call that was answered as a success has sent its whole plan
LEMMA SuccessSendsAll ==
  ASSUME Calls, MessageKnown, NEW s \in Slots, IsToolCall(message[s]), answer[s] = "ok"
  PROVE  sent[s] = Len(Requests(s)) /\ \A n \in 1 .. sent[s] : Requests(s)[n] \in Range(Sent(s))
<1> DEFINE all == Requests(s)
           part == SubSeq(all, 1, sent[s])
<1>1. Len(all) \in Nat
  BY PlanLength DEF Requests
<1> HIDE DEF all
<1>2. sent[s] = Len(all)
  <2>1. served[s] = Len(all)
    BY DEF Calls, SuccessIsDone, all
  <2>2. sent[s] > 0 => sent[s] <= Len(all)
    BY DEF MessageKnown, all
  <2>3. sent[s] \in Nat /\ (served[s] = sent[s] \/ served[s] = sent[s] - 1)
    BY DEF Calls, TypeOK
  <2> QED
    BY <1>1, <2>1, <2>2, <2>3
<1>3. Len(part) = sent[s] /\ DOMAIN part = 1 .. sent[s] /\ \A n \in 1 .. sent[s] : part[n] = all[n]
  <2> DEFINE S == {all[n] : n \in 1 .. sent[s]}
             most == sent[s]
  <2>1. (\A i \in 1 .. most : all[i] \in S) /\ 1 \in Int /\ most \in Nat
    BY <1>1, <1>2
  <2> HIDE DEF S
  <2>2. /\ SubSeq(all, 1, most) \in Seq(S)
        /\ Len(SubSeq(all, 1, most)) = IF 1 <= most THEN most - 1 + 1 ELSE 0
        /\ \A i \in 1 .. most - 1 + 1 : SubSeq(all, 1, most)[i] = all[1 + i - 1]
    BY <2>1, SubSeqProperties
  <2>3. DOMAIN part = 1 .. Len(part)
    BY <2>2
  <2> QED
    BY <2>1, <2>2, <2>3
<1> HIDE DEF part
<1>4. \A n \in 1 .. sent[s] : all[n] \in Range(part)
  BY <1>3 DEF Range
<1> QED
  BY <1>2, <1>4 DEF Sent, part, all

\* What an agent gives a tool to write, by the names its schema advertises, is in what
\* W-space is sent: for every tool of the catalogue, whatever the arguments are, however
\* a name is looked up and whatever the other calls do (tools.py:2490 and the handlers,
\* ArgumentsArrive)
THEOREM ArgumentsAllArrive ==
  Spec => []ArgumentsArrive
<1>1. Calls /\ MessageKnown /\ LookedUp /\ NullsLeftOut => ArgumentsArrive
  <2> SUFFICES ASSUME Calls, MessageKnown, LookedUp, NullsLeftOut,
                      NEW s \in Slots, Conforms(s), answer[s] = "ok",
                      NEW r \in Range(Sent(s)), r.verb \in {"POST", "PATCH"},
                      NEW name \in DOMAIN Args(s) \ Consumed(Tool(s), Args(s))
               PROVE  \E written \in Range(Sent(s)) : Arrived(Args(s), name, written)
    BY DEF ArgumentsArrive
  <2>1. IsToolCall(message[s]) /\ Tool(s) \in TOOL_HANDLERS /\ Told(Tool(s), Args(s))
    BY ConformsTold DEF Conforms
  <2>2. sent[s] = Len(Requests(s)) /\ \A n \in 1 .. sent[s] : Requests(s)[n] \in Range(Sent(s))
    BY <2>1, SuccessSendsAll
  <2>3. PICK some \in 1 .. Len(Requests(s)) : r = Requests(s)[some]
    <3>1. Len(Requests(s)) \in Nat
      BY PlanLength DEF Requests
    <3>2. sent[s] \in 0 .. Len(Requests(s))
      BY <2>2, <3>1
    <3> QED
      BY <3>2, SentOfPlan
  <2>4. WellFound(Tool(s), Args(s), target[s]) /\ NoNulls(Args(s))
    BY DEF LookedUp, SlotLookedUp, WellFound, NullsLeftOut
  <2>5. \E n \in 1 .. Len(Requests(s)) : Arrived(Args(s), name, Requests(s)[n])
    BY <2>1, <2>3, <2>4, PlanArrives DEF Requests
  <2> QED
    BY <2>2, <2>5
<1> QED
  BY <1>1, CallsInvariant, KnownInvariant, LookedUpInvariant, NullsInvariant, PTL

=============================================================================
