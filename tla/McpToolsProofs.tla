--------------------------- MODULE McpToolsProofs ---------------------------
(***************************************************************************)
(* Proofs about McpTools, for every value of its constants: any messages,  *)
(* any arguments, any names in W-space, any number of restarts.  What the  *)
(* handlers ask for is used only through the number of their requests,     *)
(* which the tool alone decides.                                           *)
(***************************************************************************)
EXTENDS McpTools, SequenceTheorems, TLAPS

-----------------------------------------------------------------------------
(* Operators *)

\* How many requests a handler sends does not depend on what it looks up, nor on
\* the arguments
LEMMA PlanLength ==
  ASSUME NEW tool, NEW args, NEW t, NEW more, NEW u
  PROVE  /\ Len(Plan(tool, args, t)) \in Nat
         /\ Len(Plan(tool, args, t)) = Len(Plan(tool, more, u))
  BY DEF Plan, ApprovalOfMessage

Answers ==
    { "none", "ok", "error", "cut off", "result", "nothing", "parse error", "invalid request",
      "invalid params", "method not found" }

LEMMA RpcAnswers ==
  ASSUME NEW m
  PROVE  RpcAnswer(m) \in Answers \ {"none"}
  BY DEF RpcAnswer, Answers

-----------------------------------------------------------------------------
(* The inductive invariant: besides the properties, what a call has sent   *)
(* is part of its plan, it sends nothing before its lookups are over, and  *)
(* its row of the call log is not written before it ends.                  *)

Domains ==
    /\ todo = [s \in Slots |-> todo[s]]
    /\ target = [s \in Slots |-> target[s]]
    /\ answer \in [Slots -> Answers]

Progress ==
    \A s \in Slots :
        /\ phase[s] = "new" => sent[s] = 0
        /\ doubt[s] => answer[s] # "ok"
        /\ wire[s] # "idle" => sent[s] > 0
        /\ phase[s] = "working" =>
              /\ IsToolCall(message[s]) /\ Tool(s) \in TOOL_HANDLERS
              /\ sent[s] > 0 => todo[s] = <<>> /\ sent[s] <= Len(Requests(s))

Calls == TypeOK /\ Domains /\ Progress /\ SuccessIsDone

-----------------------------------------------------------------------------
(* Calls is preserved: first the ways a call ends and goes on *)

LEMMA CallEnds ==
  ASSUME Calls, NEW s \in Slots, NEW result \in Answers \ {"none"}, Ends(s, result),
         phase[s] # "done", UNCHANGED served,
         NEW d \in BOOLEAN, doubt' = [doubt EXCEPT ![s] = d], d => served[s] = sent[s] - 1 /\ result # "ok",
         IsToolCall(message[s]) /\ result = "ok" => served[s] = Len(Requests(s))
  PROVE  Calls'
<1> USE DEF Calls, Ends, world
<1>1. TypeOK'
  BY DEF TypeOK, Domains, Answers
<1>2. Domains'
  BY DEF Domains
<1>3. Progress'
  BY DEF TypeOK, Domains, Progress, Requests, Tool, Args
<1>4. SuccessIsDone'
  BY DEF TypeOK, Domains, SuccessIsDone, Requests, Tool, Args
<1> QED
  BY <1>1, <1>2, <1>3, <1>4

\* The steps of a call that neither end it nor touch what W-space has served
LEMMA CallGoesOn ==
  ASSUME Calls, NEW s \in Slots,
         UNCHANGED <<served, doubt, answer, world>>,
         phase[s] # "done", phase' = [phase EXCEPT ![s] = "working"],
         IsToolCall(message[s]), Tool(s) \in TOOL_HANDLERS,
         sent' = [sent EXCEPT ![s] = sent'[s]], sent'[s] \in Nat,
         wire' = [wire EXCEPT ![s] = wire'[s]], wire'[s] \in {"idle", "sent"},
         todo' = [todo EXCEPT ![s] = todo'[s]], target' = [target EXCEPT ![s] = target'[s]],
         wire'[s] = "idle" => served[s] = sent'[s],
         wire'[s] = "sent" => served[s] = sent'[s] - 1,
         sent'[s] > 0 => todo'[s] = <<>> /\ sent'[s] <= Len(Requests(s)')
  PROVE  Calls'
<1> USE DEF Calls, world
<1>1. TypeOK'
  <2>1. /\ phase' \in [Slots -> {"new", "working", "done"}] /\ sent' \in [Slots -> Nat]
        /\ wire' \in [Slots -> {"idle", "sent", "served"}]
    <3>1. phase \in [Slots -> {"new", "working", "done"}] /\ sent \in [Slots -> Nat]
      BY DEF TypeOK
    <3>2. wire \in [Slots -> {"idle", "sent", "served"}]
      BY DEF TypeOK
    <3>3. phase' \in [Slots -> {"new", "working", "done"}]
      BY <3>1
    <3>4. sent' \in [Slots -> Nat]
      BY <3>1
    <3>5. wire' \in [Slots -> {"idle", "sent", "served"}]
      BY <3>2
    <3> QED
      BY <3>3, <3>4, <3>5
  <2>2. ASSUME NEW r \in Slots, r # s
        PROVE  phase'[r] = phase[r] /\ sent'[r] = sent[r] /\ wire'[r] = wire[r]
    BY <2>2 DEF TypeOK
  <2>3. phase'[s] = "working" /\ answer[s] = "none" /\ ~doubt[s]
    BY DEF TypeOK
  <2> QED
    BY <2>1, <2>2, <2>3 DEF TypeOK
<1>2. Domains'
  BY DEF Domains
<1>3. Progress'
  <2>1. ASSUME NEW r \in Slots, r # s
        PROVE  /\ phase'[r] = phase[r] /\ sent'[r] = sent[r] /\ todo'[r] = todo[r]
               /\ wire'[r] = wire[r] /\ Requests(r)' = Requests(r)
    BY <2>1 DEF TypeOK, Domains, Requests, Tool, Args
  <2>2. phase'[s] = "working" /\ ~doubt[s] /\ (wire'[s] # "idle" => sent'[s] > 0)
    BY DEF TypeOK
  <2> QED
    BY <2>1, <2>2 DEF Progress, Tool
<1>4. SuccessIsDone'
  <2>1. ASSUME NEW r \in Slots, r # s PROVE Requests(r)' = Requests(r)
    BY <2>1 DEF Domains, Requests, Tool, Args
  <2>2. answer[s] = "none"
    BY DEF TypeOK
  <2> QED
    BY <2>1, <2>2 DEF SuccessIsDone
<1> QED
  BY <1>1, <1>2, <1>3, <1>4

LEMMA RequestIsServed ==
  ASSUME Calls, NEW s \in Slots, Serve(s) \/ ServeLate(s)
  PROVE  Calls'
<1> USE DEF Calls, world
<1>1. /\ served[s] = sent[s] - 1 /\ served' = [served EXCEPT ![s] = sent[s]]
      /\ UNCHANGED <<message, phase, todo, target, sent, answer, database, restarts>>
      /\ phase[s] = "new" => FALSE
      /\ answer[s] # "ok"
  <2>1. served[s] = sent[s] - 1 /\ sent[s] \in Nat /\ served[s] \in Nat /\ phase[s] # "new"
    <3>1. CASE Serve(s)
      BY <3>1 DEF TypeOK, Serve
    <3>2. CASE ServeLate(s)
      BY <3>2 DEF TypeOK, ServeLate
    <3> QED
      BY <3>1, <3>2
  <2>2. answer[s] # "ok"
    <3>1. CASE Serve(s)
      BY <3>1 DEF TypeOK, Serve
    <3>2. CASE ServeLate(s)
      BY <3>2 DEF Progress, ServeLate
    <3> QED
      BY <3>1, <3>2
  <2> QED
    BY <2>1, <2>2 DEF Serve, ServeLate
<1>2. TypeOK'
  <2>1. CASE Serve(s)
    BY <1>1, <2>1 DEF TypeOK, Serve
  <2>2. CASE ServeLate(s)
    BY <1>1, <2>2 DEF TypeOK, ServeLate
  <2> QED
    BY <2>1, <2>2
<1>3. Domains' /\ Progress'
  <2>1. \A r \in Slots : (doubt'[r] => doubt[r]) /\ (wire'[r] # "idle" => wire[r] # "idle")
    BY DEF TypeOK, Serve, ServeLate
  <2>2. \A r \in Slots : Requests(r)' = Requests(r)
    BY <1>1 DEF Requests, Tool, Args
  <2> QED
    BY <1>1, <2>1, <2>2 DEF Domains, Progress, Tool
<1>4. SuccessIsDone'
  BY <1>1 DEF TypeOK, SuccessIsDone, Requests, Tool, Args
<1> QED
  BY <1>2, <1>3, <1>4

LEMMA OneMoreRestart ==
  ASSUME NEW n \in 0 .. MaxRestarts, n < MaxRestarts
  PROVE  n + 1 \in 0 .. MaxRestarts
  BY RestartAssumption

LEMMA ProcessRestarts ==
  ASSUME Calls, Restart
  PROVE  Calls'
<1> USE DEF Calls, Restart
<1>1. TypeOK'
  <2>1. /\ database' \in {"up", "down"} /\ restarts' \in 0 .. MaxRestarts
        /\ phase' \in [Slots -> {"new", "working", "done"}]
        /\ sent' \in [Slots -> Nat] /\ served' \in [Slots -> Nat]
        /\ wire' \in [Slots -> {"idle", "sent", "served"}]
        /\ doubt' \in [Slots -> BOOLEAN]
    <3>1. restarts' \in 0 .. MaxRestarts
      <4>1. restarts \in 0 .. MaxRestarts /\ restarts < MaxRestarts /\ restarts' = restarts + 1
        BY DEF TypeOK
      <4> QED
        BY <4>1, OneMoreRestart
    <3>2. phase' \in [Slots -> {"new", "working", "done"}]
      BY DEF TypeOK
    <3>3. doubt' \in [Slots -> BOOLEAN]
      BY DEF TypeOK
    <3>4. wire' \in [Slots -> {"idle", "sent", "served"}]
      BY DEF TypeOK
    <3> QED
      BY <3>1, <3>2, <3>3, <3>4 DEF TypeOK
  <2>2. ASSUME NEW s \in Slots
        PROVE  /\ phase'[s] = "done" <=> answer'[s] # "none"
               /\ doubt'[s] => phase'[s] = "done" /\ served'[s] = sent'[s] - 1
               /\ phase'[s] # "done" => served'[s] = sent'[s]
    BY <2>2 DEF TypeOK
  <2>3. \A s \in Slots : wire'[s] = "idle"
    OBVIOUS
  <2> QED
    BY <2>1, <2>2, <2>3 DEF TypeOK
<1>2. Domains' /\ Progress'
  BY DEF TypeOK, Domains, Answers, Progress, Requests, Tool, Args
<1>3. SuccessIsDone'
  BY DEF TypeOK, Domains, SuccessIsDone, Requests, Tool, Args
<1> QED
  BY <1>1, <1>2, <1>3

\* While there is something to look up, nothing was sent
LEMMA LookingUp ==
  ASSUME Calls, NEW s \in Slots, phase[s] = "working", todo[s] # <<>>
  PROVE  sent[s] = 0 /\ served[s] = 0 /\ wire[s] = "idle"
<1>1. sent[s] \in Nat /\ (sent[s] > 0 => todo[s] = <<>>)
  BY DEF Calls, TypeOK, Progress
<1>2. sent[s] = 0
  BY <1>1
<1> QED
  BY <1>2 DEF Calls, TypeOK, Progress

\* A handler's step keeps to one of the two ways
LEMMA CallSteps ==
  ASSUME Calls, NEW s \in Slots, Step(s)
  PROVE  Calls'
<1> USE DEF Calls
<1>0. /\ doubt[s] \in BOOLEAN /\ doubt = [doubt EXCEPT ![s] = doubt[s]]
      /\ doubt[s] => served[s] = sent[s] - 1
      /\ sent[s] \in Nat /\ served[s] \in Nat
      /\ phase[s] # "done" => ~doubt[s]
  BY DEF TypeOK
<1>a. {"ok", "error"} \subseteq Answers \ {"none"}
  BY DEF Answers
<1>1. CASE AnswerMessage(s)
  <2>1. phase[s] # "done"
    BY <1>1 DEF AnswerMessage
  <2> QED
    BY <1>0, <1>1, <2>1, RpcAnswers, CallEnds DEF AnswerMessage
<1>2. CASE UnknownTool(s)
  BY <1>0, <1>2, <1>a, CallEnds DEF UnknownTool
<1>3. CASE MissesParameter(s)
  BY <1>0, <1>3, <1>a, CallEnds DEF MissesParameter, Raises
<1>5. CASE FindsNothing(s)
  BY <1>0, <1>5, <1>a, CallEnds DEF FindsNothing, Raises
<1>6. CASE HasNoFile(s)
  BY <1>0, <1>6, <1>a, CallEnds DEF HasNoFile, Raises
<1>7. CASE LookupFails(s)
  BY <1>0, <1>7, <1>a, CallEnds DEF LookupFails, Raises
<1>8. CASE RefusesCall(s)
  BY <1>0, <1>8, <1>a, CallEnds DEF RefusesCall, Ready, Raises
<1>9. CASE Refuse(s)
  <2>1. phase[s] # "done"
    BY <1>9 DEF Refuse, TypeOK
  <2> QED
    BY <1>0, <1>9, <1>a, <2>1, CallEnds DEF Refuse, Raises
<1>10. CASE ReplyUnreadable(s)
  <2>1. phase[s] # "done"
    BY <1>10 DEF ReplyUnreadable, TypeOK
  <2> QED
    BY <1>0, <1>10, <1>a, <2>1, CallEnds DEF ReplyUnreadable, Raises
<1>11. CASE Lose(s)
  <2>1. phase[s] # "done" /\ (wire[s] = "sent" => served[s] = sent[s] - 1)
    BY <1>11 DEF Lose, TypeOK
  <2>2. (wire[s] = "sent" /\ IsWrite(Current(s))) \in BOOLEAN
    OBVIOUS
  <2> QED
    BY <1>11, <1>a, <2>1, <2>2, CallEnds DEF Lose, Raises
<1>12. CASE NeedsNothing(s)
  <2>0. phase[s] = "working" /\ wire[s] = "idle" /\ Len(Requests(s)) = 0
    BY <1>12 DEF NeedsNothing, Ready
  <2>1. sent[s] = 0 /\ served[s] = 0 /\ Len(Requests(s)) = 0
    <3>1. (sent[s] > 0 => sent[s] <= Len(Requests(s))) /\ served[s] = sent[s]
      BY <2>0 DEF TypeOK, Progress
    <3> QED
      BY <1>0, <2>0, <3>1
  <2> QED
    BY <1>0, <1>12, <1>a, <2>1, CallEnds DEF NeedsNothing, Ready, Succeeds
<1>13. CASE LastReply(s)
  <2>1. phase[s] # "done" /\ served[s] = Len(Requests(s))
    BY <1>0, <1>13 DEF LastReply, TypeOK
  <2> QED
    BY <1>0, <1>13, <1>a, <2>1, CallEnds DEF LastReply, Succeeds
<1>14. CASE CallTool(s)
  <2>1. phase[s] = "new" /\ sent[s] = 0 /\ served[s] = 0 /\ wire[s] = "idle"
    BY <1>14, <1>0 DEF CallTool, TypeOK, Progress
  <2>3. target' = [target EXCEPT ![s] = target'[s]] /\ sent'[s] = 0
    BY <1>14, <2>1 DEF CallTool, Domains
  <2>4. /\ UNCHANGED <<served, doubt, answer, world>>
        /\ phase[s] # "done" /\ phase' = [phase EXCEPT ![s] = "working"]
        /\ IsToolCall(message[s]) /\ Tool(s) \in TOOL_HANDLERS
        /\ todo' = [todo EXCEPT ![s] = todo'[s]]
    BY <1>14, <2>1 DEF CallTool, Domains, TypeOK, Progress
  <2>5. /\ sent' = [sent EXCEPT ![s] = sent'[s]] /\ sent'[s] \in Nat
        /\ wire' = [wire EXCEPT ![s] = wire'[s]] /\ wire'[s] \in {"idle", "sent"}
        /\ wire'[s] = "idle" => served[s] = sent'[s]
        /\ wire'[s] = "sent" => served[s] = sent'[s] - 1
    BY <1>14, <1>0, <2>1 DEF CallTool, TypeOK
  <2> QED
    <3>1. sent'[s] > 0 => todo'[s] = <<>> /\ sent'[s] <= Len(Requests(s)')
      BY <2>3
    <3> QED
      BY <2>1, <2>3, <2>4, <2>5, <3>1, CallGoesOn
<1>15. CASE LookUp(s)
  <2>1. phase[s] = "working" /\ todo[s] # <<>>
    BY <1>15 DEF LookUp
  <2>2. sent[s] = 0 /\ served[s] = 0 /\ wire[s] = "idle"
    BY <1>0, <2>1, LookingUp
  <2>3. target' = [target EXCEPT ![s] = target'[s]]
    BY <1>15 DEF LookUp, Domains
  <2> QED
    BY <1>15, <2>1, <2>2, <2>3, CallGoesOn DEF LookUp, Domains, TypeOK, Progress
<1>16. CASE SearchFails(s)
  <2>1. phase[s] = "working" /\ todo[s] # <<>>
    BY <1>16 DEF SearchFails
  <2>2. sent[s] = 0 /\ served[s] = 0 /\ wire[s] = "idle"
    BY <1>0, <2>1, LookingUp
  <2>3. target' = [target EXCEPT ![s] = target'[s]]
    BY <1>16 DEF SearchFails, Domains
  <2>4. /\ UNCHANGED <<phase, sent, served, wire, doubt, answer, world>>
        /\ todo' = [todo EXCEPT ![s] = Tail(todo[s])]
    BY <1>16 DEF SearchFails
  <2>5. todo' = [todo EXCEPT ![s] = todo'[s]]
    BY <2>4 DEF Domains
  <2> QED
    BY <2>1, <2>2, <2>3, <2>4, <2>5, CallGoesOn DEF Domains, TypeOK, Progress
<1>17. CASE SendRequest(s)
  <2>1. phase[s] = "working" /\ todo[s] = <<>> /\ wire[s] = "idle" /\ served[s] = sent[s]
    BY <1>0, <1>17 DEF SendRequest, Ready, TypeOK
  <2>2. sent'[s] = sent[s] + 1 /\ sent'[s] <= Len(Requests(s)) /\ Requests(s)' = Requests(s)
    BY <1>0, <1>17, PlanLength DEF SendRequest, Requests, Tool, Args, world, TypeOK
  <2>3. todo' = [todo EXCEPT ![s] = todo'[s]] /\ target' = [target EXCEPT ![s] = target'[s]]
    BY <1>17 DEF SendRequest, Domains
  <2>4. /\ UNCHANGED <<served, doubt, answer, world>>
        /\ phase[s] # "done" /\ phase' = [phase EXCEPT ![s] = "working"]
        /\ IsToolCall(message[s]) /\ Tool(s) \in TOOL_HANDLERS
        /\ todo' = [todo EXCEPT ![s] = todo'[s]]
    BY <1>17, <2>1 DEF SendRequest, Domains, TypeOK, Progress
  <2>5. /\ sent' = [sent EXCEPT ![s] = sent'[s]] /\ sent'[s] \in Nat
        /\ wire' = [wire EXCEPT ![s] = wire'[s]] /\ wire'[s] \in {"idle", "sent"}
        /\ wire'[s] = "idle" => served[s] = sent'[s]
        /\ wire'[s] = "sent" => served[s] = sent'[s] - 1
    <3>1. sent' = [sent EXCEPT ![s] = sent[s] + 1] /\ wire' = [wire EXCEPT ![s] = "sent"]
      BY <1>17 DEF SendRequest
    <3>2. sent'[s] = sent[s] + 1 /\ wire'[s] = "sent"
      BY <3>1 DEF TypeOK
    <3>3. sent' = [sent EXCEPT ![s] = sent'[s]] /\ wire' = [wire EXCEPT ![s] = wire'[s]]
      BY <3>1, <3>2 DEF TypeOK
    <3>4. served[s] = sent'[s] - 1 /\ sent'[s] \in Nat
      BY <1>0, <2>1, <3>2
    <3> QED
      BY <3>2, <3>3, <3>4
  <2>6. sent'[s] > 0 => todo'[s] = <<>> /\ sent'[s] <= Len(Requests(s)')
    BY <1>17, <2>1, <2>2 DEF SendRequest
  <2> QED
    BY <2>3, <2>4, <2>5, <2>6, CallGoesOn
<1>18. CASE Reply(s)
  <2>1. phase[s] = "working" /\ served[s] = sent[s]
    BY <1>0, <1>18 DEF Reply, TypeOK
  <2>2. Len(Requests(s)') = Len(Requests(s))
    BY <1>18, PlanLength DEF Requests, Tool, Args, Reply, world
  <2>3. target' = [target EXCEPT ![s] = target'[s]] /\ todo' = [todo EXCEPT ![s] = todo'[s]]
    BY <1>18 DEF Reply, Domains
  <2>4. /\ UNCHANGED <<served, doubt, answer, world>>
        /\ phase[s] # "done" /\ phase' = [phase EXCEPT ![s] = "working"]
        /\ IsToolCall(message[s]) /\ Tool(s) \in TOOL_HANDLERS
        /\ todo' = [todo EXCEPT ![s] = todo'[s]]
    BY <1>18, <2>1 DEF Reply, Domains, TypeOK, Progress
  <2>5. /\ sent' = [sent EXCEPT ![s] = sent'[s]] /\ sent'[s] \in Nat
        /\ wire' = [wire EXCEPT ![s] = wire'[s]] /\ wire'[s] \in {"idle", "sent"}
        /\ wire'[s] = "idle" => served[s] = sent'[s]
        /\ wire'[s] = "sent" => served[s] = sent'[s] - 1
    BY <1>18, <1>0, <2>1 DEF Reply, TypeOK
  <2>6. sent'[s] > 0 => todo'[s] = <<>> /\ sent'[s] <= Len(Requests(s)')
    BY <1>0, <1>18, <2>1, <2>2 DEF Reply, TypeOK, Progress
  <2> QED
    BY <2>3, <2>4, <2>5, <2>6, CallGoesOn
<1>19. CASE Serve(s)
  BY <1>19, RequestIsServed
<1> QED
  BY <1>1, <1>2, <1>3, <1>5, <1>6, <1>7, <1>8, <1>9, <1>10, <1>11, <1>12, <1>13, <1>14, <1>15,
     <1>16, <1>17, <1>18, <1>19 DEF Step

LEMMA CallsInvariant ==
  Spec => []Calls
<1>1. Init => Calls
  BY RestartAssumption, WorkloadAssumption DEF Init, Calls, TypeOK, Domains, Answers, Progress, SuccessIsDone
<1>2. Calls /\ [Next]_vars => Calls'
  <2> SUFFICES ASSUME Calls, [Next]_vars PROVE Calls'
    OBVIOUS
  <2>1. CASE \E s \in Slots : Step(s) \/ ServeLate(s)
    BY <2>1, CallSteps, RequestIsServed
  <2>2. CASE Restart
    BY <2>2, ProcessRestarts
  <2>3. CASE UNCHANGED vars
    BY <2>3 DEF vars, Calls, TypeOK, Domains, Progress, SuccessIsDone, Requests, Tool, Args
  <2> QED
    BY <2>1, <2>2, <2>3 DEF Next
<1> QED
  BY <1>1, <1>2, PTL DEF Spec

\* TypeOK holds in every reachable state (mcp/core.py:105, _client.py:78)
THEOREM TypesHold ==
  Spec => []TypeOK
<1>1. Calls => TypeOK
  BY DEF Calls
<1> QED
  BY <1>1, CallsInvariant, PTL

\* Whatever a handler asks for, a tool call answered as a success has had all of it
\* served by W-space (mcp/core.py:119)
THEOREM SuccessHolds ==
  Spec => []SuccessIsDone
<1>1. Calls => SuccessIsDone
  BY DEF Calls
<1> QED
  BY <1>1, CallsInvariant, PTL

-----------------------------------------------------------------------------
(* The promise: each step of the calls is one of the promise, or a stutter *)

Good == {"ok", "result", "nothing"}

LEMMA VerdictOfCall ==
  ASSUME Calls, NEW s \in Slots, phase[s] # "done",
         NEW result \in Answers \ {"none"}, Ends(s, result)
  PROVE  /\ Verdict[s] = "open"
         /\ Verdict' = [Verdict EXCEPT ![s] = IF result \in Good THEN "succeeded" ELSE "failed"]
<1>1. Verdict[s] = "open"
  BY DEF Verdict
<1>2. /\ phase'[s] = "done" /\ answer'[s] = result
      /\ \A r \in Slots : r # s => phase'[r] = phase[r] /\ answer'[r] = answer[r]
  BY DEF Ends, Calls, TypeOK, Domains
<1> QED
  BY <1>1, <1>2 DEF Verdict, Good

LEMMA FailureIsPromised ==
  ASSUME Calls, NEW s \in Slots, phase[s] # "done",
         NEW result \in Answers \ ({"none"} \cup Good), Ends(s, result),
         UNCHANGED served, doubt' \in {doubt, [doubt EXCEPT ![s] = TRUE]}
  PROVE  Promise!Fail(s)
  BY VerdictOfCall DEF Promise!Fail

LEMMA SuccessIsPromised ==
  ASSUME Calls, NEW s \in Slots, phase[s] # "done",
         NEW result \in Good, Ends(s, result), UNCHANGED <<served, doubt>>
  PROVE  Promise!Succeed(s)
<1>1. result \in Answers \ {"none"}
  BY DEF Answers, Good
<1> QED
  BY <1>1, VerdictOfCall DEF Promise!Succeed

LEMMA WorkIsStutter ==
  ASSUME Calls, NEW s \in Slots, phase[s] # "done", phase' = [phase EXCEPT ![s] = "working"],
         UNCHANGED <<answer, served, doubt>>
  PROVE  UNCHANGED Promise!promiseVars
<1>1. \A r \in Slots : phase'[r] = "done" <=> phase[r] = "done"
  BY DEF Calls, TypeOK
<1> QED
  BY <1>1 DEF Verdict, Promise!promiseVars

LEMMA CallKeepsPromise ==
  ASSUME Calls, NEW s \in Slots, Step(s)
  PROVE  Promise!Fail(s) \/ Promise!Succeed(s) \/ Promise!Effect(s) \/ UNCHANGED Promise!promiseVars
<1> USE DEF Calls
<1>a. "error" \in Answers \ ({"none"} \cup Good) /\ "ok" \in Good
  BY DEF Answers, Good
<1>1. CASE AnswerMessage(s)
  <2> DEFINE result == RpcAnswer(message[s])
  <2>1. phase[s] # "done" /\ Ends(s, result) /\ UNCHANGED <<served, doubt>>
    BY <1>1 DEF AnswerMessage
  <2>2. result \in Answers \ {"none"}
    BY RpcAnswers
  <2> HIDE DEF result
  <2>3. CASE result \in Good
    BY <2>1, <2>3, SuccessIsPromised
  <2>4. CASE result \notin Good
    <3>1. result \in Answers \ ({"none"} \cup Good)
      BY <2>2, <2>4
    <3> QED
      BY <2>1, <3>1, FailureIsPromised
  <2> QED
    BY <2>3, <2>4
<1>2. CASE UnknownTool(s) \/ MissesParameter(s) \/ FindsNothing(s) \/ HasNoFile(s) \/ LookupFails(s)
           \/ RefusesCall(s) \/ Refuse(s) \/ ReplyUnreadable(s)
  <2>1. phase[s] # "done" /\ Ends(s, "error") /\ UNCHANGED <<served, doubt>>
    BY <1>2 DEF TypeOK, UnknownTool, MissesParameter, FindsNothing, HasNoFile, LookupFails,
                RefusesCall, Ready, Refuse, ReplyUnreadable, Raises
  <2> QED
    BY <1>a, <2>1, FailureIsPromised
<1>3. CASE Lose(s)
  <2>1. phase[s] # "done" /\ Ends(s, "error") /\ UNCHANGED served
    BY <1>3 DEF TypeOK, Lose, Raises
  <2>2. doubt' = [doubt EXCEPT ![s] = wire[s] = "sent" /\ IsWrite(Current(s))]
    BY <1>3 DEF Lose
  <2>3. CASE wire[s] = "sent" /\ IsWrite(Current(s))
    <3>1. doubt' = [doubt EXCEPT ![s] = TRUE]
      BY <2>2, <2>3
    <3> QED
      BY <1>a, <2>1, <3>1, FailureIsPromised
  <2>4. CASE ~(wire[s] = "sent" /\ IsWrite(Current(s)))
    <3>1. doubt' = doubt
      BY <2>1, <2>2, <2>4 DEF TypeOK
    <3> QED
      BY <1>a, <2>1, <3>1, FailureIsPromised
  <2> QED
    BY <2>3, <2>4
<1>4. CASE NeedsNothing(s) \/ LastReply(s)
  <2>1. phase[s] # "done" /\ Ends(s, "ok") /\ UNCHANGED <<served, doubt>>
    BY <1>4 DEF TypeOK, NeedsNothing, Ready, LastReply, Succeeds
  <2> QED
    BY <1>a, <2>1, SuccessIsPromised
<1>5. CASE Serve(s)
  <2>1. phase[s] = "working" /\ served' = [served EXCEPT ![s] = @ + 1]
        /\ UNCHANGED <<phase, answer, doubt>>
    BY <1>5 DEF TypeOK, Serve
  <2> QED
    BY <2>1 DEF Verdict, Promise!Effect
<1>6. CASE CallTool(s) \/ LookUp(s) \/ SearchFails(s) \/ SendRequest(s) \/ Reply(s)
  <2>1. phase[s] # "done" /\ UNCHANGED <<answer, served, doubt>>
    BY <1>6 DEF TypeOK, CallTool, LookUp, SearchFails, SendRequest, Ready, Reply
  <2>2. phase' = [phase EXCEPT ![s] = "working"]
    BY <1>6 DEF TypeOK, CallTool, LookUp, SearchFails, SendRequest, Ready, Reply
  <2> QED
    BY <2>1, <2>2, WorkIsStutter
<1> QED
  BY <1>1, <1>2, <1>3, <1>4, <1>5, <1>6 DEF Step

LEMMA RestartCutsOff ==
  ASSUME Calls, Restart
  PROVE  Promise!CutOff
<1> USE DEF Calls
<1> DEFINE some == {s \in Slots : phase[s] = "working"}
           doubtful == {s \in Slots : wire[s] = "sent" /\ IsWrite(Current(s))}
<1>1. some \in SUBSET {s \in Slots : Verdict[s] = "open"} /\ doubtful \in SUBSET Slots
  BY DEF Verdict
<1>2. doubtful \subseteq some
  BY DEF TypeOK
<1>3. Verdict' = [s \in Slots |-> IF s \in some THEN "failed" ELSE Verdict[s]]
  <2>1. ASSUME NEW s \in Slots, phase[s] = "working"
        PROVE  phase'[s] = "done" /\ answer'[s] = "cut off"
    BY <2>1 DEF Restart
  <2>2. ASSUME NEW s \in Slots, phase[s] # "working"
        PROVE  phase'[s] = phase[s] /\ answer'[s] = answer[s]
    BY <2>2 DEF Restart
  <2> QED
    BY <2>1, <2>2 DEF Verdict
<1>4. doubt' = [s \in Slots |-> doubt[s] \/ s \in doubtful]
  BY DEF Restart
<1>5. served' = served
  BY DEF Restart
<1> HIDE DEF some, doubtful
<1> QED
  BY <1>1, <1>2, <1>3, <1>4, <1>5 DEF Promise!CutOff

\* The calls implement ToolPromise: no request is served twice, none after a success,
\* and at most the one in doubt after a failure or a restart (CallPromise)
THEOREM KeepsPromise ==
  Spec => CallPromise
<1>1. Init => Promise!PromiseInit
  BY DEF Init, Promise!PromiseInit, Verdict
<1>2. Calls /\ [Next]_vars => [Promise!PromiseNext]_(Promise!promiseVars)
  <2> SUFFICES ASSUME Calls, [Next]_vars PROVE [Promise!PromiseNext]_(Promise!promiseVars)
    OBVIOUS
  <2>1. ASSUME NEW s \in Slots, Step(s) PROVE [Promise!PromiseNext]_(Promise!promiseVars)
    BY <2>1, CallKeepsPromise DEF Promise!PromiseNext
  <2>2. ASSUME NEW s \in Slots, ServeLate(s) PROVE Promise!LateEffect(s)
    BY <2>2 DEF ServeLate, Promise!LateEffect, Verdict
  <2>3. CASE Restart
    BY <2>3, RestartCutsOff DEF Promise!PromiseNext
  <2>4. CASE UNCHANGED vars
    BY <2>4 DEF vars, Promise!promiseVars, Verdict
  <2> QED
    BY <2>1, <2>2, <2>3, <2>4 DEF Next, Promise!PromiseNext
<1> QED
  BY <1>1, <1>2, CallsInvariant, PTL DEF Spec, CallPromise, Promise!PromiseSpec

-----------------------------------------------------------------------------
(* The rows a call leaves: none in the call log before it ends, one then   *)

Rows == [log : Seq({"ok", "error"}), tool : Nat, api : Nat]

Trails ==
    /\ trail \in [Slots -> Rows]
    /\ \A s \in Slots :
          database = "up" /\ phase[s] # "done" => trail[s].log = <<>> /\ trail[s].tool = 0
    /\ TrailAgrees

LEMMA RowsWritten ==
  ASSUME Trails, NEW s \in Slots, phase[s] # "done",
         NEW error \in BOOLEAN, NEW tool \in Nat, NEW api \in Nat,
         trail' = Written(s, error, tool, api)
  PROVE  /\ trail' \in [Slots -> Rows]
         /\ \A r \in Slots : r # s => trail'[r] = trail[r]
         /\ database = "up" =>
               /\ trail'[s].log = IF error THEN <<"error">> ELSE <<"ok">>
               /\ trail'[s].tool = tool
               /\ trail'[s].api = trail[s].api + api
<1> DEFINE word == IF error THEN "error" ELSE "ok"
           row == [ log |-> Append(trail[s].log, word),
                    tool |-> trail[s].tool + tool, api |-> trail[s].api + api ]
<1>1. trail[s] \in Rows /\ trail \in [Slots -> Rows]
  BY DEF Trails
<1>2. word \in {"ok", "error"}
  OBVIOUS
<1>3. row \in Rows
  <2>1. Append(trail[s].log, word) \in Seq({"ok", "error"})
    BY <1>1, <1>2, AppendProperties DEF Rows
  <2> QED
    BY <1>1, <2>1 DEF Rows
<1>4. trail' = IF database = "up" THEN [trail EXCEPT ![s] = row] ELSE trail
  BY DEF Written
<1>5. database = "up" => row.log = <<word>> /\ row.tool = tool
  <2> SUFFICES ASSUME database = "up" PROVE row.log = <<word>> /\ row.tool = tool
    OBVIOUS
  <2>1. trail[s].log = <<>> /\ trail[s].tool = 0
    BY DEF Trails
  <2>2. Append(<<>>, word) = <<word>>
    OBVIOUS
  <2>3. row.log = Append(<<>>, word) /\ row.tool = 0 + tool
    BY <2>1
  <2>4. row.log = <<word>>
    BY <2>2, <2>3
  <2>5. row.tool = tool
    BY <2>3
  <2> QED
    BY <2>4, <2>5
<1>6. row.api = trail[s].api + api
  OBVIOUS
<1> HIDE DEF row
<1>7. trail' \in [Slots -> Rows] /\ (database = "up" => trail'[s] = row)
      /\ \A r \in Slots : r # s => trail'[r] = trail[r]
  BY <1>1, <1>3, <1>4
<1> QED
  BY <1>5, <1>6, <1>7

\* A call ends with its rows
LEMMA EndLeavesRows ==
  ASSUME Calls, Trails, NEW s \in Slots, phase[s] # "done",
         NEW error \in BOOLEAN, NEW tool \in Nat, NEW api \in Nat,
         trail' = Written(s, error, tool, api), Ends(s, IF error THEN "error" ELSE "ok"),
         tool = IF error /\ Tool(s) \in TOOL_HANDLERS THEN 1 ELSE 0,
         NEW d \in BOOLEAN, doubt' = [doubt EXCEPT ![s] = d], d => api > 0
  PROVE  Trails'
<1>1. /\ trail' \in [Slots -> Rows]
      /\ \A r \in Slots : r # s => trail'[r] = trail[r]
      /\ database = "up" =>
            /\ trail'[s].log = IF error THEN <<"error">> ELSE <<"ok">>
            /\ trail'[s].tool = tool
            /\ trail'[s].api = trail[s].api + api
  BY RowsWritten
<1>2. /\ phase'[s] = "done" /\ answer'[s] = (IF error THEN "error" ELSE "ok")
      /\ database' = database /\ message' = message
      /\ doubt'[s] = d
      /\ \A r \in Slots : r # s => phase'[r] = phase[r] /\ answer'[r] = answer[r]
                                 /\ (doubt'[r] <=> doubt[r])
  BY DEF Ends, world, Calls, TypeOK, Domains
<1>3. \A r \in Slots : database' = "up" /\ phase'[r] # "done" => trail'[r].log = <<>> /\ trail'[r].tool = 0
  BY <1>1, <1>2 DEF Trails
<1>4. trail[s].api \in Nat
  BY DEF Trails, Rows
<1>5. TrailAgrees'
  <2> SUFFICES ASSUME NEW r \in Slots, IsToolCall(message[r]), database = "up",
                      answer'[r] \in {"ok", "error"}
               PROVE  /\ trail'[r].log = <<answer'[r]>>
                      /\ trail'[r].tool = IF answer'[r] = "error" /\ Tool(r) \in TOOL_HANDLERS THEN 1 ELSE 0
                      /\ doubt'[r] => trail'[r].api > 0
    BY <1>2 DEF TrailAgrees, Tool
  <2>1. CASE r = s
    BY <1>1, <1>2, <1>4, <2>1
  <2>2. CASE r # s
    BY <1>1, <1>2, <2>2 DEF Trails, TrailAgrees
  <2> QED
    BY <2>1, <2>2
<1> QED
  BY <1>1, <1>3, <1>5 DEF Trails

\* Steps that leave no row and end no tool call
LEMMA NoRowsLeft ==
  ASSUME Calls, Trails, UNCHANGED <<message, database>>, trail' \in [Slots -> Rows],
         \A s \in Slots :
            /\ trail'[s].log = trail[s].log /\ trail'[s].tool = trail[s].tool
            /\ trail'[s].api >= trail[s].api
            /\ phase'[s] # "done" => phase[s] # "done"
            /\ IsToolCall(message[s]) /\ answer'[s] \in {"ok", "error"} =>
                  answer'[s] = answer[s] /\ (doubt'[s] => doubt[s])
  PROVE  Trails'
<1>1. \A s \in Slots : trail[s].api \in Nat /\ trail'[s].api \in Nat
  BY DEF Trails, Rows
<1>2. TrailAgrees'
  BY <1>1 DEF Trails, TrailAgrees, Tool
<1> QED
  BY <1>2 DEF Trails

LEMMA StepLeavesRows ==
  ASSUME Calls, Trails, NEW s \in Slots, Step(s)
  PROVE  Trails'
<1>1. CASE AnswerMessage(s)
  <2>1. /\ ~IsToolCall(message[s]) /\ phase'[s] = "done" /\ UNCHANGED <<message, database, trail, doubt>>
        /\ \A r \in Slots : r # s => phase'[r] = phase[r] /\ answer'[r] = answer[r]
    BY <1>1 DEF AnswerMessage, Ends, world, Calls, TypeOK, Domains
  <2> QED
    BY <2>1, NoRowsLeft DEF Trails, Rows
<1>2. CASE UnknownTool(s)
  <2>1. /\ phase[s] # "done" /\ trail' = Written(s, TRUE, 0, 0) /\ Ends(s, "error")
        /\ Tool(s) \notin TOOL_HANDLERS
    BY <1>2 DEF UnknownTool
  <2>2. doubt' = [doubt EXCEPT ![s] = FALSE]
    BY <1>2 DEF UnknownTool, Calls, TypeOK
  <2> QED
    BY <2>1, <2>2, EndLeavesRows
<1>3. CASE MissesParameter(s) \/ FindsNothing(s) \/ HasNoFile(s) \/ LookupFails(s)
           \/ RefusesCall(s) \/ Refuse(s) \/ ReplyUnreadable(s)
  <2>1. PICK api \in {0, 1} : Raises(s, api)
    BY <1>3 DEF MissesParameter, FindsNothing, HasNoFile, LookupFails, RefusesCall, Refuse,
                ReplyUnreadable
  <2>2. phase[s] # "done" /\ UNCHANGED doubt /\ Tool(s) \in TOOL_HANDLERS
    BY <1>3 DEF MissesParameter, FindsNothing, HasNoFile, LookupFails, RefusesCall, Ready, Refuse,
                ReplyUnreadable, Calls, TypeOK, Progress
  <2>3. doubt' = [doubt EXCEPT ![s] = FALSE]
    BY <2>2 DEF Calls, TypeOK
  <2> QED
    BY <2>1, <2>2, <2>3, EndLeavesRows DEF Raises
<1>4. CASE Lose(s)
  <2>1. phase[s] # "done" /\ Raises(s, 1) /\ Tool(s) \in TOOL_HANDLERS
    BY <1>4 DEF Lose, Calls, TypeOK, Progress
  <2>2. PICK d \in BOOLEAN : doubt' = [doubt EXCEPT ![s] = d]
    BY <1>4 DEF Lose
  <2> QED
    <3>1. /\ trail' = Written(s, TRUE, 1, 1) /\ Ends(s, "error")
          /\ 1 = IF TRUE /\ Tool(s) \in TOOL_HANDLERS THEN 1 ELSE 0
          /\ d => 1 > 0
      BY <2>1 DEF Raises
    <3> QED
      BY <2>1, <2>2, <3>1, EndLeavesRows
<1>5. CASE NeedsNothing(s) \/ LastReply(s)
  <2>1. phase[s] # "done" /\ Succeeds(s) /\ UNCHANGED doubt
    BY <1>5 DEF NeedsNothing, Ready, LastReply, Calls, TypeOK
  <2>2. doubt' = [doubt EXCEPT ![s] = FALSE]
    BY <2>1 DEF Calls, TypeOK
  <2> QED
    BY <2>1, <2>2, EndLeavesRows DEF Succeeds
<1>6. CASE SearchFails(s)
  <2>0. PICK api \in {0, 1} :
          trail' = IF database = "up" THEN [trail EXCEPT ![s].api = @ + api] ELSE trail
    BY <1>6 DEF SearchFails
  <2>1. /\ phase' = phase /\ UNCHANGED <<message, database, answer, doubt>>
        /\ trail' = IF database = "up" THEN [trail EXCEPT ![s].api = @ + api] ELSE trail
    BY <1>6, <2>0 DEF SearchFails, world
  <2>2. /\ trail' \in [Slots -> Rows]
        /\ \A r \in Slots : /\ trail'[r].log = trail[r].log /\ trail'[r].tool = trail[r].tool
                            /\ trail'[r].api >= trail[r].api
    <3>1. trail[s] \in Rows /\ trail \in [Slots -> Rows]
      BY DEF Trails
    <3>2. [trail[s] EXCEPT !.api = @ + api] \in Rows
      <4>1. trail[s].api + api \in Nat /\ trail[s].log \in Seq({"ok", "error"}) /\ trail[s].tool \in Nat
        BY <3>1 DEF Rows
      <4>2. [trail[s] EXCEPT !.api = @ + api]
              = [log |-> trail[s].log, tool |-> trail[s].tool, api |-> trail[s].api + api]
        BY <3>1 DEF Rows
      <4> QED
        BY <4>1, <4>2 DEF Rows
    <3>3. CASE database = "up"
      <4>1. trail' = [trail EXCEPT ![s] = [trail[s] EXCEPT !.api = @ + api]]
        BY <2>1, <3>3
      <4>2. trail' \in [Slots -> Rows] /\ \A r \in Slots : r # s => trail'[r] = trail[r]
        BY <3>1, <3>2, <4>1
      <4>3. /\ trail'[s].log = trail[s].log /\ trail'[s].tool = trail[s].tool
            /\ trail'[s].api = trail[s].api + api
        BY <3>1, <4>1 DEF Rows
      <4>4. \A r \in Slots : trail[r].api \in Nat
        BY <3>1 DEF Rows
      <4> QED
        BY <4>2, <4>3, <4>4
    <3>4. CASE database # "up"
      <4>1. \A r \in Slots : trail[r].api \in Nat
        BY <3>1 DEF Rows
      <4> QED
        BY <2>1, <3>1, <3>4, <4>1
    <3> QED
      BY <3>3, <3>4
  <2> QED
    BY <2>1, <2>2, NoRowsLeft
<1>7. CASE CallTool(s) \/ LookUp(s) \/ SendRequest(s) \/ Serve(s) \/ Reply(s)
  <2>1. UNCHANGED <<message, database, answer, doubt, trail>>
    BY <1>7 DEF CallTool, LookUp, SendRequest, Serve, Reply, world
  <2>2. \A r \in Slots : phase'[r] # "done" => phase[r] # "done"
    BY <1>7 DEF CallTool, LookUp, SendRequest, Serve, Reply, Calls, TypeOK
  <2> QED
    BY <2>1, <2>2, NoRowsLeft DEF Trails, Rows
<1> QED
  BY <1>1, <1>2, <1>3, <1>4, <1>5, <1>6, <1>7 DEF Step

\* While the database takes writes, the call log agrees with what the agent was told,
\* and tells of every request that may yet be served (mcp/core.py:141, TrailAgrees)
THEOREM TrailHolds ==
  Spec => []TrailAgrees
<1>1. Init => Trails
  BY DEF Init, Trails, Rows, TrailAgrees, NoRows
<1>2. Calls /\ Trails /\ [Next]_vars => Trails'
  <2> SUFFICES ASSUME Calls, Trails, [Next]_vars PROVE Trails'
    OBVIOUS
  <2>1. ASSUME NEW s \in Slots, Step(s) PROVE Trails'
    BY <2>1, StepLeavesRows
  <2>2. ASSUME NEW s \in Slots, ServeLate(s) PROVE Trails'
    <3>1. UNCHANGED <<message, database, answer, trail, phase>>
      BY <2>2 DEF ServeLate
    <3>2. \A r \in Slots : doubt'[r] => doubt[r]
      BY <2>2 DEF ServeLate, Calls, TypeOK
    <3> QED
      BY <3>1, <3>2, NoRowsLeft DEF Trails, Rows
  <2>3. CASE Restart
    <3>1. UNCHANGED <<message, database, trail>>
      BY <2>3 DEF Restart
    <3>2. ASSUME NEW r \in Slots
          PROVE  /\ phase'[r] # "done" => phase[r] # "done"
                 /\ answer'[r] \in {"ok", "error"} => answer'[r] = answer[r] /\ (doubt'[r] => doubt[r])
      BY <2>3, <3>2 DEF Restart, Calls, TypeOK
    <3> QED
      BY <3>1, <3>2, NoRowsLeft DEF Trails, Rows
  <2>4. CASE UNCHANGED vars
    BY <2>4 DEF vars, Trails, TrailAgrees, Tool
  <2> QED
    BY <2>1, <2>2, <2>3, <2>4 DEF Next
<1>3. Trails => TrailAgrees
  BY DEF Trails
<1> QED
  BY <1>1, <1>2, <1>3, CallsInvariant, PTL DEF Spec

=============================================================================
