---------------------------- MODULE ToolPromise -----------------------------
(***************************************************************************)
(* What an agent may conclude from the answer to a tool call, with no      *)
(* handler, lookup or connection in sight.  While a call is open, what it  *)
(* asks for is done one thing after the other.  Once it has succeeded      *)
(* nothing more is done.  Once it has failed, or its process has stopped,  *)
(* what was done stays done, and one thing more, asked for but not         *)
(* confirmed, may still come to pass, once.                                *)
(***************************************************************************)
EXTENDS Naturals

CONSTANT Calls

VARIABLES
    verdict,        \* what the agent knows of a call
    done,           \* how many requests of the call W-space has served
    owed            \* whether one more may still be served

promiseVars == <<verdict, done, owed>>

PromiseInit ==
    /\ verdict = [c \in Calls |-> "open"]
    /\ done = [c \in Calls |-> 0]
    /\ owed = [c \in Calls |-> FALSE]

Effect(c) ==
    /\ verdict[c] = "open"
    /\ done' = [done EXCEPT ![c] = @ + 1]
    /\ UNCHANGED <<verdict, owed>>

Succeed(c) ==
    /\ verdict[c] = "open"
    /\ verdict' = [verdict EXCEPT ![c] = "succeeded"]
    /\ UNCHANGED <<done, owed>>

Fail(c) ==
    /\ verdict[c] = "open"
    /\ verdict' = [verdict EXCEPT ![c] = "failed"]
    /\ owed' \in {owed, [owed EXCEPT ![c] = TRUE]}
    /\ UNCHANGED done

\* The process stopped, and every open call with it
CutOff ==
    \E some \in SUBSET {c \in Calls : verdict[c] = "open"}, doubtful \in SUBSET Calls :
        /\ doubtful \subseteq some
        /\ verdict' = [c \in Calls |-> IF c \in some THEN "failed" ELSE verdict[c]]
        /\ owed' = [c \in Calls |-> owed[c] \/ c \in doubtful]
        /\ UNCHANGED done

LateEffect(c) ==
    /\ owed[c]
    /\ owed' = [owed EXCEPT ![c] = FALSE]
    /\ done' = [done EXCEPT ![c] = @ + 1]
    /\ UNCHANGED verdict

PromiseNext ==
    \/ \E c \in Calls : Effect(c) \/ Succeed(c) \/ Fail(c) \/ LateEffect(c)
    \/ CutOff

PromiseSpec == PromiseInit /\ [][PromiseNext]_promiseVars

=============================================================================
