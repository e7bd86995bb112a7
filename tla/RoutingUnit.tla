---------------------------- MODULE RoutingUnit ----------------------------
(***************************************************************************)
(* What the bus promises about one routing unit, with no queue, thread or  *)
(* restart in sight: a unit is claimed once, at most one Hermes call is    *)
(* under way for it, and no call starts once one has been dispatched.      *)
(* A call that is cut off, or whose outcome cannot be written down, leaves *)
(* the unit where it was, so it may be tried again.                        *)
(***************************************************************************)

CONSTANT Keys       \* the routing units

VARIABLES
    phase,          \* the state of a unit
    inflight        \* whether a call of the unit is under way

unitVars == <<phase, inflight>>

UnitTypeOK ==
    /\ phase \in [Keys -> {"absent", "pending", "dispatched", "failed"}]
    /\ inflight \in [Keys -> BOOLEAN]

UnitInit ==
    /\ phase = [k \in Keys |-> "absent"]
    /\ inflight = [k \in Keys |-> FALSE]

ClaimUnit(k) ==
    /\ phase[k] = "absent"
    /\ phase' = [phase EXCEPT ![k] = "pending"]
    /\ UNCHANGED inflight

\* A failed unit may be tried again, a dispatched one never
StartCall(k) ==
    /\ phase[k] \in {"pending", "failed"}
    /\ ~inflight[k]
    /\ inflight' = [inflight EXCEPT ![k] = TRUE]
    /\ UNCHANGED phase

EndCall(k, outcome) ==
    /\ inflight[k]
    /\ phase' = [phase EXCEPT ![k] = outcome]
    /\ inflight' = [inflight EXCEPT ![k] = FALSE]

\* The process stopped: every call under way is forgotten
Abandon ==
    /\ inflight' = [k \in Keys |-> FALSE]
    /\ UNCHANGED phase

UnitNext ==
    \/ \E k \in Keys :
          ClaimUnit(k) \/ StartCall(k) \/ EndCall(k, "dispatched") \/ EndCall(k, "failed")
    \/ Abandon

UnitSpec == UnitInit /\ [][UnitNext]_unitVars

=============================================================================
