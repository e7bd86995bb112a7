--------------------------- MODULE MCSpaceEvents ---------------------------
(* Small instances of SpaceEvents for TLC *)
EXTENDS BusInvariants, TLC

CONSTANTS created, asked, uploaded, settings, untyped, posted, answered,
          message, reply, account

\* One message of three members, one of two, one event of the "event:" family, one without key
MCKeyOf ==
    (created :> message) @@ (asked :> message) @@ (uploaded :> message) @@
    (settings :> account) @@ (untyped :> NoKey) @@
    (posted :> reply) @@ (answered :> reply)

\* The events of an instance are a subset of these
MCKeyOfEvents == [e \in Events |-> MCKeyOf[e]]

MCMessageKeys == {message, reply} \cap Keys

NoLegacy == <<>>

\* A pair still waiting when the feature was deployed, and one half routed
LegacyPairAndHalf ==
    << [event |-> created, sent |-> FALSE], [event |-> posted, sent |-> TRUE],
       [event |-> asked, sent |-> FALSE], [event |-> answered, sent |-> FALSE] >>

\* A member already routed when the feature was deployed
LegacySent == << [event |-> created, sent |-> TRUE] >>

SlotSymmetry == Permutations(Slots)

=============================================================================
