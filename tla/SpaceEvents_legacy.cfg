\* A pair still waiting and a pair half routed at the deployment, a unit that comes new,
\* and whatever may leave work to the next start
SPECIFICATION Spec

CONSTANTS
    created = created
    asked = asked
    uploaded = uploaded
    settings = settings
    untyped = untyped
    posted = posted
    answered = answered
    message = message
    reply = reply
    account = account
    NoKey = NoKey
    s1 = s1
    s2 = s2
    Events = {created, asked, uploaded, posted, answered, settings}
    Keys = {message, reply, account}
    MessageKeys <- MCMessageKeys
    KeyOf <- MCKeyOfEvents
    LegacyRows <- LegacyPairAndHalf
    FireAndForget = TRUE
    Slots = {s1, s2}
    Hazards = {"read", "claim", "scan", "age"}
    MaxDeliveries = 1
    MaxCrashes = 2

SYMMETRY SlotSymmetry

INVARIANTS
    ScanMissesNothing
    OneCallPerUnit
    CallInvariant
    KeylessOK
PROPERTIES
    NoCallAfterDispatch

\* The server rests when Rails has nothing more to send
CHECK_DEADLOCK FALSE
