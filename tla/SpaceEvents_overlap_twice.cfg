\* A row is stored while the recovery thread scans: the handler and the recovery both queue it
SPECIFICATION Spec

CONSTANTS
    created = created
    asked = asked
    uploaded = uploaded
    settings = settings
    untyped = untyped
    posted = posted
    answered = answered
    message = message
    reply = reply
    account = account
    NoKey = NoKey
    s1 = s1
    s2 = s2
    Events = {settings}
    Keys = {account}
    MessageKeys <- MCMessageKeys
    KeyOf <- MCKeyOfEvents
    LegacyRows <- NoLegacy
    FireAndForget = TRUE
    Slots = {s1, s2}
    Hazards = {"overlap"}
    MaxDeliveries = 1
    MaxCrashes = 0

SYMMETRY SlotSymmetry

INVARIANTS
    OneCallPerUnit

\* The server rests when Rails has nothing more to send
CHECK_DEADLOCK FALSE
