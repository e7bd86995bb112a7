\* The event row cannot be stored
SPECIFICATION Spec

CONSTANTS
    created = created
    asked = asked
    uploaded = uploaded
    settings = settings
    untyped = untyped
    posted = posted
    answered = answered
    message = message
    reply = reply
    account = account
    NoKey = NoKey
    s1 = s1
    Events = {settings}
    Keys = {account}
    MessageKeys <- MCMessageKeys
    KeyOf <- MCKeyOfEvents
    LegacyRows <- NoLegacy
    FireAndForget = TRUE
    Slots = {s1}
    Hazards = {"persist"}
    MaxDeliveries = 1
    MaxCrashes = 0

INVARIANTS
    NothingLost

\* The server rests when Rails has nothing more to send
CHECK_DEADLOCK FALSE
