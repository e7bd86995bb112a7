\* A member is stored after its unit was dispatched, and the process restarts
SPECIFICATION Spec

CONSTANTS
    created = created
    asked = asked
    uploaded = uploaded
    settings = settings
    untyped = untyped
    posted = posted
    answered = answered
    message = message
    reply = reply
    account = account
    NoKey = NoKey
    s1 = s1
    Events = {created, asked}
    Keys = {message}
    MessageKeys <- MCMessageKeys
    KeyOf <- MCKeyOfEvents
    LegacyRows <- NoLegacy
    FireAndForget = TRUE
    Slots = {s1}
    Hazards = {}
    MaxDeliveries = 1
    MaxCrashes = 1

INVARIANTS
    HandledWasCarried

\* The server rests when Rails has nothing more to send
CHECK_DEADLOCK FALSE
