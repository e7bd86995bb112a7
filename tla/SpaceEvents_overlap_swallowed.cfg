\* The recovery thread and the handler claim for the same row, and the process stops
SPECIFICATION Spec

CONSTANTS
    created = created
    asked = asked
    uploaded = uploaded
    settings = settings
    untyped = untyped
    posted = posted
    answered = answered
    message = message
    reply = reply
    account = account
    NoKey = NoKey
    s1 = s1
    Events = {settings}
    Keys = {account}
    MessageKeys <- MCMessageKeys
    KeyOf <- MCKeyOfEvents
    LegacyRows <- NoLegacy
    FireAndForget = TRUE
    Slots = {s1}
    Hazards = {"overlap"}
    MaxDeliveries = 1
    MaxCrashes = 1

INVARIANTS
    ClaimNotSwallowed

\* The server rests when Rails has nothing more to send
CHECK_DEADLOCK FALSE
