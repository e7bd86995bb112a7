\* Every hazard at once
SPECIFICATION Spec

CONSTANTS
    created = created
    asked = asked
    uploaded = uploaded
    settings = settings
    untyped = untyped
    posted = posted
    answered = answered
    message = message
    reply = reply
    account = account
    NoKey = NoKey
    s1 = s1
    s2 = s2
    Events = {created, asked}
    Keys = {message}
    MessageKeys <- MCMessageKeys
    KeyOf <- MCKeyOfEvents
    LegacyRows <- NoLegacy
    FireAndForget = TRUE
    Slots = {s1, s2}
    Hazards = {"overlap", "persist", "claim", "read", "commit", "scan", "age"}
    MaxDeliveries = 1
    MaxCrashes = 1

SYMMETRY SlotSymmetry

INVARIANTS
    TypeOK
    DispatchCoversWindow
    SentHasCarrier
    Inductive
PROPERTIES
    DispatchedIsFinal

\* The server rests when Rails has nothing more to send
CHECK_DEADLOCK FALSE
