\* Fire and forget, redelivered webhooks, claims that fail, two restarts
SPECIFICATION Spec

CONSTANTS
    created = created
    asked = asked
    uploaded = uploaded
    settings = settings
    untyped = untyped
    posted = posted
    answered = answered
    message = message
    reply = reply
    account = account
    NoKey = NoKey
    s1 = s1
    s2 = s2
    Events = {created, asked}
    Keys = {message}
    MessageKeys <- MCMessageKeys
    KeyOf <- MCKeyOfEvents
    LegacyRows <- NoLegacy
    FireAndForget = TRUE
    Slots = {s1, s2}
    Hazards = {"claim"}
    MaxDeliveries = 2
    MaxCrashes = 2

SYMMETRY SlotSymmetry

INVARIANTS
    ClaimNotSwallowed
    PendingRecoverable
    NothingForgotten
    WorkInvariant
    SentIsSettled

\* The server rests when Rails has nothing more to send
CHECK_DEADLOCK FALSE
