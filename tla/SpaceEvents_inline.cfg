\* Inline dispatch, redelivered webhooks, one restart
SPECIFICATION Spec

CONSTANTS
    created = created
    asked = asked
    uploaded = uploaded
    settings = settings
    untyped = untyped
    posted = posted
    answered = answered
    message = message
    reply = reply
    account = account
    NoKey = NoKey
    s1 = s1
    s2 = s2
    Events = {created, asked, settings}
    Keys = {message, account}
    MessageKeys <- MCMessageKeys
    KeyOf <- MCKeyOfEvents
    LegacyRows <- NoLegacy
    FireAndForget = FALSE
    Slots = {s1, s2}
    Hazards = {}
    MaxDeliveries = 2
    MaxCrashes = 1

INVARIANTS
    InlineOK
PROPERTIES
    UnitPromise
    NoCallAfterDispatch

\* The server rests when Rails has nothing more to send
CHECK_DEADLOCK FALSE
