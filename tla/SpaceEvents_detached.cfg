\* Fire and forget, one restart, every webhook once, a fair scheduler
SPECIFICATION FairSpec

CONSTANTS
    created = created
    asked = asked
    uploaded = uploaded
    settings = settings
    untyped = untyped
    posted = posted
    answered = answered
    message = message
    reply = reply
    account = account
    NoKey = NoKey
    s1 = s1
    s2 = s2
    Events = {created, asked, settings, untyped}
    Keys = {message, account}
    MessageKeys <- MCMessageKeys
    KeyOf <- MCKeyOfEvents
    LegacyRows <- NoLegacy
    FireAndForget = TRUE
    Slots = {s1, s2}
    Hazards = {}
    MaxDeliveries = 1
    MaxCrashes = 1

INVARIANTS
    OneCallPerUnit
    CalledOnce
    LeadItems
PROPERTIES
    UnitPromise
    UnitSettles
    EveryRowDecided

\* The server rests when Rails has nothing more to send
CHECK_DEADLOCK FALSE
