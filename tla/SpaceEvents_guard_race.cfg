\* A keyless sibling gets its key between the two queries of the guard
SPECIFICATION Spec

CONSTANTS
    created = created
    asked = asked
    uploaded = uploaded
    settings = settings
    untyped = untyped
    posted = posted
    answered = answered
    message = message
    reply = reply
    account = account
    NoKey = NoKey
    s1 = s1
    Events = {created, uploaded}
    Keys = {message}
    MessageKeys <- MCMessageKeys
    KeyOf <- MCKeyOfEvents
    LegacyRows <- LegacySent
    FireAndForget = TRUE
    Slots = {s1}
    Hazards = {"overlap"}
    MaxDeliveries = 1
    MaxCrashes = 0

PROPERTIES
    NoCallAfterDispatch

\* The server rests when Rails has nothing more to send
CHECK_DEADLOCK FALSE
