\* A dispatch and what it carries, with all outcomes of the downloads and the call.
SPECIFICATION Spec
CONSTANTS
    None = None
    Names <- MCNames
    Items <- MCItems
    Inside <- MCInside
    Trees <- MCTrees
    Webhooks <- MCWebhooks
    MaxRows = 3
    Links = {"http://a", "http://b"}
    Settings <- MCSettings
INVARIANTS
    TypeOK
    CarriesItsUnit
    MergeKeepsAll
    AttachmentsReachHermes
    PathsAreTrees
CHECK_DEADLOCK FALSE
