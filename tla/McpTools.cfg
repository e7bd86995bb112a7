CONSTANTS
    None = None
    c1 = c1
    c2 = c2
    Slots = {c1, c2}
    Projects <- MCProjects
    RoomsOf <- MCRoomsOf
    PeopleOf <- MCPeopleOf
    Bots <- MCBots
    PageSize = 2
    Normal <- MCNormal
    WordsOf <- MCWordsOf
    Contains <- MCContains
    Ratio <- MCRatio
    Blank = ""
    Workloads <- MCWorkloads
    MaxRestarts = 1

SPECIFICATION Spec

INVARIANTS
    TypeOK
    SuccessIsDone
    TrailAgrees
    ApprovalFollowsMessage
    DeletesWhatItIsTold
    AcceptsWhatItAdvertises
    ArgumentsArrive
    ExactNameWins

PROPERTIES
    CallPromise
    EveryCallAnswered
CHECK_DEADLOCK FALSE
