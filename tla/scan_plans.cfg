CONSTANTS
    Unreadable = Unreadable
    Keys <- MCKeys
    Below <- MCBelow
    KeyLen <- MCKeyLen
    Scenarios <- MCScenarios
SPECIFICATION Spec
INVARIANT TypeOK
INVARIANT FollowsPlan
INVARIANT ChildrenFirst
INVARIANT ArchivesWhole
INVARIANT BatchesBounded
INVARIANT LimitsAgree
INVARIANT MostSmallFilesBatched
PROPERTY ImplementsContract
CHECK_DEADLOCK FALSE
