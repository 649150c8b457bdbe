CONSTANTS
    Texts <- MCTexts
    Empty = ""
    Trim <- MCTrim
    Lines <- MCLines
    MaxLines = 14
    AgentIDs = {"a", "p"}
    NoName = NoName
SPECIFICATION Spec
CONSTRAINT BeginningFirst
INVARIANT LinesKept
INVARIANT TokensExact
INVARIANT MountsExact
INVARIANT LoadedIsSound
CHECK_DEADLOCK FALSE
