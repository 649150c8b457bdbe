CONSTANTS
    Count = 3
    Sizes = {2048, 16384}
    MaxBytes = 22000
    Formats <- MCFormats
    Names <- MCNames
    OnDisk <- MCOnDisk
    Listed <- MCListed
    CPUs = 2
SPECIFICATION FairSpec
INVARIANT LimitKept
INVARIANT ListedFilesStay
INVARIANT SizesNearTarget
INVARIANT ExitCodeRight
PROPERTY ToolEnds
CHECK_DEADLOCK FALSE
