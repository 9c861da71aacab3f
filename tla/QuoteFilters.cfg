SPECIFICATION FairSpec
CONSTANTS
    Keys <- MCKeys
    Papers <- MCPapers
    Subs <- MCSubs
    Want <- MCWant
    MaxWrites = 1
INVARIANTS
    CountsAreSubscribers
    ServerFollows
PROPERTIES
    ReleasedIsDropped
CHECK_DEADLOCK FALSE
