SPECIFICATION FairSpec
CONSTANTS
    Papers <- MCPapers
    Types <- MCTypes
    Wanted <- MCWanted
    MinDelay <- MCMinDelay
INVARIANTS
    JobsAreDue
    NoOversleep
    NewsKept
PROPERTIES
    MinDelayKept
    Delivered
CHECK_DEADLOCK FALSE
