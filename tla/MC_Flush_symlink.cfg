CONSTANTS
    Paths <- MCPaths
    Order <- MCOrder
    ArgChoices <- MCArgChoices
    Times <- MCTimes
SPECIFICATION Spec
INVARIANT SymlinkFlushed
