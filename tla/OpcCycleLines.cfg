SPECIFICATION Spec
CONSTANTS
    Samples <- MCSamples
    Skip <- MCSkip
    PollLimit <- MCPollLimit
INVARIANTS
    CycleLinesLow
