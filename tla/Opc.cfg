SPECIFICATION Spec
CONSTANTS
    Samples <- MCSamples
    Skip <- MCSkip
    PollLimit <- MCPollLimit
INVARIANTS
    TypeOK
    PoweredWhenClocked
    FramesSeparated
    QuietWhenIdle
    ReadsRunningUnit
    AverageOverCounted
    PatienceBounded
    ConfirmedStopObeyed
PROPERTIES
    PowerCycleEarned
    OnlyCyclesProlong
    ImplementsSession
    StopEnds
    PowerRecurrentlyCut
