SPECIFICATION FaultFreeSpec
CONSTANTS
    Channels = 4
    Samples = 5
    Readings <- MCSteady
INVARIANTS
    AveragesSamples
