SPECIFICATION FairSpec
CONSTANTS
    Threads <- MCThreads
    Samples <- MCTwoSamples
    MaxUnit = 4
INVARIANTS
    AmbientTypeOK
PROPERTIES
    ValuesOfThisCall
    RecordsAdvance
    CallsMoveOn
    ImplementsAmbient
