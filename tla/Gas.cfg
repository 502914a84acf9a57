SPECIFICATION FairSpec
CONSTANTS
    Channels = 2
    Samples = 2
    Readings <- MCReadings
INVARIANTS
    GasTypeOK
    FaultsStayLocal
    NothingLeftOver
PROPERTIES
    TransfersBounded
    GasReadReturns
