SPECIFICATION FairSpec
CONSTANTS
    MaxSaves <- MCTwoOne
    MaxResets = 1
INVARIANTS
    TypeOK
    GasSavedBeforeSent
    CallbackAlive
    SendsConfigured
    RedLedExplained
    CounterOffOutside
    SavesAccepted
PROPERTIES
    DeliveriesAdvance
    ResendsNoOlder
    SensingIndependent
\* The system may stop: main returns without its ambient sensor, send_data without a radio.
CHECK_DEADLOCK FALSE
