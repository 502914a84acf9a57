SPECIFICATION NetworkSpec
CONSTANTS
    MaxSaves <- MCTwoOne
    MaxResets = 0
PROPERTIES
    Uplink
\* The system may stop: main returns without its ambient sensor, send_data without a radio.
CHECK_DEADLOCK FALSE
