SPECIFICATION FairSpec
CONSTANTS
    Samples = 4
    Skip = 2
    PollLimit = 3
PROPERTIES
    SessionCompletes
