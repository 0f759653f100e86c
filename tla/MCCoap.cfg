CONSTANTS
    Clients <- Two
    Path <- PathOf
    Code <- CodeOf
    Nothing = Nothing
    Lossy = TRUE
    EarlyAck = TRUE
SPECIFICATION FairSpec
INVARIANTS
    IInv
    StuckOnlyByLoss
    SilentOnlyByEarlyAck
PROPERTIES
    Implements
    EndsUnlessLost
\* The server waits for ever for requests that do not come.
CHECK_DEADLOCK FALSE
