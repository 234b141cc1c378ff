SPECIFICATION Spec
CONSTANTS
    Base = 2
    Payloads <- MCPayloads
    Disconnect <- MCDisconnect
    ExactCounts = {0, 2}
    MaxMessages = 4
INVARIANTS TypeOK Aligned NoStall
PROPERTY ImplementsMessageStream
CHECK_DEADLOCK FALSE
