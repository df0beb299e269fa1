SPECIFICATION FairSpec
CONSTANTS
    MaxBufferSize = 2
    Exchanges <- MCExchanges
INVARIANTS NoLostWakeup BufferBound
PROPERTIES Delivery Drained
CHECK_DEADLOCK FALSE
