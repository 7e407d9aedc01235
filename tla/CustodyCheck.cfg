\* The whole check, on time and at any time, with every worker program and
\* every kind of argument and reply.
SPECIFICATION CheckSpec
CONSTANTS
    Calls <- MCCalls
    PipeSize = 2
    Chunk = 2
    Request <- MCRequest
    Hex <- MCHex
    Sha256 <- MCSha256
    Texts <- MCTexts
    Depth <- MCDepth
    DecodeStrictJson <- MCDecode
    ReadingsOf <- MCReadings
CHECK_DEADLOCK FALSE
INVARIANTS
    DeliversFaithfully
    ExchangeNeverJams
    CheckPasses
PROPERTY
    CheckEnds
