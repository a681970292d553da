\* Bursts at any point, cancels, a workspace of one byte, two link sessions.
CONSTANTS
    PacketMax = 3
    Payload = {0, 1}
    Ports = {1}
    MaxPackets = 2
    Channel = 1
    Capacity = 1
    Responses <- AnyResponse
    Interrupts = TRUE
    Cancels = TRUE
    MaxSessions = 2
SPECIFICATION ClientFairSpec
INVARIANT
    TypeOK
PROPERTIES
    AnswersUnlessAbandoned
    InStepUnlessAbandoned
    ExchangeEnds
