\* The idle callback may cancel.
CONSTANTS
    PacketMax = 3
    Payload = {0, 1}
    Ports = {1}
    MaxPackets = 3
    Channel = 1
    Capacity = 1
    Responses <- AnyResponse
    Interrupts = FALSE
    Cancels = TRUE
    MaxSessions = 1
SPECIFICATION ClientSpec
PROPERTY
    AnswersOwnRequest
