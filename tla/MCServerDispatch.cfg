\* Two ports; nobody reads the responses on port 1.
CONSTANTS
    MaxPort = 2
    Registered = {1, 2}
    Handlers = {1, 2}
    Readers = {2}
    PacketMax = 2
    QueueCapacity = 3
    Payload = {2}
    Requests <- Few
    MaxPackets = 2
    RelinkInPass = FALSE
SPECIFICATION FairSpec
INVARIANTS
    TypeOK
    RequestsIntact
    ResponsesIntact
    DispatchInv
PROPERTIES
    ImplementsService
    EveryPacketServed
    ShutsDown
