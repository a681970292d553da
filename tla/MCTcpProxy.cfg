SPECIFICATION FairSpec
CONSTANTS
    Descriptors = {3, 4}
    Hosts = {"peer", "elsewhere", "not a host"}
    ValidHosts = {"peer", "elsewhere"}
    AllowedHosts = {"peer"}
    MaxAddresses = 2
    Capacity = 2
    WriteMax = 2
    Window = 3
    MaxSent = 3
INVARIANTS TypeOK InStep StreamIntact EndAfterAll
PROPERTY EndIsSeen
