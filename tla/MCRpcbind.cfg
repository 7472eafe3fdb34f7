SPECIFICATION Spec
CONSTANTS
    Servers = {"old", "new", "six"}
    Net <- MCNet
    Addresses <- MCAddresses
    Clients = {1}
    FirstPort = 255
    MaxPort = 257
    MaxFaults = 1
INVARIANTS
    FindsServer
    ExitUnregisters
CHECK_DEADLOCK FALSE
