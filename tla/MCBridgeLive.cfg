CONSTANTS
    Clients = {c1}
    NoClient = NoClient
    Timeout = 1
    Horizon = 2
    MaxJoins = 2
    Latching = TRUE
    Messages <- AllMessages
SPECIFICATION FairSpec
PROPERTIES SilenceLatchesUnlessStuck EstopStops
