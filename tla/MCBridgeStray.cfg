CONSTANTS
    Clients = {c1, c2}
    NoClient = NoClient
    Timeout = 1
    Horizon = 2
    MaxJoins = 2
    Latching = TRUE
    Messages <- FewMessages
SPECIFICATION Spec
PROPERTIES OnlyDriverArms
