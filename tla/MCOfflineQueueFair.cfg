CONSTANTS
    Actions = {a1}
    Slots = 2
    MaxRetries = 2
    MaxPings = 1
    MaxLoads = 1
SPECIFICATION FairSpec
PROPERTIES
    ComesBackOnline
    DrainsWhenHealthy
