SPECIFICATION Spec
CONSTANTS
    h = h
    a = a
    None = None
    Nodes = {h, a}
    Hot = h
    PingValid = 1
    Expiration = 2
    Removal = 3
    SeenExpiration = 4
    MaxBroadcast = 2
    MaxEvents = 1
PROPERTY RemoteActivation
