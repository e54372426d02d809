CONSTANTS
    c1 = c1  c2 = c2  c3 = c3  u1 = u1  u2 = u2  NoConn = NoConn
    Conns = {c1, c3}
    Users = {u1}
    UserOf <- MCUserOf
    SendCap = 1  BroadcastCap = 1  RegisterCap = 1  UnregisterCap = 2
    MaxFrames = 1
    Mishaps = {"redis", "expire", "restart"}  MaxMishaps = 1
SPECIFICATION Spec
SYMMETRY TabSymmetry
INVARIANTS TypeOK NoHubPanic PresenceMatchesClients ConnectedAreListed PanickedIsEvicted
PROPERTY WedgeEndsOnlyByRestart
CHECK_DEADLOCK FALSE
