CONSTANTS
    c1 = c1  c2 = c2  c3 = c3  u1 = u1  u2 = u2  NoConn = NoConn
    Conns = {c1, c3}
    Users = {u1}
    UserOf <- MCUserOf
    SendCap = 1  BroadcastCap = 1  RegisterCap = 1  UnregisterCap = 1
    MaxFrames = 0
    Mishaps = {"lost"}  MaxMishaps = 0
SPECIFICATION FairSpec
PROPERTIES EveryConnectionWindsDown SlowClientLeaves BlockedInitIsFreed
CHECK_DEADLOCK FALSE
