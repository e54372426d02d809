CONSTANTS
    c1 = c1  c2 = c2  c3 = c3  u1 = u1  u2 = u2  NoConn = NoConn
    Conns = {c1, c2}
    Users = {u1, u2}
    UserOf <- MCUserOf
    SendCap = 2  BroadcastCap = 2  RegisterCap = 1  UnregisterCap = 1
    MaxFrames = 0
    Mishaps = {}  MaxMishaps = 0
SPECIFICATION Spec
INVARIANT NoGhostClient
CHECK_DEADLOCK FALSE
