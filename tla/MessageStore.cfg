CONSTANTS
    c1 = c1  c2 = c2  w1 = w1  w2 = w2  NoMessage = NoMessage
    Conns = {c1, c2}
    Workers = {w1, w2}
    QueueCap = 2  MaxMessages = 4
    Stamp <- MCStamp
    MaxFailures = 1  MaxRestarts = 1
SPECIFICATION FairSpec
INVARIANTS TypeOK HistoryAgreesWithLive SavedOnce
PROPERTY EventuallySettled
CHECK_DEADLOCK FALSE
