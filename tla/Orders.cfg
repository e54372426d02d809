CONSTANTS
    Orders = {o1, o2}  Garbage = Garbage
    Consumers = {k1, k2}  Nobody = Nobody
    MaxResends = 1  MaxGarbage = 1
    MaxFaults = 1  MaxRebalances = 1
SPECIFICATION FairSpec
INVARIANTS TypeOK CommittedIsHandled RepeatedOnlyByFaults
PROPERTY SentIsHandled
CHECK_DEADLOCK FALSE
