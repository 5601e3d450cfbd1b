SPECIFICATION FairSpec
CONSTANTS
    Clients = {c1, c2}
    Workers = {w1, w2}
    SlotCount = 3
    ScanLimit = 3
    MaxCloses = 1
    Faults = {"disconnect", "senderror", "sigint"}
INVARIANTS TypeOK OwnContextInSlot
PROPERTIES WorkersReturn ClientsAnswered StopEnds
CHECK_DEADLOCK FALSE
