SPECIFICATION Spec
CONSTANTS
    Clients = {c1, c2}
    Workers = {w1, w2}
    SlotCount = 5
    ScanLimit = 4
    Faults = {}
    MaxCloses = 0
INVARIANT ContextIdentifiesClient
CHECK_DEADLOCK FALSE
