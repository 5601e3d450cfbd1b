SPECIFICATION Spec
CONSTANTS
    BufferCount = 2
    Threads = {t1}
    Dir = "tx"
    Faults = {"timeout", "signal", "latecallback", "foreignopen"}
    MaxTransfers = 3
    MaxOpens = 3
    MaxPackets = 0
    MaxRefusals = 0
INVARIANTS TypeOK 
