SPECIFICATION Spec
CONSTANTS
    BufferCount = 2
    Threads = {t1}
    Dir = "tx"
    Faults = {"signal"}
    MaxTransfers = 3
    MaxOpens = 1
    MaxPackets = 0
    MaxRefusals = 0
INVARIANT Ownership
