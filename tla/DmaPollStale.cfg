SPECIFICATION Spec
CONSTANTS
    BufferCount = 2
    Threads = {t1}
    Dir = "rx"
    Faults = {}
    MaxTransfers = 3
    MaxOpens = 2
    MaxPackets = 2
    MaxRefusals = 0
INVARIANT PollInMeansData
