SPECIFICATION FairSpec
CONSTANTS
    BufferCount = 3
    Threads = {t1}
    Dir = "tx"
    Faults = {}
    MaxTransfers = 5
    MaxOpens = 1
    MaxPackets = 0
    MaxRefusals = 0
INVARIANT SyncComplete
PROPERTIES IsFrameStream FramesDelivered
