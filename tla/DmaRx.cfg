SPECIFICATION FairSpec
CONSTANTS
    BufferCount = 2
    Threads = {t1}
    Dir = "rx"
    Faults = {"timeout", "submiterror"}
    MaxTransfers = 3
    MaxOpens = 2
    MaxPackets = 2
    MaxRefusals = 1
INVARIANTS Ownership NoSpuriousError CreditsCoverPackets
PROPERTIES StreamUntilRefused CallsReturn
