SPECIFICATION FairSpec
CONSTANTS
    Kinds = {"mapped", "tx", "rx"}
    FrameSize = 2
    BufferSize = 4
    RingSize = 2
    PacketSize = 3
    SizeModulus = 5
    RegCount = 1
    Values = {1, 2}
    MaxCalls = 4
    MaxFrames = 9
    Window = 6
    Faults = {"kill", "openfails", "timeout", "sigint"}
INVARIANTS TypeOK ReadsSeeWrites TxFaithful RxInOrder
PROPERTIES TaskEnds NetCallsReturn
CHECK_DEADLOCK FALSE
