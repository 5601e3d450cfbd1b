SPECIFICATION Spec
CONSTANTS
    Devices = {d1, d2}
    MaxChannels = 2
    Faults = {"dma", "cdev", "device", "memory", "irq"}
INVARIANTS TypeOK ClassCoversNodes UnloadLeavesNothing
PROPERTIES BadUseOnlyWhileExposed
CHECK_DEADLOCK FALSE
