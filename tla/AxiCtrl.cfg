SPECIFICATION Spec
CONSTANTS
    Devices = {d1, d2}
    Files = {f1, f2}
    Callers = {f1}
    RegLength = 2
    RegSize = 2
    Sizes = {3, 4, 6}
    MaxPos = 4
    Faults = {"ioremap", "cdev", "class", "device", "copy", "nomem"}
INVARIANTS
    TypeOK
    CallsFromStartComplete
PROPERTIES
    StaleOnlyWithTwoDevices
CHECK_DEADLOCK FALSE
