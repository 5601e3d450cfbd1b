SPECIFICATION Spec
CONSTANTS
    Contexts = {x1, x2}
    MaxDevice = 4
    MaxAdds = 5
    OpenFails = 1
INVARIANTS TypeOK HandlesAreOwned DescriptorsAccounted
CHECK_DEADLOCK FALSE
