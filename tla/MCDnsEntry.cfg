CONSTANTS
    Message <- Messages
    MayFail = TRUE
SPECIFICATION Spec
INVARIANTS
    WalkInStep
    StructureKept
    HiddenSoFar
PROPERTIES
    AddressesObfuscated
CHECK_DEADLOCK FALSE
