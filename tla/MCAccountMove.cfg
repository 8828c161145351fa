SPECIFICATION Spec
CONSTANTS
    a = a
    b = b
    None = None
    Cell <- TwoCells
    Home <- a
    MaxEpoch = 2
    MaxWrites = 1
CHECK_DEADLOCK FALSE
INVARIANTS
    DirectoryLeadsToAccount
PROPERTIES
    ImplementsServedAccount
    OperationEnds
