SPECIFICATION Spec
CONSTANTS
    a = a
    b = b
    None = None
    Cell <- TwoCells
    Home <- a
    MaxEpoch = 3
    MaxWrites = 1
CHECK_DEADLOCK FALSE
INVARIANTS
    LostResponseIsRetryable
