CONSTANTS
    s1 = s1
    a1 = a1
    box1 = box1
    e1 = e1
    w1 = w1
    w2 = w2
    NoMessageId = NoMessageId
    Sends = {s1}
    Accounts = {a1}
    DefaultAccounts = {}
    Mailboxes = {box1}
    EventIds = {e1}
    Owner <- OneOwner
    Mailbox <- OneMailbox
    MaxAttempts = 2
    WorkAge = 3
    LeaseDuration = 2
    MaxRetryDelay = 1
    ReconcileBatch = 1
    TTL = 5
    Window = 1
    MaxRepairDelay = 1
    Refusals = {"retryable", "rejected"}
    MaxTime = 6
    LastQueueTime = 1
    Workers = {w1, w2}
    BatchTimeout = 1
SPECIFICATION Spec
PROPERTIES
    ImplementsLogicalSend
INVARIANTS
    AtMostOneCopy
    RecordedSendsAreReal
    NoProviderCallInMovingAccount
CHECK_DEADLOCK FALSE
