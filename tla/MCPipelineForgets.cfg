CONSTANTS
    s1 = s1
    a1 = a1
    box1 = box1
    e1 = e1
    w1 = w1
    w2 = w2
    NoMessageId = NoMessageId
    Sends = {s1}
    Accounts = {a1}
    DefaultAccounts = {a1}
    Mailboxes = {box1}
    EventIds = {}
    Owner <- OneOwner
    Mailbox <- OneMailbox
    MaxAttempts = 2
    WorkAge = 3
    LeaseDuration = 1
    MaxRetryDelay = 1
    ReconcileBatch = 1
    TTL = 3
    Window = 0
    MaxRepairDelay = 1
    Refusals = {"retryable"}
    MaxTime = 5
    LastQueueTime = 1
    Workers = {w1, w2}
    BatchTimeout = 0
SPECIFICATION Spec
INVARIANTS
    UnsentWasNotTaken
CHECK_DEADLOCK FALSE
