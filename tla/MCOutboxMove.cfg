CONSTANTS
    s1 = s1
    s2 = s2
    a1 = a1
    a2 = a2
    box1 = box1
    m1 = m1
    e1 = e1
    e2 = e2
    e3 = e3
    NoMessageId = NoMessageId
    Sends = {s1, s2}
    Accounts = {a1, a2}
    DefaultAccounts = {a1}
    Mailboxes = {box1}
    MessageIds = {}
    EventIds = {}
    Owner <- TwoOwners
    Mailbox <- OneMailbox
    MaxAttempts = 1
    WorkAge = 1
    LeaseDuration = 1
    MaxRetryDelay = 0
    ReconcileBatch = 2
    MaxTime = 3
    LastQueueTime = 1
SPECIFICATION StubbornSpec
PROPERTIES
    WorkCloses
