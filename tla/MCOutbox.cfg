CONSTANTS
    s1 = s1
    s2 = s2
    a1 = a1
    a2 = a2
    box1 = box1
    m1 = m1
    e1 = e1
    e2 = e2
    e3 = e3
    NoMessageId = NoMessageId
    Sends = {s1, s2}
    Accounts = {a1}
    DefaultAccounts = {}
    Mailboxes = {box1}
    MessageIds = {m1}
    EventIds = {e1, e2}
    Owner <- OneOwner
    Mailbox <- OneMailbox
    MaxAttempts = 2
    WorkAge = 2
    LeaseDuration = 1
    MaxRetryDelay = 1
    ReconcileBatch = 2
    MaxTime = 4
    LastQueueTime = 1
SPECIFICATION FairSpec
INVARIANTS
    EventsStayWithTheirSend
    TypeOK
    RowMeetsTableCheck
    UsageMatchesAcceptance
    ComplaintsAndBouncesDominate
PROPERTIES
    ClosedRowsOnlyFold
    LiveLeaseIsExclusive
    WorkCloses
