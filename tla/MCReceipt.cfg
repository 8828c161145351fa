CONSTANTS
    s1 = s1
    Sends = {s1}
    Requests = {1, 2, 3}
    TTL = 2
    Window = 1
    MaxRepairDelay = 1
    Refusals = {"retryable", "rejected"}
    MaxTime = 5
    LastSendTime = 2
SPECIFICATION FairSpec
INVARIANTS
    OneAcceptancePerLifetime
    ConfirmedHasRoute
    ReceiptHasAlarm
PROPERTIES
    AnswersAreTrue
    AcceptanceIsKept
    ReceiptsRetire
CHECK_DEADLOCK FALSE
