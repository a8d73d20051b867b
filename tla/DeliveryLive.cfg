SPECIFICATION Spec
CONSTANTS
    m1 = m1
    m2 = m2
    a = a
    b = b
    Message = {m1}
    Destination = {a, b}
    DestsOf <- OneEach
    OutboxMax = 1
    MaxAge = 2
    BackoffCap = 2
    AttemptCap = 2
    WaitFor = {m1}
    ByWebhook = {}
    Loop = Loop
    Main = Main
    NoId = NoId
    MaxStops = 1
    MaxCrashes = 1
    MaxFaults = 1
    LostAcks = FALSE
PROPERTIES
    EveryEntrySettles
    ShutdownEnds
