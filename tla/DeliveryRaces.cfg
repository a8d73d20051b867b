SPECIFICATION SafeSpec
CONSTANTS
    m1 = m1
    m2 = m2
    a = a
    b = b
    Message = {m1}
    Destination = {a, b}
    DestsOf <- OneFan
    OutboxMax = 2
    MaxAge = 1
    BackoffCap = 1
    AttemptCap = 1
    WaitFor = {m1}
    ByWebhook = {}
    Loop = Loop
    Main = Main
    NoId = NoId
    MaxStops = 1
    MaxCrashes = 1
    MaxFaults = 0
    LostAcks = TRUE
INVARIANTS
    NothingLost
PROPERTIES
    NoResurrection
    ImplementsPromise
