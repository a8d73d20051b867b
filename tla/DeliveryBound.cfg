SPECIFICATION Spec
CONSTANTS
    m1 = m1
    m2 = m2
    a = a
    b = b
    Message = {m1, m2}
    Destination = {a, b}
    DestsOf <- FanOut
    OutboxMax = 2
    MaxAge = 1
    BackoffCap = 1
    AttemptCap = 1
    WaitFor = {m2}
    ByWebhook = {m1}
    Loop = Loop
    Main = Main
    NoId = NoId
    MaxStops = 0
    MaxCrashes = 0
    MaxFaults = 1
    LostAcks = FALSE
INVARIANTS
    WithinBound
    AnswersAreTrue
    SettledOnce
PROPERTIES
    EveryCallerAnswered
