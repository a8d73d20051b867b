SPECIFICATION Spec
CONSTANTS
    Letter = {"a", "g", "x", "y", "z"}
    Full = 3
    AccountMark = "a"
    GroupMark = "g"
    HostOf <- MCHostOf
    Lower <- MCLower
    Escaped <- MCEscaped
    MaxLines = 4
    MaxChars = 10
    MaxTimeout = 2
    Setting <- MCSetting
    Directory <- MCDirectory
    Message <- MCMessage
    Post <- MCPost
    Typed <- MCTyped
    Answer <- MCAnswer
    Elsewhere <- MCElsewhere
CHECK_DEADLOCK FALSE
INVARIANTS
    NobodyTwice
    ReachesWhoIsMeant
    OnlyCommandersAct
    HandlerSeesWhatWasTyped
    StaysAtHost
    CutIsSaid
