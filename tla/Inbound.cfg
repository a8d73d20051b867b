SPECIFICATION Spec
CONSTANTS
    direct = direct
    grouped = grouped
    alice = alice
    Envelope = {direct, grouped}
    Account = {alice}
    Sender <- From
    FromGroup = {grouped}
    Text = {direct, grouped}
    Slashed = {grouped}
    Word <- Commands
    Commander = {alice}
    AllowGroup = FALSE
    Blocked = {}
    Interval = 3
    Spacing = 2
    NoEnvelope = NoEnvelope
    MaxEvents = 1
    MaxStops = 1
    MaxCrashes = 1
    MaxFaults = 1
INVARIANTS
    RunsOnce
    EverythingFollowed
    FetchedInTime
