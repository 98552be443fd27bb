\* The loop and a server sweep the wallet of one store while the backend of
\* another, which comes first, never answers.
SPECIFICATION FairSpec
CONSTANTS
    Order <- MCOrder
    MinBalance <- MCMinBalance
    TargetBalance <- MCTargetBalance
    Interval <- MCInterval
    Unreachable = {"A"}
    Servers = {"server"}
    Loop = "loop"
    Deposits = {2, 3}
    MaxBalance = 6
    MaxPayouts = 1
    MaxErrors = 1
    MaxStops = 1
    MaxRecords = 2
INVARIANTS
    TypeOK
    SentIsRecorded
PROPERTIES
    KeepsTarget
    SurplusIsSwept
