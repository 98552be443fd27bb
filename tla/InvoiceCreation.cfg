\* Two requests at once, each with a rate to ask for, on SQLite.
SPECIFICATION PricedSpec
CONSTANTS
    Requests = {q1, q2}
    Links = {l1}
    NoLink = NoLink
    Keys = {k1}
    NoKey = NoKey
    Database = "sqlite"
    Nobody = Nobody
    MaxIndex = 3
    MaxInvoices = 3
    StaleAfter = 1
    Timeout = 1
    MaxAge = 3
SYMMETRY Symmetry
INVARIANTS
    TypeOK
    OneAddressPerInvoice
    SameKeySameInvoice
    CounterAhead
    RateIsRecent
