\* Two requests reserve an address at once, on Postgres.
SPECIFICATION PricedSpec
CONSTANTS
    Requests = {q1, q2}
    Links = {l1}
    NoLink = NoLink
    Keys = {k1}
    NoKey = NoKey
    Database = "postgres"
    Nobody = Nobody
    MaxIndex = 4
    MaxInvoices = 3
    StaleAfter = 1
    Timeout = 1
    MaxAge = 3
SYMMETRY Symmetry
INVARIANTS
    OneAddressPerInvoice
