\* Two processes start on every kind of schema, and with every mix of tokens.
\* It stops once they serve.
CHECK_DEADLOCK FALSE
SPECIFICATION FairSpec
CONSTANTS
    Processes = {"p1", "p2"}
    Databases = {"sqlite", "postgres"}
    Starts <- MCStarts
    MaxFaults = 1
    MaxCrashes = 1
    Names = {"n1", "n2", "n3"}
    Unset = "unset"
    Tokens = {"t1", "t2", "t3"}
    Missing = "missing"
    Origins = {"o1", "o2"}
    NoOrigin = "none"
INVARIANTS
    TypeOK
    SchemaMatchesLedger
    ServesMigrated
    SessionMatchesEndpoints
    TokensKeepTheirRole
PROPERTIES
    AllMigrate
