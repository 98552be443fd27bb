\* Two executors and two requests of any kind race over one refund.
SPECIFICATION Spec
CONSTANTS
    bolt11 = bolt11
    address = address
    uri = uri
    lnurl = lnurl
    Destinations = {bolt11, lnurl}
    NoDest = NoDest
    TypeOf <- MCTypeOf
    NoAddress = {}
    Bolt11Sats <- SmallBolt11
    Refunds = {r1}
    Invoices = {i1}
    Sums = {2}
    Keys = {}
    NoKey = NoKey
    Asked = {0}
    Clients = {c1, c2}
    Operations = {"create", "approve", "finalize", "fail", "cancel"}
    Executors = {e1, e2}
    ApiConfig <- BothGuarded
    ExecConfig <- BothGuarded
    Unset = Unset
    MaxDay = 1
    MaxCrashes = 1
    MaxFaults = 1
    MaxUncertain = 1
SYMMETRY Symmetry
INVARIANTS
    TypeOK
    AtMostOnePayer
    PaidOnceUnlessUncertain
    NothingLargePaidUnapproved
PROPERTIES
    EveryChangeAnnounced
