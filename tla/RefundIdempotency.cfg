\* Three creations race with one key over two invoices, and a refund may be
\* canceled in between; nobody executes.
SPECIFICATION Spec
CONSTANTS
    bolt11 = bolt11
    address = address
    uri = uri
    lnurl = lnurl
    Destinations = {address}
    NoDest = NoDest
    TypeOf <- MCTypeOf
    NoAddress = {}
    Bolt11Sats <- SmallBolt11
    Refunds = {r1, r2}
    Invoices = {i1, i2}
    Sums = {2}
    Keys = {k1}
    NoKey = NoKey
    Asked = {0}
    Clients = {c1, c2, c3}
    Operations = {"create", "cancel"}
    Executors = {}
    ApiConfig <- BothGuarded
    ExecConfig <- BothGuarded
    Unset = Unset
    MaxDay = 0
    MaxCrashes = 0
    MaxFaults = 0
    MaxUncertain = 0
SYMMETRY Symmetry
INVARIANTS
    OneRefundPerKey
