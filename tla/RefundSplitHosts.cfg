\* The public server has refund execution disabled, the wallet host enabled.
SPECIFICATION Spec
CONSTANTS
    bolt11 = bolt11
    address = address
    uri = uri
    lnurl = lnurl
    Destinations = {address}
    NoDest = NoDest
    TypeOf <- MCTypeOf
    NoAddress = {}
    Bolt11Sats <- SmallBolt11
    Refunds = {r1}
    Invoices = {i1}
    Sums = {2}
    Keys = {}
    NoKey = NoKey
    Asked = {0}
    Clients = {c1}
    Operations = {"create"}
    Executors = {e1}
    ApiConfig <- BothOff
    ExecConfig <- BothGuarded
    Unset = Unset
    MaxDay = 0
    MaxCrashes = 1
    MaxFaults = 1
    MaxUncertain = 1
SYMMETRY Symmetry
INVARIANTS
    NothingLargePaidUnapproved
