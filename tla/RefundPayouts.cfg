\* Requests arrive one at a time, two executors share the limit of a day that
\* does not end, and errors of the backend may hide a payment.
SPECIFICATION FairSpec
CONSTANTS
    bolt11 = bolt11
    address = address
    uri = uri
    lnurl = lnurl
    Destinations = {address}
    NoDest = NoDest
    TypeOf <- MCTypeOf
    NoAddress = {}
    Bolt11Sats <- SmallBolt11
    Refunds = {r1, r2}
    Invoices = {i1}
    Sums = {3, 6}
    Keys = {}
    NoKey = NoKey
    Asked = {3, 4}
    Clients = {c1}
    Operations = {"create", "approve"}
    Executors = {e1, e2}
    ApiConfig <- BothRoomy
    ExecConfig <- BothRoomy
    Unset = Unset
    MaxDay = 0
    MaxCrashes = 1
    MaxFaults = 1
    MaxUncertain = 1
INVARIANTS
    SentWithinPaid
    SentWithinMax
    DailyLimitHolds
PROPERTIES
    PayableIsTakenUp
    KeepsTheLedger
