\* One poller over an invoice that both rails can pay, in parts and twice, and the
\* page of its customer.
SPECIFICATION CheckoutSpec
CONSTANTS
    Invoices = {i1}
    HasAddress = {i1}
    HasBolt11 = {i1}
    Due <- MCDue
    Backend = "phoenixd"
    Pollers = {p1}
    MaxSats = 2
    MaxReorgs = 1
    MaxAborts = 1
INVARIANTS
    TypeOK
    CheckoutTypeOK
    FinalIsCovered
    SettledInTime
    AnnouncedOnce
    ToldForGood
PROPERTIES
    FinalIsFinal
    PaymentIsRecognized
    UnpaidExpires
    SettledIsTold
