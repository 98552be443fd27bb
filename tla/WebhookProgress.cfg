\* Rows of a second store, whose receiver may refuse for ever and whose secret may
\* be taken out, stand before a reliable store's: up to a whole batch of them.
\* It stops once every bounded event has been delivered.
CHECK_DEADLOCK FALSE
SPECIFICATION FairSpec
CONSTANTS
    a1 = a1
    a2 = a2
    b1 = b1
    b2 = b2
    A = A
    B = B
    Stores = {A, B}
    Events = {a1, b1, b2}
    StoreOf <- MCStoreOf
    Configurations <- BStranded
    Loops = {l1}
    BatchSize = 2
    MaxExponent = 1
    Reliable = {A}
    MaxReplays = 0
    MaxStops = 1
    MaxRestarts = 2
PROPERTIES
    NoDeliveryForgotten
