\* The loops of two processes deliver an event and its replay, with lost answers,
\* stops and changes of the configuration.
\* It stops once every bounded event has been delivered.
CHECK_DEADLOCK FALSE
SPECIFICATION Spec
CONSTANTS
    a1 = a1
    a2 = a2
    b1 = b1
    b2 = b2
    A = A
    B = B
    Stores = {A, B}
    Events = {b1}
    StoreOf <- MCStoreOf
    Configurations <- AnySetup
    Loops = {l1, l2}
    BatchSize = 2
    MaxExponent = 1
    Reliable = {A}
    MaxReplays = 1
    MaxStops = 2
    MaxRestarts = 2
SYMMETRY Symmetry
INVARIANTS
    TypeOK
    AcceptedOncePerLoop
PROPERTIES
    KeepsThePromise
