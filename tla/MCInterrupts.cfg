SPECIFICATION Spec

CONSTANTS
    Devices = {0, 3, 10}
    Withdrawing = {3, 10}
    FirmwareMasks <- SomeMasks
    Exceptions = {0, 14}
    Frequency = 50
    MaxRaises = 2
    MaxNmi = 1

INVARIANTS
    TypeOK
    NeverReset
    InServiceIsOwed
    OneIrqAtATime
    ControllersAreSetUp

PROPERTIES
    RequestsAreServed
