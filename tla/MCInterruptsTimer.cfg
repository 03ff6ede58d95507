SPECIFICATION Spec

CONSTANTS
    Devices = {0}
    Withdrawing = {}
    FirmwareMasks <- SomeMasks
    Exceptions = {0}
    Frequency = 50
    MaxRaises = 1
    MaxNmi = 0

INVARIANTS
    TimerFrequency
