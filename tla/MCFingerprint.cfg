CONSTANTS
    Clients = {c1, c2}
    Messages <- MCMessages
    NoClient = none
    MaxDeaths = 1
    MaxCalls = 5
SPECIFICATION Spec
SYMMETRY Symmetry
INVARIANTS
    OneInstance
    DeviceIdValid
    ClientStays
    PressFollowsFinger
    LongPressOffWhileEnrolling
    DimmedAfterCancel
CHECK_DEADLOCK FALSE
