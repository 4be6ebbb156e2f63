SPECIFICATION Spec
CONSTANTS
    Blocks = {b1, b2, b3}
    NULL = NULL
    SndDevices = {speaker, handset}
    Speakers = {speaker}
    MaxOpens = 3
CHECK_DEADLOCK FALSE
INVARIANTS NothingLeaks OneStreamOneUsecase NothingFreedIsUsed
