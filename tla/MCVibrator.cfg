SPECIFICATION Spec
CONSTANTS
    Devices = {"ff", "led", "none"}
    Timeouts = {0, 1, 3, 4, 5}
    ReplayLimit = 2
    ProductLimit = 5
    EffectTime = 1
    Slots = {0, 1}
    Faults = {"EVIOCRMFF", "EVIOCSFF", "play", "gain", "led"}
    MaxCalls = 3
CHECK_DEADLOCK FALSE
INVARIANTS SlotsAccounted OffSilences CompletionNotEarly
