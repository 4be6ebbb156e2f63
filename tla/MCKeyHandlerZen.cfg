SPECIFICATION FairSpec
CONSTANTS
    ModeOf <- SilentZenNormal
    MuteMedia = FALSE
    ShowDialog = TRUE
    Meddlers = {"zen"}
    MaxMoves = 1
    MaxMeddling = 1
CHECK_DEADLOCK FALSE
PROPERTY WaitsUntilCommitted
