SPECIFICATION FairSliderSpec
CONSTANTS
    ModeOf <- SilentZenNormal
    MuteMedia = TRUE
    ShowDialog = TRUE
    Meddlers = {"music", "zen"}
    MaxMoves = 3
    MaxMeddling = 1
    Infos = {1, 2, 3}
    NoInfo = 0
    MaxChanges = 3
    MaxConfigs = 1
CHECK_DEADLOCK FALSE
INVARIANTS MusicComesBack OneDialog DismissalPending ShowsLastChange ChangeIsShown
PROPERTIES SliderDecides DialogGoesAway
