SPECIFICATION FairSpec
CONSTANTS
    Sensors = {pickup, pocket}
    Instances = {i1, i2}
    None = None
    MaxChanges = 3
    MaxQueue = 2
INVARIANTS
    NothingOutlivesService
    ListensWithDisplayOff
    Checked
PROPERTY ServiceFollowsSettings
