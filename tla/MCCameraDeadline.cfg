SPECIFICATION FairSpec
CONSTANTS
    MaxStarts = 1
    Failing = {"openCamera"}
CHECK_DEADLOCK FALSE
PROPERTY DeadlineIsKept
