SPECIFICATION FairLoopsSpec
CONSTANTS
    MaxStarts = 3
    Failing = {"getCameraIdList", "openCamera", "ImageReader_new", "createCaptureRequest", "createCaptureSession", "setRepeatingRequest"}
    MaxTries = 2
CHECK_DEADLOCK FALSE
INVARIANTS FrameIsCurrent PreviewAlive Released AppsAccounted CmdlineIsOwn LoopHasItsEngine
PROPERTY LoopEnds
