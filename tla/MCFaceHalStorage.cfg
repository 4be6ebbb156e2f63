SPECIFICATION Spec
CONSTANTS
    Sessions = {s1, s2}
    NoSession = NoSession
    Users = {u1, u2}
    NoUser = NoUser
    Challenges = {c1}
    NoChallenge = NoChallenge
    Backends = {"tee", "auth"}
    Faults = {"begin", "erase", "store", "write", "unlink", "engine", "crash"}
    Calls = {"challenge", "enroll", "authenticate", "removeEnrollments"}
    QueueMax = 1
    TimedFailures = 1
    PermanentFailures = 1
    MaxIds = 2
    MaxPending = 3
SYMMETRY Symmetry
INVARIANTS TypeOK CameraHeld TemplateOwned SuccessNamesItsFace
PROPERTY ImplementsEnrollment
