SPECIFICATION Spec
CONSTANTS
    Sessions = {s1, s2}
    NoSession = NoSession
    Users = {u1}
    NoUser = NoUser
    Challenges = {c1}
    NoChallenge = NoChallenge
    Backends = {"data"}
    Faults = {"prepare", "erase", "store", "write", "unlink", "crash"}
    Calls = {"challenge", "enroll", "authenticate", "removeEnrollments", "setFeature", "invalidateAuthenticatorId", "resetLockout"}
    QueueMax = 1
    TimedFailures = 2
    PermanentFailures = 3
    MaxIds = 2
    MaxPending = 2
SYMMETRY Symmetry
INVARIANTS MatchIsCurrent RemovedStaysRemoved AttemptsBounded
