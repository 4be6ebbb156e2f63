SPECIFICATION FairSpec
CONSTANTS
    Sessions = {s1, s2}
    NoSession = NoSession
    Users = {u1}
    NoUser = NoUser
    Challenges = {c1}
    NoChallenge = NoChallenge
    Backends = {"tee"}
    Faults = {"crash"}
    Calls = {"challenge", "enroll", "authenticate", "release", "revoke", "cancel", "query"}
    QueueMax = 1
    TimedFailures = 1
    PermanentFailures = 1
    MaxIds = 1
    MaxPending = 2
PROPERTIES LockReleased Quiescence
