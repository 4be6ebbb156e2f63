SPECIFICATION Spec
CONSTANTS
    Sessions = {s1}
    NoSession = NoSession
    Users = {u1}
    NoUser = NoUser
    Challenges = {c1}
    NoChallenge = NoChallenge
    Backends = {"tee"}
    Faults = {"crash"}
    Calls = {"challenge", "enroll", "removeEnrollments"}
    QueueMax = 1
    TimedFailures = 1
    PermanentFailures = 1
    MaxIds = 1
    MaxPending = 1
PROPERTY EmptySlotIsBenign
