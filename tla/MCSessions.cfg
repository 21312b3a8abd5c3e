CONSTANTS
    c1 = c1
    c2 = c2
    ada = ada
    ben = ben
    Unknown = Unknown
    Sessioners <- OneClient
    Managers <- TwoClients
    Users <- OneUser
    SessionTtl = 1
    ResetTtl = 1
    MaxTime = 1
    MaxSecrets = 1
    MaxResets = 1
    MaxSessions = 2
SPECIFICATION CrashSpec
SYMMETRY Symmetry
CHECK_DEADLOCK FALSE
INVARIANTS
    CodesSpentInOrder
    SerialNoSessionSurvivesReset
    LogTellsSessions
    MembersOnlySessions
PROPERTIES
    ResetTokenSpentOnce
    SecretNeverReplaced
