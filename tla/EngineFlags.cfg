SPECIFICATION Spec
CONSTANTS
    NumSteps = 2
    NoRetry = {}
    RetryCaps = {1}
    Tasks = {t1}
    Procs = {p1, p2}
    Users = {u1}
    NoTask = NoTask
    NoProc = NoProc
    SideEffects = {}
    Conditional = {}
    Policies = {"allow"}
    Quota <- QuotaOne
    PoolSize = 1
    Attempts = 3
    UserActs = {"pause", "terminate", "resume"}
    Faults = {}
    MaxClaims = 2
    MaxCrashes = 1
INVARIANTS TypeOK FlagsMatchStatus RecoveryComplete OfferedIsAccepted
PROPERTIES TerminateWins TerminalIsFinal PauseIsHonoured
SYMMETRY Symmetry
