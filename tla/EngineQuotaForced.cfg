SPECIFICATION Spec
CONSTANTS
    NumSteps = 2
    NoRetry = {}
    RetryCaps = {0}
    Tasks = {t1, t2}
    Procs = {p1}
    Users = {u1}
    NoTask = NoTask
    NoProc = NoProc
    SideEffects = {}
    Conditional = {}
    Policies = {"allow"}
    Quota <- QuotaOne
    PoolSize = 2
    Attempts = 2
    UserActs = {"force_step"}
    Faults = {}
    MaxClaims = 3
    MaxCrashes = 0
INVARIANTS QuotaRespected
