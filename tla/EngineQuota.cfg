SPECIFICATION Spec
CONSTANTS
    NumSteps = 2
    NoRetry = {}
    RetryCaps = {0}
    Tasks = {t1, t2}
    Procs = {p1}
    Users = {u1}
    NoTask = NoTask
    NoProc = NoProc
    SideEffects = {}
    Conditional = {1}
    Policies = {"allow"}
    Quota <- QuotaOne
    PoolSize = 2
    Attempts = 1
    UserActs = {"pause"}
    Faults = {}
    MaxClaims = 2
    MaxCrashes = 0
INVARIANTS QuotaRespected
