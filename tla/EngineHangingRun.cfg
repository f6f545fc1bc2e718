SPECIFICATION Spec
CONSTANTS
    NumSteps = 1
    NoRetry = {}
    RetryCaps = {1}
    Tasks = {t1}
    Procs = {p1}
    Users = {u1}
    NoTask = NoTask
    NoProc = NoProc
    SideEffects = {}
    Conditional = {}
    Policies = {"allow"}
    Quota <- QuotaOne
    PoolSize = 1
    Attempts = 2
    UserActs = {}
    Faults = {}
    MaxClaims = 2
    MaxCrashes = 2
INVARIANTS NoHangingRun
