SPECIFICATION Spec
CONSTANTS
    NumSteps = 2
    NoRetry = {}
    RetryCaps = {0}
    Tasks = {t1}
    Procs = {p1}
    Users = {u1}
    NoTask = NoTask
    NoProc = NoProc
    SideEffects = {}
    Conditional = {1}
    Policies = {"allow"}
    Quota <- QuotaOne
    PoolSize = 1
    Attempts = 2
    UserActs = {"force_step"}
    Faults = {}
    MaxClaims = 2
    MaxCrashes = 0
PROPERTIES SkipIsAsked
