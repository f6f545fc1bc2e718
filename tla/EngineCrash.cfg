SPECIFICATION Spec
CONSTANTS
    NumSteps = 2
    NoRetry = {2}
    RetryCaps = {1}
    Tasks = {t1}
    Procs = {p1, p2}
    Users = {u1}
    NoTask = NoTask
    NoProc = NoProc
    SideEffects = {}
    Conditional = {2}
    Policies = {"allow"}
    Quota <- QuotaOne
    PoolSize = 1
    Attempts = 2
    UserActs = {"retry"}
    Faults = {"round", "recovery", "job"}
    MaxClaims = 3
    MaxCrashes = 1
INVARIANTS SingleExecution
PROPERTIES NoRetryNeedsPerson KeepsPromise
